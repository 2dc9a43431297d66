------------------------------- MODULE TxPool -------------------------------
(***************************************************************************)
(* The transaction pool, core/tx_pool.go with core/account_flow.go, on top *)
(* of the ledger.  Callers (TxBuffer, SyncBuffer, the transaction creator) *)
(* check a transaction against pool and ledger and then hand it to addTx,  *)
(* which blocks until the pool's one loop has dealt with it: between the   *)
(* check and the loop's step anything may happen.  The loop holds pool.mu  *)
(* while it works on one transaction.  Confirming a sequencer takes        *)
(* several steps here, the push and then one per transaction that is judged*)
(* again; nothing else moves in between, except that the node may crash.   *)
(***************************************************************************)
EXTENDS Dag

CONSTANTS
    NoTx,                  \* no sequencer is being confirmed
    NoBalance,             \* AccountFlow has no BalanceState for the token
    PoolRejudgeThreshold,
    Callers                \* goroutines that call addTx

VARIABLES
    status,     \* txLookup: hash -> status of its envelope, or NotExist
    judgeNum,   \* txLookup: hash -> judgeNum of its envelope
    order,      \* txLookup.order
    tips, badtxs, pendings,
    flow,       \* AccountFlows: the transactions in the accounts' TxLists
    origin,     \* AccountFlows: account -> token -> originBalance
    spent,      \* AccountFlows: account -> token -> spent
    calls,      \* caller -> what it has verified and handed to addTx, or NoTx
    confirming, \* the sequencer solveConflicts runs for
    todo        \* solveConflicts: what is left of the order it works through

poolVars == <<status, judgeNum, order, tips, badtxs, pendings, flow, origin, spent>>
vars == <<ledgerVars, poolVars, calls, confirming, todo>>

Statuses == {"NotExist", "Queue", "Tip", "BadTx", "Pending"}

ASSUME PoolAssumption ==
    /\ NoTx \notin Txs
    /\ NoBalance \notin Int
    /\ PoolRejudgeThreshold \in Nat \ {0}

TypeOK ==
    /\ DagTypeOK
    /\ status \in [Txs -> Statuses]
    /\ judgeNum \in [Txs -> 0 .. PoolRejudgeThreshold]
    /\ order \in Seq(Txs)
    /\ tips \subseteq Txs
    /\ badtxs \subseteq Txs
    /\ pendings \subseteq Txs
    /\ flow \subseteq Txs
    /\ origin \in [Accounts -> [TokenIds -> Int \cup {NoBalance}]]
    /\ spent \in [Accounts -> [TokenIds -> Int]]
    /\ calls \in [Callers -> Txs \cup {NoTx}]
    /\ confirming \in Sequencers \cup {NoTx}
    /\ todo \in Seq(Txs)

NoFlow == [k \in TokenIds |-> NoBalance]

\* Mutant: clearAll forgets the tips.
PoolClearedButTips ==
    /\ status' = [t \in Txs |-> IF t \in tips THEN "Tip" ELSE "NotExist"]
    /\ order' = SetToSeq(tips)
    /\ badtxs' = {}
    /\ pendings' = {}
    /\ flow' = {}
    /\ origin' = [a \in Accounts |-> NoFlow]
    /\ spent' = [a \in Accounts |-> NoTokens]
    /\ UNCHANGED tips

\* clearAll; the envelopes solveConflicts still holds keep their judgeNum
PoolCleared ==
    /\ status' = [t \in Txs |-> "NotExist"]
    /\ order' = << >>
    /\ tips' = {}
    /\ badtxs' = {}
    /\ pendings' = {}
    /\ flow' = {}
    /\ origin' = [a \in Accounts |-> NoFlow]
    /\ spent' = [a \in Accounts |-> NoTokens]

Init ==
    /\ DagInit
    /\ status = [t \in Txs |-> IF t = Genesis THEN "Tip" ELSE "NotExist"]
    /\ judgeNum = [t \in Txs |-> IF t = Genesis THEN 1 ELSE 0]
    /\ order = <<Genesis>>
    /\ tips = {Genesis}
    /\ badtxs = {}
    /\ pendings = {}
    /\ flow = {}
    /\ origin = [a \in Accounts |-> NoFlow]
    /\ spent = [a \in Accounts |-> NoTokens]
    /\ calls = [c \in Callers |-> NoTx]
    /\ confirming = NoTx
    /\ todo = << >>

-----------------------------------------------------------------------------
(* Lookups *)

Has(t) == status[t] # "NotExist"
Pool   == {t \in Txs : Has(t)}
IsLocalHash(t) == Has(t) \/ t \in dag

FlowOf(a) == {t \in flow : tx[t].sender = a}
FlowByNonce(a, n) == {t \in FlowOf(a) : tx[t].nonce = n}
\* TxPool.GetLatestNonce fails when the account has no flow
LatestNonceInFlow(a) ==
    LET N == {tx[t].nonce : t \in FlowOf(a)}
    IN  CHOOSE n \in N : \A m \in N : m <= n

\* The nonce isBadTx expects next.
NextNonce(a) ==
    IF FlowOf(a) # {} THEN LatestNonceInFlow(a) + 1 ELSE nonces[a] + 1

\* BalanceState of the flow, or a fresh one from the ledger
OriginBalance(a, k) == IF origin[a][k] = NoBalance THEN balances[a][k] ELSE origin[a][k]

-----------------------------------------------------------------------------
(* GraphVerifier, og/verifier.go: the check a caller makes before addTx *)

\* getMyPreviousTx walks the ancestors of t, going on only from transactions
\* that are in the pool and are no sequencers; it finds the previous one of the
\* sender when every set such a walk can stay in has it.
PreviousTxFound(t) ==
    LET Local == Pool \cup dag
        Walks == {E \in SUBSET Local :
                    /\ ParentSet(t) \cap Local \subseteq E
                    /\ \A u \in E : (Has(u) /\ ~IsSequencer(u))
                                       => ParentSet(u) \cap Local \subseteq E}
        previous == {u \in Local : /\ ~IsArchive(u)
                                   /\ tx[u].sender = tx[t].sender
                                   /\ tx[u].nonce + 1 = tx[t].nonce}
    IN  \A E \in Walks : E \cap previous # {}

\* A3: transactions of one sender are sequential.  The previous sequencer that
\* a sequencer needs is the one Dag.GetSequencerByHeight finds.
VerifyA3(t) ==
    LET a == tx[t].sender
        n == tx[t].nonce
    IN  \/ IsArchive(t)
        \/ n = 1 /\ FlowOf(a) = {}
        \/ /\ n > 1
           /\ IF FlowOf(a) = {}
              THEN nonces[a] = n - 1
              ELSE /\ LatestNonceInFlow(a) >= n - 1
                   /\ nonces[a] # LatestNonceInFlow(a) => PreviousTxFound(t)
           /\ IsSequencer(t) => tx[t].height - 1 <= LatestHeight

IsBadSeq(s) ==
    \/ HasTxByNonce(tx[s].sender, tx[s].nonce)
    \/ LatestHeight + 1 # tx[s].height

GraphVerified(t) ==
    /\ \A p \in ParentSet(t) : IsLocalHash(p)     \* verifyWeight finds them
    /\ VerifyA3(t)
    /\ IsSequencer(t) => ~IsBadSeq(t)

-----------------------------------------------------------------------------
(* Judging and committing one transaction *)

\* Mutant: isBadTx does not ask for the status of the parents.
BlockingParentsUnknown(t) ==
    {i \in DOMAIN tx[t].parents : ~IsLocalHash(tx[t].parents[i])}

\* Parents that make isBadTx return at once: bad ones and unknown ones.
BlockingParents(t) ==
    {i \in DOMAIN tx[t].parents :
        LET p == tx[t].parents[i]
        IN  status[p] = "BadTx" \/ ~IsLocalHash(p)}

FirstBlockingParent(t) ==
    tx[t].parents[CHOOSE i \in BlockingParents(t) : \A j \in BlockingParents(t) : i <= j]

\* Mutant: a destroyed token is not told from a live one.
TokenActionRefusedButDestroyed(t) ==
    LET k == tx[t].token IN
    \/ ~HasToken(k)
    \/ tx[t].type = "SPO" /\ ~tokens[k].reIssuable
    \/ tokens[k].issuer # tx[t].sender

TokenActionRefused(t) ==
    LET k == tx[t].token IN
    \/ ~HasToken(k)                       \* token 0 is no token object either
    \/ tx[t].type = "SPO" /\ ~tokens[k].reIssuable
    \/ tokens[k].destroyed
    \/ tokens[k].issuer # tx[t].sender

\* Mutant: only gaps ahead of the next nonce are refused.
NonceRefusedAhead(a, n) == n > NextNonce(a)

NonceRefused(a, n) == HasTxByNonce(a, n) \/ n # NextNonce(a)

\* isBadTx
Quality(t) ==
    LET a == tx[t].sender
        n == tx[t].nonce
        k == tx[t].token
    IN  CASE BlockingParents(t) # {} ->
               IF status[FirstBlockingParent(t)] = "BadTx" THEN "Bad" ELSE "Fatal"
          [] BlockingParents(t) = {} /\ IsArchive(t) -> "Good"
          [] OTHER ->
               IF FlowByNonce(a, n) # {}
               THEN IF t \in flow THEN "Fatal" ELSE "Bad"
               ELSE IF NonceRefused(a, n) THEN "Fatal"
               ELSE CASE tx[t].type = "Normal" ->
                           IF tx[t].value > OriginBalance(a, k) THEN "Fatal"
                           ELSE IF spent[a][k] + tx[t].value > OriginBalance(a, k)
                           THEN "Bad" ELSE "Good"
                      [] tx[t].type \in {"SPO", "Destroy"} ->
                           IF TokenActionRefused(t) THEN "Fatal" ELSE "Good"
                      [] OTHER -> "Good"

\* Mutant: the flow takes the transaction but not what it spends.
FlowAddedUnspent(t) ==
    /\ flow' = IF IsArchive(t) THEN flow ELSE flow \cup {t}
    /\ UNCHANGED <<origin, spent>>

\* AccountFlows.Add of a transaction that isBadTx found good
FlowAdded(t) ==
    LET a == tx[t].sender
        k == tx[t].token
    IN  /\ flow' = IF IsArchive(t) THEN flow ELSE flow \cup {t}
        /\ IF tx[t].type = "Normal"
           THEN /\ origin' = [origin EXCEPT ![a][k] = OriginBalance(a, k)]
                /\ spent' = [spent EXCEPT ![a][k] = @ + tx[t].value]
           ELSE UNCHANGED <<origin, spent>>

CommitFatal(t) ==
    /\ Quality(t) = "Fatal"
    /\ judgeNum' = [judgeNum EXCEPT ![t] = 0]
    /\ UNCHANGED <<status, order, tips, badtxs, pendings, flow, origin, spent>>

CommitBad(t, num) ==
    /\ Quality(t) = "Bad"
    /\ badtxs' = badtxs \cup {t}
    /\ status' = [status EXCEPT ![t] = "BadTx"]
    /\ judgeNum' = [judgeNum EXCEPT ![t] = num]
    /\ order' = Append(order, t)
    /\ UNCHANGED <<tips, pendings, flow, origin, spent>>

\* Mutant: txLookUp.remove leaves the order alone.
OrderKept(S) == order

\* txLookUp.remove from the front, of the one sequencer the pool can hold
OrderWithout(S) ==
    IF Range(order) \cap S = {} THEN order
    ELSE RemoveAt(order, CHOOSE i \in DOMAIN order : order[i] \in S)

\* Tips among the parents: a sequencer leaves the pool, others become pending.
CommitGood(t, num) ==
    LET proved   == {p \in ParentSet(t) : status[p] = "Tip" /\ p \in tips}
        leaving  == {p \in proved : IsSequencer(p)}
        shadowed == proved \ leaving
    IN  /\ Quality(t) = "Good"
        /\ tips' = (tips \ proved) \cup {t}
        /\ pendings' = pendings \cup shadowed
        /\ status' = [u \in Txs |-> CASE u = t           -> "Tip"
                                      [] u \in leaving  -> "NotExist"
                                      [] u \in shadowed -> "Pending"
                                      [] OTHER          -> status[u]]
        /\ judgeNum' = [u \in Txs |-> CASE u = t          -> num
                                        [] u \in leaving -> 0
                                        [] OTHER         -> judgeNum[u]]
        /\ order' = Append(OrderWithout(leaving), t)
        /\ FlowAdded(t)
        /\ UNCHANGED badtxs

\* commit, after the envelope of t has been added with judgeNum num
Commit(t, num) ==
    \/ CommitFatal(t)
    \/ CommitBad(t, num)
    \/ CommitGood(t, num)

-----------------------------------------------------------------------------
(* Confirming a sequencer *)

\* Mutants: the whole pool is confirmed; seekElders does not go beyond the parents.
EldersAll(parents)  == Pool
EldersNear(parents) == parents \cap Pool

\* seekElders: the ancestors reached from a set of parents through the pool.
Elders(parents) ==
    LET Walks == {E \in SUBSET Pool :
                    /\ parents \cap Pool \subseteq E
                    /\ \A u \in E : ParentSet(u) \cap Pool \subseteq E}
    IN  {t \in Pool : \A E \in Walks : t \in E}

\* It fails when one is neither in the pool nor in the ledger.
EldersFound(parents, elders) ==
    \A p \in parents \cup UNION {ParentSet(u) : u \in elders} : IsLocalHash(p)

SentBy(a, elders) ==
    {t \in elders : tx[t].type \notin {"Sequencer", "Archive"} /\ tx[t].sender = a}

SumValues(S) == FoldSet(LAMBDA t, sum : tx[t].value + sum, 0, S)

\* Mutant: an account may not spend its whole balance.
BalanceEnoughStrict(a, txs) ==
    \A k \in TokenIds :
        LET out == {t \in txs : tx[t].type = "Normal" /\ tx[t].token = k}
        IN  out # {} => SumValues(out) < balances[a][k]

\* Income inside the batch does not count.
BalanceEnough(a, txs) ==
    \A k \in TokenIds :
        LET out == {t \in txs : tx[t].type = "Normal" /\ tx[t].token = k}
        IN  out # {} => SumValues(out) <= balances[a][k]

\* The nonces go on from the ledger's without a gap.
NonceOrder(a, txs) ==
    LET N == {tx[t].nonce : t \in txs}
    IN  N = nonces[a] + 1 .. nonces[a] + Cardinality(N)

BatchVerified(elders) ==
    \A a \in Accounts :
        LET txs == SentBy(a, elders)
        IN  txs # {} => BalanceEnough(a, txs) /\ NonceOrder(a, txs)

\* The sequencer's own nonce is not taken by an elder, and goes on from those
\* of its sender.
SeqNonceFits(s, elders) ==
    LET txs == SentBy(tx[s].sender, elders)
    IN  /\ \A t \in elders : ~SameSlot(t, s)
        /\ txs # {} => \E t \in txs : /\ tx[s].nonce = tx[t].nonce + 1
                                      /\ \A u \in txs : tx[u].nonce <= tx[t].nonce

\* confirmHelper: isBadSeq, seekElders, verifyConfirmBatch
BatchAccepted(s, elders) ==
    /\ ~IsBadSeq(s)
    /\ EldersFound(ParentSet(s), elders)
    /\ BatchVerified(elders)
    /\ SeqNonceFits(s, elders)

\* confirm: push the batch, then solveConflicts up to clearAll.  On an error
\* the envelope is removed again and nothing else has changed.  (The singleton
\* sets only name the results of seekElders and verifyConfirmBatch.)
Confirm(s) ==
    \E elders \in {Elders(ParentSet(s))} :
    \E batch \in {{t \in elders : ~IsSequencer(t)}} :
        IF BatchAccepted(s, elders) /\ PushSucceeds(s, batch)
        THEN /\ Push(s, batch)
             /\ PoolCleared
             /\ confirming' = s
             /\ todo' = order
             /\ judgeNum' = [t \in Txs |-> IF t \in batch \/ IsSequencer(t) THEN 0
                                           ELSE judgeNum[t]]
        ELSE UNCHANGED <<ledgerVars, poolVars, confirming, todo>>

\* Mutant: judged once more than PoolRejudgeThreshold says.
JudgedTooOftenLate(t) == judgeNum[t] > PoolRejudgeThreshold

JudgedTooOften(t) == judgeNum[t] >= PoolRejudgeThreshold

\* solveConflicts for the next transaction of the old order: those of the batch
\* and sequencers are skipped, those judged too often are thrown away, the
\* others are committed again.
Rejudge ==
    /\ todo # << >>
    /\ LET t == Head(todo)
       IN  IF t \in Last(indexed) \/ IsSequencer(t)
           THEN UNCHANGED poolVars
           ELSE IF JudgedTooOften(t)
           THEN /\ judgeNum' = [judgeNum EXCEPT ![t] = 0]
                /\ UNCHANGED <<status, order, tips, badtxs, pendings, flow, origin, spent>>
           ELSE Commit(t, judgeNum[t] + 1)
    /\ todo' = Tail(todo)
    /\ UNCHANGED <<ledgerVars, calls, confirming>>

\* Mutant: the sequencer gets an envelope but does not become a tip.
FinishConfirmWithoutTip ==
    /\ confirming # NoTx
    /\ todo = << >>
    /\ judgeNum' = [judgeNum EXCEPT ![confirming] = 1]
    /\ confirming' = NoTx
    /\ UNCHANGED <<ledgerVars, status, order, tips, badtxs, pendings, flow, origin,
                   spent, calls, todo>>

\* The end of confirm: the sequencer itself becomes a tip, flow and all.
FinishConfirm ==
    /\ confirming # NoTx
    /\ todo = << >>
    /\ status' = [status EXCEPT ![confirming] = "Tip"]
    /\ judgeNum' = [judgeNum EXCEPT ![confirming] = 1]
    /\ order' = Append(order, confirming)
    /\ tips' = tips \cup {confirming}
    /\ flow' = IF FlowByNonce(tx[confirming].sender, tx[confirming].nonce) = {}
               THEN flow \cup {confirming} ELSE flow
    /\ confirming' = NoTx
    /\ UNCHANGED <<ledgerVars, badtxs, pendings, origin, spent, calls, todo>>

-----------------------------------------------------------------------------
(* The callers and the loop *)

\* A caller finds t unknown, verifies it and calls addTx, where it waits.
AddTx(c, t) ==
    /\ confirming = NoTx
    /\ calls[c] = NoTx
    /\ ~IsLocalHash(t)
    /\ GraphVerified(t)
    /\ calls' = [calls EXCEPT ![c] = t]
    /\ UNCHANGED <<ledgerVars, poolVars, confirming, todo>>

\* loop takes the event of c from the queue and answers it.
LoopStep(c) ==
    LET t == calls[c] IN
    /\ confirming = NoTx
    /\ t # NoTx
    /\ calls' = [calls EXCEPT ![c] = NoTx]
    /\ \/ Has(t) /\ UNCHANGED <<ledgerVars, poolVars, confirming, todo>>
       \/ /\ ~Has(t)
          /\ IsSequencer(t)
          /\ Confirm(t)
       \/ /\ ~Has(t)
          /\ ~IsSequencer(t)
          /\ Commit(t, 1)
          /\ UNCHANGED <<ledgerVars, confirming, todo>>

\* The node stops at any moment and starts again: NewDag, TxPool.Init.
Restart ==
    /\ DagRestart
    /\ status' = [t \in Txs |-> IF t = latest THEN "Tip" ELSE "NotExist"]
    /\ judgeNum' = [t \in Txs |-> IF t = latest THEN 1 ELSE 0]
    /\ order' = <<latest>>
    /\ tips' = {latest}
    /\ badtxs' = {}
    /\ pendings' = {}
    /\ flow' = {}
    /\ origin' = [a \in Accounts |-> NoFlow]
    /\ spent' = [a \in Accounts |-> NoTokens]
    /\ calls' = [c \in Callers |-> NoTx]
    /\ confirming' = NoTx
    /\ todo' = << >>

Running ==
    \/ \E c \in Callers : LoopStep(c) \/ \E t \in Txs : AddTx(c, t)
    \/ Rejudge
    \/ FinishConfirm

Next == Running \/ Restart

Spec == Init /\ [][Next]_vars

\* A node that never stops
RunningSpec == Init /\ [][Running]_vars

-----------------------------------------------------------------------------
(* Properties *)

\* tips, badtxs and pendings hold exactly the transactions whose envelope says
\* so, and nothing is left in the Queue status once the loop is idle: the four
\* structures that commit, remove and clearAll update one by one agree.
PoolPartition ==
    /\ tips = {t \in Txs : status[t] = "Tip"}
    /\ badtxs = {t \in Txs : status[t] = "BadTx"}
    /\ pendings = {t \in Txs : status[t] = "Pending"}
    /\ \A t \in Txs : status[t] # "Queue"
    /\ Range(order) = Pool
    /\ IsInjective(order)

\* The pool holds no sequencer but the latest confirmed one: commit may take any
\* sequencer among its parents out of the pool without looking at the ledger.
OnlyLatestSequencer == Pool \cap Sequencers \subseteq {latest}

\* A sequencer never confirms a transaction without its parents: the ledger
\* holds every ancestor of what it holds.
LedgerAncestorClosed == AncestorClosed(dag)

\* No two confirmed transactions of one sender have the same nonce, whatever
\* was received twice, late, or confirmed by another node's sequencer.
LedgerNoncesUnique == \A t, u \in dag : SameSlot(t, u) => t = u

\* A transaction the pool offers as a tip or keeps pending stands on parents
\* that are confirmed or in the pool and not bad, also after a sequencer threw
\* part of the pool away.
GoodParents ==
    \A t \in Txs : status[t] \in {"Tip", "Pending"} =>
        \A p \in ParentSet(t) : p \in dag \/ status[p] \in {"Tip", "Pending"}

\* GetRandomTips always has something to offer ("Impossible. At least genesis
\* is there", og/tx_creator.go) when the pool's lock is free.
TipsNeverEmpty == confirming = NoTx => tips # {}

\* A confirmed transaction never comes back as a tip or pending one, although a
\* late caller may still hand it to the loop, which looks for duplicates in the
\* pool only.  (Archives have no nonce to be recognised by and do come back.)
ConfirmedLeavePool ==
    \A t \in Pool \cap dag : IsSequencer(t) \/ IsArchive(t)

Good == {t \in Txs : status[t] \in {"Tip", "Pending"}}

\* The good transactions of an account carry the nonces that follow the ledger's,
\* each once: what AccountFlows lets in stays in step with the ledger when
\* sequencers confirm some of them or competing ones.
GoodNoncesFollowLedger ==
    \A a \in Accounts :
        LET mine == SentBy(a, Good)
        IN  /\ NonceOrder(a, mine)
            /\ \A t, u \in mine : SameSlot(t, u) => t = u

\* The cached BalanceState of an account is the ledger's balance and the sum of
\* what its good transactions spend, which the balance covers.
GoodWithinBalance ==
    \A a \in Accounts, k \in TokenIds :
        LET out == {t \in SentBy(a, Good) : tx[t].type = "Normal" /\ tx[t].token = k}
        IN  /\ origin[a][k] \in {balances[a][k], NoBalance}
            /\ spent[a][k] = SumValues(out)
            /\ spent[a][k] <= balances[a][k]

\* Whatever two tips GetRandomTips draws, a sequencer on them passes
\* confirmHelper: the pool never talks its own proposer into a dead end.
TipsConfirmable ==
    confirming = NoTx =>
        \A t, u \in tips :
            LET elders == Elders({t, u})
            IN  EldersFound({t, u}, elders) /\ BatchVerified(elders)

\* "If passes all verifications, it returns a batch for pushing to dag": what
\* verifyConfirmBatch accepts, Dag.Push executes.
VerifiedBatchExecutes ==
    confirming = NoTx =>
        \A t, u \in tips :
            LET elders == Elders({t, u})
            IN  EldersFound({t, u}, elders) /\ BatchVerified(elders)
                    => Executed({e \in elders : ~IsSequencer(e)}).ok

\* No account is ever overdrawn in any token by executing a batch.
BalancesNonNegative == \A a \in Accounts, k \in TokenIds : balances[a][k] >= 0

Supply(k) == FoldSet(LAMBDA a, sum : balances[a][k] + sum, 0, Accounts)

\* Confirming moves OG between accounts and neither makes nor destroys any; a
\* restart of the node does not either.
SupplyConserved ==
    Supply(0) = FoldSet(LAMBDA a, sum : GenesisBalance[a] + sum, 0, Accounts)

Ledger == INSTANCE LedgerSpec WITH confirmed <- dag, head <- latest

\* Pool, callers, crashes and all, the ledger grows as LedgerSpec says: a
\* sequencer brings in exactly its ancestors, one height at a time.
ImplementsLedger == Ledger!Spec
=============================================================================
