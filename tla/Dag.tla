-------------------------------- MODULE Dag --------------------------------
(***************************************************************************)
(* The confirmed ledger, core/dag.go with core/state: transactions stored  *)
(* by hash and by (sender, nonce), the batch of each height, the latest    *)
(* sequencer, and the account state (nonces, balances per token, tokens).  *)
(* Push takes a batch to the ledger as one step: it runs under dag.mu and  *)
(* under the pool's lock, and its only caller is TxPool.confirm.           *)
(***************************************************************************)
EXTENDS Txi, Integers, SequencesExt

CONSTANTS GenesisBalance   \* account -> OG balance at genesis

\* Token ids are handed out one by one to the offerings (IPO).
TokenIds == 0 .. Cardinality({t \in Txs : tx[t].type = "IPO"})

ASSUME GenesisBalanceAssumption == GenesisBalance \in [Accounts -> Nat]

VARIABLES
    dag,        \* hashes stored by WriteTransaction
    indexed,    \* indexed[h]: hashes confirmed at height h (WriteIndexedTxHashs)
    latest,     \* latestSequencer
    nonces,     \* statedb: account -> nonce
    balances,   \* statedb: account -> token -> balance
    tokens      \* statedb: sequence of token objects; the id is the index

ledgerVars == <<dag, indexed, latest, nonces, balances, tokens>>

TokenObjects == [issuer : Accounts, reIssuable : BOOLEAN, destroyed : BOOLEAN]

DagTypeOK ==
    /\ dag \subseteq Txs
    /\ indexed \in Seq(SUBSET Txs)
    /\ latest \in Sequencers
    /\ nonces \in [Accounts -> Nat]
    /\ balances \in [Accounts -> [TokenIds -> Int]]
    /\ tokens \in Seq(TokenObjects)

NoTokens == [k \in TokenIds |-> 0]

\* Dag.Init: genesis is stored, its balances are set in the state database.
DagInit ==
    /\ dag = {Genesis}
    /\ indexed = << >>
    /\ latest = Genesis
    /\ nonces = [a \in Accounts |-> 0]
    /\ balances = [a \in Accounts |-> [NoTokens EXCEPT ![0] = GenesisBalance[a]]]
    /\ tokens = << >>

LatestHeight == tx[latest].height

\* GetTxByNonce(a, n) # nil
HasTxByNonce(a, n) ==
    \E t \in dag : ~IsArchive(t) /\ tx[t].sender = a /\ tx[t].nonce = n

\* GetToken(id) # nil
HasToken(k) == k \in DOMAIN tokens

-----------------------------------------------------------------------------
(* Execution of one batch.  st carries the statedb and whether execution has
   gone well so far; an error reverts to the snapshot, so st is then dropped. *)

AddBalance(bal, a, k, n) == [bal EXCEPT ![a][k] = @ + n]

\* Mutant: sender and receiver swapped.
TransferBackwards(st, t) ==
    LET c == tx[t] IN
    [st EXCEPT !.balances =
                   IF c.value # 0 /\ c.to # Nobody
                   THEN AddBalance(AddBalance(@, c.to, c.token, -c.value),
                                   c.sender, c.token, c.value)
                   ELSE @]

Transfer(st, t) ==
    LET c == tx[t] IN
    [st EXCEPT !.balances =
                   IF c.value # 0 /\ c.to # Nobody
                   THEN AddBalance(AddBalance(@, c.sender, c.token, -c.value),
                                   c.to, c.token, c.value)
                   ELSE @,
               !.ok = c.vmOk]

\* Mutant: token ids start at 0, the id of OG.
IssueTokenFromZero(st, t) ==
    LET id == Len(st.tokens) IN
    [st EXCEPT !.tokens = Append(@, [issuer |-> tx[t].sender,
                                     reIssuable |-> tx[t].reIssuable,
                                     destroyed |-> FALSE]),
               !.balances = [@ EXCEPT ![tx[t].sender][id] = tx[t].value]]

IssueToken(st, t) ==
    LET id == Len(st.tokens) + 1 IN
    [st EXCEPT !.tokens = Append(@, [issuer |-> tx[t].sender,
                                     reIssuable |-> tx[t].reIssuable,
                                     destroyed |-> FALSE]),
               !.balances = [@ EXCEPT ![tx[t].sender][id] = tx[t].value]]

ReIssueToken(st, t) ==
    LET k == tx[t].token IN
    IF /\ k \in DOMAIN st.tokens
       /\ ~st.tokens[k].destroyed
       /\ st.tokens[k].reIssuable
    THEN [st EXCEPT !.balances =
                       AddBalance(@, st.tokens[k].issuer, k, tx[t].value)]
    ELSE [st EXCEPT !.ok = FALSE]

DestroyToken(st, t) ==
    IF tx[t].token \in DOMAIN st.tokens
    THEN [st EXCEPT !.tokens[tx[t].token].destroyed = TRUE]
    ELSE [st EXCEPT !.ok = FALSE]

ProcessTransaction(st, t) ==
    CASE ~st.ok                  -> st
      [] tx[t].type = "Normal"   -> Transfer(st, t)
      [] tx[t].type = "IPO"      -> IssueToken(st, t)
      [] tx[t].type = "SPO"      -> ReIssueToken(st, t)
      [] tx[t].type = "Destroy"  -> DestroyToken(st, t)
      [] OTHER                   -> st

Executed(txs) ==
    FoldLeft(ProcessTransaction,
             [balances |-> balances, tokens |-> tokens, ok |-> TRUE],
             SetToSortSeq(txs, Less))

\* The nonce of an account after the batch: SetNonce never lowers it.
HighestNonce(a, txs) ==
    LET N == {nonces[a]} \cup
             {tx[t].nonce : t \in {u \in txs : ~IsArchive(u) /\ tx[u].sender = a}}
    IN  CHOOSE n \in N : \A m \in N : m <= n

PushSucceeds(seq, txs) ==
    /\ tx[seq].height = LatestHeight + 1
    /\ Executed(txs).ok

\* Dag.push of a batch whose execution succeeds.
Push(seq, txs) ==
    /\ dag' = dag \cup txs \cup {seq}
    /\ indexed' = Append(indexed, txs)
    /\ latest' = seq
    /\ nonces' = [a \in Accounts |-> HighestNonce(a, txs \cup {seq})]
    /\ balances' = Executed(txs).balances
    /\ tokens' = Executed(txs).tokens

\* NewDag on an existing database.  The state database is reopened at the root
\* stored with the latest sequencer.  Genesis is stored without one: Init sets
\* the genesis balances in memory only, and the first push makes them durable.
DagRestart ==
    /\ UNCHANGED <<dag, indexed, latest, nonces, tokens>>
    /\ balances' = IF latest = Genesis
                   THEN [a \in Accounts |-> NoTokens]
                   ELSE balances
=============================================================================
