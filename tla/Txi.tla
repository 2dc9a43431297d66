-------------------------------- MODULE Txi --------------------------------
(***************************************************************************)
(* The transactions of the ledger: what types.Txi, tx_types.Tx,            *)
(* tx_types.ActionTx and tx_types.Sequencer expose to the pool and the dag.*)
(* A transaction is identified with its hash.  Its contents never change   *)
(* once it is sealed, so they are the constant function tx; what is        *)
(* forwarded, buffered and confirmed is an element of Txs.                 *)
(***************************************************************************)
EXTENDS Naturals, FiniteSets, Sequences

CONSTANTS
    Txs,        \* hashes of the transactions that can ever be received
    Genesis,    \* the genesis sequencer
    Accounts,   \* addresses
    Nobody,     \* emptyAddress, the receiver of a contract creation
    tx          \* hash -> contents

\* "Campaign" stands for campaigns and term changes alike: pool and dag treat
\* them the same.  An ActionTx is split by its action.
TxTypes == {"Normal", "Archive", "Sequencer", "Campaign", "IPO", "SPO", "Destroy"}

Contents ==
    [type    : TxTypes,
     sender  : Accounts,
     nonce   : Nat,
     parents : Seq(Txs),
     weight  : Nat,
     hash    : Nat,                 \* the hash as a number, for tie breaking
     height  : Nat,                 \* sequencers: the height they claim
     token   : Nat,                 \* 0 is the OG token
     value   : Nat,
     to      : Accounts \cup {Nobody},
     reIssuable : BOOLEAN,          \* an IPO's EnableSPO
     vmOk    : BOOLEAN]             \* the contract code it runs returns no error

ParentSet(t) == {tx[t].parents[i] : i \in DOMAIN tx[t].parents}

IsSequencer(t) == tx[t].type = "Sequencer"
IsArchive(t)   == tx[t].type = "Archive"
Sequencers     == {t \in Txs : IsSequencer(t)}

\* An archive has neither sender nor nonce (status.ArchiveMode data upload).
SameSlot(t, u) ==
    /\ ~IsArchive(t)
    /\ ~IsArchive(u)
    /\ tx[t].sender = tx[u].sender
    /\ tx[t].nonce = tx[u].nonce

\* Txis.Less: the order in which a batch is executed.
Less(t, u) ==
    \/ tx[t].weight < tx[u].weight
    \/ /\ tx[t].weight = tx[u].weight
       /\ \/ tx[t].nonce < tx[u].nonce
          \/ /\ tx[t].nonce = tx[u].nonce
             /\ tx[t].hash < tx[u].hash

\* E contains the parents of its members.
AncestorClosed(E) == \A t \in E : ParentSet(t) \subseteq E

\* All the ancestors of t, near and far.
Ancestors(t) ==
    LET Closed == {E \in SUBSET Txs : ParentSet(t) \subseteq E /\ AncestorClosed(E)}
    IN  {u \in Txs : \A E \in Closed : u \in E}

ASSUME TxAssumption ==
    /\ IsFiniteSet(Txs)
    /\ Nobody \notin Accounts
    /\ tx \in [Txs -> Contents]

\* Genesis is a sequencer at height 0 without parents; it alone has nonce 0
\* (GraphVerifier refuses nonce 0).
ASSUME GenesisAssumption ==
    /\ Genesis \in Txs
    /\ IsSequencer(Genesis)
    /\ tx[Genesis].height = 0
    /\ tx[Genesis].parents = << >>
    /\ \A t \in Txs : ~IsArchive(t) => (tx[t].nonce = 0 <=> t = Genesis)

\* Sequencers are built by nodes that run this code, on tips of their own pool
\* (TxCreator.GenerateSequencer), and such a pool never holds two good
\* transactions of one sender with one nonce (TxPool!GoodNoncesFollowLedger).  A
\* node that receives the sequencer does not check it: TxList.put skips a nonce it
\* has.  Only the theorem LedgerNonces uses this assumption.
ASSUME HonestSequencerAssumption ==
    \A s \in Sequencers :
        \A t, u \in Ancestors(s) : SameSlot(t, u) => t = u
=============================================================================
