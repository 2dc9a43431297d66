------------------------------ MODULE TxBuffer ------------------------------
(***************************************************************************)
(* The buffer in front of the pool (og/tx_buffer.go): it keeps received    *)
(* transactions until their parents are local, that is, in pool or dag,    *)
(* asks the syncer for the missing ones, and then hands them to the pool.  *)
(*                                                                         *)
(* Two goroutines work on its caches: loop, which handles what is          *)
(* received, and releasedTxCacheLoop, which handles what others (the       *)
(* SyncBuffer of the catch-up) have added to the pool.  Both resolve       *)
(* buffered transactions.  A step is one access to a cache or to the pool. *)
(* Pool, syncer and SyncBuffer are modelled by what the buffer sees.       *)
(***************************************************************************)
EXTENDS Naturals, FiniteSets, Sequences, SequencesExt

CONSTANTS
  Tx,          \* transactions
  Parents,     \* Tx -> SUBSET Tx
  Weight,      \* Tx -> Nat
  Have,        \* local from the start
  Arrivals,    \* what peers send: records [batch, txs]
  Catchup,     \* transactions the SyncBuffer may add
  Invalid,     \* refused by the independent verifiers (format)
  Ill,         \* refused by the graph verifier though its parents are local
  Fatal,       \* refused by the pool
  Proposing,   \* sequencers that are proposed, not decided
  MaxExpiries  \* how many cache entries may expire

ASSUME BufferAssumption ==
  /\ IsFiniteSet(Tx)
  /\ Parents \in [Tx -> SUBSET Tx]
  /\ Weight \in [Tx -> Nat]
  /\ \A t \in Tx : \A p \in Parents[t] : Weight[p] < Weight[t]
  /\ Arrivals \subseteq [batch : BOOLEAN, txs : SUBSET Tx]
  /\ \A t \in Have : Parents[t] \subseteq Have

Goroutine == {"loop", "release"}

VARIABLES
  arriving,   \* messages still to be received
  fetch,      \* what the syncer was asked for: "no", "asked" or "sent"
  known,      \* knownCache
  dep,        \* dependencyCache; {} where there is no entry
  local,      \* txPool.IsLocalHash
  added,      \* txAddedToPoolChan
  proposed,   \* sent on OnProposalSeqCh
  announced,  \* how often each was given to Announcer.BroadcastNewTx
  expiries,   \* cache entries expired so far
  go          \* what each goroutine is doing

vars == <<arriving, fetch, known, dep, local, added, proposed, announced,
          expiries, go>>

(***************************************************************************)
(* The control state of a goroutine: where it is, the transaction in hand, *)
(* those of the same batch that follow, and the frames of its call stack:  *)
(* for each resolve that is under way, the children it has still to try.   *)
(* left, good and found belong to the loop it is in: in handleTxs the      *)
(* transactions to verify, whether all were valid, the valid ones; in      *)
(* buildDependencies the parents to look at and allFetched; in resolve     *)
(* whether there was a cache entry, and the children in it.                *)
(***************************************************************************)
NoTx == "none"

Idle == [at |-> "idle", tx |-> NoTx, batch |-> <<>>, frames |-> <<>>,
         left |-> {}, good |-> TRUE, found |-> {}]

Places == {"idle", "verify", "verifyAll", "hung", "parents", "depend", "nice",
           "add", "clear", "cascade"}

Control == [at : Places, tx : Tx \cup {NoTx}, batch : Seq(Tx),
            frames : Seq(SUBSET Tx), left : SUBSET Tx, good : BOOLEAN,
            found : SUBSET Tx]

Init ==
  /\ arriving = Arrivals
  /\ fetch = [t \in Tx |-> "no"]
  /\ known = {}
  /\ dep = [t \in Tx |-> {}]
  /\ local = Have
  /\ added = <<>>
  /\ proposed = {}
  /\ announced = [t \in Tx |-> 0]
  /\ expiries = 0
  /\ go = [g \in Goroutine |-> Idle]

IsKnownHash(t) == t \in known \/ t \in local

\* The next transaction of a batch is taken up by buildDependencies.
TakeUp(batch) ==
  IF batch = <<>> THEN Idle
  ELSE [Idle EXCEPT !.at = "parents", !.tx = Head(batch), !.batch = Tail(batch),
                    !.left = Parents[Head(batch)]]

\* What a goroutine does when it is done with the transaction in hand.
Continue(c) ==
  IF c.frames = <<>> THEN TakeUp(c.batch)
  ELSE [Idle EXCEPT !.at = "cascade", !.batch = c.batch, !.frames = c.frames]

(***************************************************************************)
(* loop, handleTx, handleTxs                                               *)
(***************************************************************************)

\* A message is taken from its channel; what is known is left out.
Receive(m) ==
  /\ go["loop"].at = "idle"
  /\ m \in arriving
  /\ arriving' = arriving \ {m}
  /\ go' = [go EXCEPT !["loop"] =
              [Idle EXCEPT !.at = IF m.batch THEN "verifyAll" ELSE "verify",
                           !.left = {t \in m.txs : ~IsKnownHash(t)}]]
  /\ UNCHANGED <<fetch, known, dep, local, added, proposed, announced, expiries>>

\* handleTx, verify: the independent verifiers judge t.  In a batch, the
\* goroutine of an invalid transaction ends without wg.Done.
Verify(t) ==
  LET c == go["loop"] IN
  /\ c.at \in {"verify", "verifyAll"}
  /\ t \in c.left
  /\ IF t \in Invalid
     THEN /\ go' = [go EXCEPT !["loop"].left = @ \ {t},
                              !["loop"].good = c.at = "verify"]
          /\ UNCHANGED known
     ELSE /\ go' = [go EXCEPT !["loop"].left = @ \ {t}, !["loop"].found = @ \cup {t}]
          /\ known' = known \cup {t}
  /\ UNCHANGED <<arriving, fetch, dep, local, added, proposed, announced, expiries>>

\* wg.Wait and sort.Sort.  Transactions of one weight are in any order here.
Verified ==
  LET c == go["loop"] IN
  /\ c.at \in {"verify", "verifyAll"}
  /\ c.left = {}
  /\ IF c.good
     THEN \E s \in SetToSeqs(c.found) :
            /\ \A i, j \in DOMAIN s : i < j => Weight[s[i]] <= Weight[s[j]]
            /\ go' = [go EXCEPT !["loop"] = TakeUp(s)]
     ELSE go' = [go EXCEPT !["loop"].at = "hung"]
  /\ UNCHANGED <<arriving, fetch, known, dep, local, added, proposed, announced,
                 expiries>>

(***************************************************************************)
(* buildDependencies                                                       *)
(***************************************************************************)

\* isLocalHash(p): a parent that is not local is recorded in the next step.
LookAtParent(p) ==
  LET c == go["loop"] IN
  /\ c.at = "parents"
  /\ p \in c.left
  /\ go' = [go EXCEPT !["loop"] =
              IF p \in local THEN [c EXCEPT !.left = @ \ {p}]
              ELSE [c EXCEPT !.at = "depend", !.left = @ \ {p}, !.good = FALSE,
                             !.found = {p}]]
  /\ UNCHANGED <<arriving, fetch, known, dep, local, added, proposed, announced,
                 expiries>>

\* Mutant of DependOn: a parent that is buffered is not recorded.
DependOnUnbuffered(p) ==
  LET c == go["loop"] IN
  /\ c.at = "depend"
  /\ p \in c.found
  /\ dep' = IF p \in known THEN dep ELSE [dep EXCEPT ![p] = @ \cup {c.tx}]
  /\ fetch' = IF p \in known \/ fetch[p] # "no" THEN fetch
              ELSE [fetch EXCEPT ![p] = "asked"]
  /\ go' = [go EXCEPT !["loop"].at = "parents", !["loop"].found = {}]
  /\ UNCHANGED <<arriving, known, local, added, proposed, announced, expiries>>

\* updateDependencyMap and, unless the parent is buffered, Syncer.Enqueue, which
\* drops a hash it was asked for before.
DependOn(p) ==
  LET c == go["loop"] IN
  /\ c.at = "depend"
  /\ p \in c.found
  /\ dep' = [dep EXCEPT ![p] = @ \cup {c.tx}]
  /\ fetch' = IF p \in known \/ fetch[p] # "no" THEN fetch
              ELSE [fetch EXCEPT ![p] = "asked"]
  /\ go' = [go EXCEPT !["loop"].at = "parents", !["loop"].found = {}]
  /\ UNCHANGED <<arriving, known, local, added, proposed, announced, expiries>>

\* All parents were local: on to niceTx.  Otherwise the transaction enters its
\* own entry of the cache and waits; a proposal only waits.
ParentsDone ==
  LET c == go["loop"] IN
  /\ c.at = "parents"
  /\ c.left = {}
  /\ go' = [go EXCEPT !["loop"] =
              IF c.good THEN [c EXCEPT !.at = "nice"] ELSE Continue(c)]
  /\ dep' = IF c.good \/ c.tx \in Proposing THEN dep
            ELSE [dep EXCEPT ![c.tx] = @ \cup {c.tx}]
  /\ UNCHANGED <<arriving, fetch, known, local, added, proposed, announced, expiries>>

(***************************************************************************)
(* niceTx, resolve, tryResolve: on either goroutine                        *)
(***************************************************************************)

\* Mutant of GraphVerified: missing parents are not noticed.
GraphVerifiedLoosely(t) == t \notin Ill

\* GraphVerifier.Verify; verifyWeight finds no missing parent.
GraphVerified(t) == Parents[t] \subseteq local /\ t \notin Ill

\* Mutant of NiceTx: every transaction is reported as a proposal.
NiceTxAllProposed(g) ==
  LET c == go[g] IN
  /\ c.at = "nice"
  /\ known' = known \ {c.tx}
  /\ go' = [go EXCEPT ![g] = [c EXCEPT !.at = "add", !.good = dep[c.tx] # {},
                                        !.found = dep[c.tx]]]
  /\ proposed' = proposed \cup {c.tx}
  /\ UNCHANGED <<arriving, fetch, dep, local, added, announced, expiries>>

\* niceTx, and what resolve reads before it calls the pool.
NiceTx(g) ==
  LET c == go[g] IN
  /\ c.at = "nice"
  /\ known' = known \ {c.tx}
  /\ IF GraphVerified(c.tx)
     THEN /\ go' = [go EXCEPT ![g] = [c EXCEPT !.at = "add", !.good = dep[c.tx] # {},
                                                !.found = dep[c.tx]]]
          /\ proposed' = proposed \cup ({c.tx} \cap Proposing)
     ELSE /\ go' = [go EXCEPT ![g] = Continue(c)]
          /\ UNCHANGED proposed
  /\ UNCHANGED <<arriving, fetch, dep, local, added, announced, expiries>>

\* TxPool.AddRemoteTx: whether t is accepted.
Accepted(t) == t \notin local /\ t \notin Fatal

\* Mutant of AddToTxPool: the error of the pool does not stop the broadcast.
AddAndAnnounce(g) ==
  LET c == go[g] IN
  /\ c.at = "add"
  /\ local' = IF c.tx \notin Proposing /\ Accepted(c.tx) THEN local \cup {c.tx}
              ELSE local
  /\ announced' = [announced EXCEPT ![c.tx] = @ + 1]
  /\ go' = [go EXCEPT ![g].at = "clear"]
  /\ UNCHANGED <<arriving, fetch, known, dep, added, proposed, expiries>>

\* addToTxPool; what the pool accepts is broadcast.  A proposal skips both.
AddToTxPool(g) ==
  LET c == go[g] IN
  /\ c.at = "add"
  /\ IF c.tx \notin Proposing /\ Accepted(c.tx)
     THEN /\ local' = local \cup {c.tx}
          /\ announced' = [announced EXCEPT ![c.tx] = @ + 1]
     ELSE UNCHANGED <<local, announced>>
  /\ go' = [go EXCEPT ![g].at = "clear"]
  /\ UNCHANGED <<arriving, fetch, known, dep, added, proposed, expiries>>

\* Mutant of ClearDependency: the children are not tried.
ClearWithoutCascade(g) ==
  LET c == go[g] IN
  /\ c.at = "clear"
  /\ dep' = [dep EXCEPT ![c.tx] = {}]
  /\ go' = [go EXCEPT ![g] = Continue(c)]
  /\ UNCHANGED <<arriving, fetch, known, local, added, proposed, announced, expiries>>

\* The end of resolve: the entry is removed.  The children are read from the map
\* that was found before, to which updateDependencyMap may have added others.
ClearDependency(g) ==
  LET c == go[g] IN
  /\ c.at = "clear"
  /\ dep' = [dep EXCEPT ![c.tx] = {}]
  /\ go' = [go EXCEPT ![g] =
              IF c.good
              THEN Continue([c EXCEPT !.frames =
                       <<(c.found \cup dep[c.tx]) \ {c.tx}>> \o @])
              ELSE Continue(c)]
  /\ UNCHANGED <<arriving, fetch, known, local, added, proposed, announced, expiries>>

\* Mutant of NoDependency: one parent without an entry is enough.
SomeDependencyMet(t) == \E p \in Parents[t] : dep[p] = {}

\* tryResolve: no parent has an entry in the dependency cache.
NoDependency(t) == \A p \in Parents[t] : dep[p] = {}

\* The next child v of the innermost resolve.  The outermost loop over children
\* of releasedTxCacheLoop skips those no longer buffered and those local.
Cascade(g, v) ==
  LET c == go[g]
      rest == [c EXCEPT !.frames = <<Head(@) \ {v}>> \o Tail(@)]
      skip == /\ g = "release"
              /\ Len(c.frames) = 1
              /\ v \notin known \/ v \in local
  IN
  /\ c.at = "cascade"
  /\ v \in Head(c.frames)
  /\ go' = [go EXCEPT ![g] = IF ~skip /\ NoDependency(v)
                             THEN [rest EXCEPT !.at = "nice", !.tx = v]
                             ELSE rest]
  /\ UNCHANGED <<arriving, fetch, known, dep, local, added, proposed, announced,
                 expiries>>

\* All children of the innermost resolve were tried: it returns.
CascadeDone(g) ==
  LET c == go[g] IN
  /\ c.at = "cascade"
  /\ Head(c.frames) = {}
  /\ go' = [go EXCEPT ![g] = Continue([c EXCEPT !.frames = Tail(@)])]
  /\ UNCHANGED <<arriving, fetch, known, dep, local, added, proposed, announced,
                 expiries>>

\* releasedTxCacheLoop: a transaction added to the pool by others.
Release ==
  LET t == Head(added) IN
  /\ go["release"].at = "idle"
  /\ added # <<>>
  /\ added' = Tail(added)
  /\ known' = known \ {t}
  /\ dep' = [dep EXCEPT ![t] = {}]
  /\ go' = [go EXCEPT !["release"] =
              IF dep[t] = {} THEN Idle
              ELSE Continue([Idle EXCEPT !.frames = <<dep[t] \ {t}>>])]
  /\ UNCHANGED <<arriving, fetch, local, proposed, announced, expiries>>

(***************************************************************************)
(* Surroundings                                                            *)
(***************************************************************************)

\* SyncBuffer.Handle adds a transaction to the pool and tells the buffer.
CatchupAdd(t) ==
  /\ t \in Catchup
  /\ t \notin Invalid
  /\ GraphVerified(t)
  /\ Accepted(t)
  /\ local' = local \cup {t}
  /\ added' = Append(added, t)
  /\ UNCHANGED <<arriving, fetch, known, dep, proposed, announced, expiries, go>>

\* A peer answers a request of the syncer.
FetchReply(t) ==
  /\ fetch[t] = "asked"
  /\ fetch' = [fetch EXCEPT ![t] = "sent"]
  /\ arriving' = arriving \cup {[batch |-> TRUE, txs |-> {t}]}
  /\ UNCHANGED <<known, dep, local, added, proposed, announced, expiries, go>>

\* An entry of knownCache or of dependencyCache is an hour old.
Expire(t) ==
  /\ expiries < MaxExpiries
  /\ expiries' = expiries + 1
  /\ \/ t \in known /\ known' = known \ {t} /\ UNCHANGED dep
     \/ dep[t] # {} /\ dep' = [dep EXCEPT ![t] = {}] /\ UNCHANGED known
  /\ UNCHANGED <<arriving, fetch, local, added, proposed, announced, go>>

LoopStep ==
  \/ \E m \in arriving : Receive(m)
  \/ \E t \in Tx : Verify(t) \/ LookAtParent(t) \/ DependOn(t)
  \/ Verified
  \/ ParentsDone

Resolving(g) ==
  \/ NiceTx(g)
  \/ AddToTxPool(g)
  \/ ClearDependency(g)
  \/ \E t \in Tx : Cascade(g, t)
  \/ CascadeDone(g)

Next ==
  \/ LoopStep
  \/ Release
  \/ \E g \in Goroutine : Resolving(g)
  \/ \E t \in Tx : CatchupAdd(t) \/ FetchReply(t) \/ Expire(t)

Spec == Init /\ [][Next]_vars

\* Goroutines that can go on do so; a peer that has the transaction answers.
Fairness ==
  /\ WF_vars(LoopStep \/ Resolving("loop"))
  /\ WF_vars(Release \/ Resolving("release"))
  /\ \A t \in Tx : WF_vars(FetchReply(t))

FairSpec == Spec /\ Fairness

(***************************************************************************)
(* Properties                                                              *)
(***************************************************************************)

\* The types of the caches and of the two goroutines; resolve reports nothing
\* but proposing sequencers to the consensus.
TypeOK ==
  /\ arriving \subseteq [batch : BOOLEAN, txs : SUBSET Tx]
  /\ fetch \in [Tx -> {"no", "asked", "sent"}]
  /\ known \subseteq Tx
  /\ dep \in [Tx -> SUBSET Tx]
  /\ local \subseteq Tx
  /\ added \in Seq(Tx)
  /\ proposed \subseteq Proposing
  /\ announced \in [Tx -> Nat]
  /\ expiries \in 0 .. MaxExpiries
  /\ go \in [Goroutine -> Control]

\* The pool gets no transaction before its parents, and the consensus no
\* proposal, whatever the dependency cache has lost (niceTx verifies the graph
\* before resolve).
ParentsFirst ==
  \A t \in local \cup proposed : Parents[t] \subseteq local

\* "niceTx is the logic triggered when tx's ancestors are all fetched to local":
\* absence of entries in the dependency cache means that the parents are local.
NiceWithParents ==
  \A g \in Goroutine : go[g].at = "nice" => Parents[go[g].tx] \subseteq local

\* A transaction is broadcast at most once, however often it is received,
\* fetched or resolved again by the cascade (resolve announces what the pool
\* accepted).
AnnouncedOnce ==
  \A t \in Tx : announced[t] <= 1

\* A goroutine is dealing with t or will try it.
InHand(t) ==
  \E g \in Goroutine :
    \/ go[g].tx = t
    \/ \E i \in DOMAIN go[g].batch : go[g].batch[i] = t
    \/ \E i \in DOMAIN go[g].frames : t \in go[g].frames[i]
    \/ go[g].at \in {"verify", "verifyAll", "hung"} /\ t \in go[g].found

\* A buffered transaction that waits is recorded under each parent that has yet
\* to enter the pool, so that whoever adds that parent finds it
\* (buildDependencies against the removals of resolve and releasedTxCacheLoop),
\* as long as no entry of a cache has expired.
WaitersRegistered ==
  \A t \in known \ local :
    expiries > 0 \/ InHand(t) \/ \A p \in Parents[t] \ (local \cup Fatal \cup Proposing) : t \in dep[p]

\* Transactions no verifier and not the pool refuses, nor any of their ancestors.
Acceptable ==
  LET Good == Tx \ (Invalid \cup Ill \cup Fatal \cup Proposing)
  IN  UNION {G \in SUBSET Good : \A t \in G : Parents[t] \subseteq G}

\* "Tx will be buffered here until parents are got.  Once the parents are got,
\* Tx will be send to TxPool for further processing."
ParentsGotThenPooled ==
  \A t \in Acceptable :
    (t \in known /\ Parents[t] \subseteq local) ~> (t \in local)

\* In whatever order orphans come, each acceptable one that a peer sends is in
\* the pool in the end: its missing ancestors are fetched and the cascade
\* reaches it.
OrphansPooled ==
  \A t \in Acceptable : \A m \in Arrivals : t \in m.txs => <>(t \in local)
=============================================================================
