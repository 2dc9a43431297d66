-------------------------------- MODULE MCBft --------------------------------
(***************************************************************************)
(* Instances of Bft for TLC.                                               *)
(*                                                                         *)
(* With three or four partners most of the state space is the order in    *)
(* which votes that reach no majority are written down.  LazyReceive       *)
(* leaves a vote on its way until it matters: a partner handles, one after *)
(* the other, votes of one type and round of which the last one has an     *)
(* effect beyond being counted.  Counting a vote commutes with every step  *)
(* of the others, so that a behaviour of Spec has a lazy one with the same *)
(* messages and decisions; every lazy behaviour is one of Spec.            *)
(***************************************************************************)
EXTENDS Bft

NoneLate == {}

\* What is left of a partner when the votes written down for hr are taken out.
Uncounted(n, hr) ==
  [n EXCEPT !.states[hr].preVotes = Fresh.preVotes,
            !.states[hr].preCommits = Fresh.preCommits,
            !.states[hr].sources = {}]

HandleAll(n, p, h, Q) ==
  FoldSet(LAMBDA m, k : HandleMessage(k, p, h, m, FALSE), n, Q)

\* A vote that replaces one already written down is not left waiting.
Replaces(n, m) ==
  LET s == n.states[m.hr]
  IN (IF m.type = "prevote" THEN s.preVotes ELSE s.preCommits)[m.src] # NoVote

LazyReceive(p) ==
  /\ Running(p)
  /\ \E m \in inbox[p], spoilt \in BOOLEAN :
       \E Q \in SUBSET {k \in inbox[p] :
                          /\ m.type # "proposal"
                          /\ k.type = m.type /\ k.hr = m.hr /\ k.src < m.src} :
         \E n \in {HandleAll(node[p], p, ledger[p], Q)} :
           /\ Uncounted(n, m.hr) = Uncounted(node[p], m.hr)
           /\ \E n1 \in {HandleMessage(n, p, ledger[p], m, spoilt)} :
                /\ \/ m.type = "proposal"
                   \/ Uncounted(n1, m.hr) # Uncounted(n, m.hr)
                   \/ Replaces(n, m)
                /\ Settle(p, n1, Q \cup {m})
  /\ UNCHANGED ledger

\* Every partner has started and nothing has happened since.
StartedInit ==
  /\ node = [p \in Partner |->
               IF p \in Absent THEN Idle
               ELSE StartNewEra([Idle EXCEPT !.on = TRUE], p, 0, 0, 0)]
  /\ ledger = [p \in Partner |-> 0]
  /\ inbox = [p \in Partner |-> {}]
  /\ sent = {}

\* The run ends when a partner is past the heights and rounds played.
Terminated == Over /\ UNCHANGED vars

\* The lazy steps when only the timers in T can expire.
LazySteps(T) ==
  \/ \E p \in Partner :
       \/ ProposeValue(p) \/ LedgerGrows(p) \/ LazyReceive(p)
       \/ \E step \in {Propose, PreVote, PreCommit} :
            <<p, step, node[p].hr>> \in T /\ Timeout(p, step)
  \/ Terminated

\* The timers of the first round only.
FirstRound == Partner \X {Propose, PreVote, PreCommit} \X {<<0, 0>>}

FirstRoundSpec == StartedInit /\ [][LazySteps(FirstRound)]_vars

-----------------------------------------------------------------------------
(* Four partners and a slow network.  In round 0 the proposal and partner   *)
(* 0's votes do not reach partner 3 in time, nor partner 3's votes partner  *)
(* 0, and partner 0's precommit reaches nobody else.  Round 1 goes on       *)
(* without partner 0, and only partner 1 gets its precommits.               *)

SplitLate ==
  LET first == <<0, 0>>
      second == <<0, 1>>
  IN {<<"proposal", 0, 3, first>>, <<"prevote", 0, 3, first>>}
     \cup {<<"prevote", 3, q, first>> : q \in {0, 1, 2}}
     \cup {<<"precommit", 3, 0, first>>}
     \cup {<<"precommit", 0, q, first>> : q \in {1, 2, 3}}
     \cup {<<type, 0, q, second>> : type \in {"prevote", "precommit"},
                                    q \in Partner}
     \cup {<<type, q, 0, second>> : type \in {"proposal", "prevote", "precommit"},
                                    q \in Partner}
     \cup {<<"precommit", q, r, second>> : q \in Partner, r \in {2, 3}}

\* The timers that expire: partner 3's, and in the end those of 1 and 2.
SplitTimeouts ==
  {<<3, Propose, <<0, 0>>>>, <<3, PreVote, <<0, 0>>>>}
  \cup {<<p, PreCommit, <<0, 0>>>> : p \in {1, 2, 3}}

SplitSpec == StartedInit /\ [][LazySteps(SplitTimeouts)]_vars
==============================================================================
