-------------------------------- MODULE Bft --------------------------------
(***************************************************************************)
(* The consensus on the next sequencer: the partners of a term            *)
(* (DefaultPartner, consensus/annsensus/bft/bft_client.go), each with the  *)
(* timer of its Waiter (waiter.go), and the messages between them.         *)
(*                                                                         *)
(* A partner is one goroutine (receive): it handles a message or an        *)
(* expired timer at a time, and each is one step here.  A message is sent  *)
(* by a goroutine per receiver (sendToPartners), so messages arrive in any *)
(* order.  A proposed value is abstracted to the height and round it was   *)
(* proposed in and the height of the sequencer it carries: a proposer      *)
(* generates a new sequencer for every proposal (ProduceProposal).         *)
(***************************************************************************)
EXTENDS Integers, FiniteSets, FiniteSetsExt

CONSTANTS
  N,          \* number of partners
  MaxHeight,  \* heights 0..MaxHeight are played; a partner past them stops
  MaxRound,   \* rounds 0..MaxRound are played; a partner past them stops
  MaxCrashes, \* how many partners may stop for good
  Absent,     \* partners that never start
  Late,       \* messages (type, sender, receiver, height and round) that do
              \* not arrive in the time the run covers
  Early       \* TRUE: a message that meets a partner not started is lost

ASSUME NAssumption == N \in Nat \ {0, 1}

Partner == 0 .. N-1

\* NewBFTPartner: the number of faulty partners tolerated
F == (N - 1) \div 3

\* NewBFTPartner, MajorityTwoThird
Maj23 == IF N % 3 = 1 THEN 2 * F + 1 ELSE (2 * N) \div 3 + 1

HeightRound == (0 .. MaxHeight) \X (0 .. MaxRound)

IsAfter(a, b) == a[1] > b[1] \/ (a[1] = b[1] /\ a[2] > b[2])

Proposer(hr) == ((hr[1] % N) + (hr[2] % N)) % N

Propose == 0

PreVote == 1

PreCommit == 2

\* A value: the height and round of its proposal, the height of its sequencer.
Value == (0 .. MaxHeight) \X (0 .. MaxRound) \X (1 .. MaxHeight + 2)

NilValue == <<>>

NoVote == <<-1>>

\* NewHeightRoundState.  The states a partner does not have yet, and those it
\* has wiped, are fresh ones here.
Fresh ==
  [proposal |-> NilValue, lockedValue |-> NilValue, lockedRound |-> -1,
   validValue |-> NilValue, validRound |-> -1, decision |-> NilValue,
   preVotes |-> [q \in Partner |-> NoVote],
   preCommits |-> [q \in Partner |-> NoVote],
   sources |-> {}, step |-> Propose,
   line34 |-> FALSE, line36 |-> FALSE, line47 |-> FALSE]

VARIABLES
  node,     \* the partners
  ledger,   \* ledger[p]: height of p's dag, which other goroutines grow
  inbox,    \* inbox[p]: messages on their way to p
  sent      \* every message ever sent

vars == <<node, ledger, inbox, sent>>

-----------------------------------------------------------------------------
(* A partner.  Its handlers are functions from one state of the partner to  *)
(* the next.  out collects what they broadcast; decisions keeps what the     *)
(* partner has decided so far, with the outcome of commitDecision.          *)

Idle ==
  [on |-> FALSE, crashed |-> FALSE, hr |-> <<0, 0>>, proposing |-> FALSE,
   states |-> [hr \in HeightRound |-> Fresh],
   request |-> -1, armed |-> -1, timers |-> {}, out |-> {}, decisions |-> {}]

State(n) == n.states[n.hr]

Broadcast(n, p, type, hr, v) ==
  [n EXCEPT !.out = @ \cup {[type |-> type, hr |-> hr, src |-> p, value |-> v]}]

\* WaitStepTimeout and the request case of StartEventLoop.  The waiter keeps
\* one request and ignores one that is not after it.  Once the timer has
\* started its expiry may reach the partner at any later time: the callback
\* waits in a channel, and cancelling the timer does not empty the channel.
WaitStepTimeout(n, step) ==
  IF step > n.request
    THEN [n EXCEPT !.request = step, !.armed = step, !.timers = @ \cup {step}]
    ELSE n

\* Mutant of ChangeStep: the waiter is not told
ChangeStepSilent(n, step) == [n EXCEPT !.states[n.hr].step = step]

\* changeStep and the context case of StartEventLoop.  It is the state of the
\* partner's own height and round that changes, whatever message is handled.
ChangeStep(n, step) ==
  [n EXCEPT !.states[n.hr].step = step,
            !.armed = IF step > n.request THEN -1 ELSE @]

\* Mutant of EraHeight: the height is the ledger's
EraHeightOfLedger(height, h) == h

\* StartNewEra: the height is at least the ledger's.
EraHeight(height, h) == Max({height, h})

\* Mutant of StartNewEra: the requests of the round left behind stay
StartNewEraKeepsTimers(n, p, h, height, round) ==
  LET hr == <<EraHeight(height, h), round>>
  IN IF hr \notin HeightRound
       THEN [n EXCEPT !.hr = hr]
       ELSE LET n2 == ChangeStep([n EXCEPT !.hr = hr, !.request = -1], Propose)
            IN IF Proposer(hr) = p THEN [n2 EXCEPT !.proposing = TRUE]
                                   ELSE WaitStepTimeout(n2, Propose)

\* StartNewEra, up to the generation of the value (see ProposeValue).  Earlier
\* states are wiped; what early messages have built up for the new height and
\* round is kept.  A request for an earlier round has no effect any more.
StartNewEra(n, p, h, height, round) ==
  LET hr == <<EraHeight(height, h), round>>
      n1 == [n EXCEPT !.hr = hr, !.request = -1, !.armed = -1, !.timers = {},
                      !.states = [x \in HeightRound |->
                                    IF IsAfter(hr, x) THEN Fresh ELSE @[x]]]
  IN IF hr \notin HeightRound
       THEN n1
       ELSE LET n2 == ChangeStep(n1, Propose)
            IN IF Proposer(hr) = p THEN [n2 EXCEPT !.proposing = TRUE]
                                   ELSE WaitStepTimeout(n2, Propose)

\* checkRound: messages of F+1 partners that are ahead pull the partner along.
CheckRound(n, p, h, m) ==
  IF ~IsAfter(m.hr, n.hr)
    THEN n
    ELSE LET n1 == [n EXCEPT !.states[m.hr].sources = @ \cup {m.src}]
         IN IF Cardinality(n1.states[m.hr].sources) >= F + 1
              THEN StartNewEra(n1, p, h, m.hr[1], m.hr[2])
              ELSE n1

\* count: how many votes are for a value in V
Count(votes, V) == Cardinality({q \in Partner : votes[q] \in V})

AllValues == Value \cup {NilValue}

\* handleProposal.  Rule line 28 is for a proposal with a ValidRound; there is
\* none, since a proposer's state is fresh when it proposes.
HandleProposal(n, p, m) ==
  LET n1 == [n EXCEPT !.states[m.hr].proposal = m.value]
      s  == n.states[m.hr]
      v  == IF s.lockedRound = -1 \/ s.lockedValue = m.value
              THEN m.value ELSE NilValue
  IN IF s.step = Propose
       THEN ChangeStep(Broadcast(n1, p, "prevote", m.hr, v), PreVote)
       ELSE n1

\* Mutant of Line34: one vote short
Line34Short(n, hr) ==
  LET s == n.states[hr]
  IN IF Count(s.preVotes, AllValues) >= Maj23 - 1 /\ s.step = PreVote /\ ~s.line34
       THEN WaitStepTimeout([n EXCEPT !.states[hr].line34 = TRUE], PreVote)
       ELSE n

\* handlePreVote, rule line 34
Line34(n, hr) ==
  LET s == n.states[hr]
  IN IF Count(s.preVotes, AllValues) >= Maj23 /\ s.step = PreVote /\ ~s.line34
       THEN WaitStepTimeout([n EXCEPT !.states[hr].line34 = TRUE], PreVote)
       ELSE n

\* handlePreVote, rule line 36: counts every prevote, whatever its value
Line36(n, p, hr) ==
  LET s  == n.states[hr]
      n1 == [n EXCEPT !.states[hr].line36 = TRUE,
                      !.states[hr].validValue = s.proposal,
                      !.states[hr].validRound = n.hr[2]]
      n2 == [n1 EXCEPT !.states[hr].lockedValue = s.proposal,
                       !.states[hr].lockedRound = n.hr[2]]
  IN IF /\ s.proposal # NilValue
        /\ Count(s.preVotes, AllValues) >= Maj23
        /\ s.step >= PreVote
        /\ ~s.line36
       THEN IF s.step = PreVote
              THEN ChangeStep(Broadcast(n2, p, "precommit", hr, s.proposal),
                              PreCommit)
              ELSE n1
       ELSE n

\* handlePreVote, rule line 44
Line44(n, p, hr) ==
  LET s == n.states[hr]
  IN IF Count(s.preVotes, {NilValue}) >= Maj23 /\ s.step = PreVote
       THEN ChangeStep(Broadcast(n, p, "precommit", hr, NilValue), PreCommit)
       ELSE n

HandlePreVote(n, p, m) ==
  LET n1 == [n EXCEPT !.states[m.hr].preVotes[m.src] = m.value]
  IN Line44(Line36(Line34(n1, m.hr), p, m.hr), p, m.hr)

\* Mutants of Line47: one vote short, and without the timer
Line47Short(n, hr) ==
  LET s == n.states[hr]
  IN IF Count(s.preCommits, AllValues) >= Maj23 - 1 /\ ~s.line47
       THEN WaitStepTimeout([n EXCEPT !.states[hr].line47 = TRUE], PreCommit)
       ELSE n

Line47Unarmed(n, hr) == n

\* handlePreCommit, rule line 47
Line47(n, hr) ==
  LET s == n.states[hr]
  IN IF Count(s.preCommits, AllValues) >= Maj23 /\ ~s.line47
       THEN WaitStepTimeout([n EXCEPT !.states[hr].line47 = TRUE], PreCommit)
       ELSE n

\* Mutant of Decides: every precommit counts
DecidesOnAny(n, hr) ==
  LET s == n.states[hr]
  IN /\ s.proposal # NilValue
     /\ s.decision = NilValue
     /\ Count(s.preCommits, AllValues) >= Maj23

\* handlePreCommit, the condition of rule line 49
Decides(n, hr) ==
  LET s == n.states[hr]
  IN /\ s.proposal # NilValue
     /\ s.decision = NilValue
     /\ Count(s.preCommits, {s.proposal}) >= Maj23

\* The decision of rule line 49.  commitDecision recovers the joint signature
\* from the shares of all precommits collected; one for nil carries an empty
\* share, which may spoil it.
Decide(n, p, h, hr, spoilt) ==
  LET s  == n.states[hr]
      ok == ~(spoilt /\ \E q \in Partner : s.preCommits[q] = NilValue)
      n1 == [n EXCEPT !.states[hr].decision = s.proposal,
                      !.decisions = @ \cup {[hr |-> hr, value |-> s.proposal,
                                             ok |-> ok]}]
  IN IF ok THEN StartNewEra(n1, p, h, n.hr[1] + 1, 0)
           ELSE StartNewEra(n1, p, h, n.hr[1], n.hr[2] + 1)

HandlePreCommit(n, p, h, m, spoilt) ==
  LET n1 == Line47([n EXCEPT !.states[m.hr].preCommits[m.src] = m.value], m.hr)
  IN IF Decides(n1, m.hr) THEN Decide(n1, p, h, m.hr, spoilt) ELSE n1

\* A message of an earlier height or round is ignored.
Wanted(n, m) ==
  ~n.crashed /\ n.hr \in HeightRound /\ ~IsAfter(n.hr, m.hr)

HandleMessage(n, p, h, m, spoilt) ==
  LET n1 == CheckRound(n, p, h, m)
  IN CASE ~Wanted(n1, m)         -> n1
       [] m.type = "proposal"    -> HandleProposal(n1, p, m)
       [] m.type = "prevote"     -> HandlePreVote(n1, p, m)
       [] m.type = "precommit"   -> HandlePreCommit(n1, p, h, m, spoilt)

-----------------------------------------------------------------------------
(* The steps.                                                               *)

\* p's new state is n, it has handled the messages in got, and what it
\* broadcast is on its way to every partner, itself included.
Settle(p, n, got) ==
  LET new == [node EXCEPT ![p] = [n EXCEPT !.out = {}]]
  IN /\ node' = new
     /\ sent' = sent \cup n.out
     /\ inbox' = [q \in Partner |->
                    {m \in (inbox[q] \ (IF q = p THEN got ELSE {})) \cup n.out :
                       /\ q \notin Absent /\ <<m.type, m.src, q, m.hr>> \notin Late
                       /\ Wanted(new[q], m)}]

Running(p) ==
  /\ node[p].on /\ ~node[p].crashed /\ ~node[p].proposing
  /\ node[p].hr \in HeightRound

\* BFT.loop, on the start signal
Start(p) ==
  /\ ~node[p].on /\ ~node[p].crashed /\ p \notin Absent
  /\ Settle(p, StartNewEra([node[p] EXCEPT !.on = TRUE], p, ledger[p],
                           ledger[p], 0), {})
  /\ UNCHANGED ledger

\* The rest of StartNewEra for the proposer: GetValue sleeps and asks
\* ProduceProposal for a sequencer on top of the ledger as it is by then.
ProposeValue(p) ==
  LET n == node[p]
      s == State(n)
      v == IF s.validValue # NilValue
             THEN s.validValue ELSE <<n.hr[1], n.hr[2], ledger[p] + 1>>
  IN /\ n.proposing /\ ~n.crashed
     /\ Settle(p, Broadcast([n EXCEPT !.proposing = FALSE], p, "proposal",
                            n.hr, v), {})
     /\ UNCHANGED ledger

Receive(p, m) ==
  /\ Running(p)
  /\ m \in inbox[p]
  /\ \E spoilt \in BOOLEAN :
       Settle(p, HandleMessage(node[p], p, ledger[p], m, spoilt), {m})
  /\ UNCHANGED ledger

\* OnTimeoutPropose, OnTimeoutPreVote and OnTimeoutPreCommit, called from
\* receive.  An expiry that finds the partner in another step changes nothing.
OnTimeoutPropose(n, p) ==
  ChangeStep(Broadcast(n, p, "prevote", n.hr, NilValue), PreVote)

OnTimeoutPreVote(n, p) ==
  ChangeStep(Broadcast(n, p, "precommit", n.hr, NilValue), PreCommit)

OnTimeoutPreCommit(n, p, h) == StartNewEra(n, p, h, n.hr[1], n.hr[2] + 1)

Timeout(p, step) ==
  LET n == [node[p] EXCEPT !.timers = @ \ {step},
                           !.armed = IF @ = step THEN -1 ELSE @]
  IN /\ Running(p)
     /\ step \in node[p].timers
     /\ \/ /\ step = Propose /\ State(n).step = Propose
           /\ Settle(p, OnTimeoutPropose(n, p), {})
        \/ /\ step = PreVote /\ State(n).step = PreVote
           /\ Settle(p, OnTimeoutPreVote(n, p), {})
        \/ /\ step = PreCommit
           /\ Settle(p, OnTimeoutPreCommit(n, p, ledger[p]), {})
     /\ UNCHANGED ledger

Decided == UNION {node[p].decisions : p \in Partner}

\* A decided sequencer reaches p's dag, through its own pool or from a peer.
LedgerGrows(p) ==
  /\ \E d \in Decided : d.ok /\ d.value[3] = ledger[p] + 1
  /\ node[p].on
  /\ ledger' = [ledger EXCEPT ![p] = @ + 1]
  /\ UNCHANGED <<node, inbox, sent>>

\* HandleConsensusProposal, -PreVote, -PreCommit: "bft not started yet"
LoseEarly(p, m) ==
  /\ Early /\ ~node[p].on
  /\ m \in inbox[p]
  /\ inbox' = [inbox EXCEPT ![p] = @ \ {m}]
  /\ UNCHANGED <<node, ledger, sent>>

Crash(p) ==
  /\ Cardinality({q \in Partner : node[q].crashed}) < MaxCrashes
  /\ ~node[p].crashed /\ p \notin Absent
  /\ node' = [node EXCEPT ![p] = [Idle EXCEPT !.crashed = TRUE,
                                              !.decisions = node[p].decisions]]
  /\ inbox' = [inbox EXCEPT ![p] = {}]
  /\ UNCHANGED <<ledger, sent>>

Init ==
  /\ node = [p \in Partner |-> Idle]
  /\ ledger = [p \in Partner |-> 0]
  /\ inbox = [p \in Partner |-> {}]
  /\ sent = {}

\* A partner is past the heights and rounds played.
Over == \E p \in Partner : node[p].hr \notin HeightRound

Next ==
  \E p \in Partner :
    \/ Start(p) \/ ProposeValue(p) \/ LedgerGrows(p) \/ Crash(p)
    \/ \E m \in inbox[p] : Receive(p, m) \/ LoseEarly(p, m)
    \/ \E step \in {Propose, PreVote, PreCommit} : Timeout(p, step)

Spec == Init /\ [][Next]_vars

\* The goroutines of a partner that is up run, what was sent arrives, and a
\* timer that is not cancelled expires.  (Weak fairness of the partner's steps,
\* with their enabling condition spelt out.)
CanStep(p) ==
  LET n == node[p]
  IN /\ ~n.crashed /\ p \notin Absent /\ n.hr \in HeightRound
     /\ ~n.on \/ n.proposing \/ inbox[p] # {} \/ n.armed # -1

Step(p) ==
  \/ Start(p) \/ ProposeValue(p) \/ Timeout(p, node[p].armed)
  \/ \E m \in inbox[p] : Receive(p, m)

Fairness ==
  \A p \in Partner : []<>(~CanStep(p)) \/ []<><<Step(p)>>_vars

FairSpec == Spec /\ Fairness

-----------------------------------------------------------------------------
Message == [type : {"proposal", "prevote", "precommit"}, hr : HeightRound,
            src : Partner, value : Value \cup {NilValue}]

\* The type of the state.  A partner has asked its waiter only for the steps
\* up to the current request, whose timer is the only one that can be running.
TypeOK ==
  /\ ledger \in [Partner -> 0 .. MaxHeight + 2]
  /\ sent \subseteq Message
  /\ inbox \in [Partner -> SUBSET sent]
  /\ \A p \in Partner :
       LET n == node[p]
       IN /\ n.request \in -1 .. 2
          /\ n.armed \in {-1, n.request}
          /\ n.timers \subseteq 0 .. n.request
          /\ n.out = {}
          /\ \A hr \in HeightRound :
               n.states[hr].sources \subseteq Partner

\* A running timer for the propose or the prevote step is for the step the
\* partner is in: changeStep cancels what it overtakes, so that an expiry that
\* is not stale always has an effect.
TimerMatchesStep ==
  \A p \in Partner :
    LET n == node[p]
    IN n.armed \in {Propose, PreVote} => n.armed = State(n).step

\* The partners that sent a message of this type in hr with a value in V.
Senders(type, hr, V) ==
  {m.src : m \in {k \in sent : k.type = type /\ k.hr = hr /\ k.value \in V}}

\* Agreement: two decisions for the same height are for the same value,
\* whichever partners and rounds they come from (handlePreCommit, line 49).
Agreement ==
  \A d, e \in Decided : d.hr[1] = e.hr[1] => d.value = e.value

\* A decision is backed by a majority of partners that precommitted the value
\* in that very round, and the value is the one that round's proposer sent.
DecisionBacked ==
  \A d \in Decided :
    /\ Cardinality(Senders("precommit", d.hr, {d.value})) >= Maj23
    /\ Senders("proposal", d.hr, {d.value}) = {Proposer(d.hr)}

\* No partner precommits, a value or nil, in a round in which fewer than a
\* majority has prevoted: neither rule 36 and 44 nor the prevote timer of rule
\* 34 lets it get ahead of the others.
PreCommitBacked ==
  \A m \in sent :
    m.type = "precommit" =>
      Cardinality(Senders("prevote", m.hr, AllValues)) >= Maj23

\* No partner gets into a later round unless a majority has precommitted in
\* the round before it, nor to a later height unless the height before was
\* decided: timeouts (rule 47) and catching up (rule 55) do not start a round
\* on the word of a minority.
RoundBacked ==
  \A p \in Partner :
    LET hr == node[p].hr
    IN /\ hr[2] > 0 =>
            \E h \in 0 .. hr[1] :
              Cardinality(Senders("precommit", <<h, hr[2] - 1>>, AllValues))
                >= Maj23
       /\ hr[1] > 0 => \E d \in Decided : d.ok /\ d.hr[1] < hr[1]

\* Somebody can always go on: a partner has a message to handle, a value to
\* propose or a timer running, or is yet to start.  Everybody waiting for
\* votes that nobody is going to send would break this.
NeverStuck ==
  \/ Over
  \/ \E p \in Partner : CanStep(p)

\* A partner's height and round never go back (StartNewEra is called with
\* heights and rounds from messages, timers and the ledger).
NeverBack ==
  [][\A p \in Partner : ~IsAfter(node[p].hr, node'[p].hr) \/ node'[p].crashed]_vars

\* A partner leaves every round it enters, for another round or height.
RoundsAdvance ==
  \A p \in Partner, hr \in HeightRound :
    (node[p].on /\ node[p].hr = hr) ~> (node[p].hr # hr \/ Over)
=============================================================================
