---------------------------- MODULE VerifierRound ----------------------------
(***************************************************************************)
(* The verifiers' six-message round (verify/leader.go) among all verifiers *)
(* of a list, over a network that may lose, repeat, delay and reorder:     *)
(*                                                                         *)
(*   1  leader -> followers   send me your transactions                    *)
(*   2  follower -> leader    my transactions                              *)
(*   3  leader -> followers   the package                                  *)
(*   4  follower -> leader    the indices I cannot validate                *)
(*   5  leader -> followers   all the indices to remove; vote              *)
(*   6  follower -> leader    the vote                                     *)
(*                                                                         *)
(* The leader changes with every block, and each verifier learns of a      *)
(* block on its own time.  A message handler runs in one step here, and    *)
(* the status it posts is taken at once; what goroutines inside one        *)
(* verifier can do to each other is in module VerifierLeader.              *)
(***************************************************************************)
EXTENDS DposVote, FiniteSets

CONSTANTS
    Indices,      \* positions in a package of transactions
    MaxBlock,     \* bound: blocks inserted
    MaxSession,   \* bound: sessions a verifier opens
    MaxLoss,      \* bound: messages lost
    MaxDup,       \* bound: messages delivered twice
    MaxStale,     \* bound: timers a verifier has left behind
    Synchronous   \* TRUE: a round is faster than its timers, nobody learns of a block
                  \* during a round, and nobody gets two blocks ahead of another

NoNode == "no node"

ASSUME RoundAssumption ==
    /\ Verifiers # {} /\ IsFiniteSet(Verifiers) /\ NoNode \notin Verifiers
    /\ MaxBlock \in Nat /\ MaxSession \in Nat /\ MaxLoss \in Nat /\ MaxDup \in Nat
    /\ MaxStale \in Nat
    /\ Synchronous \in BOOLEAN

VARIABLES
    height,    \* [Verifiers -> the last block the verifier was notified of]
    lead,      \* [Verifiers -> leadNodeInfo], or NoNode before the first block
    sess,      \* [Verifiers -> what the verifier keeps as a leader]
    invalid,   \* [Verifiers -> followerInvalidTxsList]
    replies,   \* goroutines of followers about to answer
    net,       \* messages in flight
    results,   \* what was sent to the miners
    faults     \* bound: how often the network lost or repeated a message

vars == <<height, lead, sess, invalid, replies, net, results, faults>>

sessionIdle   == 0
sessionTxmsg1 == 1
sessionRxmsg2 == 2
sessionTxmsg3 == 3
sessionRxmsg4 == 4
sessionTxmsg5 == 5
sessionRxmsg6 == 6
sessionDpos   == 7

\* verifierList sorted by wealth.
SortedVerifiers ==
    CHOOSE s \in Injection(1 .. Cardinality(Verifiers), Verifiers) :
        \A i, j \in DOMAIN s : i < j => Wealth[s[i]] <= Wealth[s[j]]

\* electionLeader: the entry at blockHeight % len(verifierList).
ElectionLeader(block) ==
    SortedVerifiers[(block % Cardinality(Verifiers)) + 1]

IsLeader(n) == lead[n] = n

\* A message.  The session it belongs to is not transmitted by the code: it
\* serves the properties only.
Msg(type, from, to, session, list, result) ==
    [type |-> type, from |-> from, to |-> to, session |-> session,
     list |-> list, result |-> result]

\* A vote in vrlist, and the session whose request it answers.
Ballot(node, result, session) ==
    [NodeId |-> node, Result |-> result, session |-> session]

Init ==
    /\ height = [n \in Verifiers |-> 0]
    /\ lead = [n \in Verifiers |-> NoNode]
    /\ sess = [n \in Verifiers |->
                  [state |-> sessionIdle, rxMsgCount |-> 0, rxMsg2 |-> 0, rxMsg4 |-> 0,
                   remove |-> {}, vrlist |-> <<>>, opened |-> 0,
                   armed |-> FALSE, stale |-> 0]]
    /\ invalid = [n \in Verifiers |-> {}]
    /\ replies = {}
    /\ net = {}
    /\ results = {}
    /\ faults = [loss |-> 0, dup |-> 0]

-----------------------------------------------------------------------------
(* leaderNewProcess: leaderNewRun on the state s, then the timer.          *)

\* The timer of the round before, if it still sleeps, is left behind: only
\* TIMEIN stops a timer.
NextTimer(s, armed) ==
    [s EXCEPT !.armed = armed,
              !.stale = IF s.armed /\ @ < MaxStale THEN @ + 1 ELSE @]

OwnVote(n, s) == Append(s.vrlist, Ballot(n, TRUE, <<n, s.opened>>))

\* Mutant: the votes of the session before are kept.
SendMsg1KeepsVotes(s) == [s EXCEPT !.state = sessionRxmsg2, !.opened = @ + 1]

SendMsg1(s) == [s EXCEPT !.state = sessionRxmsg2, !.vrlist = <<>>, !.opened = @ + 1]

\* Mutant: the session stays open when the votes have been counted.
RunStateStaysOpen(n, s) ==
    CASE s.state = sessionTxmsg1 -> NextTimer(SendMsg1(s), TRUE)
      [] s.state = sessionTxmsg3 -> NextTimer([s EXCEPT !.state = sessionRxmsg4], TRUE)
      [] s.state = sessionTxmsg5 -> NextTimer([s EXCEPT !.state = sessionRxmsg6], TRUE)
      [] s.state = sessionDpos -> NextTimer([s EXCEPT !.vrlist = OwnVote(n, s)], FALSE)

RunState(n, s) ==
    CASE s.state = sessionTxmsg1 -> NextTimer(SendMsg1(s), TRUE)
      [] s.state = sessionTxmsg3 -> NextTimer([s EXCEPT !.state = sessionRxmsg4], TRUE)
      [] s.state = sessionTxmsg5 -> NextTimer([s EXCEPT !.state = sessionRxmsg6], TRUE)
      [] s.state = sessionDpos ->
            NextTimer([s EXCEPT !.state = sessionIdle, !.vrlist = OwnVote(n, s)], FALSE)

\* What the run sends, to every verifier but the one it takes for the leader: the
\* state has the number of the message.
RunMsgs(n, s, leader) ==
    LET session == <<n, IF s.state = sessionTxmsg1 THEN s.opened + 1 ELSE s.opened>>
        list    == IF s.state = sessionTxmsg5 THEN s.remove ELSE {}
        to      == IF s.state = sessionDpos THEN {} ELSE Verifiers \ {leader}
    IN  {Msg(s.state, n, f, session, list, TRUE) : f \in to}

\* The verifiers that take n for the leader, n included.
Following(n) == {v \in Verifiers : lead[v] = n}

\* makeDPOS: the package of sendMsg1 goes to the miners when the votes pass.  Who
\* follows the leader, and how many have answered it, serves the properties only.
RunResults(n, s) ==
    IF s.state = sessionDpos /\ DposTx(OwnVote(n, s))
    THEN {[session |-> <<n, s.opened>>, votes |-> OwnVote(n, s), answered |-> s.rxMsg2,
           following |-> Following(n)]}
    ELSE {}

\* One turn of the loop; flight is what stays in the network.
Run(n, s, leader, flight) ==
    /\ s.state = sessionTxmsg1 => s.opened < MaxSession
    /\ sess' = [sess EXCEPT ![n] = RunState(n, s)]
    /\ net' = flight \cup RunMsgs(n, s, leader)
    /\ results' = results \cup RunResults(n, s)

\* TIMEIN stops the timer, unless that is past its check and about to send.
StopTimer(s) ==
    {[s EXCEPT !.armed = FALSE]} \cup
    (IF ~Synchronous /\ s.armed /\ s.stale < MaxStale
     THEN {[s EXCEPT !.armed = FALSE, !.stale = @ + 1]} ELSE {})

TimeIn(n, s, flight) ==
    \E t \in StopTimer(s) :
        Run(n, [t EXCEPT !.state = @ + 1, !.rxMsgCount = 0], lead[n], flight)

TimeOut(n, s) ==
    LET t == IF s.rxMsgCount = 0
             THEN [s EXCEPT !.state = sessionDpos]
             ELSE [s EXCEPT !.state = @ + 1, !.rxMsgCount = 0]
    IN  /\ Run(n, t, lead[n], net)
        /\ UNCHANGED <<height, lead, invalid, replies, faults>>

\* Nothing is on its way to or from a verifier.
Quiet == net = {} /\ replies = {}

\* The timer armed last fires.
Timeout(n) ==
    /\ sess[n].armed
    /\ Synchronous => Quiet
    /\ TimeOut(n, [sess[n] EXCEPT !.armed = FALSE])

\* A timer left behind fires, in whatever state the session is by now.
StaleTimeout(n) ==
    /\ sess[n].stale > 0
    /\ TimeOut(n, [sess[n] EXCEPT !.stale = @ - 1])

-----------------------------------------------------------------------------
(* waitForScheduler.                                                       *)

\* Mutant: waitForScheduler without the switch on the role.
OpensWhateverRole(n, elected) == sess[n].state = sessionIdle

\* The leader of the block opens a session if it has none open.
Opens(n, elected) == elected = n /\ sess[n].state = sessionIdle

Notify(n) ==
    LET block == height[n] + 1
        elected == ElectionLeader(block)
        s == sess[n]
    IN  /\ block <= MaxBlock
        /\ Synchronous => /\ Quiet
                          /\ \A v \in Verifiers : sess[v].state = sessionIdle
                          /\ \A v \in Verifiers : height[v] >= height[n]
        /\ height' = [height EXCEPT ![n] = block]
        /\ lead' = [lead EXCEPT ![n] = elected]
        /\ \/ /\ Opens(n, elected)
              /\ Run(n, [s EXCEPT !.state = sessionTxmsg1, !.rxMsg2 = 0, !.rxMsg4 = 0], n, net)
           \/ /\ ~Opens(n, elected)
              /\ UNCHANGED <<sess, net, results>>
        /\ UNCHANGED <<invalid, replies, faults>>

-----------------------------------------------------------------------------
(* The network: a message is lost, or delivered and perhaps kept to be     *)
(* delivered again.                                                        *)

Lose(m) ==
    /\ faults.loss < MaxLoss
    /\ faults' = [faults EXCEPT !.loss = @ + 1]
    /\ net' = net \ {m}
    /\ UNCHANGED <<height, lead, sess, invalid, replies, results>>

\* The handler of m leaves flight in the network.
Deliver(m, flight) ==
    \/ /\ flight = net \ {m}
       /\ UNCHANGED faults
    \/ /\ flight = net
       /\ faults.dup < MaxDup
       /\ faults' = [faults EXCEPT !.dup = @ + 1]

-----------------------------------------------------------------------------
(* leaderProcessMsg.                                                       *)

\* The answer is counted in s, and the count that meets the expected number is
\* TIMEIN.
Count(n, s, expected, flight) ==
    LET t == [s EXCEPT !.rxMsgCount = @ + 1]
    IN  \/ /\ t.rxMsgCount = expected
           /\ TimeIn(n, t, flight)
        \/ /\ t.rxMsgCount # expected
           /\ sess' = [sess EXCEPT ![n] = t]
           /\ net' = flight
           /\ UNCHANGED results

LeaderMsg2(m, flight) ==
    /\ m.type = 2
    /\ sess[m.to].state = sessionRxmsg2
    /\ Count(m.to, [sess[m.to] EXCEPT !.rxMsg2 = @ + 1], Cardinality(Verifiers) - 1, flight)

\* Mutant: the wait for answers ends one too early.
LeaderMsg4OneShort(m, flight) ==
    /\ m.type = 4
    /\ sess[m.to].state = sessionRxmsg4
    /\ Count(m.to, [sess[m.to] EXCEPT !.rxMsg4 = @ + 1, !.remove = @ \cup m.list],
             sess[m.to].rxMsg2 - 1, flight)

LeaderMsg4(m, flight) ==
    /\ m.type = 4
    /\ sess[m.to].state = sessionRxmsg4
    /\ Count(m.to, [sess[m.to] EXCEPT !.rxMsg4 = @ + 1, !.remove = @ \cup m.list],
             sess[m.to].rxMsg2, flight)

\* A vote that nobody waits for is not kept, and counted all the same.
LeaderMsg6(m, flight) ==
    LET s == sess[m.to]
        kept == [s EXCEPT !.vrlist = Append(@, Ballot(m.from, m.result, m.session))]
    IN  /\ m.type = 6
        /\ Count(m.to, IF s.state = sessionRxmsg6 THEN kept ELSE s, s.rxMsg4, flight)

LeaderProcessMsg(m, flight) ==
    /\ IsLeader(m.to)
    /\ LeaderMsg2(m, flight) \/ LeaderMsg4(m, flight) \/ LeaderMsg6(m, flight)
    /\ UNCHANGED <<height, lead, invalid, replies>>

-----------------------------------------------------------------------------
(* followerProcessMsg and followerProcess.  The answer is sent by a        *)
(* goroutine of its own, to the leader it then finds in leadNodeInfo.      *)

Answer(m, list) == replies' = replies \cup {[node |-> m.to, type |-> m.type + 1,
                                             session |-> m.session, list |-> list]}

\* Transactions are asked for.
FollowerMsg1(m) ==
    /\ m.type = 1
    /\ invalid' = [invalid EXCEPT ![m.to] = {}]
    /\ Answer(m, {})

\* Mutant: positions counted from one.
FollowerMsg3FromOne(m) ==
    /\ m.type = 3
    /\ \E bad \in SUBSET Indices :
          /\ invalid' = [invalid EXCEPT ![m.to] = {k + 1 : k \in bad}]
          /\ Answer(m, {k + 1 : k \in bad})

\* A package to validate: any of it may fail.
FollowerMsg3(m) ==
    /\ m.type = 3
    /\ \E bad \in SUBSET Indices :
          /\ invalid' = [invalid EXCEPT ![m.to] = bad]
          /\ Answer(m, bad)

\* A vote is asked for.
FollowerMsg5(m) ==
    /\ m.type = 5
    /\ Answer(m, m.list)
    /\ UNCHANGED invalid

FollowerProcessMsg(m, flight) ==
    /\ ~IsLeader(m.to)
    /\ lead[m.to] = m.from
    /\ FollowerMsg1(m) \/ FollowerMsg3(m) \/ FollowerMsg5(m)
    /\ net' = flight
    /\ UNCHANGED <<height, lead, sess, results>>

\* Mutant: the two lists of voteToTx are swapped.
VoteToTxSwapped(node, list) == list \subseteq invalid[node]

\* voteToTx: the follower agrees when all it found invalid is to be removed.
VoteToTx(node, list) == invalid[node] \subseteq list

SendReply(r) ==
    /\ replies' = replies \ {r}
    /\ net' = net \cup {Msg(r.type, r.node, lead[r.node], r.session,
                            IF r.type = 4 THEN r.list ELSE {},
                            r.type = 6 => VoteToTx(r.node, r.list))}
    /\ UNCHANGED <<height, lead, sess, invalid, results, faults>>

\* A message its receiver has no use for.
Dropped(m) ==
    \/ IsLeader(m.to) /\ m.type \in {1, 3, 5}
    \/ IsLeader(m.to) /\ m.type \in {2, 4} /\ sess[m.to].state # m.type
    \/ ~IsLeader(m.to) /\ (lead[m.to] # m.from \/ m.type \in {2, 4, 6})

Drop(m, flight) ==
    /\ Dropped(m)
    /\ net' = flight
    /\ UNCHANGED <<height, lead, sess, invalid, replies, results>>

Receive(m) ==
    \E flight \in {net, net \ {m}} :
        /\ Deliver(m, flight)
        /\ LeaderProcessMsg(m, flight) \/ FollowerProcessMsg(m, flight) \/ Drop(m, flight)

-----------------------------------------------------------------------------
Next ==
    \/ \E n \in Verifiers : Notify(n) \/ Timeout(n) \/ StaleTimeout(n)
    \/ \E m \in net : Receive(m) \/ Lose(m)
    \/ \E r \in replies : SendReply(r)

Spec == Init /\ [][Next]_vars

\* Blocks arrive, messages that are not lost are delivered, goroutines run and
\* timers fire.
FairSpec ==
    /\ Spec
    /\ WF_vars(\E n \in Verifiers : Notify(n))
    /\ WF_vars(\E m \in net : Receive(m))
    /\ WF_vars(\E r \in replies : SendReply(r))
    /\ \A n \in Verifiers : WF_vars(Timeout(n))
-----------------------------------------------------------------------------
(* Properties.                                                             *)

\* Types of the round's state.
TypeOK ==
    /\ height \in [Verifiers -> 0 .. MaxBlock]
    /\ lead \in [Verifiers -> Verifiers \cup {NoNode}]
    /\ \A n \in Verifiers :
          /\ sess[n].state \in {sessionIdle, sessionRxmsg2, sessionRxmsg4, sessionRxmsg6}
          /\ sess[n].remove \subseteq Indices
          /\ sess[n].stale \in 0 .. MaxStale
    /\ invalid \in [Verifiers -> SUBSET Indices]

\* The votes that a result rests on were cast in its own session: that is what
\* sendMsg1 clears vrlist for.
VotesOfThisSession ==
    \A r \in results : \A i \in DOMAIN r.votes : r.votes[i].session = r.session

\* A synchronous round is decided by those who follow its leader, and no others: each
\* votes exactly once and agrees, because all that any of them found invalid has
\* reached the leader and came back to be removed (leaderProcessMsg, voteToTx).  The
\* leader may be the first to learn of its block: a verifier that has not yet drops
\* its requests (followerProcessMsg), and the leader goes on without it.
FollowersVoteOnce ==
    \A r \in results :
        /\ Len(r.votes) = Cardinality(r.following)
        /\ \A v \in r.following :
              \E i \in DOMAIN r.votes : r.votes[i].NodeId = v /\ r.votes[i].Result

\* The leader decides on its vote alone only when "no followers alive" answered
\* it (verify/leader.go:260, leaderNewProcess, a TIMEOUT with a count of zero).
AloneIfNobodyAlive ==
    \A r \in results : Len(r.votes) = 1 => r.answered = 0

\* A verifier that was never elected sends nothing to the miners
\* (electionLeader, receiveP2PMsg): whatever is late or repeated, a result is
\* of a leader of a block the verifier has seen.
OnlyElectedDecide ==
    \A r \in results :
        \E block \in 1 .. height[r.session[1]] : ElectionLeader(block) = r.session[1]

\* The block that everyone has learned of, and the last that its leader has.
Lowest(heights) ==
    CHOOSE h \in {heights[v] : v \in Verifiers} : \A v \in Verifiers : h <= heights[v]

Opened(heights) ==
    LET next == Lowest(heights) + 1
    IN  IF heights[ElectionLeader(next)] >= next THEN next ELSE next - 1

Decided == {r.session : r \in results}

\* The abstract decider.  A block is open once its leader has been notified.
Decision == INSTANCE BlockDecision WITH
    Leader <- ElectionLeader, block <- Opened(height), decided <- Decided

\* In a synchronous system the verifiers are one sequential decider
\* (BlockDecision): the leader of each block in the rotation (electionLeader)
\* opens its session after the one before is decided (waitForScheduler), and
\* decides it once (makeDPOS).
DecidesBlocksInOrder == Decision!Safety

\* And it goes on: an open session is decided in the end, and the next block then
\* finds everyone at rest and opens its own (leaderNewProcess, waitForScheduler).
EveryBlockDecided == Decision!Fairness
=============================================================================
