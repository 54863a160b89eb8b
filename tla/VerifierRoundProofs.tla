------------------------- MODULE VerifierRoundProofs -------------------------
(***************************************************************************)
(* The verifiers' round for every list of verifiers: the rotation of the   *)
(* leaders is well defined, and only an elected verifier decides, whatever *)
(* the network loses, repeats, delays or reorders and whatever timer fires *)
(* late.  While the network loses nothing, rounds are faster than timers   *)
(* and nobody learns of a block during a round, every session is decided   *)
(* by one vote, cast in it, of each verifier that follows its leader, and  *)
(* the verifiers implement the sequential decider of BlockDecision.        *)
(***************************************************************************)
EXTENDS VerifierRound, FiniteSetTheorems, FunctionTheorems, SequenceTheorems,
        WellFoundedInduction, TLAPS

-----------------------------------------------------------------------------
(* electionLeader.                                                         *)

\* A set of natural numbers has a least element.
LEMMA LeastNat ==
    ASSUME NEW T, T \subseteq Nat, T # {}
    PROVE  \E x \in T : \A y \in T : x <= y
<1>1. PICK x \in T : \A y \in T : ~(<<y, x>> \in OpToRel(<, Nat))
  BY NatLessThanWellFounded, WFMin
<1>2. \A y \in T : ~(y < x)
  BY <1>1 DEF OpToRel
<1> QED
  BY <1>2

\* A list of the members of T, the poorest first.
SortsByWealth(s, T) ==
    /\ s \in Injection(1 .. Cardinality(T), T)
    /\ \A i, j \in DOMAIN s : i < j => Wealth[s[i]] <= Wealth[s[j]]

\* The richest of some verifiers.
LEMMA Richest ==
    ASSUME NEW T \in SUBSET Verifiers, T # {}
    PROVE  \E x \in T : \A y \in T : Wealth[y] <= Wealth[x]
<1> DEFINE U == {WordLimit - Wealth[t] : t \in T}
<1>1. U \subseteq Nat /\ U # {}
  BY WealthAssumption
<1>2. PICK u \in U : \A y \in U : u <= y
  BY <1>1, LeastNat
<1>3. PICK x \in T : u = WordLimit - Wealth[x]
  BY <1>2
<1>4. \A y \in T : WordLimit - Wealth[x] <= WordLimit - Wealth[y]
  BY <1>2, <1>3
<1> QED
  BY <1>3, <1>4, WealthAssumption

\* Any verifiers can be sorted (verify/leader.go, electionLeader, sort.Sort): the
\* richest goes behind the others, and there is no least number that cannot.
LEMMA Sortable ==
    ASSUME NEW T \in SUBSET Verifiers
    PROVE  \E s : SortsByWealth(s, T)
<1> DEFINE Bad == {n \in Nat : \E U \in SUBSET Verifiers :
                                  Cardinality(U) = n /\ ~\E s : SortsByWealth(s, U)}
<1>1. ASSUME Bad # {}
      PROVE  FALSE
  <2>1. PICK n \in Bad : \A m \in Bad : n <= m
    BY <1>1, LeastNat
  <2>2. PICK U \in SUBSET Verifiers : Cardinality(U) = n /\ ~\E s : SortsByWealth(s, U)
    BY <2>1
  <2>3. IsFiniteSet(U)
    BY RoundAssumption, FS_Subset
  <2>4. U # {}
    <3>1. ASSUME U = {}
          PROVE  FALSE
      <4>1. Cardinality(U) = 0
        BY <3>1, FS_EmptySet
      <4>2. 1 .. 0 = {}
        OBVIOUS
      <4>3. [i \in 1 .. 0 |-> i] \in [1 .. 0 -> U]
        BY <4>2
      <4>4. [i \in 1 .. 0 |-> i] \in Injection(1 .. 0, U)
        BY <4>2, <4>3, Fun_IsInj
      <4>5. SortsByWealth([i \in 1 .. 0 |-> i], U)
        BY <4>1, <4>2, <4>4 DEF SortsByWealth
      <4> QED
        BY <2>2, <4>5
    <3> QED
      BY <3>1
  <2>5. PICK x \in U : \A y \in U : Wealth[y] <= Wealth[x]
    BY <2>4, Richest
  <2>6. Cardinality(U \ {x}) = n - 1 /\ n - 1 \in Nat
    <3>1. Cardinality(U \ {x}) = n - 1
      BY <2>2, <2>3, <2>5, FS_RemoveElement
    <3>2. Cardinality(U \ {x}) \in Nat
      BY <2>3, FS_RemoveElement, FS_CardinalityType
    <3> QED
      BY <3>1, <3>2
  <2>7. n - 1 \notin Bad
    BY <2>1, <2>6
  <2>8. PICK s : SortsByWealth(s, U \ {x})
    BY <2>6, <2>7
  <2> DEFINE t == [i \in 1 .. n |-> IF i = n THEN x ELSE s[i]]
  <2>9. /\ s \in [1 .. n - 1 -> U \ {x}]
        /\ \A i, j \in 1 .. n - 1 : s[i] = s[j] => i = j
        /\ \A i, j \in 1 .. n - 1 : i < j => Wealth[s[i]] <= Wealth[s[j]]
    BY <2>6, <2>8, Fun_InjectionProperties DEF SortsByWealth
  <2>10. t \in [1 .. n -> U]
    BY <2>5, <2>9
  <2>11. \A i, j \in 1 .. n : t[i] = t[j] => i = j
    BY <2>9
  <2>12. \A i, j \in 1 .. n : i < j => Wealth[t[i]] <= Wealth[t[j]]
    BY <2>5, <2>9
  <2>13. t \in Injection(1 .. n, U)
    BY <2>10, <2>11, Fun_IsInj
  <2>14. SortsByWealth(t, U)
    BY <2>2, <2>10, <2>12, <2>13 DEF SortsByWealth
  <2> QED
    BY <2>2, <2>14
<1>2. Cardinality(T) \in Nat
  BY RoundAssumption, FS_Subset, FS_CardinalityType
<1> QED
  BY <1>1, <1>2

\* Every block has a leader, and it is one of the verifiers.
LEMMA LeaderIsVerifier ==
    ASSUME NEW block \in Nat
    PROVE  ElectionLeader(block) \in Verifiers
<1>1. PICK s : SortsByWealth(s, Verifiers)
  BY Sortable
<1>2. SortedVerifiers \in Injection(1 .. Cardinality(Verifiers), Verifiers)
  BY <1>1 DEF SortedVerifiers, SortsByWealth
<1>3. SortedVerifiers \in [1 .. Cardinality(Verifiers) -> Verifiers]
  BY <1>2, Fun_InjectionProperties
<1>4. Cardinality(Verifiers) \in Nat \ {0}
  BY RoundAssumption, FS_CardinalityType, FS_EmptySet
<1>5. (block % Cardinality(Verifiers)) + 1 \in 1 .. Cardinality(Verifiers)
  BY <1>4
<1> QED
  BY <1>3, <1>5 DEF ElectionLeader

-----------------------------------------------------------------------------
(* Types.  The state of a session is idle or waiting whenever the loop is  *)
(* not in a turn; in a turn it is one of the others.                       *)

Waiting == {sessionIdle, sessionRxmsg2, sessionRxmsg4, sessionRxmsg6}
Turning == {sessionTxmsg1, sessionTxmsg3, sessionTxmsg5, sessionDpos}

SessionIds == Verifiers \X Nat
Ballots == [NodeId : Verifiers, Result : BOOLEAN, session : SessionIds]
Sessions(states) ==
    [state : states, rxMsgCount : Nat, rxMsg2 : Nat, rxMsg4 : Nat, remove : SUBSET Indices,
     vrlist : Seq(Ballots), opened : Nat, armed : BOOLEAN, stale : 0 .. MaxStale]
Messages ==
    [type : 1 .. 6, from : Verifiers, to : Verifiers, session : SessionIds,
     list : SUBSET Indices, result : BOOLEAN]
Answers == [node : Verifiers, type : {2, 4, 6}, session : SessionIds, list : SUBSET Indices]

TypeInv ==
    /\ height \in [Verifiers -> 0 .. MaxBlock]
    /\ lead \in [Verifiers -> Verifiers \cup {NoNode}]
    /\ sess \in [Verifiers -> Sessions(Waiting)]
    /\ invalid \in [Verifiers -> SUBSET Indices]
    /\ replies \subseteq Answers
    /\ net \subseteq Messages
    /\ \A r \in replies : lead[r.node] \in Verifiers

\* A session with some of its fields set.
LEMMA SetFields ==
    ASSUME NEW X, NEW s \in Sessions(X)
    PROVE  /\ \A Y : \A v \in Y : [s EXCEPT !.state = v] \in Sessions(Y)
           /\ \A Y : \A v \in Y, c \in Nat :
                 [s EXCEPT !.state = v, !.rxMsgCount = c] \in Sessions(Y)
           /\ \A Y : \A v \in Y, l \in Seq(Ballots) :
                 [s EXCEPT !.state = v, !.vrlist = l] \in Sessions(Y)
           /\ \A Y : \A v \in Y, l \in Seq(Ballots), o \in Nat :
                 [s EXCEPT !.state = v, !.vrlist = l, !.opened = o] \in Sessions(Y)
           /\ \A Y : \A v \in Y, c, d \in Nat :
                 [s EXCEPT !.state = v, !.rxMsg2 = c, !.rxMsg4 = d] \in Sessions(Y)
           /\ \A a \in BOOLEAN : [s EXCEPT !.armed = a] \in Sessions(X)
           /\ \A w \in 0 .. MaxStale : [s EXCEPT !.stale = w] \in Sessions(X)
           /\ \A a \in BOOLEAN, w \in 0 .. MaxStale :
                 [s EXCEPT !.armed = a, !.stale = w] \in Sessions(X)
           /\ \A c \in Nat : [s EXCEPT !.rxMsgCount = c] \in Sessions(X)
           /\ \A c \in Nat : [s EXCEPT !.rxMsg2 = c] \in Sessions(X)
           /\ \A c \in Nat, S \in SUBSET Indices :
                 [s EXCEPT !.rxMsg4 = c, !.remove = S] \in Sessions(X)
           /\ \A l \in Seq(Ballots) : [s EXCEPT !.vrlist = l] \in Sessions(X)
  BY DEF Sessions

\* A timer that is left behind.
LEMMA NextTimerType ==
    ASSUME NEW s \in Sessions(Waiting), NEW armed \in BOOLEAN
    PROVE  NextTimer(s, armed) \in Sessions(Waiting)
<1>1. PICK w : w = IF s.armed /\ s.stale < MaxStale THEN s.stale + 1 ELSE s.stale
  OBVIOUS
<1>2. w \in 0 .. MaxStale
  BY <1>1, RoundAssumption DEF Sessions
<1>3. NextTimer(s, armed) = [s EXCEPT !.armed = armed, !.stale = w]
  BY <1>1 DEF NextTimer
<1>4. [s EXCEPT !.armed = armed, !.stale = w] \in Sessions(Waiting)
  BY <1>2 DEF Sessions
<1> QED
  BY <1>3, <1>4

\* The loop leaves the session idle or waiting (verify/leader.go, leaderNewRun).
LEMMA RunStateType ==
    ASSUME NEW n \in Verifiers, NEW s \in Sessions(Turning)
    PROVE  RunState(n, s) \in Sessions(Waiting)
<1>1. OwnVote(n, s) \in Seq(Ballots) /\ <<>> \in Seq(Ballots) /\ s.opened + 1 \in Nat
  BY DEF OwnVote, Sessions, Ballot, Ballots, SessionIds
<1>2. /\ SendMsg1(s) \in Sessions(Waiting)
      /\ [s EXCEPT !.state = sessionRxmsg4] \in Sessions(Waiting)
      /\ [s EXCEPT !.state = sessionRxmsg6] \in Sessions(Waiting)
      /\ [s EXCEPT !.state = sessionIdle, !.vrlist = OwnVote(n, s)] \in Sessions(Waiting)
  <2>1. {sessionIdle, sessionRxmsg2, sessionRxmsg4, sessionRxmsg6} \subseteq Waiting
    BY DEF Waiting
  <2>2. SendMsg1(s) \in Sessions(Waiting)
    BY <1>1, <2>1, SetFields DEF SendMsg1
  <2> QED
    BY <1>1, <2>1, <2>2, SetFields
<1>3. RunState(n, s) \in {NextTimer(SendMsg1(s), TRUE),
                          NextTimer([s EXCEPT !.state = sessionRxmsg4], TRUE),
                          NextTimer([s EXCEPT !.state = sessionRxmsg6], TRUE),
                          NextTimer([s EXCEPT !.state = sessionIdle, !.vrlist = OwnVote(n, s)], FALSE)}
  BY DEF RunState, Sessions, Turning, sessionTxmsg1, sessionTxmsg3, sessionTxmsg5, sessionDpos
<1> QED
  BY <1>2, <1>3, NextTimerType

\* What a turn sends are messages of the session to verifiers (sendMsg1, sendMsg3
\* and sendMsg5).
LEMMA RunMsgsType ==
    ASSUME NEW n \in Verifiers, NEW s \in Sessions(Turning), NEW leader
    PROVE  RunMsgs(n, s, leader) \subseteq Messages
<1> SUFFICES ASSUME NEW m \in RunMsgs(n, s, leader)
             PROVE  m \in Messages
  OBVIOUS
<1>1. PICK session, list, to : 
        /\ session = <<n, IF s.state = sessionTxmsg1 THEN s.opened + 1 ELSE s.opened>>
        /\ list = IF s.state = sessionTxmsg5 THEN s.remove ELSE {}
        /\ to = IF s.state = sessionDpos THEN {} ELSE Verifiers \ {leader}
  OBVIOUS
<1>2. PICK f \in to : m = Msg(s.state, n, f, session, list, TRUE)
  BY <1>1 DEF RunMsgs
<1>3. session \in SessionIds /\ list \in SUBSET Indices /\ f \in Verifiers
  BY <1>1, <1>2 DEF Sessions, SessionIds
<1>4. s.state \in 1 .. 6
  BY <1>1, <1>2 DEF Sessions, Turning, sessionTxmsg1, sessionTxmsg3, sessionTxmsg5
<1> QED
  BY <1>2, <1>3, <1>4 DEF Msg, Messages

\* A turn of the loop, from whatever it was given.
LEMMA RunType ==
    ASSUME TypeInv, NEW n \in Verifiers, NEW s \in Sessions(Turning), NEW leader,
           NEW flight \in SUBSET Messages, Run(n, s, leader, flight)
    PROVE  sess' \in [Verifiers -> Sessions(Waiting)] /\ net' \subseteq Messages
  BY RunStateType, RunMsgsType DEF Run, TypeInv

\* One more than a waiting state is one to turn in: TIMEIN and TIMEOUT.
LEMMA NextTurn ==
    ASSUME NEW s \in Sessions(Waiting)
    PROVE  /\ [s EXCEPT !.state = @ + 1, !.rxMsgCount = 0] \in Sessions(Turning)
           /\ [s EXCEPT !.state = sessionDpos] \in Sessions(Turning)
           /\ [s EXCEPT !.state = sessionTxmsg1, !.rxMsg2 = 0, !.rxMsg4 = 0] \in Sessions(Turning)
<1>1. s.state + 1 \in Turning /\ {sessionDpos, sessionTxmsg1} \subseteq Turning
  BY DEF Sessions, Waiting, Turning, sessionIdle, sessionTxmsg1, sessionRxmsg2, sessionTxmsg3,
         sessionRxmsg4, sessionTxmsg5, sessionRxmsg6, sessionDpos
<1> QED
  BY <1>1, SetFields

\* TIMEIN stops the timer, or leaves it behind.
LEMMA StopTimerType ==
    ASSUME NEW s \in Sessions(Waiting), NEW t \in StopTimer(s)
    PROVE  t \in Sessions(Waiting)
<1>1. s.stale < MaxStale => s.stale + 1 \in 0 .. MaxStale
  BY RoundAssumption DEF Sessions
<1>2. \/ t = [s EXCEPT !.armed = FALSE]
      \/ s.stale < MaxStale /\ t = [s EXCEPT !.armed = FALSE, !.stale = @ + 1]
  BY Zenon DEF StopTimer
<1> QED
  BY <1>1, <1>2 DEF Sessions

LEMMA TimeInType ==
    ASSUME TypeInv, NEW n \in Verifiers, NEW s \in Sessions(Waiting),
           NEW flight \in SUBSET Messages, TimeIn(n, s, flight)
    PROVE  sess' \in [Verifiers -> Sessions(Waiting)] /\ net' \subseteq Messages
<1>1. PICK t \in StopTimer(s) :
        Run(n, [t EXCEPT !.state = @ + 1, !.rxMsgCount = 0], lead[n], flight)
  BY DEF TimeIn
<1>2. [t EXCEPT !.state = @ + 1, !.rxMsgCount = 0] \in Sessions(Turning)
  BY StopTimerType, NextTurn
<1> QED
  BY <1>1, <1>2, RunType

LEMMA TimeOutType ==
    ASSUME TypeInv, NEW n \in Verifiers, NEW s \in Sessions(Waiting), TimeOut(n, s)
    PROVE  TypeInv'
<1>1. PICK t : t = IF s.rxMsgCount = 0 THEN [s EXCEPT !.state = sessionDpos]
                   ELSE [s EXCEPT !.state = @ + 1, !.rxMsgCount = 0]
  OBVIOUS
<1>2. t \in Sessions(Turning)
  BY <1>1, NextTurn
<1>3. Run(n, t, lead[n], net) /\ UNCHANGED <<height, lead, invalid, replies, faults>>
  BY <1>1 DEF TimeOut
<1>4. sess' \in [Verifiers -> Sessions(Waiting)] /\ net' \subseteq Messages
  BY <1>2, <1>3, RunType DEF TypeInv
<1> QED
  BY <1>3, <1>4 DEF TypeInv

LEMMA CountType ==
    ASSUME TypeInv, NEW n \in Verifiers, NEW s \in Sessions(Waiting), NEW expected,
           NEW flight \in SUBSET Messages, Count(n, s, expected, flight)
    PROVE  sess' \in [Verifiers -> Sessions(Waiting)] /\ net' \subseteq Messages
<1>1. PICK t : t = [s EXCEPT !.rxMsgCount = @ + 1]
  OBVIOUS
<1>2. t \in Sessions(Waiting)
  BY <1>1 DEF Sessions
<1>3. CASE TimeIn(n, t, flight)
  BY <1>2, <1>3, TimeInType
<1>4. CASE sess' = [sess EXCEPT ![n] = t] /\ net' = flight
  BY <1>2, <1>4 DEF TypeInv
<1> QED
  BY <1>1, <1>3, <1>4 DEF Count

\* A message handled as the leader (verify/leader.go, leaderProcessMsg).
LEMMA LeaderType ==
    ASSUME TypeInv, NEW m \in Messages, NEW flight \in SUBSET Messages,
           LeaderProcessMsg(m, flight)
    PROVE  TypeInv'
<1>1. m.to \in Verifiers /\ sess[m.to] \in Sessions(Waiting)
  BY DEF TypeInv, Messages
<1>2. sess' \in [Verifiers -> Sessions(Waiting)] /\ net' \subseteq Messages
  <2>1. CASE LeaderMsg2(m, flight)
    <3>1. \A s \in Sessions(Waiting) : [s EXCEPT !.rxMsg2 = @ + 1] \in Sessions(Waiting)
      BY DEF Sessions
    <3> QED
      BY <1>1, <2>1, <3>1, CountType DEF LeaderMsg2
  <2>2. CASE LeaderMsg4(m, flight)
    <3>1. \A s \in Sessions(Waiting), l \in SUBSET Indices :
            [s EXCEPT !.rxMsg4 = @ + 1, !.remove = @ \cup l] \in Sessions(Waiting)
      <4>1. \A s \in Sessions(Waiting), l \in SUBSET Indices :
               s.rxMsg4 + 1 \in Nat /\ s.remove \cup l \in SUBSET Indices
        BY DEF Sessions
      <4> QED
        BY <4>1, SetFields
    <3>2. m.list \in SUBSET Indices
      BY DEF Messages
    <3> QED
      BY <1>1, <2>2, <3>1, <3>2, CountType DEF LeaderMsg4
  <2>3. CASE LeaderMsg6(m, flight)
    <3> DEFINE s == sess[m.to]
    <3>1. Append(s.vrlist, Ballot(m.from, m.result, m.session)) \in Seq(Ballots)
      BY <1>1 DEF Sessions, Messages, Ballot, Ballots
    <3>2. [s EXCEPT !.vrlist = Append(@, Ballot(m.from, m.result, m.session))] \in Sessions(Waiting)
      BY <1>1, <3>1, SetFields
    <3> QED
      BY <1>1, <2>3, <3>2, CountType DEF LeaderMsg6
  <2> QED
    BY <2>1, <2>2, <2>3 DEF LeaderProcessMsg
<1> QED
  BY <1>2 DEF LeaderProcessMsg, TypeInv

\* And as a follower (followerProcessMsg): the answer has a leader to go to.
LEMMA FollowerType ==
    ASSUME TypeInv, NEW m \in Messages, NEW flight \in SUBSET Messages,
           FollowerProcessMsg(m, flight)
    PROVE  TypeInv'
<1>1. m.to \in Verifiers /\ lead[m.to] \in Verifiers
  BY DEF FollowerProcessMsg, Messages
<1>2. ASSUME NEW list \in SUBSET Indices, Answer(m, list), m.type \in {1, 3, 5}
      PROVE  replies' \subseteq Answers /\ \A r \in replies' : lead[r.node] \in Verifiers
  <2>1. [node |-> m.to, type |-> m.type + 1, session |-> m.session, list |-> list] \in Answers
    BY <1>2 DEF Messages, Answers
  <2> QED
    BY <1>1, <1>2, <2>1 DEF Answer, TypeInv
<1>3. /\ replies' \subseteq Answers /\ \A r \in replies' : lead[r.node] \in Verifiers
      /\ invalid' \in [Verifiers -> SUBSET Indices]
  <2>1. CASE FollowerMsg1(m)
    <3>1. Answer(m, {}) /\ m.type \in {1, 3, 5}
      BY <2>1 DEF FollowerMsg1
    <3> QED
      BY <2>1, <1>2, <3>1 DEF FollowerMsg1, TypeInv
  <2>2. CASE FollowerMsg3(m)
    <3>1. PICK bad \in SUBSET Indices : Answer(m, bad) /\ invalid' = [invalid EXCEPT ![m.to] = bad]
      BY <2>2 DEF FollowerMsg3
    <3> QED
      BY <2>2, <1>2, <3>1 DEF FollowerMsg3, TypeInv
  <2>3. CASE FollowerMsg5(m)
    BY <2>3, <1>2 DEF FollowerMsg5, TypeInv, Messages
  <2> QED
    BY <2>1, <2>2, <2>3 DEF FollowerProcessMsg
<1> QED
  BY <1>3 DEF FollowerProcessMsg, TypeInv

LEMMA ReceiveType ==
    ASSUME TypeInv, NEW m \in net, Receive(m)
    PROVE  TypeInv'
<1>1. PICK flight \in {net, net \ {m}} :
         LeaderProcessMsg(m, flight) \/ FollowerProcessMsg(m, flight) \/ Drop(m, flight)
  BY DEF Receive
<1>2. m \in Messages /\ flight \in SUBSET Messages
  BY <1>1 DEF TypeInv
<1>3. CASE Drop(m, flight)
  BY <1>2, <1>3 DEF Drop, TypeInv
<1> QED
  BY <1>1, <1>2, <1>3, LeaderType, FollowerType

LEMMA NotifyType ==
    ASSUME TypeInv, NEW n \in Verifiers, Notify(n)
    PROVE  TypeInv'
<1> DEFINE s == [sess[n] EXCEPT !.state = sessionTxmsg1, !.rxMsg2 = 0, !.rxMsg4 = 0]
<1>1. height[n] + 1 \in 0 .. MaxBlock
  BY RoundAssumption DEF Notify, TypeInv
<1>2. ElectionLeader(height[n] + 1) \in Verifiers
  BY <1>1, LeaderIsVerifier
<1>3. /\ height' \in [Verifiers -> 0 .. MaxBlock]
      /\ lead' \in [Verifiers -> Verifiers \cup {NoNode}]
      /\ \A v \in Verifiers : lead[v] \in Verifiers => lead'[v] \in Verifiers
      /\ UNCHANGED <<invalid, replies, faults>>
  BY <1>1, <1>2 DEF Notify, TypeInv
<1>4. CASE Run(n, s, n, net)
  <2>1. s \in Sessions(Turning)
    BY NextTurn DEF TypeInv
  <2>2. sess' \in [Verifiers -> Sessions(Waiting)] /\ net' \subseteq Messages
    BY <1>4, <2>1, RunType DEF TypeInv
  <2> QED
    BY <1>3, <2>2 DEF TypeInv, Answers
<1>5. CASE UNCHANGED <<sess, net, results>>
  BY <1>3, <1>5 DEF TypeInv, Answers
<1> QED
  BY <1>4, <1>5 DEF Notify

LEMMA SendReplyType ==
    ASSUME TypeInv, NEW r \in replies, SendReply(r)
    PROVE  TypeInv'
<1>1. r \in Answers /\ lead[r.node] \in Verifiers
  BY DEF TypeInv
<1>2. PICK list, vote : /\ list = IF r.type = 4 THEN r.list ELSE {}
                        /\ vote = (r.type = 6 => VoteToTx(r.node, r.list))
  OBVIOUS
<1>3. list \in SUBSET Indices /\ vote \in BOOLEAN
  BY <1>1, <1>2 DEF Answers
<1>4. Msg(r.type, r.node, lead[r.node], r.session, list, vote) \in Messages
  BY <1>1, <1>3 DEF Msg, Messages, Answers
<1>5. net' = net \cup {Msg(r.type, r.node, lead[r.node], r.session, list, vote)}
  BY <1>2 DEF SendReply
<1> QED
  BY <1>4, <1>5 DEF SendReply, TypeInv

LEMMA TypeStep == TypeInv /\ [Next]_vars => TypeInv'
<1> SUFFICES ASSUME TypeInv, [Next]_vars
             PROVE  TypeInv'
  OBVIOUS
<1>1. ASSUME NEW n \in Verifiers, Notify(n) \/ Timeout(n) \/ StaleTimeout(n)
      PROVE  TypeInv'
  <2>1. CASE Timeout(n)
    <3>1. [sess[n] EXCEPT !.armed = FALSE] \in Sessions(Waiting)
      BY DEF TypeInv, Sessions
    <3> QED
      BY <2>1, <3>1, TimeOutType DEF Timeout
  <2>2. CASE StaleTimeout(n)
    <3>1. \A s \in Sessions(Waiting) : s.stale > 0 => s.stale - 1 \in 0 .. MaxStale
      BY RoundAssumption DEF Sessions
    <3>2. \A s \in Sessions(Waiting) : s.stale > 0 => [s EXCEPT !.stale = @ - 1] \in Sessions(Waiting)
      BY <3>1 DEF Sessions
    <3>3. sess[n] \in Sessions(Waiting)
      BY DEF TypeInv
    <3> QED
      BY <2>2, <3>2, <3>3, TimeOutType DEF StaleTimeout
  <2> QED
    BY <1>1, <2>1, <2>2, NotifyType
<1>2. ASSUME NEW m \in net, Receive(m) \/ Lose(m)
      PROVE  TypeInv'
  BY <1>2, ReceiveType DEF Lose, TypeInv
<1>3. CASE UNCHANGED vars
  BY <1>3 DEF vars, TypeInv
<1> QED
  BY <1>1, <1>2, <1>3, SendReplyType DEF Next

LEMMA TypeInit == Init => TypeInv
<1> SUFFICES ASSUME Init
             PROVE  TypeInv
  OBVIOUS
<1>1. <<>> \in Seq(Ballots) /\ 0 \in 0 .. MaxStale /\ 0 \in 0 .. MaxBlock
  BY RoundAssumption
<1>2. \A l \in Seq(Ballots), w \in 0 .. MaxStale :
         [state |-> sessionIdle, rxMsgCount |-> 0, rxMsg2 |-> 0, rxMsg4 |-> 0,
          remove |-> {}, vrlist |-> l, opened |-> 0, armed |-> FALSE, stale |-> w]
            \in Sessions(Waiting)
  BY DEF Sessions, Waiting
<1> QED
  BY <1>1, <1>2 DEF Init, TypeInv

\* A session is idle or waiting between the turns of the loop, and every leader of
\* a block is a verifier (verify/leader.go, leaderNewProcess and electionLeader).
THEOREM TypeCorrect == Spec => []TypeOK
<1>1. TypeInv => TypeOK
  BY DEF TypeInv, TypeOK, Sessions, Waiting
<1> QED
  BY <1>1, TypeInit, TypeStep, PTL DEF Spec

-----------------------------------------------------------------------------
(* OnlyElectedDecide.                                                      *)

\* The verifier has seen a block it was the leader of.
Elected(n) == \E block \in 1 .. height[n] : ElectionLeader(block) = n

\* Who takes itself for the leader, or has a timer that may still fire, was elected.
ElectedInv ==
    /\ \A n \in Verifiers : lead[n] = n \/ sess[n].armed \/ sess[n].stale > 0 => Elected(n)
    /\ \A r \in results : r.session[1] \in Verifiers /\ Elected(r.session[1])

\* A step that touches the session of one elected verifier only.
LEMMA ElectedStep ==
    ASSUME TypeInv, ElectedInv, NEW n \in Verifiers, Elected(n)',
           \A v \in Verifiers : Elected(v) => Elected(v)',
           \A v \in Verifiers \ {n} : lead'[v] = lead[v] /\ sess'[v] = sess[v],
           \A r \in results' : r \in results \/ r.session[1] = n
    PROVE  ElectedInv'
  BY DEF ElectedInv

\* A turn of the loop is such a step.
LEMMA ElectedRun ==
    ASSUME TypeInv, ElectedInv, NEW n \in Verifiers, NEW s, NEW leader, NEW flight,
           Run(n, s, leader, flight), Elected(n), UNCHANGED <<height, lead>>
    PROVE  ElectedInv'
<1>1. \A v \in Verifiers : Elected(v) => Elected(v)'
  BY DEF Elected
<1>2. \A v \in Verifiers \ {n} : lead'[v] = lead[v] /\ sess'[v] = sess[v]
  BY DEF Run, TypeInv
<1>3. \A r \in results' : r \in results \/ r.session[1] = n
  BY DEF Run, RunResults
<1> QED
  BY <1>1, <1>2, <1>3, ElectedStep

LEMMA ElectedLeader ==
    ASSUME TypeInv, ElectedInv, NEW m \in Messages, NEW flight, LeaderProcessMsg(m, flight)
    PROVE  ElectedInv'
<1>1. m.to \in Verifiers /\ Elected(m.to) /\ UNCHANGED <<height, lead>>
  BY DEF LeaderProcessMsg, IsLeader, ElectedInv, Messages
<1>2. ASSUME NEW s, NEW expected, Count(m.to, s, expected, flight)
      PROVE  ElectedInv'
  <2>1. PICK t : t = [s EXCEPT !.rxMsgCount = @ + 1]
    OBVIOUS
  <2>2. CASE TimeIn(m.to, t, flight)
    <3>1. PICK u : Run(m.to, u, lead[m.to], flight)
      BY <2>2 DEF TimeIn
    <3> QED
      BY <1>1, <3>1, ElectedRun
  <2>3. CASE sess' = [sess EXCEPT ![m.to] = t] /\ UNCHANGED results
    <3>1. \A v \in Verifiers : Elected(v) => Elected(v)'
      BY <1>1 DEF Elected
    <3> QED
      BY <1>1, <2>3, <3>1, ElectedStep DEF TypeInv
  <2> QED
    BY <1>2, <2>1, <2>2, <2>3 DEF Count
<1> QED
  BY <1>2 DEF LeaderProcessMsg, LeaderMsg2, LeaderMsg4, LeaderMsg6

\* Whatever messages are lost, late or repeated and whatever timers were left
\* behind, a result is of a leader of a block that its verifier has seen
\* (verify/leader.go, electionLeader, receiveP2PMsg, leaderNewProcess).
THEOREM ElectedDecide == Spec => []OnlyElectedDecide
<1>1. Init => ElectedInv
  BY RoundAssumption DEF Init, ElectedInv
<1>2. TypeInv /\ ElectedInv /\ [Next]_vars => ElectedInv'
  <2> SUFFICES ASSUME TypeInv, ElectedInv, [Next]_vars
               PROVE  ElectedInv'
    OBVIOUS
  <2>1. ASSUME NEW n \in Verifiers, Notify(n)
        PROVE  ElectedInv'
    <3>1. /\ height' = [height EXCEPT ![n] = @ + 1] /\ height[n] \in Nat
          /\ lead' = [lead EXCEPT ![n] = ElectionLeader(height[n] + 1)]
      BY <2>1 DEF Notify, TypeInv
    <3>2. \A v \in Verifiers : Elected(v) => Elected(v)'
      BY <3>1 DEF Elected, TypeInv
    <3>3. ElectionLeader(height[n] + 1) = n => Elected(n)'
      BY <3>1 DEF Elected, TypeInv
    <3>4. CASE ElectionLeader(height[n] + 1) = n
      <4>1. \A v \in Verifiers \ {n} : lead'[v] = lead[v] /\ sess'[v] = sess[v]
        BY <2>1, <3>1 DEF Notify, TypeInv, Run
      <4>2. \A r \in results' : r \in results \/ r.session[1] = n
        BY <2>1 DEF Notify, Run, RunResults
      <4> QED
        BY <3>2, <3>3, <3>4, <4>1, <4>2, ElectedStep
    <3>5. CASE ElectionLeader(height[n] + 1) # n
      <4>1. UNCHANGED <<sess, results>>
        BY <2>1, <3>5 DEF Notify, Opens
      <4>2. \A v \in Verifiers : lead'[v] = v => lead[v] = v
        BY <3>1, <3>5 DEF TypeInv
      <4> QED
        BY <3>2, <4>1, <4>2 DEF ElectedInv
    <3> QED
      BY <3>4, <3>5
  <2>2. ASSUME NEW n \in Verifiers, Timeout(n) \/ StaleTimeout(n)
        PROVE  ElectedInv'
    <3>1. Elected(n)
      BY <2>2 DEF Timeout, StaleTimeout, ElectedInv
    <3>2. \E s : TimeOut(n, s)
      BY <2>2 DEF Timeout, StaleTimeout
    <3>3. PICK t : Run(n, t, lead[n], net) /\ UNCHANGED <<height, lead>>
      BY <3>2 DEF TimeOut
    <3> QED
      BY <3>1, <3>3, ElectedRun
  <2>3. CASE UNCHANGED <<height, lead, sess, results>>
    BY <2>3 DEF ElectedInv, Elected
  <2>4. ASSUME NEW m \in net, Receive(m) \/ Lose(m)
        PROVE  ElectedInv'
    <3>1. CASE Lose(m)
      BY <2>3, <3>1 DEF Lose
    <3>2. CASE Receive(m)
      <4>1. PICK flight : LeaderProcessMsg(m, flight) \/ FollowerProcessMsg(m, flight) \/ Drop(m, flight)
        BY <3>2 DEF Receive
      <4>2. m \in Messages
        BY DEF TypeInv
      <4>3. CASE FollowerProcessMsg(m, flight) \/ Drop(m, flight)
        BY <2>3, <4>3 DEF FollowerProcessMsg, Drop
      <4> QED
        BY <4>1, <4>2, <4>3, ElectedLeader
    <3> QED
      BY <2>4, <3>1, <3>2
  <2> QED
    BY <2>1, <2>2, <2>3, <2>4 DEF Next, SendReply, vars
<1>3. ElectedInv => OnlyElectedDecide
  BY DEF ElectedInv, OnlyElectedDecide, Elected
<1> QED
  BY <1>1, <1>2, <1>3, TypeInit, TypeStep, PTL DEF Spec

-----------------------------------------------------------------------------
(* DposTx.                                                                 *)

\* Every verifier has wealth, and so little that four times the wealth of all of
\* them is a machine word (verify/leader.go, DposTx, multiplies by 4).
WealthFits ==
    \E w \in Nat : /\ 4 * (Cardinality(Verifiers) * w) < WordLimit
                   /\ \A v \in Verifiers : Wealth[v] \in 1 .. w

\* f is the counts of DposTx after each of m votes.
IsTally(f, list, m) ==
    f = [i \in 0 .. m |-> IF i = 0 THEN NoVotes ELSE CountVote(f[i - 1], list[i])]

\* The loop of DposTx has a result.
LEMMA TallySteps ==
    ASSUME NEW list, Len(list) \in Nat
    PROVE  \E f : IsTally(f, list, Len(list)) /\ Tally(list) = f[Len(list)]
<1>1. \A m \in 0 .. Len(list) : \E f : IsTally(f, list, m)
  <2> DEFINE Bad == {m \in 0 .. Len(list) : ~\E f : IsTally(f, list, m)}
  <2>1. SUFFICES ASSUME Bad # {}
                 PROVE  FALSE
    OBVIOUS
  <2>2. PICK m \in Bad : \A k \in Bad : m <= k
    <3>1. Bad \subseteq Nat
      OBVIOUS
    <3> HIDE DEF Bad
    <3> QED
      BY <2>1, <3>1, LeastNat
  <2>3. m \in Nat /\ m <= Len(list) /\ ~\E f : IsTally(f, list, m)
    BY <2>2
  <2>4. CASE m = 0
    <3>1. IsTally([i \in 0 .. 0 |-> NoVotes], list, 0)
      BY DEF IsTally
    <3> QED
      BY <2>3, <2>4, <3>1
  <2>5. CASE m > 0
    <3>1. m - 1 \in 0 .. Len(list) /\ m - 1 \notin Bad
      BY <2>2, <2>3, <2>5
    <3>2. PICK g : IsTally(g, list, m - 1)
      BY <3>1
    <3>3. \A i \in 0 .. m - 1 : g[i] = IF i = 0 THEN NoVotes ELSE CountVote(g[i - 1], list[i])
      BY <3>2 DEF IsTally
    <3> DEFINE f == [i \in 0 .. m |-> IF i < m THEN g[i] ELSE CountVote(g[m - 1], list[m])]
    <3>4. \A i \in 0 .. m : f[i] = IF i = 0 THEN NoVotes ELSE CountVote(f[i - 1], list[i])
      <4>1. TAKE i \in 0 .. m
      <4>2. CASE i = 0
        <5>1. i < m /\ i \in 0 .. m /\ i \in 0 .. m - 1
          BY <2>3, <2>5, <4>2
        <5>2. f[i] = g[i]
          BY <5>1
        <5>3. g[i] = NoVotes
          BY <3>3, <4>2, <5>1
        <5> QED
          BY <4>2, <5>2, <5>3
      <4>3. CASE i > 0 /\ i < m
        <5>1. i \in 0 .. m - 1 /\ i - 1 \in 0 .. m /\ i - 1 < m /\ i # 0
          BY <2>3, <4>3
        <5>2. f[i] = g[i] /\ f[i - 1] = g[i - 1]
          BY <4>3, <5>1
        <5> QED
          BY <3>3, <5>1, <5>2
      <4>4. CASE i = m
        <5>1. i \in 0 .. m /\ i - 1 \in 0 .. m /\ i - 1 < m /\ i # 0 /\ ~(i < m)
          BY <2>3, <2>5, <4>4
        <5>2. f[i] = CountVote(g[m - 1], list[m]) /\ f[i - 1] = g[i - 1]
          BY <5>1
        <5> QED
          BY <4>4, <5>1, <5>2
      <4> QED
        BY <2>3, <4>2, <4>3, <4>4
    <3>5. IsTally(f, list, m)
      <4>1. f = [i \in 0 .. m |-> f[i]]
        OBVIOUS
      <4> HIDE DEF f
      <4> QED
        BY <3>4, <4>1 DEF IsTally
    <3> QED
      BY <2>3, <3>5
  <2> QED
    BY <2>3, <2>4, <2>5
<1>2. \E f : IsTally(f, list, Len(list))
  BY <1>1
<1> DEFINE tally[i \in 0 .. Len(list)] == IF i = 0 THEN NoVotes ELSE CountVote(tally[i - 1], list[i])
<1>3. Tally(list) = tally[Len(list)]
  BY DEF Tally
<1>4. IsTally(tally, list, Len(list))
  BY <1>2 DEF IsTally
<1> HIDE DEF tally
<1> QED
  BY <1>3, <1>4

\* One vote for each of T: then every entry of the list is such a vote.
LEMMA AllVotesPass ==
    ASSUME NEW T \in SUBSET Verifiers, NEW list, Len(list) = Cardinality(T),
           \A v \in T : \E i \in 1 .. Len(list) : list[i].NodeId = v /\ list[i].Result
    PROVE  \A i \in 1 .. Len(list) : list[i].NodeId \in Verifiers /\ list[i].Result
<1>1. PICK f \in [T -> 1 .. Len(list)] :
         \A v \in T : list[f[v]].NodeId = v /\ list[f[v]].Result
  <2> DEFINE f == [v \in T |-> CHOOSE i \in 1 .. Len(list) : list[i].NodeId = v /\ list[i].Result]
  <2>1. \A v \in T : f[v] \in 1 .. Len(list) /\ list[f[v]].NodeId = v /\ list[f[v]].Result
    OBVIOUS
  <2>2. f \in [T -> 1 .. Len(list)]
    BY <2>1
  <2> QED
    BY <2>1, <2>2
<1>2. \A u, v \in T : f[u] = f[v] => u = v
  BY <1>1
<1>3. f \in Injection(T, 1 .. Len(list))
  BY <1>1, <1>2, Fun_IsInj
<1>4. Len(list) \in Nat
  BY RoundAssumption, FS_CardinalityType, FS_Subset
<1>5. IsFiniteSet(1 .. Len(list)) /\ Cardinality(1 .. Len(list)) = Len(list)
  BY <1>4, FS_Interval
<1>6. f \in Surjection(T, 1 .. Len(list))
  BY <1>3, <1>5, FS_Injection
<1>7. \A i \in 1 .. Len(list) : \E v \in T : f[v] = i
  BY <1>6 DEF Surjection
<1> QED
  BY <1>1, <1>7

\* Counts of i votes that all pass: as many pass as are valid, and no sum has
\* wrapped around.
AllPass(t, i, w) ==
    /\ t.validNum = i /\ t.passNum = i
    /\ t.wealthValid = t.wealthTotal /\ t.wealthTotal \in i .. i * w

LEMMA VotePasses ==
    ASSUME NEW i \in Nat, NEW w \in Nat, NEW c \in Nat, i < c, 4 * (c * w) < WordLimit,
           NEW t, AllPass(t, i, w), NEW vote, vote.NodeId \in Verifiers, vote.Result,
           Wealth[vote.NodeId] \in 1 .. w
    PROVE  AllPass(CountVote(t, vote), i + 1, w)
<1>1. PICK x : x = Wealth[vote.NodeId]
  OBVIOUS
<1>2. PICK a, b, d : a = i * w /\ b = (i + 1) * w /\ d = c * w
  OBVIOUS
<1>3. a \in Nat /\ b \in Nat /\ d \in Nat /\ b = a + w /\ b <= d
  <2>1. a \in Nat /\ b \in Nat /\ d \in Nat
    BY <1>2
  <2>2. b = a + w
    BY <1>2
  <2>3. PICK k \in Nat : c = i + 1 + k
    <3>1. c - i - 1 \in Nat /\ c = i + 1 + (c - i - 1)
      OBVIOUS
    <3> QED
      BY <3>1
  <2>4. c * w = (i + 1) * w + k * w /\ k * w \in Nat
    BY <2>3
  <2>5. b <= d
    BY <1>2, <2>1, <2>4
  <2> QED
    BY <2>1, <2>2, <2>5
<1>4. WordLimit \in Nat /\ WordLimit > 0
  BY WealthAssumption
<1>5. PICK y : y = t.wealthTotal
  OBVIOUS
<1>6. y \in i .. a /\ x \in 1 .. w /\ t.wealthValid = y /\ t.validNum = i /\ t.passNum = i
  BY <1>1, <1>2, <1>5 DEF AllPass
<1>7. y + x \in Nat /\ y + x < WordLimit /\ y + x \in i + 1 .. b
  BY <1>2, <1>3, <1>4, <1>6
<1>8. (y + x) % WordLimit = y + x
  BY <1>4, <1>7
<1>9. CountVote(t, vote) = [validNum |-> i + 1, passNum |-> i + 1, wealthValid |-> y + x, wealthTotal |-> y + x]
  BY <1>1, <1>5, <1>6, <1>8 DEF CountVote
<1> QED
  BY <1>2, <1>7, <1>9 DEF AllPass

\* When some verifiers have voted, once each, and agree, their package passes
\* (verify/leader.go, DposTx).
LEMMA UnanimityPasses ==
    ASSUME WealthFits, NEW T \in SUBSET Verifiers, T # {}, NEW list, Len(list) = Cardinality(T),
           \A v \in T : \E i \in 1 .. Len(list) : list[i].NodeId = v /\ list[i].Result
    PROVE  DposTx(list)
<1>1. PICK c \in Nat : c = Len(list) /\ c = Cardinality(T) /\ c > 0 /\ c <= Cardinality(Verifiers)
  BY RoundAssumption, FS_CardinalityType, FS_EmptySet, FS_Subset
<1>2. PICK w \in Nat : 4 * (c * w) < WordLimit /\ \A v \in Verifiers : Wealth[v] \in 1 .. w
  <2>1. PICK w \in Nat : /\ 4 * (Cardinality(Verifiers) * w) < WordLimit
                         /\ \A v \in Verifiers : Wealth[v] \in 1 .. w
    BY DEF WealthFits
  <2>2. PICK k \in Nat : Cardinality(Verifiers) = c + k
    <3>1. Cardinality(Verifiers) \in Nat
      BY RoundAssumption, FS_CardinalityType
    <3>2. Cardinality(Verifiers) - c \in Nat /\ Cardinality(Verifiers) = c + (Cardinality(Verifiers) - c)
      BY <1>1, <3>1
    <3> QED
      BY <3>2
  <2>3. Cardinality(Verifiers) * w = c * w + k * w /\ k * w \in Nat /\ c * w \in Nat
    BY <2>2
  <2>4. WordLimit \in Nat
    BY WealthAssumption
  <2>5. 4 * (c * w) < WordLimit
    BY <2>1, <2>3, <2>4
  <2> QED
    BY <2>1, <2>5
<1>3. \A i \in 1 .. c : list[i].NodeId \in Verifiers /\ list[i].Result
  BY <1>1, AllVotesPass
<1>4. PICK f : IsTally(f, list, c) /\ Tally(list) = f[c]
  BY <1>1, TallySteps
<1>5. \A i \in 0 .. c : f[i] = IF i = 0 THEN NoVotes ELSE CountVote(f[i - 1], list[i])
  BY <1>4 DEF IsTally
<1>6. \A i \in 0 .. c : AllPass(f[i], i, w)
  <2> DEFINE Bad == {i \in 0 .. c : ~AllPass(f[i], i, w)}
  <2>1. SUFFICES ASSUME Bad # {}
                 PROVE  FALSE
    OBVIOUS
  <2>2. PICK i \in Bad : \A k \in Bad : i <= k
    <3>1. Bad \subseteq Nat
      OBVIOUS
    <3> HIDE DEF Bad
    <3> QED
      BY <2>1, <3>1, LeastNat
  <2>3. i \in 0 .. c /\ ~AllPass(f[i], i, w)
    BY <2>2
  <2>4. CASE i = 0
    <3>1. f[0] = NoVotes
      BY <1>5, <2>3, <2>4
    <3>2. AllPass(NoVotes, 0, w)
      BY DEF AllPass, NoVotes
    <3> QED
      BY <2>3, <2>4, <3>1, <3>2
  <2>5. CASE i > 0
    <3>1. PICK j \in Nat : i = j + 1 /\ j < c /\ j = i - 1
      BY <2>3, <2>5
    <3>2. AllPass(f[j], j, w)
      BY <2>2, <3>1
    <3>3. list[i].NodeId \in Verifiers /\ list[i].Result /\ Wealth[list[i].NodeId] \in 1 .. w
      BY <1>2, <1>3, <2>3, <2>5
    <3>4. AllPass(CountVote(f[j], list[i]), j + 1, w)
      BY <1>2, <1>1, <3>1, <3>2, <3>3, VotePasses
    <3>5. f[i] = CountVote(f[j], list[i])
      BY <1>5, <2>3, <2>5, <3>1
    <3> QED
      BY <2>3, <3>1, <3>4, <3>5
  <2> QED
    BY <2>3, <2>4, <2>5
<1>7. PICK t, d : t = Tally(list) /\ d = c * w
  OBVIOUS
<1>8. AllPass(t, c, w)
  BY <1>1, <1>4, <1>6, <1>7
<1>9. PICK y : y = t.wealthTotal
  OBVIOUS
<1>10. /\ t.validNum = c /\ t.passNum = c /\ t.wealthValid = y /\ y \in c .. d
       /\ d \in Nat /\ 4 * d < WordLimit /\ WordLimit \in Nat
  BY <1>2, <1>1, <1>7, <1>8, <1>9, WealthAssumption DEF AllPass
<1>11. (y * 4) % WordLimit = y * 4 /\ (3 * y) % WordLimit = 3 * y /\ y * 4 > 3 * y
  BY <1>1, <1>10
<1> QED
  BY <1>1, <1>7, <1>9, <1>10, <1>11 DEF DposTx

-----------------------------------------------------------------------------
(* The synchronous round: no message is lost or repeated, a round is       *)
(* faster than its timers, and nobody learns of a block during a round.    *)

SynchronousNetwork == Synchronous /\ MaxLoss = 0 /\ MaxDup = 0

\* The verifier has no session.
Rest(s) == s.state = sessionIdle /\ ~s.armed /\ s.rxMsgCount = 0

\* A request to a verifier that takes another for the leader, as D says, is dropped.
Ignored(D, m) == m.type \in {1, 3, 5} /\ D[m.to] # m.from
Live(D, N) == {m \in N : ~Ignored(D, m)}
Silent(D, N) == Live(D, N) = {}

\* The followers of L, as D says.
FollowersOf(D, L) == {v \in Verifiers \ {L} : D[v] = L}

\* The follower that a message of leader L is to or from.
Peer(L, m) == IF m.from = L THEN m.to ELSE m.from

\* Followers of L whose answer to its last request has been counted: nothing to
\* them or from them is on its way in the messages N and the goroutines R.
Owes(L, f, N, R) == (\E m \in N : Peer(L, m) = f) \/ (\E r \in R : r.node = f)
Done(L, F, N, R) == {f \in F : ~Owes(L, f, N, R)}

\* All that is on its way belongs to the last request of the session s of L, one
\* thing for each follower.
OneEach(L, F, s, N, R) ==
    /\ \A m \in N :
          /\ m.session = <<L, s.opened>>
          /\ m.from = L <=> m.to # L
          /\ m.type = IF m.from = L THEN s.state - 1 ELSE s.state
          /\ Peer(L, m) \in F
    /\ \A r \in R : r.session = <<L, s.opened>> /\ r.node \in F /\ r.type = s.state
    /\ \A m1, m2 \in N : Peer(L, m1) = Peer(L, m2) => m1 = m2
    /\ \A r1, r2 \in R : r1.node = r2.node => r1 = r2
    /\ \A m \in N, r \in R : Peer(L, m) # r.node

\* The answers counted are those of the followers that are done.
Counted(L, F, s, N, R) ==
    /\ s.rxMsgCount = Cardinality(Done(L, F, N, R))
    /\ s.rxMsg2 = IF s.state = sessionRxmsg2 THEN s.rxMsgCount ELSE Cardinality(F)
    /\ s.state = sessionRxmsg4 => s.rxMsg4 = s.rxMsgCount
    /\ s.state = sessionRxmsg2 => s.rxMsg4 = 0
    /\ s.state = sessionRxmsg6 => s.rxMsg4 = Cardinality(F)

\* The leader waits for more, or in the first phase for its timer: it has no
\* followers, or verifiers that do not follow it.
Awaiting(F, s) ==
    s.rxMsgCount = Cardinality(F) =>
        s.state = sessionRxmsg2 /\ (F = {} \/ Cardinality(F) # Cardinality(Verifiers) - 1)

\* What the followers found invalid (I) reaches the leader and comes back to them.
Invalids(L, F, s, N, R, I) ==
    /\ s.state = sessionRxmsg4 =>
          /\ \A f \in Done(L, F, N, R) : I[f] \subseteq s.remove
          /\ \A m \in N : m.from # L => m.list = I[m.from]
          /\ \A r \in R : r.list = I[r.node]
    /\ s.state = sessionRxmsg6 =>
          /\ \A f \in F : I[f] \subseteq s.remove
          /\ \A m \in N : IF m.from = L THEN m.list = s.remove ELSE m.result
          /\ \A r \in R : r.list = s.remove

\* The votes are those of the followers that are done, and all agree.
Votes(L, F, s, N, R) ==
    /\ s.state # sessionRxmsg6 => s.vrlist = <<>>
    /\ s.state = sessionRxmsg6 =>
          /\ Len(s.vrlist) = s.rxMsgCount
          /\ \A i \in 1 .. Len(s.vrlist) : s.vrlist[i].session = <<L, s.opened>>
          /\ \A f \in Done(L, F, N, R) :
                \E i \in 1 .. Len(s.vrlist) : s.vrlist[i].NodeId = f /\ s.vrlist[i].Result

\* A session of L with the followers F is open.
RoundInv(L, F, s, N, R, I) ==
    /\ s.state # sessionIdle
    /\ OneEach(L, F, s, N, R)
    /\ Counted(L, F, s, N, R)
    /\ Awaiting(F, s)
    /\ Invalids(L, F, s, N, R, I)
    /\ Votes(L, F, s, N, R)

\* All who follow the leader have voted in r, once, and in its own session.
Unanimous(r) ==
    /\ Len(r.votes) = Cardinality(r.following)
    /\ \A v \in r.following : \E i \in DOMAIN r.votes : r.votes[i].NodeId = v /\ r.votes[i].Result
    /\ \A i \in DOMAIN r.votes : r.votes[i].session = r.session

SyncInv ==
    /\ faults = [loss |-> 0, dup |-> 0]
    /\ \A v \in Verifiers : sess[v].stale = 0
    /\ \A v \in Verifiers : height[v] > 0 => lead[v] = ElectionLeader(height[v])
    /\ \A r \in results : Unanimous(r)
    /\ \/ Live(lead, net) = {} /\ replies = {} /\ \A v \in Verifiers : Rest(sess[v])
       \/ \E L \in Verifiers :
             /\ \A v \in Verifiers \ {L} : Rest(sess[v])
             /\ lead[L] = L
             /\ RoundInv(L, FollowersOf(lead, L), sess[L], Live(lead, net), replies, invalid)

\* The followers are finitely many, and fewer than the verifiers.
LEMMA FewFollowers ==
    ASSUME NEW L \in Verifiers, NEW F \in SUBSET (Verifiers \ {L})
    PROVE  /\ IsFiniteSet(F) /\ Cardinality(F) \in Nat /\ Cardinality(Verifiers) \in Nat \ {0}
           /\ Cardinality(F) <= Cardinality(Verifiers) - 1
           /\ F = {} <=> Cardinality(F) = 0
<1>1. IsFiniteSet(Verifiers \ {L}) /\ Cardinality(Verifiers \ {L}) = Cardinality(Verifiers) - 1
  BY RoundAssumption, FS_RemoveElement
<1>2. Cardinality(Verifiers) \in Nat \ {0}
  BY RoundAssumption, FS_CardinalityType, FS_EmptySet
<1>3. IsFiniteSet(F) /\ Cardinality(F) <= Cardinality(Verifiers \ {L})
  BY <1>1, FS_Subset
<1> QED
  BY <1>1, <1>2, <1>3, FS_CardinalityType, FS_EmptySet

\* A new request: one message to every follower, and nobody is done.
LEMMA AllAsked ==
    ASSUME NEW L \in Verifiers, NEW F \in SUBSET (Verifiers \ {L}), NEW s, NEW N,
           \A m \in N : /\ m.session = <<L, s.opened>> /\ m.from = L /\ m.to \in F
                        /\ m.type = s.state - 1,
           \A m1, m2 \in N : m1.to = m2.to => m1 = m2,
           \A f \in F : \E m \in N : m.to = f
    PROVE  OneEach(L, F, s, N, {}) /\ Done(L, F, N, {}) = {}
<1>1. \A m \in N : Peer(L, m) = m.to
  BY DEF Peer
<1>2. OneEach(L, F, s, N, {})
  BY <1>1 DEF OneEach
<1>3. \A f \in F : Owes(L, f, N, {})
  BY <1>1 DEF Owes
<1> QED
  BY <1>2, <1>3 DEF Done

\* The last request of the session s of L.
Request(L, F, s, list) ==
    {Msg(s.state - 1, L, f, <<L, s.opened>>, list, TRUE) : f \in F}

LEMMA FreshRequest ==
    ASSUME NEW L \in Verifiers, NEW F \in SUBSET (Verifiers \ {L}), NEW s, NEW list,
           NEW N, N = Request(L, F, s, list)
    PROVE  /\ OneEach(L, F, s, N, {}) /\ Done(L, F, N, {}) = {}
           /\ \A m \in N : m.from = L /\ m.list = list
<1>1. \A m \in N : \E f \in F :
         m = Msg(s.state - 1, L, f, <<L, s.opened>>, list, TRUE)
  BY DEF Request
<1>2. \A m \in N : /\ m.session = <<L, s.opened>> /\ m.from = L /\ m.to \in F
                   /\ m.type = s.state - 1 /\ m.list = list
                   /\ m = Msg(s.state - 1, L, m.to, <<L, s.opened>>, list, TRUE)
  BY <1>1 DEF Msg
<1>3. \A m1, m2 \in N : m1.to = m2.to => m1 = m2
  BY <1>2
<1>4. \A f \in F : \E m \in N : m.to = f
  <2> TAKE f \in F
  <2>1. PICK m : m = Msg(s.state - 1, L, f, <<L, s.opened>>, list, TRUE)
    OBVIOUS
  <2>2. m \in N
    BY <2>1 DEF Request
  <2>3. m.to = f
    BY <2>1 DEF Msg
  <2> QED
    BY <2>2, <2>3
<1> QED
  BY <1>2, <1>3, <1>4, AllAsked

\* A follower handles a request: its goroutine owes the answer.
LEMMA Handed ==
    ASSUME NEW L \in Verifiers, NEW F \in SUBSET (Verifiers \ {L}), NEW s, NEW N, NEW R,
           OneEach(L, F, s, N, R), NEW m \in N, m.from = L,
           NEW r, r.node = m.to, r.session = m.session, r.type = s.state
    PROVE  /\ OneEach(L, F, s, N \ {m}, R \cup {r})
           /\ Done(L, F, N \ {m}, R \cup {r}) = Done(L, F, N, R)
<1>1. Peer(L, m) = m.to /\ m.to # L /\ m.to \in F
  BY DEF OneEach, Peer
<1>2. \A x \in N \ {m} : Peer(L, x) # m.to
  BY <1>1 DEF OneEach
<1>3. \A x \in R : x.node # m.to
  BY <1>1 DEF OneEach
<1>4. OneEach(L, F, s, N \ {m}, R \cup {r})
  BY <1>1, <1>2, <1>3 DEF OneEach
<1>5. \A f : Owes(L, f, N \ {m}, R \cup {r}) <=> Owes(L, f, N, R)
  BY <1>1 DEF Owes
<1> QED
  BY <1>4, <1>5 DEF Done

\* The goroutine sends its answer to the leader.
LEMMA Replied ==
    ASSUME NEW L \in Verifiers, NEW F \in SUBSET (Verifiers \ {L}), NEW s, NEW N, NEW R,
           OneEach(L, F, s, N, R), NEW r \in R,
           NEW m, m.from = r.node, m.to = L, m.session = r.session, m.type = r.type
    PROVE  /\ OneEach(L, F, s, N \cup {m}, R \ {r})
           /\ Done(L, F, N \cup {m}, R \ {r}) = Done(L, F, N, R)
<1>1. Peer(L, m) = r.node /\ r.node # L /\ r.node \in F
  BY DEF OneEach, Peer
<1>2. \A x \in R \ {r} : x.node # r.node
  BY DEF OneEach
<1>3. \A x \in N : Peer(L, x) # r.node
  BY DEF OneEach
<1>4. OneEach(L, F, s, N \cup {m}, R \ {r})
  BY <1>1, <1>2, <1>3 DEF OneEach
<1>5. \A f : Owes(L, f, N \cup {m}, R \ {r}) <=> Owes(L, f, N, R)
  BY <1>1 DEF Owes
<1> QED
  BY <1>4, <1>5 DEF Done

\* The leader takes an answer: one follower more is done.
LEMMA Answered ==
    ASSUME NEW L \in Verifiers, NEW F, NEW s, NEW N, NEW R,
           OneEach(L, F, s, N, R), NEW m \in N, m.from # L,
           NEW M, M = N \ {m}
    PROVE  /\ OneEach(L, F, s, M, R)
           /\ m.from \in F
           /\ m.from \notin Done(L, F, N, R)
           /\ Done(L, F, M, R) = Done(L, F, N, R) \cup {m.from}
<1>1. Peer(L, m) = m.from /\ m.from \in F
  BY DEF Peer, OneEach
<1>2. \A x \in M : Peer(L, x) # m.from
  BY <1>1 DEF OneEach
<1>3. \A x \in R : x.node # m.from
  BY <1>1 DEF OneEach
<1>4. OneEach(L, F, s, M, R)
  BY DEF OneEach
<1>5. \A f : Owes(L, f, N, R) <=> (Owes(L, f, M, R) \/ f = m.from)
  BY <1>1 DEF Owes
<1>6. ~Owes(L, m.from, M, R)
  BY <1>2, <1>3 DEF Owes
<1> QED
  BY <1>1, <1>4, <1>5, <1>6 DEF Done

\* When all the followers are done nothing is on its way.
LEMMA AllDone ==
    ASSUME NEW L \in Verifiers, NEW F \in SUBSET (Verifiers \ {L}), NEW s, NEW N, NEW R,
           OneEach(L, F, s, N, R)
    PROVE  /\ IsFiniteSet(Done(L, F, N, R))
           /\ Cardinality(Done(L, F, N, R)) \in 0 .. Cardinality(F)
           /\ Cardinality(Done(L, F, N, R)) = Cardinality(F) => N = {} /\ R = {}
<1>1. IsFiniteSet(F) /\ Cardinality(F) \in Nat
  BY FewFollowers
<1>2. Done(L, F, N, R) \in SUBSET F
  BY DEF Done
<1>3. /\ IsFiniteSet(Done(L, F, N, R)) /\ Cardinality(Done(L, F, N, R)) <= Cardinality(F)
      /\ Cardinality(F) = Cardinality(Done(L, F, N, R)) => F = Done(L, F, N, R)
  BY <1>1, <1>2, FS_Subset
<1>4. Cardinality(Done(L, F, N, R)) \in Nat
  BY <1>3, FS_CardinalityType
<1>5. ASSUME Done(L, F, N, R) = F
      PROVE  N = {} /\ R = {}
  <2>1. (\A m \in N : Peer(L, m) \in F) /\ (\A r \in R : r.node \in F)
    BY DEF OneEach
  <2> QED
    BY <1>5, <2>1 DEF Done, Owes
<1> QED
  BY <1>1, <1>3, <1>4, <1>5

LEMMA NobodyOwes ==
    ASSUME NEW L, NEW F
    PROVE  Done(L, F, {}, {}) = F
  BY DEF Done, Owes

\* The fields that the start of a session and the timer leave alone.
SameFields(u, v) ==
    /\ v.rxMsgCount = u.rxMsgCount /\ v.rxMsg2 = u.rxMsg2 /\ v.rxMsg4 = u.rxMsg4
    /\ v.remove = u.remove /\ v.armed = u.armed /\ v.stale = u.stale

\* A timer that was stopped, or has fired, is not left behind.
LEMMA NextTimerFields ==
    ASSUME NEW v \in Sessions(Waiting), ~v.armed, NEW a \in BOOLEAN
    PROVE  LET s == NextTimer(v, a)
           IN  /\ s.state = v.state /\ s.rxMsgCount = v.rxMsgCount /\ s.rxMsg2 = v.rxMsg2
               /\ s.rxMsg4 = v.rxMsg4 /\ s.remove = v.remove /\ s.vrlist = v.vrlist
               /\ s.opened = v.opened /\ s.stale = v.stale /\ s.armed = a
  BY DEF NextTimer, Sessions

LEMMA Timed ==
    ASSUME NEW X, NEW u \in Sessions(X), ~u.armed, u.stale = 0, NEW v \in Sessions(Waiting),
           SameFields(u, v), NEW a \in BOOLEAN, NEW s, s = NextTimer(v, a)
    PROVE  /\ s.state = v.state /\ s.rxMsgCount = u.rxMsgCount
           /\ s.rxMsg2 = u.rxMsg2 /\ s.rxMsg4 = u.rxMsg4 /\ s.remove = u.remove
           /\ s.vrlist = v.vrlist /\ s.opened = v.opened /\ s.stale = 0 /\ s.armed = a
<1>1. ~v.armed
  BY DEF SameFields
<1> QED
  BY <1>1, NextTimerFields DEF SameFields

\* A turn of L that asks the verifiers: those that follow it, as D says, will hear,
\* and nothing else is on its way but what is ignored
\* (verify/leader.go, leaderNewRun: sendMsg1, sendMsg3, sendMsg5).
LEMMA RequestTurn ==
    ASSUME TypeInv, NEW L \in Verifiers, NEW D, NEW F, F = FollowersOf(D, L),
           NEW flight, Silent(D, flight), NEW u \in Sessions(Turning), 
           u.state # sessionDpos, ~u.armed, u.stale = 0, Run(L, u, L, flight)
    PROVE  LET s == sess'[L]
               N == Live(D, net')
           IN  /\ s.state = u.state + 1 /\ s.rxMsgCount = u.rxMsgCount
               /\ s.rxMsg2 = u.rxMsg2 /\ s.rxMsg4 = u.rxMsg4 /\ s.remove = u.remove
               /\ s.vrlist = IF u.state = sessionTxmsg1 THEN <<>> ELSE u.vrlist
               /\ s.opened = IF u.state = sessionTxmsg1 THEN u.opened + 1 ELSE u.opened
               /\ s.stale = 0
               /\ OneEach(L, F, s, N, {}) /\ Done(L, F, N, {}) = {}
               /\ \A m \in N : m.from = L /\ (u.state = sessionTxmsg5 => m.list = u.remove)
               /\ results' = results
<1> USE DEF sessionIdle, sessionTxmsg1, sessionRxmsg2, sessionTxmsg3, sessionRxmsg4,
            sessionTxmsg5, sessionRxmsg6, sessionDpos
<1>1. u.state \in {1, 3, 5}
  BY DEF Sessions, Turning
<1>2. sess'[L] = RunState(L, u) /\ net' = flight \cup RunMsgs(L, u, L) /\ results' = results
  BY DEF Run, TypeInv, RunResults
<1>3. PICK s : s = sess'[L]
  OBVIOUS
<1>4. /\ s.state = u.state + 1 /\ s.rxMsgCount = u.rxMsgCount
      /\ s.rxMsg2 = u.rxMsg2 /\ s.rxMsg4 = u.rxMsg4 /\ s.remove = u.remove
      /\ s.vrlist = IF u.state = 1 THEN <<>> ELSE u.vrlist
      /\ s.opened = IF u.state = 1 THEN u.opened + 1 ELSE u.opened
      /\ s.stale = 0
  <2>1. CASE u.state = 1
    <3>1. PICK l, o : l = <<>> /\ o = u.opened + 1
      OBVIOUS
    <3>2. PICK v : v = [u EXCEPT !.state = 2, !.vrlist = l, !.opened = o]
      OBVIOUS
    <3>3. l \in Seq(Ballots) /\ o \in Nat /\ 2 \in Waiting
      BY <3>1 DEF Waiting, Sessions
    <3>4. v \in Sessions(Waiting) /\ v.state = 2 /\ v.vrlist = l /\ v.opened = o /\ SameFields(u, v)
      BY <3>2, <3>3 DEF Sessions, SameFields
    <3>5. PICK a \in BOOLEAN : s = NextTimer(v, a)
      <4>1. v = SendMsg1(u)
        BY <3>1, <3>2 DEF SendMsg1
      <4>2. s = NextTimer(v, TRUE)
        BY <1>2, <1>3, <2>1, <4>1 DEF RunState
      <4> QED
        BY <4>2, Zenon
    <3>6. /\ s.state = v.state /\ s.rxMsgCount = u.rxMsgCount
          /\ s.rxMsg2 = u.rxMsg2 /\ s.rxMsg4 = u.rxMsg4 /\ s.remove = u.remove
          /\ s.vrlist = v.vrlist /\ s.opened = v.opened /\ s.stale = 0
      BY <3>4, <3>5, Timed
    <3> QED
      BY <2>1, <3>1, <3>4, <3>6
  <2>2. CASE u.state = 3
    <3>1. PICK v : v = [u EXCEPT !.state = 4]
      OBVIOUS
    <3>2. /\ v \in Sessions(Waiting) /\ v.state = 4 /\ v.vrlist = u.vrlist
          /\ v.opened = u.opened /\ SameFields(u, v)
      BY <3>1 DEF Sessions, SameFields, Waiting
    <3>3. PICK a \in BOOLEAN : s = NextTimer(v, a)
      <4>1. s = NextTimer(v, TRUE)
        BY <1>2, <1>3, <2>2, <3>1 DEF RunState
      <4> QED
        BY <4>1, Zenon
    <3>6. /\ s.state = v.state /\ s.rxMsgCount = u.rxMsgCount
          /\ s.rxMsg2 = u.rxMsg2 /\ s.rxMsg4 = u.rxMsg4 /\ s.remove = u.remove
          /\ s.vrlist = v.vrlist /\ s.opened = v.opened /\ s.stale = 0
      BY <3>2, <3>3, Timed
    <3> QED
      BY <2>2, <3>2, <3>6
  <2>3. CASE u.state = 5
    <3>1. PICK v : v = [u EXCEPT !.state = 6]
      OBVIOUS
    <3>2. /\ v \in Sessions(Waiting) /\ v.state = 6 /\ v.vrlist = u.vrlist
          /\ v.opened = u.opened /\ SameFields(u, v)
      BY <3>1 DEF Sessions, SameFields, Waiting
    <3>3. PICK a \in BOOLEAN : s = NextTimer(v, a)
      <4>1. s = NextTimer(v, TRUE)
        BY <1>2, <1>3, <2>3, <3>1 DEF RunState
      <4> QED
        BY <4>1, Zenon
    <3>6. /\ s.state = v.state /\ s.rxMsgCount = u.rxMsgCount
          /\ s.rxMsg2 = u.rxMsg2 /\ s.rxMsg4 = u.rxMsg4 /\ s.remove = u.remove
          /\ s.vrlist = v.vrlist /\ s.opened = v.opened /\ s.stale = 0
      BY <3>2, <3>3, Timed
    <3> QED
      BY <2>3, <3>2, <3>6
  <2> QED
    BY <1>1, <2>1, <2>2, <2>3
<1>5. PICK list : list = IF u.state = 5 THEN u.remove ELSE {}
  OBVIOUS
<1>6. Live(D, net') = Request(L, F, s, list)
  <2>1. s.state - 1 = u.state
    BY <1>1, <1>4
  <2>2. s.opened = IF u.state = 1 THEN u.opened + 1 ELSE u.opened
    BY <1>4
  <2>3. RunMsgs(L, u, L) = Request(L, Verifiers \ {L}, s, list)
    BY <1>1, <1>5, <2>1, <2>2 DEF RunMsgs, Request
  <2>4. \A f : LET m == Msg(s.state - 1, L, f, <<L, s.opened>>, list, TRUE)
              IN  Ignored(D, m) <=> D[f] # L
    BY <1>1, <2>1 DEF Ignored, Msg
  <2>5. Live(D, Request(L, Verifiers \ {L}, s, list)) = Request(L, F, s, list)
    BY <2>4, Zenon DEF Live, Request, FollowersOf
  <2>6. Live(D, net') = Live(D, RunMsgs(L, u, L))
    BY <1>2 DEF Live, Silent
  <2> QED
    BY <2>3, <2>5, <2>6
<1>7. /\ OneEach(L, F, s, Live(D, net'), {}) /\ Done(L, F, Live(D, net'), {}) = {}
      /\ \A m \in Live(D, net') : m.from = L /\ m.list = list
  <2>1. F \in SUBSET (Verifiers \ {L})
    BY DEF FollowersOf
  <2> QED
    BY <1>6, <2>1, FreshRequest
<1> QED
  BY <1>2, <1>3, <1>4, <1>5, <1>7

\* And it starts a round, when the answers to the request before are all in.
LEMMA RequestRound ==
    ASSUME TypeInv, NEW L \in Verifiers, NEW D, NEW F, F = FollowersOf(D, L),
           NEW flight, Silent(D, flight), NEW u \in Sessions(Turning),
           u.state # sessionDpos, ~u.armed, u.stale = 0, u.rxMsgCount = 0, Run(L, u, L, flight),
           u.rxMsg2 = IF u.state = sessionTxmsg1 THEN 0 ELSE Cardinality(F),
           u.rxMsg4 = IF u.state = sessionTxmsg5 THEN Cardinality(F) ELSE 0,
           u.state # sessionTxmsg1 => u.vrlist = <<>> /\ F # {},
           u.state = sessionTxmsg5 => \A f \in F : invalid[f] \subseteq u.remove
    PROVE  /\ sess'[L].stale = 0
           /\ RoundInv(L, F, sess'[L], Live(D, net'), {}, invalid)
           /\ results' = results
           /\ sess'[L].opened = IF u.state = sessionTxmsg1 THEN u.opened + 1 ELSE u.opened
<1> USE DEF sessionIdle, sessionTxmsg1, sessionRxmsg2, sessionTxmsg3, sessionRxmsg4,
            sessionTxmsg5, sessionRxmsg6, sessionDpos
<1>1. u.state \in {1, 3, 5}
  BY DEF Sessions, Turning
<1>2. PICK s, N : s = sess'[L] /\ N = Live(D, net')
  OBVIOUS
<1>3. /\ s.state = u.state + 1 /\ s.rxMsgCount = 0
      /\ s.rxMsg2 = u.rxMsg2 /\ s.rxMsg4 = u.rxMsg4 /\ s.remove = u.remove
      /\ s.vrlist = <<>>
      /\ s.opened = IF u.state = 1 THEN u.opened + 1 ELSE u.opened
      /\ s.stale = 0
      /\ OneEach(L, F, s, N, {}) /\ Done(L, F, N, {}) = {}
      /\ \A m \in N : m.from = L /\ (u.state = 5 => m.list = u.remove)
      /\ results' = results
  <2>1. /\ s.state = u.state + 1 /\ s.rxMsgCount = u.rxMsgCount
        /\ s.rxMsg2 = u.rxMsg2 /\ s.rxMsg4 = u.rxMsg4 /\ s.remove = u.remove
        /\ s.vrlist = IF u.state = 1 THEN <<>> ELSE u.vrlist
        /\ s.opened = IF u.state = 1 THEN u.opened + 1 ELSE u.opened
        /\ s.stale = 0
        /\ OneEach(L, F, s, N, {}) /\ Done(L, F, N, {}) = {}
        /\ \A m \in N : m.from = L /\ (u.state = 5 => m.list = u.remove)
        /\ results' = results
    BY <1>2, RequestTurn
  <2> QED
    BY <2>1
<1>4. Cardinality({}) = 0 /\ Len(<<>>) = 0
  BY FS_EmptySet
<1>5. F \in SUBSET (Verifiers \ {L})
  BY DEF FollowersOf
<1>6. Cardinality(F) = 0 => F = {}
  BY <1>5, FewFollowers
<1>7. Counted(L, F, s, N, {}) /\ Awaiting(F, s)
  <2>1. Counted(L, F, s, N, {})
    <3>1. (s.state = 2 <=> u.state = 1) /\ (s.state = 4 <=> u.state = 3) /\ (s.state = 6 <=> u.state = 5)
      BY <1>1, <1>3
    <3>2. s.rxMsgCount = Cardinality(Done(L, F, N, {}))
      BY <1>3, <1>4
    <3> QED
      BY <1>1, <1>3, <3>1, <3>2 DEF Counted
  <2>2. Awaiting(F, s)
    BY <1>1, <1>3, <1>6 DEF Awaiting
  <2> QED
    BY <2>1, <2>2
<1>8. Invalids(L, F, s, N, {}, invalid)
  BY <1>1, <1>3 DEF Invalids
<1>9. Votes(L, F, s, N, {})
  <2>1. \A i : ~(i \in 1 .. Len(s.vrlist))
    BY <1>3, <1>4
  <2> QED
    BY <1>3, <1>4, <2>1 DEF Votes
<1> QED
  BY <1>1, <1>2, <1>3, <1>7, <1>8, <1>9 DEF RoundInv

\* A turn of L in the session it opened as the o-th: the session goes on, or it is
\* over, and decided when unanimous votes pass.
Turned(L, o) ==
    /\ sess'[L].opened = o
    /\ sess'[L].state # sessionIdle => results' = results
    /\ sess'[L].state = sessionIdle /\ WealthFits =>
          \E r : r.session = <<L, o>> /\ results' = results \cup {r}

\* A turn of L that counts the votes, its own included, when all who
\* follow it have agreed
\* (verify/leader.go, leaderNewRun: makeDPOS).
LEMMA DposTurn ==
    ASSUME TypeInv, NEW L \in Verifiers, lead[L] = L, NEW F, F = FollowersOf(lead, L),
           NEW flight, Silent(lead, flight), NEW u \in Sessions(Turning),
           u.state = sessionDpos, ~u.armed, u.stale = 0, u.rxMsgCount = 0, Run(L, u, L, flight),
           Len(u.vrlist) = Cardinality(F),
           \A i \in 1 .. Len(u.vrlist) : u.vrlist[i].session = <<L, u.opened>>,
           \A f \in F :
              \E i \in 1 .. Len(u.vrlist) : u.vrlist[i].NodeId = f /\ u.vrlist[i].Result
    PROVE  /\ Live(lead, net') = {} /\ Rest(sess'[L]) /\ sess'[L].stale = 0
           /\ \A r \in results' : r \in results \/ Unanimous(r)
           /\ Turned(L, u.opened)
<1> USE DEF sessionIdle, sessionTxmsg1, sessionRxmsg2, sessionTxmsg3, sessionRxmsg4,
            sessionTxmsg5, sessionRxmsg6, sessionDpos
<1>1. sess'[L] = RunState(L, u) /\ net' = flight \cup RunMsgs(L, u, L) /\ results' = results \cup RunResults(L, u)
  BY DEF Run, TypeInv
<1>2. Live(lead, net') = {}
  BY <1>1 DEF RunMsgs, Live, Silent
<1>3. PICK b : b = Ballot(L, TRUE, <<L, u.opened>>)
  OBVIOUS
<1>4. b.NodeId = L /\ b.Result /\ b.session = <<L, u.opened>> /\ b \in Ballots
  BY <1>3 DEF Ballot, Ballots, SessionIds, Sessions
<1>5. PICK l : l = Append(u.vrlist, b)
  OBVIOUS
<1>6. PICK T \in SUBSET Verifiers : T = Following(L)
  BY DEF Following
<1>7. T = F \cup {L} /\ L \notin F /\ T # {}
  BY <1>6 DEF Following, FollowersOf
<1>8. u.vrlist \in Seq(Ballots) /\ Cardinality(F) \in Nat /\ Cardinality(T) = Cardinality(F) + 1
  <2>1. F \in SUBSET (Verifiers \ {L})
    BY DEF FollowersOf
  <2>2. IsFiniteSet(F) /\ Cardinality(F) \in Nat
    BY <2>1, FewFollowers
  <2> QED
    BY <1>7, <2>2, FS_AddElement DEF Sessions
<1>9. /\ l \in Seq(Ballots) /\ Len(l) = Cardinality(T) /\ DOMAIN l = 1 .. Len(l)
      /\ l[Len(l)] = b /\ \A i \in 1 .. Len(u.vrlist) : l[i] = u.vrlist[i] /\ i \in 1 .. Len(l)
      /\ \A i \in 1 .. Len(l) : i = Len(l) \/ i \in 1 .. Len(u.vrlist)
      /\ Len(l) \in 1 .. Len(l)
  BY <1>4, <1>5, <1>8
<1>10. \A v \in T : \E i \in 1 .. Len(l) : l[i].NodeId = v /\ l[i].Result
  <2> TAKE v \in T
  <2>1. CASE v = L
    BY <1>4, <1>9, <2>1
  <2>2. CASE v \in F
    <3>1. PICK i \in 1 .. Len(u.vrlist) : u.vrlist[i].NodeId = v /\ u.vrlist[i].Result
      BY <2>2
    <3> QED
      BY <1>9, <3>1
  <2> QED
    BY <1>7, <2>1, <2>2
<1>11. Rest(sess'[L]) /\ sess'[L].stale = 0 /\ sess'[L].opened = u.opened
  <2>1. PICK v : v = [u EXCEPT !.state = 0, !.vrlist = l]
    OBVIOUS
  <2>2. v \in Sessions(Waiting) /\ v.state = 0 /\ v.opened = u.opened /\ SameFields(u, v)
    BY <2>1, <1>9 DEF Sessions, SameFields, Waiting
  <2>3. sess'[L] = NextTimer(v, FALSE)
    BY <1>1, <1>3, <1>5, <2>1 DEF RunState, OwnVote
  <2>4. PICK a, s : a = FALSE /\ s = sess'[L]
    OBVIOUS
  <2>5. a \in BOOLEAN /\ s = NextTimer(v, a) /\ ~a
    BY <2>3, <2>4, Zenon
  <2>6. /\ s.state = v.state /\ s.rxMsgCount = u.rxMsgCount /\ s.stale = 0 /\ s.armed = a
        /\ s.opened = v.opened
    BY <2>2, <2>5, Timed
  <2> QED
    BY <2>2, <2>4, <2>5, <2>6 DEF Rest
<1>12. ASSUME NEW r \in RunResults(L, u)
      PROVE  Unanimous(r)
  <2>1. r.session = <<L, u.opened>> /\ r.votes = l /\ r.following = T
    <3>1. l = OwnVote(L, u)
      BY <1>3, <1>5, Zenon DEF OwnVote
    <3>2. r = [session |-> <<L, u.opened>>, votes |-> l, answered |-> u.rxMsg2, following |-> T]
      BY <1>12, <1>6, <3>1, Zenon DEF RunResults
    <3> QED
      BY <3>2
  <2>2. Len(r.votes) = Cardinality(r.following)
    BY <2>1, <1>9
  <2>3. \A v \in r.following : \E i \in DOMAIN r.votes : r.votes[i].NodeId = v /\ r.votes[i].Result
    BY <2>1, <1>9, <1>10
  <2>4. \A i \in DOMAIN r.votes : r.votes[i].session = r.session
    BY <2>1, <1>9, <1>4
  <2> QED
    BY <2>2, <2>3, <2>4 DEF Unanimous
<1>13. ASSUME WealthFits
       PROVE  \E r : r.session = <<L, u.opened>> /\ results' = results \cup {r}
  <2>1. l = OwnVote(L, u)
    BY <1>3, <1>5, Zenon DEF OwnVote
  <2>2. DposTx(l)
    BY <1>9, <1>13, <1>7, <1>10, UnanimityPasses
  <2>3. PICK r : r = [session |-> <<L, u.opened>>, votes |-> l, answered |-> u.rxMsg2, following |-> T]
    OBVIOUS
  <2>4. RunResults(L, u) = {r}
    BY <1>6, <2>1, <2>2, <2>3 DEF RunResults
  <2>5. r.session = <<L, u.opened>>
    BY <2>3
  <2> QED
    BY <1>1, <2>4, <2>5
<1> QED
  BY <1>1, <1>2, <1>11, <1>12, <1>13 DEF Turned, Rest

\* A block arrives when all is quiet (verify/leader.go, waitForScheduler).
LEMMA SyncNotify ==
    ASSUME SynchronousNetwork, TypeInv, SyncInv, NEW n \in Verifiers, Notify(n)
    PROVE  SyncInv'
<1>1. /\ net = {} /\ replies = {} /\ \A v \in Verifiers : sess[v].state = sessionIdle
      /\ \A v \in Verifiers : Rest(sess[v])
  <2>1. net = {} /\ replies = {} /\ \A v \in Verifiers : sess[v].state = sessionIdle
    BY DEF Notify, SynchronousNetwork, Quiet
  <2> QED
    BY <2>1 DEF SyncInv, RoundInv
<1>2. PICK block, elected : block = height[n] + 1 /\ elected = ElectionLeader(block)
  OBVIOUS
<1>3. /\ block \in Nat /\ block > 0
      /\ height' = [height EXCEPT ![n] = block] /\ lead' = [lead EXCEPT ![n] = elected]
      /\ UNCHANGED <<invalid, replies, faults>>
  BY <1>2 DEF Notify, TypeInv, SynchronousNetwork
<1>4. \A v \in Verifiers : height'[v] > 0 => lead'[v] = ElectionLeader(height'[v])
  BY <1>2, <1>3 DEF TypeInv, SyncInv
<1>5. CASE UNCHANGED <<sess, net, results>>
  <2>1. Live(lead', net') = {}
    BY <1>1, <1>5 DEF Live
  <2> QED
    BY <1>1, <1>3, <1>4, <1>5, <2>1 DEF SyncInv, Unanimous
<1>6. CASE Opens(n, elected) /\ Run(n, [sess[n] EXCEPT !.state = sessionTxmsg1, !.rxMsg2 = 0, !.rxMsg4 = 0], n, net)
  <2>1. PICK u : u = [sess[n] EXCEPT !.state = sessionTxmsg1, !.rxMsg2 = 0, !.rxMsg4 = 0]
    OBVIOUS
  <2>2. sess[n] \in Sessions(Waiting) /\ sess[n].stale = 0 /\ Rest(sess[n])
    BY <1>1 DEF TypeInv, SyncInv
  <2>3. /\ u.state = sessionTxmsg1 /\ u.rxMsg2 = 0 /\ u.rxMsg4 = 0 /\ ~u.armed
        /\ u.stale = 0 /\ u.rxMsgCount = 0
    BY <2>1, <2>2 DEF Sessions, Rest
  <2>4. u \in Sessions(Turning)
    BY <2>1, <2>2, NextTurn, Zenon
  <2>5. Run(n, u, n, {})
    BY <1>1, <1>6, <2>1
  <2>6. /\ sess'[n].stale = 0 /\ results' = results
        /\ RoundInv(n, FollowersOf(lead', n), sess'[n], Live(lead', net'), {}, invalid)
    <3>1. PICK D, F : D = lead' /\ F = FollowersOf(D, n)
      OBVIOUS
    <3>2. Silent(D, {})
      BY DEF Silent, Live
    <3>3. /\ sess'[n].stale = 0 /\ results' = results
          /\ RoundInv(n, F, sess'[n], Live(D, net'), {}, invalid)
      BY <2>3, <2>4, <2>5, <3>1, <3>2, RequestRound DEF sessionTxmsg1, sessionTxmsg5, sessionDpos
    <3> QED
      BY <3>1, <3>3
  <2>7. lead'[n] = n
    BY <1>3, <1>6 DEF Opens, TypeInv
  <2>8. \A v \in Verifiers \ {n} : sess'[v] = sess[v]
    BY <2>5 DEF Run, TypeInv
  <2>9. \A v \in Verifiers : sess'[v].stale = 0
    BY <2>6, <2>8 DEF SyncInv
  <2>10. RoundInv(n, FollowersOf(lead', n), sess'[n], Live(lead', net'), replies', invalid')
    BY <1>1, <1>3, <2>6
  <2> QED
    BY <1>1, <1>3, <1>4, <2>6, <2>7, <2>8, <2>9, <2>10 DEF SyncInv, Unanimous
<1> QED
  BY <1>2, <1>5, <1>6 DEF Notify

\* What is on its way, and not ignored, belongs to an open session.
LEMMA SyncOpen ==
    ASSUME TypeInv, SyncInv, Live(lead, net) # {} \/ replies # {}
    PROVE  \E L \in Verifiers :
              /\ \A v \in Verifiers \ {L} : Rest(sess[v])
              /\ lead[L] = L
              /\ RoundInv(L, FollowersOf(lead, L), sess[L], Live(lead, net), replies, invalid)
  BY DEF SyncInv

\* A follower handles a request (verify/leader.go, followerProcessMsg).
LEMMA SyncFollower ==
    ASSUME TypeInv, SyncInv, NEW m \in Live(lead, net), FollowerProcessMsg(m, net \ {m}), UNCHANGED faults
    PROVE  SyncInv'
<1> USE DEF sessionIdle, sessionRxmsg2, sessionRxmsg4, sessionRxmsg6
<1>1. PICK L \in Verifiers :
         /\ \A v \in Verifiers \ {L} : Rest(sess[v])
         /\ lead[L] = L
         /\ RoundInv(L, FollowersOf(lead, L), sess[L], Live(lead, net), replies, invalid)
  BY SyncOpen
<1>2. PICK s, F, N, M : s = sess[L] /\ F = FollowersOf(lead, L) /\ N = Live(lead, net) /\ M = N \ {m}
  OBVIOUS
<1>3. N \in SUBSET Messages /\ m \in N /\ m \in Messages /\ s \in Sessions(Waiting) /\ F \in SUBSET (Verifiers \ {L})
  BY <1>2 DEF TypeInv, Live, FollowersOf
<1>4. /\ OneEach(L, F, s, N, replies) /\ Counted(L, F, s, N, replies) /\ Awaiting(F, s)
      /\ Invalids(L, F, s, N, replies, invalid) /\ Votes(L, F, s, N, replies) /\ s.state # 0
  BY <1>1, <1>2 DEF RoundInv
<1>5. /\ UNCHANGED <<height, lead, sess, results>> /\ Live(lead', net') = M
      /\ m.to \in Verifiers /\ m.to # L /\ m.from = L /\ m.type = s.state - 1
  <2>1. m.to # L /\ m.from = L /\ m.type = s.state - 1
    <3>1. lead[m.to] # m.to
      BY DEF FollowerProcessMsg, IsLeader
    <3>2. /\ m.from = L <=> m.to # L
          /\ m.type = IF m.from = L THEN s.state - 1 ELSE s.state
      BY <1>3, <1>4 DEF OneEach
    <3> QED
      BY <1>1, <3>1, <3>2
  <2>2. Live(lead, net \ {m}) = M
    BY <1>2 DEF Live
  <2> QED
    BY <1>3, <2>1, <2>2 DEF FollowerProcessMsg, Messages
<1>6. s.state \in {2, 4, 6}
  BY <1>3, <1>4 DEF Sessions, Waiting
<1>7. \A f \in Done(L, F, N, replies) : f # m.to
  BY <1>3, <1>5 DEF Done, Owes, Peer
<1>8. \A x \in M : x.from # L => x.from # m.to
  BY <1>2, <1>3, <1>4, <1>5 DEF OneEach, Peer
<1>9. \A r \in replies : r.node # m.to
  BY <1>3, <1>4, <1>5 DEF OneEach, Peer
<1>10. ASSUME NEW list, Answer(m, list), \A v \in Verifiers \ {m.to} : invalid'[v] = invalid[v],
              s.state = 4 => invalid'[m.to] = list,
              s.state = 6 => list = m.list /\ invalid' = invalid
       PROVE  RoundInv(L, F, s, M, replies', invalid')
  <2>1. PICK r : r = [node |-> m.to, type |-> m.type + 1, session |-> m.session, list |-> list]
    OBVIOUS
  <2>2. r.node = m.to /\ r.session = m.session /\ r.type = s.state /\ r.list = list
    BY <1>5, <1>6, <2>1
  <2>3. replies' = replies \cup {r}
    BY <1>10, <2>1 DEF Answer
  <2>4. OneEach(L, F, s, M, replies') /\ Done(L, F, M, replies') = Done(L, F, N, replies)
    BY <1>2, <1>3, <1>4, <1>5, <2>2, <2>3, Handed
  <2>5. Counted(L, F, s, M, replies') /\ Votes(L, F, s, M, replies')
    BY <1>4, <2>4 DEF Counted, Votes
  <2>6. Invalids(L, F, s, M, replies', invalid')
    <3>1. CASE s.state = 2
      BY <3>1 DEF Invalids
    <3>2. CASE s.state = 4
      <4>1. \A f \in Done(L, F, M, replies') : invalid'[f] \subseteq s.remove
        BY <1>3, <1>4, <1>7, <1>10, <2>4, <3>2 DEF Invalids, Done
      <4>2. \A x \in M : x.from # L => x.list = invalid'[x.from]
        BY <1>2, <1>3, <1>4, <1>8, <1>10, <3>2 DEF Invalids, Messages
      <4>3. \A x \in replies' : x.list = invalid'[x.node]
        BY <1>4, <1>9, <1>10, <2>2, <2>3, <3>2 DEF Invalids, TypeInv, Answers
      <4> QED
        BY <3>2, <4>1, <4>2, <4>3 DEF Invalids
    <3>3. CASE s.state = 6
      <4>1. m.list = s.remove
        BY <1>3, <1>4, <1>5, <3>3 DEF Invalids
      <4> QED
        BY <1>2, <1>4, <1>5, <1>10, <2>2, <2>3, <3>3, <4>1 DEF Invalids
    <3> QED
      BY <1>6, <3>1, <3>2, <3>3
  <2> QED
    BY <1>4, <2>4, <2>5, <2>6 DEF RoundInv
<1>11. RoundInv(L, F, s, M, replies', invalid')
  <2>1. CASE FollowerMsg1(m)
    <3>1. s.state = 2
      BY <1>5, <1>6, <2>1 DEF FollowerMsg1
    <3>2. Answer(m, {}) /\ \A v \in Verifiers \ {m.to} : invalid'[v] = invalid[v]
      BY <2>1 DEF FollowerMsg1, TypeInv
    <3> QED
      BY <3>1, <3>2, <1>10
  <2>2. CASE FollowerMsg3(m)
    <3>1. s.state = 4
      BY <1>5, <1>6, <2>2 DEF FollowerMsg3
    <3>2. PICK bad : Answer(m, bad) /\ invalid' = [invalid EXCEPT ![m.to] = bad]
      BY <2>2 DEF FollowerMsg3
    <3>3. invalid'[m.to] = bad /\ \A v \in Verifiers \ {m.to} : invalid'[v] = invalid[v]
      BY <1>5, <3>2 DEF TypeInv
    <3>4. s.state # 6
      BY <3>1
    <3> QED
      BY <3>2, <3>3, <3>4, <1>10, Zenon
  <2>3. CASE FollowerMsg5(m)
    <3>1. s.state = 6
      BY <1>5, <1>6, <2>3 DEF FollowerMsg5
    <3> QED
      BY <2>3, <3>1, <1>10 DEF FollowerMsg5
  <2> QED
    BY <2>1, <2>2, <2>3 DEF FollowerProcessMsg
<1>12. RoundInv(L, FollowersOf(lead', L), sess'[L], Live(lead', net'), replies', invalid')
  BY <1>2, <1>5, <1>11
<1> QED
  BY <1>1, <1>5, <1>12 DEF SyncInv, Unanimous

\* The answer is sent (verify/leader.go, followerProcess): a vote agrees, because
\* all that the follower found invalid is to be removed.
LEMMA SyncReply ==
    ASSUME TypeInv, SyncInv, NEW r \in replies, SendReply(r)
    PROVE  SyncInv'
<1> USE DEF sessionIdle, sessionRxmsg2, sessionRxmsg4, sessionRxmsg6
<1>1. PICK L \in Verifiers :
         /\ \A v \in Verifiers \ {L} : Rest(sess[v])
         /\ lead[L] = L
         /\ RoundInv(L, FollowersOf(lead, L), sess[L], Live(lead, net), replies, invalid)
  BY SyncOpen
<1>2. PICK s, F, N : s = sess[L] /\ F = FollowersOf(lead, L) /\ N = Live(lead, net)
  OBVIOUS
<1>3. r \in Answers /\ s \in Sessions(Waiting) /\ F \in SUBSET (Verifiers \ {L})
  BY <1>2 DEF TypeInv, FollowersOf
<1>4. /\ OneEach(L, F, s, N, replies) /\ Counted(L, F, s, N, replies) /\ Awaiting(F, s)
      /\ Invalids(L, F, s, N, replies, invalid) /\ Votes(L, F, s, N, replies) /\ s.state # 0
  BY <1>1, <1>2 DEF RoundInv
<1>5. r.node \in Verifiers /\ r.node # L /\ r.type = s.state /\ lead[r.node] = L
  BY <1>2, <1>3, <1>4 DEF OneEach, Answers, FollowersOf
<1>6. PICK list, vote : /\ list = IF r.type = 4 THEN r.list ELSE {}
                        /\ vote = (r.type = 6 => VoteToTx(r.node, r.list))
  OBVIOUS
<1>7. PICK m, M : m = Msg(r.type, r.node, L, r.session, list, vote) /\ M = N \cup {m}
  OBVIOUS
<1>8. /\ m.from = r.node /\ m.to = L /\ m.session = r.session /\ m.type = r.type
      /\ m.list = list /\ m.result = vote
  BY <1>7 DEF Msg
<1>9. /\ Live(lead', net') = M /\ replies' = replies \ {r}
      /\ UNCHANGED <<height, lead, sess, invalid, results, faults>>
  <2>1. /\ net' = net \cup {m} /\ replies' = replies \ {r}
        /\ UNCHANGED <<height, lead, sess, invalid, results, faults>>
    BY <1>5, <1>6, <1>7 DEF SendReply
  <2>2. ~Ignored(lead, m)
    BY <1>3, <1>8 DEF Ignored, Answers
  <2> QED
    BY <1>2, <1>7, <2>1, <2>2 DEF Live
<1>10. OneEach(L, F, s, M, replies') /\ Done(L, F, M, replies') = Done(L, F, N, replies)
  BY <1>3, <1>4, <1>7, <1>8, <1>9, Replied
<1>11. Counted(L, F, s, M, replies') /\ Votes(L, F, s, M, replies')
  BY <1>4, <1>10 DEF Counted, Votes
<1>12. Invalids(L, F, s, M, replies', invalid')
  <2>1. CASE s.state = 4
    <3>1. m.list = invalid[m.from]
      BY <1>4, <1>5, <1>6, <1>8, <2>1 DEF Invalids
    <3> QED
      BY <1>4, <1>7, <1>9, <1>10, <2>1, <3>1 DEF Invalids
  <2>2. CASE s.state = 6
    <3>1. invalid[r.node] \subseteq r.list
      BY <1>4, <2>2 DEF Invalids, OneEach
    <3>2. m.result
      BY <1>6, <1>8, <3>1 DEF VoteToTx
    <3>3. /\ \A f \in F : invalid[f] \subseteq s.remove
          /\ \A x \in N : IF x.from = L THEN x.list = s.remove ELSE x.result
          /\ \A x \in replies : x.list = s.remove
      BY <1>4, <2>2 DEF Invalids
    <3>4. \A x \in M : IF x.from = L THEN x.list = s.remove ELSE x.result
      BY <1>5, <1>7, <1>8, <3>2, <3>3
    <3> QED
      BY <1>9, <2>2, <3>3, <3>4 DEF Invalids
  <2> QED
    BY <2>1, <2>2 DEF Invalids
<1>13. RoundInv(L, FollowersOf(lead', L), sess'[L], Live(lead', net'), replies', invalid')
  BY <1>2, <1>4, <1>9, <1>10, <1>11, <1>12 DEF RoundInv
<1> QED
  BY <1>1, <1>9, <1>13 DEF SyncInv, Unanimous
\* An answer of the follower m.from is entered in the session s, which becomes t:
\* the count of leaderProcessMsg, before it is compared with the expected number.
Entered(s, m, t) ==
    /\ t.state = s.state /\ t.opened = s.opened /\ t.stale = s.stale
    /\ t.rxMsgCount = s.rxMsgCount + 1
    /\ t.rxMsg2 = IF s.state = sessionRxmsg2 THEN s.rxMsg2 + 1 ELSE s.rxMsg2
    /\ t.rxMsg4 = IF s.state = sessionRxmsg4 THEN s.rxMsg4 + 1 ELSE s.rxMsg4
    /\ t.remove = IF s.state = sessionRxmsg4 THEN s.remove \cup m.list ELSE s.remove
    /\ t.vrlist = IF s.state = sessionRxmsg6
                  THEN Append(s.vrlist, Ballot(m.from, m.result, m.session)) ELSE s.vrlist

LEMMA Tallied ==
    ASSUME TypeInv, NEW L \in Verifiers, NEW F \in SUBSET (Verifiers \ {L}),
           NEW N, N \subseteq Messages, NEW s \in Sessions(Waiting), NEW t \in Sessions(Waiting),
           RoundInv(L, F, s, N, replies, invalid), NEW m \in N, m.from # L, Entered(s, m, t)
    PROVE  /\ OneEach(L, F, t, N \ {m}, replies) /\ Counted(L, F, t, N \ {m}, replies)
           /\ Invalids(L, F, t, N \ {m}, replies, invalid) /\ Votes(L, F, t, N \ {m}, replies)
<1> USE DEF sessionIdle, sessionRxmsg2, sessionRxmsg4, sessionRxmsg6
<1>1. /\ OneEach(L, F, s, N, replies) /\ Counted(L, F, s, N, replies)
      /\ Invalids(L, F, s, N, replies, invalid) /\ Votes(L, F, s, N, replies) /\ s.state \in {2, 4, 6}
  BY DEF RoundInv, Sessions, Waiting
<1>2. m \in Messages /\ m.from \in Verifiers /\ replies \in SUBSET Answers
  BY DEF TypeInv, Messages
<1>3. PICK D, E : D = Done(L, F, N, replies) /\ E = Done(L, F, N \ {m}, replies)
  OBVIOUS
<1>4. OneEach(L, F, s, N \ {m}, replies) /\ m.from \notin D /\ E = D \cup {m.from}
  <2>1. PICK M : M = N \ {m}
    OBVIOUS
  <2>2. /\ OneEach(L, F, s, M, replies)
        /\ m.from \notin Done(L, F, N, replies)
        /\ Done(L, F, M, replies) = Done(L, F, N, replies) \cup {m.from}
    BY <1>1, <2>1, Answered
  <2> QED
    BY <1>3, <2>1, <2>2
<1>5. IsFiniteSet(D) /\ Cardinality(E) = Cardinality(D) + 1
  <2>1. IsFiniteSet(D)
    BY <1>1, <1>2, <1>3, AllDone
  <2> QED
    BY <1>4, <2>1, FS_AddElement
<1>6. t.state = s.state /\ t.opened = s.opened /\ t.rxMsgCount = s.rxMsgCount + 1
  BY DEF Entered
<1>7. OneEach(L, F, t, N \ {m}, replies)
  BY <1>4, <1>6 DEF OneEach
<1>8. Counted(L, F, t, N \ {m}, replies)
  <2>1. t.rxMsgCount = Cardinality(E)
    BY <1>1, <1>3, <1>5, <1>6 DEF Counted
  <2>2. /\ s.state = 2 => t.rxMsg2 = t.rxMsgCount /\ t.rxMsg4 = 0
        /\ s.state # 2 => t.rxMsg2 = Cardinality(F)
        /\ s.state = 4 => t.rxMsg4 = t.rxMsgCount
        /\ s.state = 6 => t.rxMsg4 = Cardinality(F)
    BY <1>1, <1>6 DEF Counted, Entered
  <2> QED
    BY <1>3, <1>6, <2>1, <2>2 DEF Counted
<1>9. Invalids(L, F, t, N \ {m}, replies, invalid)
  <2>1. CASE s.state = 2
    BY <1>6, <2>1 DEF Invalids
  <2>2. CASE s.state = 4
    <3>1. t.remove = s.remove \cup m.list /\ m.list = invalid[m.from]
      <4>1. m.list = invalid[m.from]
        BY <1>1, <2>2 DEF Invalids
      <4> QED
        BY <2>2, <4>1 DEF Entered
    <3>2. \A f \in D : invalid[f] \subseteq s.remove
      BY <1>1, <1>3, <2>2 DEF Invalids
    <3>3. \A f \in E : invalid[f] \subseteq t.remove
      BY <1>4, <3>1, <3>2
    <3>4. /\ \A x \in N \ {m} : x.from # L => x.list = invalid[x.from]
          /\ \A r \in replies : r.list = invalid[r.node]
      BY <1>1, <2>2 DEF Invalids
    <3>5. t.state = 4
      BY <1>6, <2>2
    <3> QED
      BY <1>3, <3>3, <3>4, <3>5 DEF Invalids
  <2>3. CASE s.state = 6
    <3>1. t.remove = s.remove
      BY <2>3 DEF Entered
    <3> QED
      BY <1>1, <1>6, <2>3, <3>1 DEF Invalids
  <2> QED
    BY <1>1, <2>1, <2>2, <2>3
<1>10. Votes(L, F, t, N \ {m}, replies)
  <2>1. CASE s.state # 6
    BY <1>1, <1>6, <2>1 DEF Votes, Entered
  <2>2. CASE s.state = 6
    <3>1. PICK b : b = Ballot(m.from, m.result, m.session)
      OBVIOUS
    <3>2. b \in Ballots /\ b.NodeId = m.from /\ b.Result = m.result /\ b.session = m.session
      BY <1>2, <3>1 DEF Ballot, Ballots, Messages
    <3>3. b.Result /\ b.session = <<L, s.opened>>
      BY <1>1, <2>2, <3>2 DEF Invalids, OneEach
    <3>4. t.vrlist = Append(s.vrlist, b) /\ s.vrlist \in Seq(Ballots)
      <4>1. t.vrlist = Append(s.vrlist, b)
        BY <2>2, <3>1, Zenon DEF Entered
      <4> QED
        BY <4>1 DEF Sessions
    <3>5. /\ Len(t.vrlist) = Len(s.vrlist) + 1 /\ Len(s.vrlist) \in Nat
          /\ t.vrlist[Len(s.vrlist) + 1] = b
          /\ \A i \in 1 .. Len(s.vrlist) : t.vrlist[i] = s.vrlist[i]
      BY <3>2, <3>4
    <3>6. Len(t.vrlist) = t.rxMsgCount
      BY <1>1, <1>6, <2>2, <3>5 DEF Votes
    <3>7. \A i \in 1 .. Len(t.vrlist) : t.vrlist[i].session = <<L, t.opened>>
      <4>1. \A i \in 1 .. Len(s.vrlist) : s.vrlist[i].session = <<L, s.opened>>
        BY <1>1, <2>2 DEF Votes
      <4>2. \A i \in 1 .. Len(t.vrlist) : i \in 1 .. Len(s.vrlist) \/ i = Len(s.vrlist) + 1
        BY <3>5
      <4> QED
        BY <1>6, <3>3, <3>5, <4>1, <4>2
    <3>8. \A f \in E : \E i \in 1 .. Len(t.vrlist) : t.vrlist[i].NodeId = f /\ t.vrlist[i].Result
      <4> TAKE f \in E
      <4>1. CASE f = m.from
        <5>1. Len(s.vrlist) + 1 \in 1 .. Len(t.vrlist)
          BY <3>5
        <5> QED
          BY <4>1, <5>1, <3>2, <3>3, <3>5
      <4>2. CASE f \in D
        <5>1. PICK i \in 1 .. Len(s.vrlist) : s.vrlist[i].NodeId = f /\ s.vrlist[i].Result
          BY <1>1, <1>3, <2>2, <4>2 DEF Votes
        <5>2. i \in 1 .. Len(t.vrlist)
          BY <3>5
        <5> QED
          BY <5>1, <5>2, <3>5
      <4> QED
        BY <1>4, <4>1, <4>2
    <3> QED
      BY <1>3, <1>6, <2>2, <3>6, <3>7, <3>8 DEF Votes
  <2> QED
    BY <2>1, <2>2
<1> QED
  BY <1>7, <1>8, <1>9, <1>10
\* TIMEIN, when all the answers are in.
LEMMA SyncTimeIn ==
    ASSUME SynchronousNetwork, TypeInv, NEW L \in Verifiers, lead[L] = L,
           NEW F, F = FollowersOf(lead, L), F # {}, NEW flight, Silent(lead, flight),
           NEW t \in Sessions(Waiting), t.stale = 0, t.state # sessionIdle,
           Counted(L, F, t, {}, {}), Invalids(L, F, t, {}, {}, invalid), Votes(L, F, t, {}, {}),
           TimeIn(L, t, flight)
    PROVE  /\ sess'[L].stale = 0
           /\ \/ Live(lead, net') = {} /\ Rest(sess'[L])
              \/ RoundInv(L, F, sess'[L], Live(lead, net'), {}, invalid)
           /\ \A r \in results' : r \in results \/ Unanimous(r)
           /\ \A v \in Verifiers \ {L} : sess'[v] = sess[v]
           /\ Turned(L, t.opened)
<1> USE DEF sessionIdle, sessionTxmsg1, sessionRxmsg2, sessionTxmsg3, sessionRxmsg4,
            sessionTxmsg5, sessionRxmsg6, sessionDpos
<1>1. PICK w \in StopTimer(t) : Run(L, [w EXCEPT !.state = @ + 1, !.rxMsgCount = 0], L, flight)
  BY DEF TimeIn
<1>2. w = [t EXCEPT !.armed = FALSE]
  BY DEF StopTimer, SynchronousNetwork
<1>3. PICK u : u = [w EXCEPT !.state = @ + 1, !.rxMsgCount = 0]
  OBVIOUS
<1>4. /\ w \in Sessions(Waiting) /\ ~w.armed /\ w.stale = 0 /\ w.state = t.state /\ w.rxMsg2 = t.rxMsg2
      /\ w.rxMsg4 = t.rxMsg4 /\ w.remove = t.remove /\ w.vrlist = t.vrlist /\ w.opened = t.opened
  BY <1>2 DEF Sessions
<1>5. /\ u.state = t.state + 1 /\ u.rxMsgCount = 0 /\ ~u.armed /\ u.stale = 0 /\ u.rxMsg2 = t.rxMsg2
      /\ u.rxMsg4 = t.rxMsg4 /\ u.remove = t.remove /\ u.vrlist = t.vrlist /\ u.opened = t.opened
  BY <1>3, <1>4 DEF Sessions
<1>6. u \in Sessions(Turning)
  BY <1>3, <1>4, NextTurn, Zenon
<1>7. Run(L, u, L, flight)
  BY <1>1, <1>3
<1>8. t.state \in {2, 4, 6}
  BY DEF Sessions, Waiting
<1>9. Done(L, F, {}, {}) = F /\ t.rxMsgCount = Cardinality(F)
  BY NobodyOwes DEF Counted
<1>10. \A v \in Verifiers \ {L} : sess'[v] = sess[v]
  BY <1>7 DEF Run, TypeInv
<1>11. CASE t.state \in {2, 4}
  <2>1. u.rxMsg2 = IF u.state = 1 THEN 0 ELSE Cardinality(F)
    BY <1>5, <1>9, <1>11 DEF Counted
  <2>2. u.rxMsg4 = IF u.state = 5 THEN Cardinality(F) ELSE 0
    BY <1>5, <1>9, <1>11 DEF Counted
  <2>3. u.vrlist = <<>> /\ u.state # 7
    BY <1>5, <1>11 DEF Votes
  <2>4. u.state = 5 => \A f \in F : invalid[f] \subseteq u.remove
    BY <1>5, <1>9, <1>11 DEF Invalids
  <2>5. /\ sess'[L].stale = 0 /\ RoundInv(L, F, sess'[L], Live(lead, net'), {}, invalid) /\ results' = results
        /\ sess'[L].opened = IF u.state = 1 THEN u.opened + 1 ELSE u.opened
    BY <1>5, <1>6, <1>7, <2>1, <2>2, <2>3, <2>4, RequestRound
  <2>6. Turned(L, t.opened)
    BY <1>5, <1>11, <2>5 DEF Turned, RoundInv
  <2> QED
    BY <1>10, <2>5, <2>6
<1>12. CASE t.state = 6
  <2>1. u.state = 7
    BY <1>5, <1>12
  <2>2. /\ Len(u.vrlist) = Cardinality(F)
        /\ \A i \in 1 .. Len(u.vrlist) : u.vrlist[i].session = <<L, u.opened>>
        /\ \A f \in F :
              \E i \in 1 .. Len(u.vrlist) : u.vrlist[i].NodeId = f /\ u.vrlist[i].Result
    BY <1>5, <1>9, <1>12 DEF Votes
  <2>3. /\ Live(lead, net') = {} /\ Rest(sess'[L]) /\ sess'[L].stale = 0
        /\ \A r \in results' : r \in results \/ Unanimous(r)
        /\ Turned(L, u.opened)
    BY <1>5, <1>6, <1>7, <2>1, <2>2, DposTurn
  <2> QED
    BY <1>5, <1>10, <2>3
<1> QED
  BY <1>8, <1>11, <1>12

\* A step of the session of L, and of no other.
Progress ==
    \E L \in Verifiers :
        /\ sess[L].state # sessionIdle
        /\ \A v \in Verifiers \ {L} : sess'[v] = sess[v]
        /\ Turned(L, sess[L].opened)
        /\ UNCHANGED height

\* The leader handles an answer (verify/leader.go, leaderProcessMsg).
LEMMA SyncLeader ==
    ASSUME SynchronousNetwork, TypeInv, SyncInv, NEW m \in Live(lead, net), LeaderProcessMsg(m, net \ {m}),
           UNCHANGED faults
    PROVE  SyncInv' /\ Progress
<1> USE DEF sessionIdle, sessionRxmsg2, sessionRxmsg4, sessionRxmsg6
<1>1. PICK L \in Verifiers :
         /\ \A v \in Verifiers \ {L} : Rest(sess[v])
         /\ lead[L] = L
         /\ RoundInv(L, FollowersOf(lead, L), sess[L], Live(lead, net), replies, invalid)
  BY SyncOpen
<1>2. PICK s, F, N : s = sess[L] /\ F = FollowersOf(lead, L) /\ N = Live(lead, net)
  OBVIOUS
<1>3. /\ N \in SUBSET Messages /\ m \in N /\ m \in Messages /\ s \in Sessions(Waiting) /\ s.stale = 0
      /\ F \in SUBSET (Verifiers \ {L})
  BY <1>2 DEF TypeInv, SyncInv, Live, FollowersOf
<1>4. /\ OneEach(L, F, s, N, replies) /\ Counted(L, F, s, N, replies)
      /\ RoundInv(L, F, s, N, replies, invalid) /\ s.state # 0
  BY <1>1, <1>2 DEF RoundInv
<1>5. /\ m.to = L /\ m.from # L /\ m.from \in F /\ m.type = s.state /\ sess[m.to] = s
      /\ UNCHANGED <<height, lead, invalid, replies>>
  <2>1. lead[m.to] = m.to
    BY DEF LeaderProcessMsg, IsLeader
  <2>2. \A f \in F : lead[f] = L /\ f # L
    BY <1>2 DEF FollowersOf
  <2>3. /\ m.from = L <=> m.to # L
        /\ m.type = IF m.from = L THEN s.state - 1 ELSE s.state
        /\ Peer(L, m) \in F
    BY <1>3, <1>4 DEF OneEach
  <2>4. m.to = L
    BY <2>1, <2>2, <2>3 DEF Peer
  <2> QED
    BY <1>2, <2>3, <2>4 DEF LeaderProcessMsg, Peer
<1>6. s.state \in {2, 4, 6}
  BY <1>3, <1>4 DEF Sessions, Waiting
<1>7. ASSUME NEW x \in Sessions(Waiting), NEW expected, Count(L, x, expected, net \ {m}),
             expected = Cardinality(F) \/ (s.state = 2 /\ expected = Cardinality(Verifiers) - 1),
             Entered(s, m, [x EXCEPT !.rxMsgCount = @ + 1])
      PROVE  /\ sess'[L].stale = 0
             /\ \/ Live(lead, net') = {} /\ replies' = {} /\ Rest(sess'[L])
                \/ RoundInv(L, F, sess'[L], Live(lead, net'), replies', invalid')
             /\ \A r \in results' : r \in results \/ Unanimous(r)
             /\ \A v \in Verifiers \ {L} : sess'[v] = sess[v]
             /\ Turned(L, s.opened)
  <2>1. PICK t : t = [x EXCEPT !.rxMsgCount = @ + 1]
    OBVIOUS
  <2>2. t \in Sessions(Waiting) /\ Entered(s, m, t)
    BY <1>7, <2>1 DEF Sessions
  <2>3. /\ OneEach(L, F, t, N \ {m}, replies) /\ Counted(L, F, t, N \ {m}, replies)
        /\ Invalids(L, F, t, N \ {m}, replies, invalid) /\ Votes(L, F, t, N \ {m}, replies)
    BY <1>3, <1>4, <1>5, <2>2, Tallied
  <2>4. t.stale = 0 /\ t.state # 0 /\ t.opened = s.opened
    BY <1>3, <1>4, <2>2 DEF Entered
  <2>5. CASE t.rxMsgCount = expected /\ TimeIn(L, t, net \ {m})
    <3>1. N \ {m} = {} /\ replies = {}
      <4>1. PICK c : c = Cardinality(Done(L, F, N \ {m}, replies))
        OBVIOUS
      <4>2. c \in 0 .. Cardinality(F) /\ (c = Cardinality(F) => N \ {m} = {} /\ replies = {})
        BY <1>3, <2>3, <4>1, AllDone
      <4>3. c = expected
        BY <2>3, <2>5, <4>1 DEF Counted
      <4>4. Cardinality(F) \in Nat /\ Cardinality(Verifiers) \in Nat /\ Cardinality(F) <= Cardinality(Verifiers) - 1
        BY <1>3, FewFollowers
      <4> QED
        BY <1>7, <4>2, <4>3, <4>4
    <3>2. /\ Counted(L, F, t, {}, {}) /\ Invalids(L, F, t, {}, {}, invalid)
          /\ Votes(L, F, t, {}, {}) /\ Silent(lead, net \ {m})
      BY <1>2, <2>3, <3>1 DEF Silent, Live
    <3>3. F # {} /\ lead[L] = L
      BY <1>1, <1>5
    <3>4. /\ sess'[L].stale = 0
          /\ \/ Live(lead, net') = {} /\ Rest(sess'[L])
             \/ RoundInv(L, F, sess'[L], Live(lead, net'), {}, invalid)
          /\ \A r \in results' : r \in results \/ Unanimous(r)
          /\ \A v \in Verifiers \ {L} : sess'[v] = sess[v]
          /\ Turned(L, t.opened)
      BY <1>2, <2>2, <2>4, <2>5, <3>2, <3>3, SyncTimeIn
    <3> QED
      BY <1>5, <2>4, <3>1, <3>4
  <2>6. CASE t.rxMsgCount # expected /\ sess' = [sess EXCEPT ![L] = t] /\ net' = net \ {m} /\ UNCHANGED results
    <3>1. sess'[L] = t /\ \A v \in Verifiers \ {L} : sess'[v] = sess[v]
      BY <2>6 DEF TypeInv
    <3>2. RoundInv(L, F, t, Live(lead, net'), replies', invalid')
      <4>1. Live(lead, net') = N \ {m}
        BY <1>2, <2>6 DEF Live
      <4>2. Awaiting(F, t)
        BY <1>7, <2>2, <2>6 DEF Awaiting, Entered
      <4> QED
        BY <1>5, <2>3, <2>4, <4>1, <4>2 DEF RoundInv
    <3>3. Turned(L, s.opened)
      BY <2>4, <2>6, <3>1 DEF Turned
    <3> QED
      BY <2>4, <2>6, <3>1, <3>2, <3>3
  <2> QED
    BY <1>7, <2>1, <2>5, <2>6 DEF Count
<1>8. /\ sess'[L].stale = 0
      /\ \/ Live(lead, net') = {} /\ replies' = {} /\ Rest(sess'[L])
         \/ RoundInv(L, F, sess'[L], Live(lead, net'), replies', invalid')
      /\ \A r \in results' : r \in results \/ Unanimous(r)
      /\ \A v \in Verifiers \ {L} : sess'[v] = sess[v]
      /\ Turned(L, s.opened)
  <2>1. CASE LeaderMsg2(m, net \ {m})
    <3>1. PICK x : x = [s EXCEPT !.rxMsg2 = @ + 1]
      OBVIOUS
    <3>2. s.state = 2 /\ Count(L, x, Cardinality(Verifiers) - 1, net \ {m})
      BY <1>5, <2>1, <3>1 DEF LeaderMsg2
    <3>3. x \in Sessions(Waiting)
      BY <1>3, <3>1 DEF Sessions
    <3>4. Entered(s, m, [x EXCEPT !.rxMsgCount = @ + 1])
      BY <1>3, <3>1, <3>2 DEF Entered, Sessions
    <3> QED
      BY <1>7, <3>2, <3>3, <3>4
  <2>2. CASE LeaderMsg4(m, net \ {m})
    <3>1. PICK x : x = [s EXCEPT !.rxMsg4 = @ + 1, !.remove = @ \cup m.list]
      OBVIOUS
    <3>2. s.state = 4 /\ Count(L, x, s.rxMsg2, net \ {m})
      BY <1>5, <2>2, <3>1 DEF LeaderMsg4
    <3>3. x \in Sessions(Waiting)
      <4>1. s.rxMsg4 + 1 \in Nat /\ s.remove \cup m.list \in SUBSET Indices
        BY <1>3 DEF Sessions, Messages
      <4> QED
        BY <1>3, <3>1, <4>1, SetFields
    <3>4. Entered(s, m, [x EXCEPT !.rxMsgCount = @ + 1])
      BY <1>3, <3>1, <3>2 DEF Entered, Sessions
    <3>5. s.rxMsg2 = Cardinality(F)
      BY <1>4, <3>2 DEF Counted
    <3> QED
      BY <1>7, <3>2, <3>3, <3>4, <3>5
  <2>3. CASE LeaderMsg6(m, net \ {m})
    <3>1. PICK l : l = Append(s.vrlist, Ballot(m.from, m.result, m.session))
      OBVIOUS
    <3>2. PICK x : x = [s EXCEPT !.vrlist = l]
      OBVIOUS
    <3>3. s.state = 6
      BY <1>5, <2>3 DEF LeaderMsg6
    <3>4. Count(L, x, s.rxMsg4, net \ {m})
      <4>1. x = [s EXCEPT !.vrlist = Append(@, Ballot(m.from, m.result, m.session))]
        BY <3>1, <3>2
      <4> QED
        BY <1>5, <2>3, <3>3, <4>1, Zenon DEF LeaderMsg6
    <3>5. l \in Seq(Ballots)
      BY <1>3, <3>1 DEF Sessions, Messages, Ballot, Ballots
    <3>6. x \in Sessions(Waiting)
      BY <1>3, <3>2, <3>5 DEF Sessions
    <3>7. Entered(s, m, [x EXCEPT !.rxMsgCount = @ + 1])
      BY <1>3, <3>1, <3>2, <3>3, <3>5 DEF Entered, Sessions
    <3>8. s.rxMsg4 = Cardinality(F)
      BY <1>4, <3>3 DEF Counted
    <3> QED
      BY <1>7, <3>4, <3>6, <3>7, <3>8
  <2> QED
    BY <2>1, <2>2, <2>3 DEF LeaderProcessMsg
<1>9. \A v \in Verifiers : sess'[v].stale = 0
  BY <1>8 DEF SyncInv
<1>10. \A r \in results' : Unanimous(r)'
  BY <1>8 DEF SyncInv, Unanimous
<1>11. Progress
  BY <1>1, <1>2, <1>4, <1>5, <1>8 DEF Progress
<1>12. FollowersOf(lead', L) = F /\ Live(lead', net') = Live(lead, net')
  BY <1>2, <1>5
<1> QED
  BY <1>1, <1>5, <1>8, <1>9, <1>10, <1>11, <1>12 DEF SyncInv

\* A timer fires when all is quiet: the leader goes on with those who answered, or
\* alone (verify/leader.go, leaderNewProcess, TIMEOUT).
LEMMA SyncTimeout ==
    ASSUME SynchronousNetwork, TypeInv, SyncInv, NEW n \in Verifiers, Timeout(n)
    PROVE  SyncInv' /\ Progress
<1> USE DEF sessionIdle, sessionTxmsg1, sessionRxmsg2, sessionTxmsg3, sessionRxmsg4,
            sessionTxmsg5, sessionRxmsg6, sessionDpos
<1>1. sess[n].armed /\ net = {} /\ replies = {} /\ TimeOut(n, [sess[n] EXCEPT !.armed = FALSE])
  BY DEF Timeout, SynchronousNetwork, Quiet
<1>2. PICK s, F : s = sess[n] /\ F = FollowersOf(lead, n)
  OBVIOUS
<1>3. /\ \A v \in Verifiers \ {n} : Rest(sess[v])
      /\ lead[n] = n
      /\ RoundInv(n, F, s, {}, {}, invalid)
  <2>1. ~Rest(sess[n])
    BY <1>1 DEF Rest
  <2>2. Live(lead, net) = {}
    BY <1>1 DEF Live
  <2> QED
    BY <1>1, <1>2, <2>1, <2>2 DEF SyncInv
<1>4. s \in Sessions(Waiting) /\ s.stale = 0 /\ F \in SUBSET (Verifiers \ {n})
  BY <1>2 DEF TypeInv, SyncInv, FollowersOf
<1>5. /\ Counted(n, F, s, {}, {}) /\ Awaiting(F, s) /\ Votes(n, F, s, {}, {})
  BY <1>3 DEF RoundInv
<1>6. s.rxMsgCount = Cardinality(F)
  BY <1>5, NobodyOwes DEF Counted
<1>7. s.state = 2 /\ s.vrlist = <<>> /\ s.rxMsg2 = Cardinality(F) /\ s.rxMsg4 = 0
  BY <1>5, <1>6 DEF Awaiting, Counted, Votes
<1>8. F = {} <=> s.rxMsgCount = 0
  BY <1>4, <1>6, FewFollowers
<1>9. PICK w : w = [s EXCEPT !.armed = FALSE]
  OBVIOUS
<1>10. /\ w \in Sessions(Waiting) /\ ~w.armed /\ w.stale = 0 /\ w.state = s.state
       /\ w.rxMsgCount = s.rxMsgCount /\ w.rxMsg2 = s.rxMsg2 /\ w.rxMsg4 = s.rxMsg4
       /\ w.vrlist = s.vrlist /\ w.opened = s.opened
  BY <1>4, <1>9 DEF Sessions
<1>11. PICK u : u = IF w.rxMsgCount = 0 THEN [w EXCEPT !.state = sessionDpos]
                    ELSE [w EXCEPT !.state = @ + 1, !.rxMsgCount = 0]
  OBVIOUS
<1>12. Run(n, u, n, {}) /\ UNCHANGED <<height, lead, invalid, replies, faults>>
  BY <1>1, <1>2, <1>3, <1>9, <1>11 DEF TimeOut
<1>13. \A v \in Verifiers \ {n} : sess'[v] = sess[v]
  BY <1>12 DEF Run, TypeInv
<1>14. /\ sess'[n].stale = 0
       /\ \/ Live(lead, net') = {} /\ Rest(sess'[n])
          \/ RoundInv(n, F, sess'[n], Live(lead, net'), {}, invalid)
       /\ \A r \in results' : r \in results \/ Unanimous(r)
       /\ Turned(n, s.opened)
  <2>1. CASE F = {}
    <3>1. /\ u.state = 7 /\ ~u.armed /\ u.stale = 0 /\ u.rxMsgCount = 0 /\ u.vrlist = <<>>
          /\ u.opened = s.opened /\ u \in Sessions(Turning)
      BY <1>7, <1>8, <1>10, <1>11, <2>1 DEF Sessions, Turning
    <3>2. /\ Len(u.vrlist) = Cardinality(F)
          /\ \A i \in 1 .. Len(u.vrlist) : u.vrlist[i].session = <<n, u.opened>>
      <4>1. Len(u.vrlist) = 0
        BY <3>1
      <4> QED
        BY <1>6, <1>8, <2>1, <4>1
    <3>3. /\ Live(lead, net') = {} /\ Rest(sess'[n]) /\ sess'[n].stale = 0
          /\ \A r \in results' : r \in results \/ Unanimous(r)
          /\ Turned(n, u.opened)
      <4>1. Silent(lead, {})
        BY DEF Silent, Live
      <4> QED
        BY <1>2, <1>3, <1>12, <2>1, <3>1, <3>2, <4>1, DposTurn
    <3> QED
      BY <3>1, <3>3
  <2>2. CASE F # {}
    <3>1. u = [w EXCEPT !.state = @ + 1, !.rxMsgCount = 0]
      BY <1>8, <1>10, <1>11, <2>2
    <3>2. /\ u.state = 3 /\ ~u.armed /\ u.stale = 0 /\ u.rxMsgCount = 0 /\ u.vrlist = <<>>
          /\ u.opened = s.opened /\ u.rxMsg2 = Cardinality(F) /\ u.rxMsg4 = 0
      BY <1>7, <1>10, <3>1 DEF Sessions
    <3>3. u \in Sessions(Turning)
      BY <1>10, <3>1, NextTurn, Zenon
    <3>4. /\ sess'[n].stale = 0 /\ RoundInv(n, F, sess'[n], Live(lead, net'), {}, invalid)
          /\ results' = results /\ sess'[n].opened = s.opened
      <4>1. Silent(lead, {})
        BY DEF Silent, Live
      <4> QED
        BY <1>2, <1>12, <2>2, <3>2, <3>3, <4>1, RequestRound
    <3> QED
      BY <3>4 DEF Turned, RoundInv
  <2> QED
    BY <2>1, <2>2
<1>15. \A r \in results' : Unanimous(r)'
  BY <1>14 DEF SyncInv, Unanimous
<1>16. Progress
  BY <1>2, <1>7, <1>12, <1>13, <1>14 DEF Progress
<1>17. FollowersOf(lead', n) = F /\ Live(lead', net') = Live(lead, net') /\ replies' = {} /\ invalid' = invalid
  BY <1>1, <1>2, <1>12
<1>18. \A v \in Verifiers : sess'[v].stale = 0
  BY <1>13, <1>14 DEF SyncInv
<1> QED
  BY <1>3, <1>12, <1>13, <1>14, <1>15, <1>16, <1>17, <1>18 DEF SyncInv

\* Nothing is lost or repeated, and a message is without use only to a verifier that
\* does not follow its sender.
LEMMA SyncReceive ==
    ASSUME SynchronousNetwork, TypeInv, SyncInv, NEW m \in net, Receive(m) \/ Lose(m)
    PROVE  /\ UNCHANGED faults
           /\ \/ /\ m \in Live(lead, net)
                 /\ LeaderProcessMsg(m, net \ {m}) \/ FollowerProcessMsg(m, net \ {m})
              \/ Ignored(lead, m) /\ Drop(m, net \ {m})
<1> USE DEF sessionIdle, sessionRxmsg2, sessionRxmsg4, sessionRxmsg6
<1>1. ~(faults.loss < MaxLoss) /\ ~(faults.dup < MaxDup)
  BY DEF SyncInv, SynchronousNetwork
<1>2. PICK flight : /\ Deliver(m, flight)
                    /\ LeaderProcessMsg(m, flight) \/ FollowerProcessMsg(m, flight) \/ Drop(m, flight)
  BY <1>1 DEF Receive, Lose
<1>3. flight = net \ {m} /\ UNCHANGED faults
  BY <1>1, <1>2 DEF Deliver
<1>4. CASE Ignored(lead, m)
  <2>1. ~LeaderProcessMsg(m, flight)
    BY <1>4 DEF Ignored, LeaderProcessMsg, LeaderMsg2, LeaderMsg4, LeaderMsg6
  <2>2. ~FollowerProcessMsg(m, flight)
    BY <1>4 DEF Ignored, FollowerProcessMsg
  <2> QED
    BY <1>2, <1>3, <1>4, <2>1, <2>2
<1>5. CASE ~Ignored(lead, m)
  <2>1. m \in Live(lead, net)
    BY <1>5 DEF Live
  <2>2. PICK L \in Verifiers :
           /\ lead[L] = L
           /\ RoundInv(L, FollowersOf(lead, L), sess[L], Live(lead, net), replies, invalid)
    BY <2>1, SyncOpen
  <2>3. PICK s, F : s = sess[L] /\ F = FollowersOf(lead, L)
    OBVIOUS
  <2>4. /\ m.from = L <=> m.to # L
        /\ m.type = IF m.from = L THEN s.state - 1 ELSE s.state
        /\ Peer(L, m) \in F
    BY <2>1, <2>2, <2>3 DEF RoundInv, OneEach
  <2>5. s.state \in {2, 4, 6} /\ \A f \in F : lead[f] = L /\ f # L
    BY <2>2, <2>3 DEF RoundInv, TypeInv, Sessions, Waiting, FollowersOf
  <2>6. ~Dropped(m)
    <3>1. CASE m.to = L
      <4>1. IsLeader(m.to) /\ m.type = s.state /\ sess[m.to] = s
        BY <2>2, <2>3, <2>4, <3>1 DEF IsLeader
      <4> QED
        BY <2>5, <4>1 DEF Dropped
    <3>2. CASE m.to # L
      <4>1. ~IsLeader(m.to) /\ m.from = L /\ m.type = s.state - 1 /\ lead[m.to] = L
        BY <2>4, <2>5, <3>2 DEF IsLeader, Peer
      <4> QED
        BY <2>5, <4>1 DEF Dropped
    <3> QED
      BY <3>1, <3>2
  <2> QED
    BY <1>2, <1>3, <2>1, <2>6 DEF Drop
<1> QED
  BY <1>4, <1>5

\* A request is dropped by a verifier that has not learned of the block yet.
LEMMA SyncDrop ==
    ASSUME SyncInv, NEW m \in net, Ignored(lead, m), Drop(m, net \ {m}), UNCHANGED faults
    PROVE  SyncInv'
<1>1. UNCHANGED <<height, lead, sess, invalid, replies, results>> /\ net' = net \ {m}
  BY DEF Drop
<1>2. Live(lead', net') = Live(lead, net)
  BY <1>1 DEF Live
<1>3. \A r \in results' : Unanimous(r)'
  BY <1>1 DEF SyncInv, Unanimous
<1> QED
  BY <1>1, <1>2, <1>3 DEF SyncInv

LEMMA SyncStep ==
    ASSUME SynchronousNetwork
    PROVE  TypeInv /\ SyncInv /\ [Next]_vars => SyncInv'
<1> SUFFICES ASSUME TypeInv, SyncInv, [Next]_vars
             PROVE  SyncInv'
  OBVIOUS
<1>1. ASSUME NEW n \in Verifiers, Notify(n) \/ Timeout(n) \/ StaleTimeout(n)
      PROVE  SyncInv'
  <2>1. ~StaleTimeout(n)
    BY DEF StaleTimeout, SyncInv
  <2> QED
    BY <1>1, <2>1, SyncNotify, SyncTimeout
<1>2. ASSUME NEW m \in net, Receive(m) \/ Lose(m)
      PROVE  SyncInv'
  BY <1>2, SyncReceive, SyncLeader, SyncFollower, SyncDrop
<1>3. CASE UNCHANGED vars
  BY <1>3 DEF vars, SyncInv, Unanimous
<1> QED
  BY <1>1, <1>2, <1>3, SyncReply DEF Next

LEMMA SyncInit == Init => SyncInv
<1> SUFFICES ASSUME Init
             PROVE  SyncInv
  OBVIOUS
<1>1. net = {} /\ replies = {} /\ results = {} /\ faults = [loss |-> 0, dup |-> 0]
  BY DEF Init
<1>2. \A v \in Verifiers : height[v] = 0
  BY DEF Init
<1>3. \A v \in Verifiers : Rest(sess[v]) /\ sess[v].stale = 0
  <2>1. PICK l : l = <<>>
    OBVIOUS
  <2>2. \A v \in Verifiers : sess[v] =
           [state |-> sessionIdle, rxMsgCount |-> 0, rxMsg2 |-> 0, rxMsg4 |-> 0, remove |-> {},
            vrlist |-> l, opened |-> 0, armed |-> FALSE, stale |-> 0]
    BY <2>1 DEF Init
  <2> QED
    BY <2>2 DEF Rest
<1> QED
  BY <1>1, <1>2, <1>3 DEF SyncInv, Live

\* When no message is lost or repeated, a round is faster than its timers and nobody
\* learns of a block during a round, then for any number of verifiers, whichever of
\* them learns of the block first, the votes of a session that is decided are those
\* of the leader and of all who followed it, once each, and all agree
\* (verify/leader.go, leaderProcessMsg, followerProcessMsg, voteToTx, leaderNewProcess).
THEOREM FollowersVote ==
    ASSUME SynchronousNetwork
    PROVE  Spec => []FollowersVoteOnce
<1>1. TypeInv /\ SyncInv /\ [Next]_vars => SyncInv'
  BY SyncStep
<1>2. SyncInv => FollowersVoteOnce
  BY DEF SyncInv, Unanimous, FollowersVoteOnce
<1> QED
  BY <1>1, <1>2, SyncInit, TypeInit, TypeStep, PTL DEF Spec

\* And, in the same setting, the votes a result rests on answer the requests of its own session
\* (verify/leader.go, sendMsg1 and leaderProcessMsg).
THEOREM VotesAreOfTheSession ==
    ASSUME SynchronousNetwork
    PROVE  Spec => []VotesOfThisSession
<1>1. TypeInv /\ SyncInv /\ [Next]_vars => SyncInv'
  BY SyncStep
<1>2. SyncInv => VotesOfThisSession
  BY DEF SyncInv, Unanimous, VotesOfThisSession
<1> QED
  BY <1>1, <1>2, SyncInit, TypeInit, TypeStep, PTL DEF Spec

-----------------------------------------------------------------------------
(* The rounds in order.                                                    *)

\* The blocks up to h that v leads, and the session of a block.
Led(v, h) == {a \in 1 .. h : ElectionLeader(a) = v}
SessionOf(b) == <<ElectionLeader(b), Cardinality(Led(ElectionLeader(b), b))>>
DecidedTo(h) == {SessionOf(b) : b \in 1 .. h}

\* Everyone has learned of a block, nobody of the one after the next, and the last
\* block that its leader has learned of is h.
Heights(H, h) ==
    \E b \in Nat :
        /\ \A v \in Verifiers : H[v] \in {b, b + 1}
        /\ \E v \in Verifiers : H[v] = b
        /\ h = IF H[ElectionLeader(b + 1)] = b + 1 THEN b + 1 ELSE b

\* A verifier has opened a session for each block it led; the blocks up to h are
\* decided, or those before h, while the session of h is open.
OrderInv(h) ==
    /\ Heights(height, h)
    /\ \A v \in Verifiers : sess[v].opened = Cardinality(Led(v, h))
    /\ \/ /\ \A v \in Verifiers : sess[v].state = sessionIdle
          /\ Decided = DecidedTo(h)
       \/ /\ h > 0
          /\ \A v \in Verifiers : sess[v].state # sessionIdle <=> v = ElectionLeader(h)
          /\ Decided = DecidedTo(h - 1)

LEMMA OpenedIs ==
    ASSUME NEW h, NEW H, Heights(H, h)
    PROVE  Opened(H) = h
<1>1. PICK b \in Nat : /\ \A v \in Verifiers : H[v] \in {b, b + 1}
                       /\ \E v \in Verifiers : H[v] = b
                       /\ h = IF H[ElectionLeader(b + 1)] = b + 1 THEN b + 1 ELSE b
  BY DEF Heights
<1>2. \A v \in Verifiers : b <= H[v] /\ H[v] \in Nat
  BY <1>1
<1>3. b \in {H[v] : v \in Verifiers}
  BY <1>1
<1>4. \A g \in {H[v] : v \in Verifiers} : (\A v \in Verifiers : g <= H[v]) => g = b
  BY <1>1, <1>2
<1>5. Lowest(H) = b
  BY <1>2, <1>3, <1>4 DEF Lowest
<1>6. PICK L \in Verifiers : L = ElectionLeader(b + 1)
  BY LeaderIsVerifier
<1>7. (H[L] >= b + 1 <=> H[L] = b + 1) /\ (b + 1) - 1 = b
  BY <1>1, <1>6
<1> QED
  BY <1>1, <1>5, <1>6, <1>7 DEF Opened

\* The blocks a verifier leads, one block further.
LEMMA LedNext ==
    ASSUME NEW h \in Nat, NEW v
    PROVE  /\ Cardinality(Led(v, h)) \in Nat
           /\ v = ElectionLeader(h + 1) => Cardinality(Led(v, h + 1)) = Cardinality(Led(v, h)) + 1
           /\ v # ElectionLeader(h + 1) => Cardinality(Led(v, h + 1)) = Cardinality(Led(v, h))
<1>1. IsFiniteSet(1 .. h)
  BY FS_Interval
<1>2. Led(v, h) \subseteq 1 .. h
  BY DEF Led
<1>3. IsFiniteSet(Led(v, h))
  BY <1>1, <1>2, FS_Subset
<1>4. Cardinality(Led(v, h)) \in Nat
  BY <1>3, FS_CardinalityType
<1>5. ASSUME v = ElectionLeader(h + 1)
      PROVE  Cardinality(Led(v, h + 1)) = Cardinality(Led(v, h)) + 1
  <2>1. Led(v, h + 1) = Led(v, h) \cup {h + 1} /\ h + 1 \notin Led(v, h)
    BY <1>5 DEF Led
  <2> QED
    BY <1>3, <2>1, FS_AddElement
<1>6. ASSUME v # ElectionLeader(h + 1)
      PROVE  Led(v, h + 1) = Led(v, h)
  BY <1>6 DEF Led
<1> QED
  BY <1>4, <1>5, <1>6

\* No two blocks have the same session.
LEMMA SessionsDiffer ==
    ASSUME NEW h \in Nat, h > 0
    PROVE  SessionOf(h) \notin DecidedTo(h - 1)
<1>1. SUFFICES ASSUME NEW b \in 1 .. h - 1, SessionOf(h) = SessionOf(b)
               PROVE  FALSE
  BY DEF DecidedTo
<1>2. PICK v : v = ElectionLeader(h) /\ v = ElectionLeader(b) /\ Cardinality(Led(v, h)) = Cardinality(Led(v, b))
  BY <1>1 DEF SessionOf
<1>3. Led(v, b) \subseteq Led(v, h) /\ h \in Led(v, h) /\ h \notin Led(v, b)
  <2>1. \A a \in 1 .. b : a \in 1 .. h /\ a # h
    BY <1>1
  <2>2. h \in 1 .. h
    OBVIOUS
  <2>3. ElectionLeader(h) = v
    BY <1>2
  <2> QED
    BY <2>1, <2>2, <2>3, Zenon DEF Led
<1>4. Led(v, h) \subseteq 1 .. h /\ IsFiniteSet(1 .. h)
  BY FS_Interval DEF Led
<1>5. IsFiniteSet(Led(v, h))
  BY <1>4, FS_Subset
<1> QED
  BY <1>2, <1>3, <1>5, FS_Subset

\* A step in terms of the blocks: nothing, a session opened, or one decided.
Ordered(h, g) ==
    \/ g = h /\ UNCHANGED Decided
    \/ g = h + 1 /\ h < MaxBlock /\ Decided = DecidedTo(h) /\ UNCHANGED Decided
    \/ /\ g = h /\ h > 0 /\ SessionOf(h) \notin Decided
       /\ Decided' = Decided \cup {SessionOf(h)}

LEMMA OrderStutter ==
    ASSUME NEW h \in Nat, OrderInv(h), UNCHANGED <<height, sess, results>>
    PROVE  OrderInv(h)' /\ Ordered(h, h)
<1>1. Decided' = Decided
  BY DEF Decided
<1> QED
  BY <1>1 DEF OrderInv, Ordered

LEMMA OrderProgress ==
    ASSUME WealthFits, NEW h \in Nat, OrderInv(h), Progress
    PROVE  OrderInv(h)' /\ Ordered(h, h)
<1>1. PICK L \in Verifiers : 
        /\ sess[L].state # sessionIdle
        /\ \A v \in Verifiers \ {L} : sess'[v] = sess[v]
        /\ Turned(L, sess[L].opened)
        /\ UNCHANGED height
  BY DEF Progress
<1>2. /\ h > 0 /\ L = ElectionLeader(h) /\ Decided = DecidedTo(h - 1)
      /\ \A v \in Verifiers \ {L} : sess[v].state = sessionIdle
  BY <1>1 DEF OrderInv
<1>3. /\ sess'[L].opened = sess[L].opened
      /\ \A v \in Verifiers : sess'[v].opened = Cardinality(Led(v, h))
  BY <1>1 DEF OrderInv, Turned
<1>4. CASE sess'[L].state # sessionIdle
  <2>1. Decided' = Decided
    BY <1>1, <1>4 DEF Decided, Turned
  <2>2. \A v \in Verifiers : sess'[v].state # sessionIdle <=> v = ElectionLeader(h)
    BY <1>1, <1>2, <1>4
  <2> QED
    BY <1>1, <1>2, <1>3, <2>1, <2>2 DEF OrderInv, Ordered
<1>5. CASE sess'[L].state = sessionIdle
  <2>1. PICK r : r.session = <<L, sess[L].opened>> /\ results' = results \cup {r}
    BY <1>1, <1>5 DEF Turned
  <2>2. r.session = SessionOf(h)
    BY <1>2, <2>1 DEF SessionOf, OrderInv
  <2>3. Decided' = Decided \cup {SessionOf(h)}
    BY <2>1, <2>2 DEF Decided
  <2>4. DecidedTo(h) = DecidedTo(h - 1) \cup {SessionOf(h)}
    <3>1. 1 .. h = (1 .. h - 1) \cup {h}
      BY <1>2
    <3> QED
      BY <3>1 DEF DecidedTo
  <2>5. \A v \in Verifiers : sess'[v].state = sessionIdle
    BY <1>1, <1>2, <1>5
  <2>6. SessionOf(h) \notin Decided
    BY <1>2, SessionsDiffer
  <2> QED
    BY <1>1, <1>2, <1>3, <2>3, <2>4, <2>5, <2>6 DEF OrderInv, Ordered
<1> QED
  BY <1>4, <1>5

\* A block arrives: for its leader it opens a session.
LEMMA OrderNotify ==
    ASSUME SynchronousNetwork, TypeInv, SyncInv, NEW h \in Nat, OrderInv(h),
           NEW n \in Verifiers, Notify(n)
    PROVE  \E g \in Nat : OrderInv(g)' /\ Ordered(h, g)
<1>1. /\ net = {} /\ \A v \in Verifiers : sess[v].state = sessionIdle
      /\ height[n] + 1 <= MaxBlock
      /\ \A v \in Verifiers : height[v] >= height[n]
      /\ height' = [height EXCEPT ![n] = height[n] + 1]
  BY DEF Notify, SynchronousNetwork, Quiet
<1>2. PICK b \in Nat : /\ \A v \in Verifiers : height[v] \in {b, b + 1}
                       /\ \E v \in Verifiers : height[v] = b
                       /\ h = IF height[ElectionLeader(b + 1)] = b + 1 THEN b + 1 ELSE b
  BY DEF OrderInv, Heights
<1>3. PICK L \in Verifiers : L = ElectionLeader(b + 1)
  BY LeaderIsVerifier
<1>4. height[n] = b
  BY <1>1, <1>2
<1>5. Decided = DecidedTo(h)
  <2>1. h > 0 => ElectionLeader(h) \in Verifiers
    BY LeaderIsVerifier
  <2> QED
    BY <1>1, <2>1 DEF OrderInv
<1>6. \A v \in Verifiers : height'[v] = IF v = n THEN b + 1 ELSE height[v]
  BY <1>1, <1>4 DEF TypeInv
<1>7. \A k \in Nat : k = (IF height'[L] = b + 1 THEN b + 1 ELSE b) => Heights(height', k)
  <2> TAKE k \in Nat
  <2> HAVE k = IF height'[L] = b + 1 THEN b + 1 ELSE b
  <2>1. CASE \E v \in Verifiers : height'[v] = b
    BY <1>2, <1>3, <1>6, <2>1 DEF Heights
  <2>2. CASE \A v \in Verifiers : height'[v] # b
    <3>1. \A v \in Verifiers : height'[v] = b + 1
      BY <1>2, <1>6, <2>2
    <3>2. PICK c \in Nat : c = b + 1
      OBVIOUS
    <3>3. ElectionLeader(c + 1) \in Verifiers
      BY LeaderIsVerifier
    <3>4. height'[ElectionLeader(c + 1)] # c + 1 /\ k = c
      BY <3>1, <3>2, <3>3
    <3> QED
      BY <3>1, <3>2, <3>4 DEF Heights
  <2> QED
    BY <2>1, <2>2
<1>8. CASE ~Opens(n, L) /\ UNCHANGED <<sess, net, results>>
  <2>1. n # L
    BY <1>1, <1>8 DEF Opens
  <2>2. Heights(height', h)
    BY <1>2, <1>3, <1>6, <1>7, <2>1
  <2>3. Decided' = Decided
    BY <1>8 DEF Decided
  <2>4. OrderInv(h)'
    BY <1>1, <1>5, <1>8, <2>2, <2>3 DEF OrderInv
  <2> QED
    BY <2>3, <2>4 DEF Ordered
<1>9. CASE Opens(n, L) /\ Run(n, [sess[n] EXCEPT !.state = sessionTxmsg1, !.rxMsg2 = 0, !.rxMsg4 = 0], n, net)
  <2>1. L = n /\ h = b
    BY <1>2, <1>3, <1>4, <1>9 DEF Opens
  <2>2. PICK u : u = [sess[n] EXCEPT !.state = sessionTxmsg1, !.rxMsg2 = 0, !.rxMsg4 = 0]
    OBVIOUS
  <2>3. sess[n] \in Sessions(Waiting) /\ sess[n].stale = 0 /\ Rest(sess[n])
    BY <1>1 DEF TypeInv, SyncInv, RoundInv
  <2>4. u.state = sessionTxmsg1 /\ ~u.armed /\ u.stale = 0 /\ u.opened = sess[n].opened
    BY <2>2, <2>3 DEF Sessions, Rest
  <2>5. u \in Sessions(Turning)
    BY <2>2, <2>3, NextTurn, Zenon
  <2>6. Run(n, u, n, {})
    BY <1>1, <1>9, <2>2
  <2>7. sess'[n].state = 2 /\ sess'[n].opened = sess[n].opened + 1 /\ results' = results
    <3>1. Silent(lead, {})
      BY DEF Silent, Live
    <3>2. PICK F : F = FollowersOf(lead, n)
      OBVIOUS
    <3> QED
      BY <2>4, <2>5, <2>6, <3>1, <3>2, RequestTurn DEF sessionTxmsg1, sessionDpos
  <2>8. \A v \in Verifiers \ {n} : sess'[v] = sess[v]
    BY <2>6 DEF Run, TypeInv
  <2>9. Heights(height', h + 1)
    BY <1>6, <1>7, <2>1
  <2>10. \A v \in Verifiers : sess'[v].opened = Cardinality(Led(v, h + 1))
    <3>1. \A v \in Verifiers : sess[v].opened = Cardinality(Led(v, h))
      BY DEF OrderInv
    <3>2. sess'[n].opened = Cardinality(Led(n, h + 1))
      BY <1>3, <2>1, <2>7, <3>1, LedNext
    <3>3. \A v \in Verifiers \ {n} : Cardinality(Led(v, h + 1)) = Cardinality(Led(v, h))
      BY <1>3, <2>1, LedNext
    <3> QED
      BY <2>8, <3>1, <3>2, <3>3
  <2>11. \A v \in Verifiers : sess'[v].state # sessionIdle <=> v = ElectionLeader(h + 1)
    BY <1>1, <1>3, <2>1, <2>7, <2>8 DEF sessionIdle
  <2>12. Decided' = Decided
    BY <2>7 DEF Decided
  <2>13. PICK g \in Nat : g = h + 1
    OBVIOUS
  <2>14. g > 0 /\ g - 1 = h
    BY <2>13
  <2>15. OrderInv(g)'
    BY <1>5, <2>9, <2>10, <2>11, <2>12, <2>13, <2>14 DEF OrderInv
  <2>16. Ordered(h, g)
    BY <1>1, <1>4, <1>5, <2>1, <2>12, <2>13, RoundAssumption DEF Ordered
  <2> QED
    BY <2>15, <2>16
<1> QED
  BY <1>3, <1>4, <1>8, <1>9 DEF Notify

LEMMA OrderStep ==
    ASSUME SynchronousNetwork, WealthFits, TypeInv, SyncInv, NEW h \in Nat, OrderInv(h), [Next]_vars
    PROVE  \E g \in Nat : OrderInv(g)' /\ Ordered(h, g)
<1>1. ASSUME NEW n \in Verifiers, Notify(n) \/ Timeout(n) \/ StaleTimeout(n)
      PROVE  \E g \in Nat : OrderInv(g)' /\ Ordered(h, g)
  <2>1. ~StaleTimeout(n)
    BY DEF StaleTimeout, SyncInv
  <2>2. CASE Timeout(n)
    BY <2>2, SyncTimeout, OrderProgress
  <2> QED
    BY <1>1, <2>1, <2>2, OrderNotify
<1>2. ASSUME NEW m \in net, Receive(m) \/ Lose(m)
      PROVE  \E g \in Nat : OrderInv(g)' /\ Ordered(h, g)
  <2>1. UNCHANGED faults
    BY <1>2, SyncReceive
  <2>2. CASE m \in Live(lead, net) /\ LeaderProcessMsg(m, net \ {m})
    BY <2>1, <2>2, SyncLeader, OrderProgress
  <2>3. CASE FollowerProcessMsg(m, net \ {m})
    <3>1. UNCHANGED <<height, sess, results>>
      BY <2>3 DEF FollowerProcessMsg
    <3> QED
      BY <3>1, OrderStutter
  <2>4. CASE Drop(m, net \ {m})
    <3>1. UNCHANGED <<height, sess, results>>
      BY <2>4 DEF Drop
    <3> QED
      BY <3>1, OrderStutter
  <2> QED
    BY <1>2, <2>2, <2>3, <2>4, SyncReceive
<1>3. ASSUME NEW r \in replies, SendReply(r)
      PROVE  \E g \in Nat : OrderInv(g)' /\ Ordered(h, g)
  BY <1>3, OrderStutter DEF SendReply
<1>4. CASE UNCHANGED vars
  BY <1>4, OrderStutter DEF vars
<1> QED
  BY <1>1, <1>2, <1>3, <1>4 DEF Next

LEMMA OrderInit ==
    ASSUME Init
    PROVE  OrderInv(0)
<1>1. PICK l : l = <<>>
  OBVIOUS
<1>2. \A v \in Verifiers : sess[v] =
         [state |-> sessionIdle, rxMsgCount |-> 0, rxMsg2 |-> 0, rxMsg4 |-> 0, remove |-> {},
          vrlist |-> l, opened |-> 0, armed |-> FALSE, stale |-> 0]
  BY <1>1 DEF Init
<1>3. \A v \in Verifiers : sess[v].state = sessionIdle /\ sess[v].opened = 0 /\ height[v] = 0
  BY <1>2 DEF Init
<1>4. Decided = {} /\ 1 .. 0 = {}
  BY DEF Init, Decided
<1>5. DecidedTo(0) = {} /\ \A v \in Verifiers : Led(v, 0) = {}
  BY <1>4 DEF DecidedTo, Led
<1>6. Cardinality({}) = 0
  BY FS_EmptySet
<1>7. Heights(height, 0)
  <2>1. ElectionLeader(0 + 1) \in Verifiers
    BY LeaderIsVerifier
  <2> QED
    BY <1>3, <2>1 DEF Heights
<1> QED
  BY <1>3, <1>4, <1>5, <1>6, <1>7 DEF OrderInv

\* The sessions of the abstract decider.
LEMMA DecisionSession ==
    ASSUME NEW b
    PROVE  Decision!Session(b) = SessionOf(b)
<1>1. \A S : Decision!Cardinality(S) = Cardinality(S)
  BY DEF Decision!Cardinality, Cardinality
<1> QED
  BY <1>1 DEF Decision!Session, SessionOf, Led

\* A round that is faster than its timers, in a network that loses and repeats
\* nothing and while nobody learns of a block during a round, implements the sequential decider of BlockDecision, for any verifiers
\* whose wealth DposTx can add up: sessions open one after the other in the order
\* of electionLeader, each after the one before is decided, and are decided once
\* (verify/leader.go, waitForScheduler, leaderNewProcess, makeDPOS).
THEOREM DecidesInOrder ==
    ASSUME SynchronousNetwork, WealthFits
    PROVE  Spec => DecidesBlocksInOrder
<1> DEFINE Inv == TypeInv /\ SyncInv /\ \E h \in Nat : OrderInv(h)
<1>1. Init => Inv
  BY TypeInit, SyncInit, OrderInit
<1>2. Inv /\ [Next]_vars => Inv'
  BY TypeStep, SyncStep, OrderStep
<1>3. Init => Decision!Init
  <2>1. SUFFICES ASSUME Init
                 PROVE  Decision!Init
    OBVIOUS
  <2>2. Opened(height) = 0
    BY <2>1, OrderInit, OpenedIs DEF OrderInv
  <2>3. Decided = {}
    BY <2>1 DEF Init, Decided
  <2> QED
    BY <2>2, <2>3 DEF Decision!Init
<1>4. Inv /\ [Next]_vars => [Decision!Next]_(Decision!vars)
  <2>1. SUFFICES ASSUME Inv, [Next]_vars
                 PROVE  [Decision!Next]_(Decision!vars)
    OBVIOUS
  <2>2. PICK h \in Nat : OrderInv(h)
    BY <2>1
  <2>3. PICK g \in Nat : OrderInv(g)' /\ Ordered(h, g)
    BY <2>1, <2>2, OrderStep
  <2>4. Opened(height) = h
    BY <2>2, OpenedIs DEF OrderInv
  <2>5. Opened(height') = g
    BY <2>3, OpenedIs DEF OrderInv
  <2>6. Opened(height)' = g
    BY <2>5 DEF Opened, Lowest
  <2>7. CASE g = h /\ UNCHANGED Decided
    BY <2>4, <2>6, <2>7 DEF Decision!vars
  <2>8. CASE g = h + 1 /\ h < MaxBlock /\ Decided = DecidedTo(h) /\ UNCHANGED Decided
    <3>1. DecidedTo(h) = {Decision!Session(b) : b \in 1 .. h}
      BY DecisionSession DEF DecidedTo
    <3> QED
      BY <2>4, <2>6, <2>8, <3>1 DEF Decision!Next, Decision!Open
  <2>9. CASE /\ g = h /\ h > 0 /\ SessionOf(h) \notin Decided
             /\ Decided' = Decided \cup {SessionOf(h)}
    BY <2>4, <2>6, <2>9, DecisionSession DEF Decision!Next, Decision!Decide
  <2> QED
    BY <2>3, <2>7, <2>8, <2>9 DEF Ordered
<1> HIDE DEF Inv
<1> QED
  BY <1>1, <1>2, <1>3, <1>4, PTL DEF Spec, DecidesBlocksInOrder, Decision!Safety
=============================================================================
