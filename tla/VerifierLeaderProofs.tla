------------------------ MODULE VerifierLeaderProofs ------------------------
(***************************************************************************)
(* Proofs about VerifierLeader: its type invariant, that the session loop  *)
(* never loses its wakeup and never follows a nil pretimeout, and that     *)
(* timers do not pile up, for every number of handlers, every verifier     *)
(* list and every bound.                                                   *)
(***************************************************************************)
EXTENDS VerifierLeader, FiniteSetTheorems, TLAPS

\* Where the loop is, and what it holds: it rests only in states that wait, what
\* it is about to write is a successor of such a state, and it only works on a
\* sending state.
LoopInv ==
    /\ loopPc \in {"recv", "arm"} => sessionState \in RxStates \cup {sessionIdle, sessionTxmsg1}
    /\ loopPc = "work" => loopReg \in {sessionTxmsg1, sessionTxmsg3, sessionTxmsg5, sessionDpos}

\* The wakeups: a session just opened has its TIMEUNKNOW coming, from the moment
\* the loop can no longer overwrite sessionTxmsg1; a session that waits has a
\* timer or a status.
WakeInv ==
    /\ loopPc \in {"recv", "arm"} /\ sessionState = sessionTxmsg1 =>
           schedPc = "post" \/ leaderWorkCh = <<"TIMEUNKNOW">>
    /\ loopPc = "recv" /\ sessionState \in RxStates => WakeupPending

\* Before the loop's first round no timer exists and no handler can have counted
\* its way to a TIMEIN: only votes are counted, against an empty rxMsg4List.
FirstRoundInv ==
    loopPc = "recv" /\ pretimeout = "nil" =>
        /\ sessionState \in {sessionIdle, sessionTxmsg1}
        /\ leaderWorkCh \in {<<>>, <<"TIMEUNKNOW">>}
        /\ blocked = 0
        /\ orphans = 0
        /\ listLen[sessionRxmsg4] = 0
        /\ \A h \in Handlers :
              /\ hPc[h] \in {"none", "start", "count", "compare"}
              /\ hPc[h] \in {"count", "compare"} => hKind[h] = sessionRxmsg6
              /\ hPc[h] = "compare" => rxMsgCount > 0

HandlerPcs == {"none", "start", "list", "count", "compare", "send"}

\* The part of TypeOK about the handlers.
HandlerTypes ==
    /\ hPc \in [Handlers -> HandlerPcs]
    /\ hKind \in [Handlers -> Kinds]
    /\ hReg \in [Handlers -> Nat]

IInv == TypeOK /\ LoopInv /\ WakeInv /\ FirstRoundInv

\* IInv holds initially.
LEMMA InitIInv == Init => IInv
  BY DEF Init, IInv, TypeOK, LoopInv, WakeInv, FirstRoundInv, Kinds, RxStates,
         SessionStates, sessionIdle, sessionTxmsg1, sessionRxmsg2, sessionRxmsg4,
         sessionRxmsg6, sessionDpos

\* A handler's step keeps the types of its own variables.
LEMMA HandlerGoType ==
    ASSUME TypeOK,
           NEW h \in Handlers,
           NEW pc \in HandlerPcs,
           NEW kind \in Kinds,
           NEW reg \in Nat,
           HandlerGo(h, pc, kind, reg)
    PROVE  HandlerTypes'
  BY DEF TypeOK, HandlerGo, HandlerTypes, HandlerPcs

\* A vote ends the wait when the count meets the length of rxMsg4List.
LEMMA ExpectedVotes == Expected(sessionRxmsg6) = listLen[sessionRxmsg4]
  BY DEF Expected, sessionRxmsg2, sessionRxmsg4, sessionRxmsg6

\* Every step of every goroutine preserves IInv.
LEMMA NextIInv == IInv /\ [Next]_vars => IInv'
<1> SUFFICES ASSUME IInv, [Next]_vars PROVE IInv'
  OBVIOUS
<1> USE MsgTypesAssumption
    DEF IInv, TypeOK, LoopInv, WakeInv, FirstRoundInv, WakeupPending, Kinds, RxStates,
        Statuses, SessionStates, sessionIdle, sessionTxmsg1, sessionRxmsg2,
        sessionTxmsg3, sessionRxmsg4, sessionTxmsg5, sessionRxmsg6, sessionDpos,
        sessionVars, nodeVars, loopVars, timerVars, handlerVars, Spend,
        HandlerTypes, HandlerPcs
<1>1. ASSUME NEW list \in Lists, ConfigNodelist(list) PROVE IInv'
  BY <1>1 DEF ConfigNodelist
<1>2. ASSUME Start PROVE IInv'
  BY <1>2 DEF Start
<1>3. ASSUME Stop PROVE IInv'
  BY <1>3 DEF Stop, Reset
<1>4. ASSUME NEW r \in {"leader", "follower"}, Notify(r) PROVE IInv'
  BY <1>4 DEF Notify
<1>5. ASSUME NEW h \in Handlers, NEW k \in MsgTypes, Receive(h, k) PROVE IInv'
  BY <1>5 DEF Receive, HandlerGo
<1>6. ASSUME BeginSession PROVE IInv'
  BY <1>6 DEF BeginSession, Reset
<1>7. ASSUME PostSession PROVE IInv'
  BY <1>7 DEF PostSession, SendWork
<1>8. ASSUME RecvUnknow PROVE IInv'
  BY <1>8 DEF RecvUnknow, LoopGo
<1>9. ASSUME RecvTimeout PROVE IInv'
  BY <1>9 DEF RecvTimeout, LoopGo
<1>10. ASSUME RecvTimein PROVE IInv'
  BY <1>10 DEF RecvTimein, LoopGo
<1>11. ASSUME WriteStatus PROVE IInv'
  BY <1>11 DEF WriteStatus, LoopGo
<1>12. ASSUME Branch PROVE IInv'
  BY <1>12 DEF Branch, LoopGo
<1>13. ASSUME SendMsg1 PROVE IInv'
  BY <1>13 DEF SendMsg1, EndWork, LoopGo
<1>14. ASSUME SendMsg3 PROVE IInv'
  BY <1>14 DEF SendMsg3, EndWork, LoopGo
<1>15. ASSUME SendMsg5 PROVE IInv'
  BY <1>15 DEF SendMsg5, EndWork, LoopGo
<1>16. ASSUME MakeDPOS PROVE IInv'
  BY <1>16 DEF MakeDPOS, EndWork, LoopGo
<1>17. ASSUME Arm PROVE IInv'
  BY <1>17 DEF Arm, LoopGo
<1>18. ASSUME Wake PROVE IInv'
  BY <1>18 DEF Wake
<1>19. ASSUME WakeOrphan PROVE IInv'
  BY <1>19 DEF WakeOrphan
<1>20. ASSUME SendTimeout PROVE IInv'
  BY <1>20 DEF SendTimeout, SendWork
<1>21. ASSUME NEW h \in Handlers, StartHandler(h) PROVE IInv'
  <2>h. HandlerTypes'
    <3>1. CASE HandlerGo(h, "list", hKind[h], listLen[hKind[h]])
      BY <3>1, HandlerGoType
    <3>2. CASE HandlerGo(h, "count", hKind[h], rxMsgCount)
      BY <3>2, HandlerGoType
    <3>3. CASE Return(h)
      BY <3>3, HandlerGoType DEF Return
    <3> QED
      BY <1>21, <3>1, <3>2, <3>3 DEF StartHandler
  <2>1. TypeOK'
    BY <1>21, <2>h DEF StartHandler
  <2>2. LoopInv'
    BY <1>21 DEF StartHandler, HandlerGo, Return
  <2>3. WakeInv'
    BY <1>21 DEF StartHandler, HandlerGo, Return
  <2>4. FirstRoundInv'
    BY <1>21 DEF StartHandler, HandlerGo, Return
  <2> QED
    BY <2>1, <2>2, <2>3, <2>4
<1>22. ASSUME NEW h \in Handlers, AppendAnswer(h) PROVE IInv'
  <2>h. HandlerTypes'
    BY <1>22, HandlerGoType DEF AppendAnswer
  <2>1. TypeOK'
    BY <1>22, <2>h DEF AppendAnswer
  <2>2. LoopInv'
    BY <1>22 DEF AppendAnswer
  <2>3. WakeInv'
    BY <1>22 DEF AppendAnswer
  <2>4. FirstRoundInv'
    BY <1>22 DEF AppendAnswer, HandlerGo
  <2> QED
    BY <2>1, <2>2, <2>3, <2>4
<1>23. ASSUME NEW h \in Handlers, CountAnswer(h) PROVE IInv'
  <2>h. HandlerTypes'
    BY <1>23, HandlerGoType DEF CountAnswer
  <2>1. TypeOK'
    BY <1>23, <2>h DEF CountAnswer
  <2>2. LoopInv'
    BY <1>23 DEF CountAnswer
  <2>3. WakeInv'
    BY <1>23 DEF CountAnswer
  <2>4. FirstRoundInv'
    BY <1>23 DEF CountAnswer, HandlerGo
  <2> QED
    BY <2>1, <2>2, <2>3, <2>4
<1>24. ASSUME NEW h \in Handlers, CompareCount(h) PROVE IInv'
  <2>h. HandlerTypes'
    <3>1. CASE HandlerGo(h, "send", hKind[h], 0)
      BY <3>1, HandlerGoType
    <3>2. CASE Return(h)
      BY <3>2, HandlerGoType DEF Return
    <3> QED
      BY <1>24, <3>1, <3>2 DEF CompareCount
  <2>1. TypeOK'
    BY <1>24, <2>h DEF CompareCount
  <2>2. LoopInv'
    BY <1>24 DEF CompareCount
  <2>3. WakeInv'
    BY <1>24 DEF CompareCount
  <2>4. FirstRoundInv'
    <3> SUFFICES ASSUME loopPc = "recv", pretimeout = "nil"
                 PROVE  FirstRoundInv'
      BY <1>24 DEF CompareCount
    <3>1. hKind[h] = sessionRxmsg6 /\ rxMsgCount > 0 /\ listLen[sessionRxmsg4] = 0
      BY <1>24 DEF CompareCount
    <3>2. Expected(hKind[h]) # rxMsgCount
      BY <3>1, ExpectedVotes
    <3>3. Return(h)
      BY <1>24, <3>2 DEF CompareCount
    <3> QED
      BY <1>24, <3>3 DEF CompareCount, HandlerGo, Return
  <2> QED
    BY <2>1, <2>2, <2>3, <2>4
<1>25. ASSUME NEW h \in Handlers, SendTimein(h) PROVE IInv'
  <2>h. HandlerTypes'
    BY <1>25, HandlerGoType DEF SendTimein, Return
  <2>1. TypeOK'
    BY <1>25, <2>h DEF SendTimein, SendWork
  <2>2. LoopInv'
    BY <1>25 DEF SendTimein, SendWork, HandlerGo, Return
  <2>3. WakeInv'
    BY <1>25 DEF SendTimein, SendWork, HandlerGo, Return
  <2>4. FirstRoundInv'
    BY <1>25 DEF SendTimein, SendWork, HandlerGo, Return
  <2> QED
    BY <2>1, <2>2, <2>3, <2>4
<1>26. ASSUME UNCHANGED vars PROVE IInv'
  BY <1>26 DEF vars
<1>q. QED
  BY <1>1, <1>2, <1>3, <1>4, <1>5, <1>6, <1>7, <1>8, <1>9, <1>10, <1>11, <1>12,
     <1>13, <1>14, <1>15, <1>16, <1>17, <1>18, <1>19, <1>20, <1>21, <1>22, <1>23,
     <1>24, <1>25, <1>26
     DEF Next, Environment, Loop, HandlerStep

\* The inductive invariant holds throughout.
LEMMA Invariance == Spec => []IInv
  BY InitIInv, NextIInv, PTL DEF Spec

\* The session variables of the leader keep their types; sessionState++ never
\* passes sessionDpos, and the channel holds one status at most.
THEOREM TypeCorrect == Spec => []TypeOK
<1>1. IInv => TypeOK
  BY DEF IInv
<1> QED
  BY <1>1, Invariance, PTL

\* The session loop of leaderNewProcess never waits for work in an open session
\* that nothing will wake up.
THEOREM LoopIsAlwaysWoken == Spec => []NoLostWakeup
<1>1. IInv => NoLostWakeup
  BY DEF IInv, LoopInv, WakeInv, NoLostWakeup
<1> QED
  BY <1>1, Invariance, PTL

\* The session loop never dereferences a nil pretimeout.
THEOREM PretimeoutIsSet == Spec => []NoNilDeref
<1>1. IInv => NoNilDeref
  BY DEF IInv, FirstRoundInv, NoNilDeref
<1> QED
  BY <1>1, Invariance, PTL
-----------------------------------------------------------------------------
(* Timers.  A timer is armed on behalf of a notification or a message: each *)
(* of these sets one thing going, which is at any moment the scheduler's    *)
(* send, a handler, a status in the channel, a turn of the loop or a timer. *)

Active == {h \in Handlers : hPc[h] # "none"}

One(b) == IF b THEN 1 ELSE 0

\* What is on its way outside the handlers.
Going ==
    orphans + blocked + One(pretimeout = "sleeping") + One(leaderWorkCh # <<>>)
        + One(loopPc # "recv") + One(schedPc # "wait")

TokenInv ==
    /\ IsFiniteSet(Active)
    /\ Going + Cardinality(Active) <= used["notify"] + used["msg"]

\* A message sets a goroutine going.
LEMMA HandlerStarts ==
    ASSUME TypeOK, IsFiniteSet(Active),
           NEW h \in Handlers, hPc[h] = "none",
           NEW pc \in HandlerPcs \ {"none"},
           hPc' = [hPc EXCEPT ![h] = pc]
    PROVE  IsFiniteSet(Active') /\ Cardinality(Active') = Cardinality(Active) + 1
<1>1. Active' = Active \cup {h} /\ h \notin Active
  BY DEF Active, TypeOK, HandlerPcs
<1> QED
  BY <1>1, FS_AddElement

\* A goroutine that goes on is still the one.
LEMMA HandlerGoesOn ==
    ASSUME TypeOK,
           NEW h \in Handlers, hPc[h] # "none",
           NEW pc \in HandlerPcs \ {"none"},
           hPc' = [hPc EXCEPT ![h] = pc]
    PROVE  Active' = Active
  BY DEF Active, TypeOK, HandlerPcs

\* A goroutine that returns leaves one less.
LEMMA HandlerEnds ==
    ASSUME TypeOK, IsFiniteSet(Active),
           NEW h \in Handlers, hPc[h] # "none",
           hPc' = [hPc EXCEPT ![h] = "none"]
    PROVE  IsFiniteSet(Active') /\ Cardinality(Active') = Cardinality(Active) - 1
<1>1. Active' = Active \ {h} /\ h \in Active
  BY DEF Active, TypeOK
<1> QED
  BY <1>1, FS_RemoveElement

\* Outside the handlers, TokenInv is a matter of counting what is going.
LEMMA OnlyGoing ==
    ASSUME TypeOK, TokenInv, UNCHANGED <<hPc, used>>,
           Going \in Nat, Going' \in Nat, Going' <= Going
    PROVE  TokenInv'
<1>1. Active' = Active
  BY DEF Active
<1>2. Cardinality(Active) \in Nat
  BY FS_CardinalityType DEF TokenInv
<1>3. used["notify"] + used["msg"] \in Nat
  BY DEF TypeOK
<1> QED
  BY <1>1, <1>2, <1>3 DEF TokenInv

\* What is going is a number.
LEMMA GoingType == TypeOK => Going \in Nat
  BY DEF TypeOK, Going, One

\* Every step preserves TokenInv: none sets two things going.
LEMMA NextTokenInv == IInv /\ IInv' /\ TokenInv /\ [Next]_vars => TokenInv'
<1> SUFFICES ASSUME IInv, IInv', TokenInv, [Next]_vars PROVE TokenInv'
  OBVIOUS
<1>t. TypeOK /\ TypeOK' /\ Going \in Nat /\ Going' \in Nat
  <2>1. TypeOK /\ TypeOK'
    BY DEF IInv
  <2>2. orphans' \in Nat /\ blocked' \in Nat
    BY <2>1 DEF TypeOK
  <2>3. \A x, y \in Nat, b, c, d, e \in BOOLEAN :
           x + y + One(b) + One(c) + One(d) + One(e) \in Nat
    BY DEF One
  <2>4. Going' \in Nat
    BY <2>2, <2>3, Zenon DEF Going
  <2> QED
    BY <2>1, <2>4, GoingType
<1>u. used["notify"] + used["msg"] \in Nat
  BY <1>t DEF TypeOK
<1>f. IsFiniteSet(Active) /\ Cardinality(Active) \in Nat
  BY FS_CardinalityType DEF TokenInv
<1> USE DEF sessionVars, nodeVars, loopVars, timerVars, handlerVars
<1>1. ASSUME NEW list \in Lists, ConfigNodelist(list) PROVE TokenInv'
  BY <1>1, <1>t DEF ConfigNodelist, Spend, TokenInv, Going, Active, TypeOK
<1>2. ASSUME Start PROVE TokenInv'
  BY <1>2, <1>t DEF Start, Spend, TokenInv, Going, Active, TypeOK
<1>3. ASSUME Stop PROVE TokenInv'
  BY <1>3, <1>t DEF Stop, Spend, TokenInv, Going, Active, TypeOK
<1>4. ASSUME NEW r \in {"leader", "follower"}, Notify(r) PROVE TokenInv'
  <2>1. Going' <= Going + 1
    BY <1>4, <1>t DEF Notify, Going, One, TypeOK
  <2>2. Active' = Active
    BY <1>4 DEF Notify, Active
  <2>3. used'["notify"] + used'["msg"] = used["notify"] + used["msg"] + 1
    BY <1>4, <1>t DEF Notify, Spend, TypeOK
  <2> QED
    BY <2>1, <2>2, <2>3, <1>u, <1>t, <1>f DEF TokenInv
<1>5. ASSUME NEW h \in Handlers, NEW k \in MsgTypes, Receive(h, k) PROVE TokenInv'
  <2>1. Going' = Going
    BY <1>5 DEF Receive, Going
  <2>2. IsFiniteSet(Active') /\ Cardinality(Active') = Cardinality(Active) + 1
    BY <1>5, <1>t, <1>f, HandlerStarts DEF Receive, HandlerGo, HandlerPcs
  <2>3. used'["notify"] + used'["msg"] = used["notify"] + used["msg"] + 1
    BY <1>5, <1>t DEF Receive, Spend, TypeOK
  <2> QED
    BY <2>1, <2>2, <2>3, <1>u, <1>t, <1>f DEF TokenInv
<1>6. ASSUME BeginSession PROVE TokenInv'
  <2>1. Going' <= Going /\ UNCHANGED <<hPc, used>>
    BY <1>6, <1>t DEF BeginSession, Going, One, TypeOK
  <2> QED
    BY <2>1, <1>t, OnlyGoing
<1>7. ASSUME PostSession PROVE TokenInv'
  <2>1. Going' <= Going /\ UNCHANGED <<hPc, used>>
    BY <1>7, <1>t DEF PostSession, SendWork, Going, One, TypeOK
  <2> QED
    BY <2>1, <1>t, OnlyGoing
<1>8. ASSUME RecvUnknow PROVE TokenInv'
  <2>1. Going' <= Going /\ UNCHANGED <<hPc, used>>
    BY <1>8, <1>t DEF RecvUnknow, LoopGo, Going, One, TypeOK
  <2> QED
    BY <2>1, <1>t, OnlyGoing
<1>9. ASSUME RecvTimeout PROVE TokenInv'
  <2>1. Going' <= Going /\ UNCHANGED <<hPc, used>>
    BY <1>9, <1>t DEF RecvTimeout, LoopGo, Going, One, TypeOK
  <2> QED
    BY <2>1, <1>t, OnlyGoing
<1>10. ASSUME RecvTimein PROVE TokenInv'
  <2>1. Going' <= Going /\ UNCHANGED <<hPc, used>>
    BY <1>10, <1>t DEF RecvTimein, LoopGo, Going, One, TypeOK
  <2> QED
    BY <2>1, <1>t, OnlyGoing
<1>11. ASSUME WriteStatus \/ Branch PROVE TokenInv'
  <2>1. Going' = Going /\ UNCHANGED <<hPc, used>>
    BY <1>11 DEF WriteStatus, Branch, LoopGo, Going, One
  <2> QED
    BY <2>1, <1>t, OnlyGoing
<1>12. ASSUME SendMsg1 \/ SendMsg3 \/ SendMsg5 \/ MakeDPOS PROVE TokenInv'
  <2>1. Going' = Going /\ UNCHANGED <<hPc, used>>
    BY <1>12 DEF SendMsg1, SendMsg3, SendMsg5, MakeDPOS, EndWork, LoopGo, Going, One
  <2> QED
    BY <2>1, <1>t, OnlyGoing
<1>13. ASSUME Arm PROVE TokenInv'
  <2>1. Going' <= Going /\ UNCHANGED <<hPc, used>>
    BY <1>13, <1>t DEF Arm, LoopGo, Going, One, TypeOK
  <2> QED
    BY <2>1, <1>t, OnlyGoing
<1>14. ASSUME Wake PROVE TokenInv'
  <2>1. Going' <= Going /\ UNCHANGED <<hPc, used>>
    BY <1>14, <1>t DEF Wake, Going, One, TypeOK
  <2> QED
    BY <2>1, <1>t, OnlyGoing
<1>15. ASSUME WakeOrphan PROVE TokenInv'
  <2>1. Going' <= Going /\ UNCHANGED <<hPc, used>>
    BY <1>15, <1>t DEF WakeOrphan, Going, One, TypeOK
  <2> QED
    BY <2>1, <1>t, OnlyGoing
<1>16. ASSUME SendTimeout PROVE TokenInv'
  <2>1. Going' <= Going /\ UNCHANGED <<hPc, used>>
    BY <1>16, <1>t DEF SendTimeout, SendWork, Going, One, TypeOK
  <2> QED
    BY <2>1, <1>t, OnlyGoing
<1>17. ASSUME NEW h \in Handlers, HandlerStep(h) PROVE TokenInv'
  <2>1. UNCHANGED used /\ Going' = Going
    BY <1>17 DEF HandlerStep, StartHandler, AppendAnswer, CountAnswer, CompareCount, Going
  <2>2. /\ hPc[h] # "none"
        /\ \E pc \in HandlerPcs : hPc' = [hPc EXCEPT ![h] = pc]
    BY <1>17 DEF HandlerStep, StartHandler, AppendAnswer, CountAnswer, CompareCount,
       HandlerGo, Return, HandlerPcs
  <2>3. IsFiniteSet(Active') /\ Cardinality(Active') <= Cardinality(Active)
    <3>1. PICK pc \in HandlerPcs : hPc' = [hPc EXCEPT ![h] = pc]
      BY <2>2
    <3>2. CASE pc = "none"
      <4>1. hPc' = [hPc EXCEPT ![h] = "none"]
        BY <3>1, <3>2
      <4>2. IsFiniteSet(Active') /\ Cardinality(Active') = Cardinality(Active) - 1
        BY <4>1, <2>2, <1>t, <1>f, HandlerEnds
      <4> QED
        BY <4>2, <1>f
    <3>3. CASE pc # "none"
      <4>1. Active' = Active
        BY <3>1, <3>3, <2>2, <1>t, HandlerGoesOn
      <4> QED
        BY <4>1, <1>f
    <3> QED
      BY <3>2, <3>3
  <2>4. Cardinality(Active') \in Nat
    BY <2>3, FS_CardinalityType
  <2> QED
    BY <2>1, <2>3, <2>4, <1>u, <1>t, <1>f DEF TokenInv
<1>18. ASSUME NEW h \in Handlers, SendTimein(h) PROVE TokenInv'
  <2>1. Going' <= Going + 1
    BY <1>18, <1>t DEF SendTimein, SendWork, Going, One, TypeOK
  <2>2. IsFiniteSet(Active') /\ Cardinality(Active') = Cardinality(Active) - 1
    BY <1>18, <1>t, <1>f, HandlerEnds DEF SendTimein, Return, HandlerGo
  <2>3. UNCHANGED used
    BY <1>18 DEF SendTimein
  <2> QED
    BY <2>1, <2>2, <2>3, <1>u, <1>t, <1>f DEF TokenInv
<1>19. ASSUME UNCHANGED vars PROVE TokenInv'
  BY <1>19 DEF vars, TokenInv, Going, Active
<1> QED
  BY <1>1, <1>2, <1>3, <1>4, <1>5, <1>6, <1>7, <1>8, <1>9, <1>10, <1>11, <1>12,
     <1>13, <1>14, <1>15, <1>16, <1>17, <1>18, <1>19
     DEF Next, Environment, Loop

\* However stale timers wake the loop, timer goroutines (timeout) are never more
\* than block notifications and messages received.
THEOREM TimersDoNotPileUp == Spec => []TimersBounded
<1>1. Init => TokenInv
  <2> SUFFICES ASSUME Init PROVE TokenInv
    OBVIOUS
  <2>1. Active = {} /\ Going = 0
    BY DEF Init, Active, Going, One
  <2>2. used["notify"] + used["msg"] = 0
    BY DEF Init
  <2> QED
    BY <2>1, <2>2, FS_EmptySet DEF TokenInv
<1>2. IInv /\ TokenInv => TimersBounded
  <2> SUFFICES ASSUME IInv, TokenInv PROVE TimersBounded
    OBVIOUS
  <2>1. Cardinality(Active) \in Nat
    BY FS_CardinalityType DEF TokenInv
  <2> QED
    BY <2>1 DEF IInv, TypeOK, TokenInv, Going, One, TimersBounded
<1> QED
  BY <1>1, <1>2, Invariance, NextTokenInv, PTL DEF Spec
=============================================================================
