--------------------------- MODULE VerifierLeader ---------------------------
(***************************************************************************)
(* The goroutines of one Verifier (verify/leader.go) while it leads:       *)
(*                                                                         *)
(*   waitForScheduler   takes block notifications and opens a session      *)
(*   leaderNewProcess   the session loop, woken through leaderWorkCh       *)
(*   timeout            one goroutine per armed one-second timer           *)
(*   leaderProcessMsg   one goroutine per message of a verifier            *)
(*   Scheduler          calls ConfigNodelist, Start, Stop and Notify       *)
(*                                                                         *)
(* They share sessionPM, the package variable vrlist and nodeState without *)
(* a lock.  An action is what a goroutine does between two accesses of     *)
(* shared state whose order matters: a read-modify-write that races with   *)
(* another goroutine is a read in one action and a write in a later one.   *)
(*                                                                         *)
(* The environment is open: any verifier's answer may arrive at any time,  *)
(* late, twice or never, and a timer may fire at any time.  Contents of    *)
(* messages and votes are in module VerifierRound; of the lists kept here  *)
(* the code only reads the lengths.                                        *)
(***************************************************************************)
EXTENDS Integers, Sequences, FiniteSets

CONSTANTS
    Self,        \* localNodeInfo.ID
    Lists,       \* the verifier lists the Scheduler may configure
    MsgTypes,    \* the message types that arrive, of Kinds
    Handlers,    \* goroutines running leaderProcessMsg at the same time
    MaxNotify,   \* bound: block notifications
    MaxMsgs,     \* bound: messages received
    MaxCalls     \* bound: calls of ConfigNodelist, Start and Stop

ASSUME BoundsAssumption ==
    /\ MaxNotify \in Nat
    /\ MaxMsgs \in Nat
    /\ MaxCalls \in Nat

ASSUME ListsAssumption == Lists # {}

VARIABLES
    sessionState,  \* sessionPM.sessionState
    rxMsgCount,    \* sessionPM.rxMsgCount
    listLen,       \* [2, 4, 6 -> len of rxMsg2List, rxMsg4List, vrlist]
    leaderWorkCh,  \* the buffered channel, capacity 1
    verifierList,  \* the configured verifiers
    nodeState,     \* "nodeBusy" or "nodeIdle"
    role,          \* "leader" or "follower"
    schedPc,       \* waitForScheduler: "wait", "begin" or "post"
    loopPc,        \* leaderNewProcess: "recv", "status", "branch", "work", "arm"
    loopReg,       \* the value leaderNewProcess is about to act on
    pretimeout,    \* timer behind pretimeout: "nil", "sleeping" or "done"
    orphans,       \* sleeping timers that pretimeout no longer points to
    blocked,       \* timers past their status check, blocked in the send
    hPc,           \* leaderProcessMsg, per goroutine
    hKind,         \* the message type it handles
    hReg,          \* the shared value it has read and not yet written back
    used           \* bound: what the environment has spent

sessionVars == <<sessionState, rxMsgCount, listLen>>
nodeVars    == <<verifierList, nodeState, role>>
loopVars    == <<loopPc, loopReg>>
timerVars   == <<pretimeout, orphans, blocked>>
handlerVars == <<hPc, hKind, hReg>>
vars == <<sessionVars, leaderWorkCh, nodeVars, schedPc, loopVars, timerVars,
          handlerVars, used>>

sessionIdle   == 0
sessionTxmsg1 == 1
sessionRxmsg2 == 2
sessionTxmsg3 == 3
sessionRxmsg4 == 4
sessionTxmsg5 == 5
sessionRxmsg6 == 6
sessionDpos   == 7

SessionStates == sessionIdle .. sessionDpos

\* The states in which the leader waits for answers.
RxStates == {sessionRxmsg2, sessionRxmsg4, sessionRxmsg6}

\* Message types msgSendTxToLeader, msgSendInvalidTxToLeader and
\* msgSendVoteResultToLeader, each named by the session state that expects it.
Kinds == RxStates

ASSUME MsgTypesAssumption == MsgTypes \subseteq Kinds

Statuses == {"TIMEUNKNOW", "TIMEOUT", "TIMEIN"}

Spend(what, bound) ==
    /\ used[what] < bound
    /\ used' = [used EXCEPT ![what] = @ + 1]

Init ==
    /\ sessionState = sessionIdle
    /\ rxMsgCount = 0
    /\ listLen = [k \in Kinds |-> 0]
    /\ leaderWorkCh = <<>>
    /\ verifierList \in Lists
    /\ nodeState = "nodeIdle"
    /\ role = "follower"
    /\ schedPc = "wait"
    /\ loopPc = "recv"
    /\ loopReg = sessionIdle
    /\ pretimeout = "nil"
    /\ orphans = 0
    /\ blocked = 0
    /\ hPc = [h \in Handlers |-> "none"]
    /\ hKind = [h \in Handlers |-> sessionRxmsg2]
    /\ hReg = [h \in Handlers |-> 0]
    /\ used = [what \in {"notify", "msg", "call"} |-> 0]

-----------------------------------------------------------------------------
(* The Scheduler's calls.                                                  *)

ConfigNodelist(list) ==
    /\ Spend("call", MaxCalls)
    /\ verifierList' = list
    /\ UNCHANGED <<sessionVars, leaderWorkCh, nodeState, role, schedPc,
                   loopVars, timerVars, handlerVars>>

Start ==
    /\ Spend("call", MaxCalls)
    /\ nodeState' = IF Self \in verifierList THEN "nodeBusy" ELSE "nodeIdle"
    /\ UNCHANGED <<sessionVars, leaderWorkCh, verifierList, role, schedPc,
                   loopVars, timerVars, handlerVars>>

\* sessionPM.reset() leaves rxMsgCount as it is.
Reset(state) ==
    /\ sessionState' = state
    /\ listLen' = [listLen EXCEPT ![sessionRxmsg2] = 0, ![sessionRxmsg4] = 0]
    /\ UNCHANGED rxMsgCount

Stop ==
    /\ Spend("call", MaxCalls)
    /\ nodeState' = "nodeIdle"
    /\ Reset(sessionIdle)
    /\ UNCHANGED <<leaderWorkCh, verifierList, role, schedPc, loopVars,
                   timerVars, handlerVars>>

-----------------------------------------------------------------------------
(* waitForScheduler.  notifyChan is unbuffered: Notify returns when the    *)
(* goroutine is back at its select.                                        *)

\* The elected leader is the list's entry at blockNum % n: r says whether
\* that is this node.  A leader whose session is idle goes on to open one.
Notify(r) ==
    /\ schedPc = "wait"
    /\ Spend("notify", MaxNotify)
    /\ \/ /\ nodeState = "nodeBusy"
          /\ r = "leader" => Self \in verifierList
          /\ r = "follower" => verifierList # {Self}
          /\ role' = r
          /\ schedPc' = IF r = "leader" /\ sessionState = sessionIdle
                        THEN "begin" ELSE "wait"
       \/ /\ nodeState # "nodeBusy"
          /\ UNCHANGED <<role, schedPc>>
    /\ UNCHANGED <<sessionVars, leaderWorkCh, verifierList, nodeState, loopVars,
                   timerVars, handlerVars>>

BeginSession ==
    /\ schedPc = "begin"
    /\ Reset(sessionTxmsg1)
    /\ schedPc' = "post"
    /\ UNCHANGED <<leaderWorkCh, nodeVars, loopVars, timerVars, handlerVars, used>>

\* A send on leaderWorkCh, blocked while the buffer is full.
SendWork(status) ==
    /\ leaderWorkCh = <<>>
    /\ leaderWorkCh' = <<status>>

PostSession ==
    /\ schedPc = "post"
    /\ SendWork("TIMEUNKNOW")
    /\ schedPc' = "wait"
    /\ UNCHANGED <<sessionVars, nodeVars, loopVars, timerVars, handlerVars, used>>

-----------------------------------------------------------------------------
(* leaderNewProcess.                                                       *)

LoopGo(pc, reg) ==
    /\ loopPc' = pc
    /\ loopReg' = reg

\* TIMEUNKNOW goes straight to leaderNewRun.
RecvUnknow ==
    /\ loopPc = "recv"
    /\ leaderWorkCh = <<"TIMEUNKNOW">>
    /\ leaderWorkCh' = <<>>
    /\ LoopGo("branch", sessionIdle)
    /\ UNCHANGED <<sessionVars, nodeVars, schedPc, timerVars, handlerVars, used>>

\* TIMEOUT: without an answer the session jumps to sessionDpos, else it moves
\* to the next state.
RecvTimeout ==
    /\ loopPc = "recv"
    /\ leaderWorkCh = <<"TIMEOUT">>
    /\ leaderWorkCh' = <<>>
    /\ rxMsgCount' = 0
    /\ LoopGo("status", IF rxMsgCount = 0 THEN sessionDpos ELSE sessionState + 1)
    /\ UNCHANGED <<sessionState, listLen, nodeVars, schedPc, timerVars,
                   handlerVars, used>>

\* TIMEIN: *pretimeout = TIMEIN makes a timer that still sleeps return quietly.
RecvTimein ==
    /\ loopPc = "recv"
    /\ leaderWorkCh = <<"TIMEIN">>
    /\ leaderWorkCh' = <<>>
    /\ pretimeout' = "done"
    /\ rxMsgCount' = 0
    /\ LoopGo("status", sessionState + 1)
    /\ UNCHANGED <<sessionState, listLen, nodeVars, schedPc, orphans, blocked,
                   handlerVars, used>>

WriteStatus ==
    /\ loopPc = "status"
    /\ sessionState' = loopReg
    /\ LoopGo("branch", sessionIdle)
    /\ UNCHANGED <<rxMsgCount, listLen, leaderWorkCh, nodeVars, schedPc,
                   timerVars, handlerVars, used>>

\* leaderNewRun: the switch on sessionState.
Branch ==
    /\ loopPc = "branch"
    /\ \/ /\ sessionState \in RxStates \cup {sessionIdle}
          /\ LoopGo("arm", sessionIdle)
       \/ /\ sessionState \notin RxStates \cup {sessionIdle}
          /\ LoopGo("work", sessionState)
    /\ UNCHANGED <<sessionVars, leaderWorkCh, nodeVars, schedPc, timerVars,
                   handlerVars, used>>

\* The chosen case runs and ends in updatestate.
EndWork(in, next) ==
    /\ loopPc = "work"
    /\ loopReg = in
    /\ LoopGo("arm", sessionIdle)
    /\ sessionState' = next
    /\ UNCHANGED <<rxMsgCount, leaderWorkCh, nodeVars, schedPc, timerVars,
                   handlerVars, used>>

SendMsg1 ==
    /\ EndWork(sessionTxmsg1, sessionRxmsg2)
    /\ listLen' = [listLen EXCEPT ![sessionRxmsg6] = 0]

SendMsg3 ==
    /\ EndWork(sessionTxmsg3, sessionRxmsg4)
    /\ UNCHANGED listLen

SendMsg5 ==
    /\ EndWork(sessionTxmsg5, sessionRxmsg6)
    /\ UNCHANGED listLen

\* Mutant: makeDPOS without the return to sessionIdle.
MakeDPOSForgetsIdle ==
    /\ EndWork(sessionDpos, sessionDpos)
    /\ listLen' = [listLen EXCEPT ![sessionRxmsg6] = @ + 1]

\* The leader adds its own vote, counts and returns to sessionIdle whatever
\* the count says.
MakeDPOS ==
    /\ EndWork(sessionDpos, sessionIdle)
    /\ listLen' = [listLen EXCEPT ![sessionRxmsg6] = @ + 1]

\* Mutant: the lower bound of the test is off by one, sessionRxmsg2 gets no timer.
ArmFromTxmsg3 ==
    /\ loopPc = "arm"
    /\ LoopGo("recv", sessionIdle)
    /\ pretimeout' = IF sessionRxmsg2 < sessionState /\ sessionState < sessionDpos
                     THEN "sleeping" ELSE "done"
    /\ orphans' = orphans + (IF pretimeout = "sleeping" THEN 1 ELSE 0)
    /\ UNCHANGED <<sessionVars, leaderWorkCh, nodeVars, schedPc, blocked,
                   handlerVars, used>>

\* Mutant: the loop returns at the end of a session.
ArmReturnsWhenIdle ==
    /\ loopPc = "arm"
    /\ LoopGo(IF sessionState = sessionIdle THEN "returned" ELSE "recv", sessionIdle)
    /\ pretimeout' = IF sessionTxmsg1 < sessionState /\ sessionState < sessionDpos
                     THEN "sleeping" ELSE "done"
    /\ orphans' = orphans + (IF pretimeout = "sleeping" THEN 1 ELSE 0)
    /\ UNCHANGED <<sessionVars, leaderWorkCh, nodeVars, schedPc, blocked,
                   handlerVars, used>>

\* A session that waits for answers gets a new timer; the timer behind the old
\* pretimeout, if it still sleeps with TIMEUNKNOW, is out of reach from now on.
Arm ==
    /\ loopPc = "arm"
    /\ LoopGo("recv", sessionIdle)
    /\ pretimeout' = IF sessionTxmsg1 < sessionState /\ sessionState < sessionDpos
                     THEN "sleeping" ELSE "done"
    /\ orphans' = orphans + (IF pretimeout = "sleeping" THEN 1 ELSE 0)
    /\ UNCHANGED <<sessionVars, leaderWorkCh, nodeVars, schedPc, blocked,
                   handlerVars, used>>

-----------------------------------------------------------------------------
(* timeout: wake up, read the status, block in the send.                   *)

\* Mutant: a ticker in place of the one-shot sleep.
WakeTicks ==
    /\ pretimeout = "sleeping"
    /\ blocked' = blocked + 1
    /\ UNCHANGED <<sessionVars, leaderWorkCh, nodeVars, schedPc, loopVars,
                   pretimeout, orphans, handlerVars, used>>

Wake ==
    /\ pretimeout = "sleeping"
    /\ pretimeout' = "done"
    /\ blocked' = blocked + 1
    /\ UNCHANGED <<sessionVars, leaderWorkCh, nodeVars, schedPc, loopVars,
                   orphans, handlerVars, used>>

WakeOrphan ==
    /\ orphans > 0
    /\ orphans' = orphans - 1
    /\ blocked' = blocked + 1
    /\ UNCHANGED <<sessionVars, leaderWorkCh, nodeVars, schedPc, loopVars,
                   pretimeout, handlerVars, used>>

SendTimeout ==
    /\ blocked > 0
    /\ SendWork("TIMEOUT")
    /\ blocked' = blocked - 1
    /\ UNCHANGED <<sessionVars, nodeVars, schedPc, loopVars, pretimeout,
                   orphans, handlerVars, used>>

-----------------------------------------------------------------------------
(* receiveP2PMsg and leaderProcessMsg.                                     *)

HandlerGo(h, pc, kind, reg) ==
    /\ hPc' = [hPc EXCEPT ![h] = pc]
    /\ hKind' = [hKind EXCEPT ![h] = kind]
    /\ hReg' = [hReg EXCEPT ![h] = reg]

\* The goroutine ends; the register and the kind are as in Init.
Return(h) == HandlerGo(h, "none", sessionRxmsg2, 0)

Receive(h, k) ==
    /\ hPc[h] = "none"
    /\ nodeState # "nodeIdle"
    /\ role = "leader"
    /\ Spend("msg", MaxMsgs)
    /\ HandlerGo(h, "start", k, 0)
    /\ UNCHANGED <<sessionVars, leaderWorkCh, nodeVars, schedPc, loopVars, timerVars>>

\* The state expects the message and it decodes: append to its list next.
\* It does not decode, or it is a vote nobody waits for: only the count is left
\* to do.  Any other message is dropped.
StartHandler(h) ==
    /\ hPc[h] = "start"
    /\ \/ /\ sessionState = hKind[h]
          /\ HandlerGo(h, "list", hKind[h], listLen[hKind[h]])
       \/ /\ sessionState = hKind[h] \/ hKind[h] = sessionRxmsg6
          /\ HandlerGo(h, "count", hKind[h], rxMsgCount)
       \/ /\ sessionState # hKind[h] /\ hKind[h] # sessionRxmsg6
          /\ Return(h)
    /\ UNCHANGED <<sessionVars, leaderWorkCh, nodeVars, schedPc, loopVars,
                   timerVars, used>>

AppendAnswer(h) ==
    /\ hPc[h] = "list"
    /\ listLen' = [listLen EXCEPT ![hKind[h]] = hReg[h] + 1]
    /\ HandlerGo(h, "count", hKind[h], rxMsgCount)
    /\ UNCHANGED <<sessionState, rxMsgCount, leaderWorkCh, nodeVars, schedPc,
                   loopVars, timerVars, used>>

CountAnswer(h) ==
    /\ hPc[h] = "count"
    /\ rxMsgCount' = hReg[h] + 1
    /\ HandlerGo(h, "compare", hKind[h], 0)
    /\ UNCHANGED <<sessionState, listLen, leaderWorkCh, nodeVars, schedPc,
                   loopVars, timerVars, used>>

\* How many answers of a kind end the wait for it.
Expected(k) ==
    CASE k = sessionRxmsg2 -> Cardinality(verifierList) - 1
      [] k = sessionRxmsg4 -> listLen[sessionRxmsg2]
      [] k = sessionRxmsg6 -> listLen[sessionRxmsg4]

\* Mutant: >= in place of == in the three comparisons.
CompareAtLeast(h) ==
    /\ hPc[h] = "compare"
    /\ \/ /\ Expected(hKind[h]) <= rxMsgCount
          /\ HandlerGo(h, "send", hKind[h], 0)
       \/ /\ Expected(hKind[h]) > rxMsgCount
          /\ Return(h)
    /\ UNCHANGED <<sessionVars, leaderWorkCh, nodeVars, schedPc, loopVars,
                   timerVars, used>>

CompareCount(h) ==
    /\ hPc[h] = "compare"
    /\ \/ /\ Expected(hKind[h]) = rxMsgCount
          /\ HandlerGo(h, "send", hKind[h], 0)
       \/ /\ Expected(hKind[h]) # rxMsgCount
          /\ Return(h)
    /\ UNCHANGED <<sessionVars, leaderWorkCh, nodeVars, schedPc, loopVars,
                   timerVars, used>>

SendTimein(h) ==
    /\ hPc[h] = "send"
    /\ SendWork("TIMEIN")
    /\ Return(h)
    /\ UNCHANGED <<sessionVars, nodeVars, schedPc, loopVars, timerVars, used>>

-----------------------------------------------------------------------------
Environment ==
    \/ \E list \in Lists : ConfigNodelist(list)
    \/ Start
    \/ Stop
    \/ \E r \in {"leader", "follower"} : Notify(r)
    \/ \E h \in Handlers, k \in MsgTypes : Receive(h, k)

Loop ==
    \/ RecvUnknow \/ RecvTimeout \/ RecvTimein
    \/ WriteStatus \/ Branch
    \/ SendMsg1 \/ SendMsg3 \/ SendMsg5 \/ MakeDPOS
    \/ Arm

HandlerStep(h) ==
    \/ StartHandler(h) \/ AppendAnswer(h) \/ CountAnswer(h) \/ CompareCount(h)

Next ==
    \/ Environment
    \/ BeginSession \/ PostSession
    \/ Loop
    \/ Wake \/ WakeOrphan \/ SendTimeout
    \/ \E h \in Handlers : HandlerStep(h) \/ SendTimein(h)

Spec == Init /\ [][Next]_vars

\* Go runs every goroutine that can run, a sleeping timer wakes up, and the
\* senders blocked on a channel are served first come first served: each gets
\* its turn although the buffer is full now and then.
FairSpec ==
    /\ Spec
    /\ WF_vars(BeginSession)
    /\ WF_vars(Loop)
    /\ WF_vars(Wake)
    /\ WF_vars(WakeOrphan)
    /\ SF_vars(PostSession)
    /\ SF_vars(SendTimeout)
    /\ \A h \in Handlers : WF_vars(HandlerStep(h)) /\ SF_vars(SendTimein(h))
-----------------------------------------------------------------------------
(* Properties.                                                             *)

\* Every variable has its type; in particular sessionState++ never runs past
\* sessionDpos (verify/leader.go, leaderNewProcess) and leaderWorkCh holds one
\* status at most.
TypeOK ==
    /\ sessionState \in SessionStates
    /\ rxMsgCount \in Nat
    /\ listLen \in [Kinds -> Nat]
    /\ leaderWorkCh \in {<<>>} \cup {<<s>> : s \in Statuses}
    /\ verifierList \in Lists
    /\ nodeState \in {"nodeBusy", "nodeIdle"}
    /\ role \in {"leader", "follower"}
    /\ schedPc \in {"wait", "begin", "post"}
    /\ loopPc \in {"recv", "status", "branch", "work", "arm"}
    /\ loopReg \in SessionStates
    /\ pretimeout \in {"nil", "sleeping", "done"}
    /\ orphans \in Nat
    /\ blocked \in Nat
    /\ hPc \in [Handlers -> {"none", "start", "list", "count", "compare", "send"}]
    /\ hKind \in [Handlers -> Kinds]
    /\ hReg \in [Handlers -> Nat]
    /\ used \in [{"notify", "msg", "call"} -> Nat]

\* What will wake the session loop: the timer pretimeout points to, a timer
\* blocked in its send, or a status in the channel.
WakeupPending ==
    pretimeout = "sleeping" \/ blocked > 0 \/ leaderWorkCh # <<>>

\* No lost wakeup (leaderNewProcess, timeout, waitForScheduler): whenever the
\* loop waits for work in a session that is not idle, the session waits for
\* answers with a wakeup on its way, or it has just been opened and its
\* TIMEUNKNOW is about to come.  It never rests in a sending state.
NoLostWakeup ==
    loopPc = "recv" /\ sessionState # sessionIdle =>
        \/ sessionState \in RxStates /\ WakeupPending
        \/ /\ sessionState = sessionTxmsg1
           /\ schedPc = "post" \/ leaderWorkCh = <<"TIMEUNKNOW">>

\* The loop never follows a nil pretimeout (leaderNewProcess, the assignment
\* *pretimeout = TIMEIN): the first status it takes is never TIMEIN.
NoNilDeref ==
    loopPc = "recv" /\ leaderWorkCh = <<"TIMEIN">> => pretimeout # "nil"

\* Timer goroutines do not multiply (timeout): the loop arms a timer each time
\* round, also when a stale timer woke it up, and still there are never more
\* timers than block notifications and messages received.
TimersBounded ==
    orphans + blocked + (IF pretimeout = "sleeping" THEN 1 ELSE 0)
        <= used["notify"] + used["msg"]

\* A session does not stay open for ever (leaderNewProcess): whatever answers
\* are late, lost or doubled, the leader is back in sessionIdle.
SessionEnds == sessionState # sessionIdle ~> sessionState = sessionIdle

\* waitForScheduler always gets back to its select: its send on leaderWorkCh is
\* served, so that Scheduler's next Notify does not block for ever.
SchedulerReleased == schedPc # "wait" ~> schedPc = "wait"

\* TIMEIN says "finish" (verify/leader.go:43) and follows the count that says
\* reception is complete (verify/leader.go:424): when the loop takes it in a
\* state that waits for answers, some answer has been counted in that state.
FinishFollowsAnswers ==
    loopPc = "recv" /\ leaderWorkCh = <<"TIMEIN">> /\ sessionState \in RxStates
        => rxMsgCount > 0
=============================================================================
