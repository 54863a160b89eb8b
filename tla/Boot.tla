-------------------------------- MODULE Boot --------------------------------
(***************************************************************************)
(* The search for the network at start-up (boot/boot.go, NetSearch).  The  *)
(* node asks two boot nodes for their heights, and then for their main     *)
(* node lists.  A call of Get_Block_Height or Get_Main_Node sends one      *)
(* numbered request to each, notes the numbers in Need_Ack, waits for one  *)
(* answer after the other, ten seconds at most for each, and strikes the   *)
(* numbers.  Every answer runs in a goroutine of its own: it takes its     *)
(* number out of Need_Ack and blocks in its send to the call.              *)
(*                                                                         *)
(* Need_Ack is a slice without a lock: Is_in_Need_Ack finds an index in    *)
(* one step and cuts it out in another.                                    *)
(***************************************************************************)
EXTENDS Integers, Sequences, FiniteSets, SequencesExt

CONSTANTS
    Boots,      \* the boot nodes, in the order of params.MainnetBootnodes
    MaxHeight,  \* bound: heights of the chains
    MaxCalls,   \* bound: calls of each kind
    MaxGrow,    \* bound: blocks the boot nodes add during the search
    MaxFaults,  \* bound: messages lost or delivered twice, and calls that give
                \* up on an answer that is on its way
    MaxRaces,   \* bound: writes of Need_Ack while a goroutine is halfway
    MaxLate     \* bound: messages of earlier calls in flight when a call begins

ASSUME BootsAssumption ==
    Boots \in Seq(ToSet(Boots)) /\ Len(Boots) = 3 /\ IsInjective(Boots)

ASSUME BoundsAssumption ==
    {MaxHeight, MaxCalls, MaxGrow, MaxFaults, MaxRaces, MaxLate} \subseteq Nat

VARIABLES
    isDefault,   \* the node is one of the boot nodes, the last
    local,       \* Get_local_block_height
    peerHeight,  \* [boot nodes -> their height]
    pc,          \* NetSearch: "stat", "wait", "strike", "decide", "done", "crashed"
    stage,       \* the loop it is in: "zero" (Default_Boot_Find_Two_Boot), "lists"
                 \* (NetSearch's own), "check" (Attept_Check_Not_Big_Than_Me) or
                 \* "other" (Not_Default_Boot)
    ask,         \* what the call asks for
    asked,       \* whom it asks
    call,        \* [Asks -> number of calls so far]
    waits,       \* waits of this call that are over
    got,         \* the answers of this call
    ssRe,        \* ss_re[0], the first height of Get_Block_Height
    needAck,     \* Need_Ack
    handlers,    \* goroutines that found their number and have not cut it yet
    queue,       \* [Asks -> goroutines blocked in ChanHeight, ChanMainNode]
    net,         \* requests, or the answers to them, in flight
    result,      \* boot_FUN_RE
    races,       \* how often Need_Ack was entered while a goroutine was halfway
    spent        \* bound: what the environment has spent

peerVars   == <<isDefault, local, peerHeight>>
searchVars == <<pc, stage, ask, asked, call, waits, got, ssRe, result>>
vars == <<peerVars, searchVars, needAck, handlers, queue, net, races, spent>>

Asks == {"height", "main"}

\* The nodes to be found.
Targets == IF isDefault THEN SubSeq(Boots, 1, 2) ELSE Boots

\* Need_Ack is entered: a race if another goroutine is halfway through a cut.
Enter ==
    IF handlers = {} THEN UNCHANGED races ELSE races < MaxRaces /\ races' = races + 1

Faults(n) ==
    /\ spent.faults + n <= MaxFaults
    /\ spent' = [spent EXCEPT !.faults = @ + n]

Init ==
    /\ isDefault \in BOOLEAN
    /\ local \in 0 .. MaxHeight
    /\ peerHeight \in [ToSet(Boots) -> 0 .. MaxHeight]
    /\ isDefault => peerHeight[Boots[3]] = local
    /\ pc = "stat"
    /\ stage = IF isDefault THEN "zero" ELSE "other"
    /\ ask = "height"
    /\ asked = <<>>
    /\ call = [a \in Asks |-> 0]
    /\ waits = 0
    /\ got = <<>>
    /\ ssRe = 0
    /\ needAck = <<>>
    /\ handlers = {}
    /\ queue = [a \in Asks |-> <<>>]
    /\ net = {}
    /\ result = [Net_Flag |-> 0, Height |-> 0]
    /\ races = 0
    /\ spent = [grow |-> 0, faults |-> 0]

-----------------------------------------------------------------------------
(* Get_Block_Height and Get_Main_Node.                                     *)

\* A number is never used twice: it is named by the call and the node asked.
SeqNo(a, n, ip) == [ask |-> a, call |-> n, ip |-> ip]

\* Numbers of the current call, Me_Need_Ack.
MeNeedAck == [i \in DOMAIN asked |-> SeqNo(ask, call[ask], asked[i])]

\* The call begins: numbers are noted, requests sent.
Call(a, list) ==
    LET seqs == [i \in DOMAIN list |-> SeqNo(a, call[a] + 1, list[i])]
    IN  /\ call[a] < MaxCalls
        /\ Cardinality(net) <= MaxLate
        /\ call' = [call EXCEPT ![a] = @ + 1]
        /\ ask' = a
        /\ asked' = list
        /\ waits' = 0
        /\ got' = <<>>
        /\ needAck' = needAck \o seqs
        /\ Enter
        /\ net' = net \cup ToSet(seqs)
        /\ pc' = "wait"
        /\ UNCHANGED <<peerVars, handlers, queue, spent>>

\* Mutant: the first answer is enough.
WaitsForOne == 1

\* How many answers the call waits for.
Waits == IF ask = "height" THEN 2 ELSE Len(asked)

EndWait ==
    /\ waits' = waits + 1
    /\ pc' = IF waits + 1 = Waits THEN "strike" ELSE "wait"

\* A goroutine blocked in its send hands its answer over, in order of arrival.
TakeAnswer ==
    /\ pc = "wait"
    /\ queue[ask] # <<>>
    /\ queue' = [queue EXCEPT ![ask] = Tail(@)]
    /\ got' = Append(got, Head(queue[ask]))
    /\ EndWait
    /\ UNCHANGED <<peerVars, stage, ask, asked, call, ssRe, result, needAck, handlers,
                   net, races, spent>>

\* Mutant: one timer for the call, which the first answer stops.
TimeOutFirstOnly ==
    /\ pc = "wait"
    /\ queue[ask] = <<>>
    /\ handlers = {}
    /\ got = <<>>
    /\ EndWait
    /\ Faults(IF waits = Len(got) /\ net \cap ToSet(MeNeedAck) # {} THEN 1 ELSE 0)
    /\ UNCHANGED <<peerVars, stage, ask, asked, call, got, ssRe, result, needAck,
                   handlers, queue, net, races>>

\* The wait is over after Time_Out_Limit.  A goroutine takes no such time to cut
\* its number: there is none halfway.
TimeOut ==
    /\ pc = "wait"
    /\ queue[ask] = <<>>
    /\ handlers = {}
    /\ EndWait
    /\ Faults(IF waits = Len(got) /\ net \cap ToSet(MeNeedAck) # {} THEN 1 ELSE 0)
    /\ UNCHANGED <<peerVars, stage, ask, asked, call, got, ssRe, result, needAck,
                   handlers, queue, net, races>>

\* Mutant: the numbers of unanswered requests are not struck.
StrikeNothing ==
    /\ pc = "strike"
    /\ pc' = "decide"
    /\ UNCHANGED <<peerVars, stage, ask, asked, call, waits, got, ssRe, result, needAck,
                   handlers, queue, net, races, spent>>

\* The call strikes its numbers, of which there are two, one after the other; a
\* cut that is under way may undo that.
Strike ==
    /\ pc = "strike"
    /\ \/ needAck' = RemoveFirst(RemoveFirst(needAck, MeNeedAck[1]), MeNeedAck[2])
       \/ /\ handlers # {}
          /\ UNCHANGED needAck
    /\ Enter
    /\ pc' = "decide"
    /\ UNCHANGED <<peerVars, stage, ask, asked, call, waits, got, ssRe, result, handlers,
                   queue, net, spent>>

-----------------------------------------------------------------------------
(* NetSearch and its loops.                                                *)

\* CustStat finds at least two of the nodes up; with fewer the loop sleeps and
\* asks again.  The first two that are up are asked.  CustStat dials, so that no
\* goroutine is halfway through a cut by then.
Stat ==
    /\ pc = "stat"
    /\ handlers = {}
    /\ stage # "lists"
    /\ \E i, j \in DOMAIN Targets :
          i < j /\ Call("height", <<Targets[i], Targets[j]>>)
    /\ UNCHANGED <<stage, ssRe, result>>

\* All heights are zero: only the lists are asked for.
AskLists ==
    /\ pc = "stat"
    /\ stage = "lists"
    /\ Call("main", Targets)
    /\ UNCHANGED <<stage, ssRe, result>>

Complete == Len(got) >= 2

\* The network has a chain at least as long.
AsHighAsMe == \E i \in DOMAIN got : got[i].len >= local

AllZero == local = 0 /\ \A i \in DOMAIN got : got[i].len = 0

Stay == UNCHANGED <<peerVars, ask, asked, call, waits, got, needAck, handlers, queue,
                    net, races, spent>>

\* The loop goes round: too few answers, or no chain as long as the own one.
Again ==
    /\ pc = "decide"
    /\ ~Complete \/ (ask = "height" /\ stage \in {"check", "other"} /\ ~AsHighAsMe)
    /\ pc' = "stat"
    /\ Stay
    /\ UNCHANGED <<stage, ssRe, result>>

FindTwoBoot ==
    /\ pc = "decide"
    /\ Complete
    /\ stage = "zero"
    /\ stage' = IF AllZero THEN "lists" ELSE "check"
    /\ pc' = "stat"
    /\ Stay
    /\ UNCHANGED <<ssRe, result>>

AskMainNode ==
    /\ pc = "decide"
    /\ Complete
    /\ stage \in {"check", "other"}
    /\ ask = "height"
    /\ AsHighAsMe
    /\ ssRe' = got[1].len
    /\ Call("main", asked)
    /\ UNCHANGED <<stage, result>>

Finish ==
    /\ pc = "decide"
    /\ Complete
    /\ ask = "main"
    /\ result' = IF stage = "lists" THEN [result EXCEPT !.Net_Flag = 0]
                 ELSE [Net_Flag |-> 1, Height |-> ssRe]
    /\ pc' = "done"
    /\ Stay
    /\ UNCHANGED <<stage, ssRe>>

Search == Stat \/ AskLists \/ TakeAnswer \/ TimeOut \/ Strike \/ Again \/ FindTwoBoot
          \/ AskMainNode \/ Finish

-----------------------------------------------------------------------------
(* The boot nodes and the network.                                         *)

Grow(p) ==
    /\ spent.grow < MaxGrow
    /\ spent' = [spent EXCEPT !.grow = @ + 1]
    /\ peerHeight[p] < MaxHeight
    /\ peerHeight' = [peerHeight EXCEPT ![p] = @ + 1]
    /\ UNCHANGED <<isDefault, local, searchVars, needAck, handlers, queue, net, races>>

Lose(m) ==
    /\ Faults(1)
    /\ net' = net \ {m}
    /\ UNCHANGED <<peerVars, searchVars, needAck, handlers, queue, races>>

\* Touch_And_Analy_1 at a boot node, types 0x0001 and 0x0003.
Answer(m) ==
    [call |-> m.call, len |-> IF m.ask = "height" THEN peerHeight[m.ip] ELSE 0]

\* Touch_And_Analy_1 here, types 0x0002 and 0x0004: the number is looked for; an
\* answer without one comes too late and is dropped.
Receive(m) ==
    LET found == {i \in DOMAIN needAck : needAck[i] = m}
    IN  /\ \/ net' = net \ {m} /\ Faults(0)
           \/ net' = net /\ Faults(1)
        /\ handlers' = handlers \cup
              {[seq |-> m, rsp |-> Answer(m), at |-> i, copy |-> spent.faults] : i \in found}
        /\ IF found = {} THEN UNCHANGED races ELSE Enter
        /\ UNCHANGED <<peerVars, searchVars, needAck, queue>>

\* The number is cut out where it was found, and the answer is sent.  Beyond the
\* end of a slice that has become shorter the program panics; of two cuts at
\* once one may undo the other.
Cut(h) ==
    /\ handlers' = handlers \ {h}
    /\ \/ /\ h.at > Len(needAck)
          /\ pc' = "crashed"
          /\ UNCHANGED <<needAck, queue>>
       \/ /\ h.at <= Len(needAck)
          /\ \/ needAck' = RemoveAt(needAck, h.at)
             \/ handlers # {h} /\ UNCHANGED needAck
          /\ queue' = [queue EXCEPT ![h.seq.ask] = Append(@, h.rsp)]
          /\ UNCHANGED pc
    /\ UNCHANGED <<peerVars, stage, ask, asked, call, waits, got, ssRe, result, net, races,
                   spent>>

Next ==
    \/ Search
    \/ /\ pc \notin {"done", "crashed"}
       /\ \/ \E p \in ToSet(Targets) : Grow(p)
          \/ \E m \in net : Lose(m) \/ Receive(m)
          \/ \E h \in handlers : Cut(h)

Spec == Init /\ [][Next]_vars

\* The search runs, the boot nodes are up again and again and answer, and
\* goroutines run.
FairSpec ==
    /\ Spec
    /\ WF_vars(Search)
    /\ WF_vars(\E m \in net : Receive(m))
    /\ WF_vars(\E h \in handlers : Cut(h))
-----------------------------------------------------------------------------
(* Properties.                                                             *)

\* Late answers do not pile up (Touch_And_Analy_1, Get_Block_Height): goroutines
\* stay blocked in their send when a call has given up on them, over as many
\* calls as it takes, and still no call leaves more of them behind than it has
\* asked for.
LateAnswersBounded ==
    races = 0 /\ pc # "wait" => \A a \in Asks : Len(queue[a]) <= 2

\* An answer that a call counts was asked for by that call or by the one before
\* of its kind (the strike at the end of Get_Block_Height and Get_Main_Node),
\* however late it came.
OneCallLate ==
    races = 0 => \A i \in DOMAIN got : got[i].call >= call[ask] - 1

\* The search ends when all boot nodes start as high as this one, whatever answers
\* are lost or late (NetSearch and its loops), unless the race on Need_Ack has
\* crashed it.
SearchEnds ==
    (\A p \in ToSet(Boots) : peerHeight[p] >= local) => <>(pc \in {"done", "crashed"})

\* "three node height all zero" (boot/boot.go:483): the node asks for lists
\* only, to start a new chain, when both others are at height zero.  Checked
\* while no chain grows and no two goroutines collide in Need_Ack.
ThreeNodesAllZero ==
    stage = "lists" /\ races = 0 => \A p \in ToSet(Targets) : peerHeight[p] = 0
=============================================================================
