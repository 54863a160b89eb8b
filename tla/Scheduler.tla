------------------------------ MODULE Scheduler ------------------------------
(***************************************************************************)
(* The scheduler (scheduler/scheduler.go): it follows the chain's height,  *)
(* builds the network topology of each broadcast block in one of two       *)
(* buffers, swaps the buffers when the topology takes effect, and starts   *)
(* and stops what the node does in its role.                               *)
(*                                                                         *)
(* Beside its loop run the chain's inserter (core/blockchain.go), which    *)
(* waits in Setblockinsernotify, and the GenNetwork goroutines, which end  *)
(* in a send on ch1.  A list is named by its broadcast block; 0 stands for *)
(* the boot nodes, used before the first broadcast block takes effect.     *)
(***************************************************************************)
EXTENDS Integers

CONSTANTS
    BroadcastInterval,      \* params.BroadcastInterval, 10 in the code
    blockEffectDelay,       \* 4 in the code
    electionNetEffterTime,  \* 6 in the code
    RoleAt,                 \* the node's type in the topology of each list
    StartHeights,           \* heights at which the block sync may end
    MaxBlock                \* bound: the chain's height

NodeTypes == {"SUPERMINER", "MINER", "SUPERVERIFY", "VERIFY", "ORDINATY"}

Wallets == {"none", "deposits", "other"}

Broadcasts == {b \in 0 .. MaxBlock : b % BroadcastInterval = 0}

ASSUME IntervalAssumption ==
    /\ BroadcastInterval \in Nat
    /\ blockEffectDelay \in 1 .. electionNetEffterTime - 1
    /\ electionNetEffterTime \in 1 .. BroadcastInterval - 1

ASSUME SchedulerAssumption ==
    /\ MaxBlock \in Nat
    /\ StartHeights \subseteq 0 .. MaxBlock
    /\ RoleAt \in [Broadcasts -> NodeTypes]

VARIABLES
    height,         \* bc.CurrentBlock().NumberU64()
    inserterPc,     \* the inserter: "idle", or "notify" in Setblockinsernotify
    running,        \* Setblockinsernotify does nothing before Start
    BlockInsertch,  \* notifications in the channel, capacity 1
    ch2,            \* notifications in the channel, capacity 1
    ch1,            \* tokens in the channel, capacity 1
    loopPc,         \* Start: "off", "select", "block", "notify" or "gen"
    nodeList,       \* [0, 1 -> the broadcast block of the list, or None]
    ele,            \* [0, 1 -> the list the topology was built from, or None]
    eleEffterIndex, \* the buffer in effect; eletempIndex is the other one
    building,       \* [0, 1 -> GenNetwork goroutines at work on the buffer]
    signalling,     \* GenNetwork goroutines in their send on ch1
    nodetype, prenodetype,
    mining,         \* between Startmining and Stoptmining
    nodeBusy,       \* the verifier, between its Start and Stop
    wallet,         \* the first account: none, the one deposits go to, or another
    paid,           \* [Broadcasts -> how often the exits on its list were paid back]
    calm            \* no block came while the one before was being handled

chainVars  == <<height, inserterPc, running>>
genVars    == <<building, signalling, ele>>
listVars   == <<nodeList, eleEffterIndex, wallet, paid>>
roleVars   == <<nodetype, prenodetype, mining, nodeBusy>>
vars == <<chainVars, BlockInsertch, ch2, ch1, loopPc, genVars, listVars, roleVars, calm>>

None == -1
eletempIndex == 1 - eleEffterIndex

Init ==
    /\ height \in StartHeights
    /\ inserterPc = "idle"
    /\ running = FALSE
    /\ BlockInsertch = 0
    /\ ch2 = 1
    /\ ch1 = 0
    /\ loopPc = "off"
    /\ nodeList = [i \in {0, 1} |-> None]
    /\ ele = [i \in {0, 1} |-> None]
    /\ eleEffterIndex = 0
    /\ building = [i \in {0, 1} |-> 0]
    /\ signalling = 0
    /\ nodetype = "illegal"
    /\ prenodetype = "ORDINATY"
    /\ mining = FALSE
    /\ nodeBusy = FALSE
    /\ wallet \in Wallets
    /\ paid = [b \in Broadcasts |-> 0]
    /\ calm = TRUE

-----------------------------------------------------------------------------
(* The chain.                                                              *)

\* Nothing is left to be done about the blocks so far.
Quiet ==
    /\ loopPc = "select"
    /\ inserterPc = "idle" /\ BlockInsertch = 0 /\ ch2 = 0
    /\ \A i \in {0, 1} : building[i] = 0

\* WriteBlockWithState: the new head, then the notification.
InsertBlock ==
    /\ inserterPc = "idle"
    /\ height < MaxBlock
    /\ height' = height + 1
    /\ inserterPc' = IF running THEN "notify" ELSE "idle"
    /\ calm' = (calm /\ Quiet)
    /\ UNCHANGED <<running, BlockInsertch, ch2, ch1, loopPc, genVars, listVars, roleVars>>

Setblockinsernotify ==
    /\ inserterPc = "notify"
    /\ BlockInsertch = 0
    /\ BlockInsertch' = 1
    /\ inserterPc' = "idle"
    /\ UNCHANGED <<height, running, ch2, ch1, loopPc, genVars, listVars, roleVars, calm>>

-----------------------------------------------------------------------------
(* GenNetwork: build the topology from the list, say so on ch1.            *)

GenNetwork(i) ==
    /\ building[i] > 0
    /\ building' = [building EXCEPT ![i] = @ - 1]
    /\ ele' = [ele EXCEPT ![i] = nodeList[i]]
    /\ signalling' = signalling + 1
    /\ UNCHANGED <<chainVars, BlockInsertch, ch2, ch1, loopPc, listVars, roleVars, calm>>

Signal ==
    /\ signalling > 0
    /\ ch1 = 0
    /\ ch1' = 1
    /\ signalling' = signalling - 1
    /\ UNCHANGED <<chainVars, BlockInsertch, ch2, loopPc, building, ele, listVars,
                   roleVars, calm>>

-----------------------------------------------------------------------------
(* Start.                                                                  *)

Start ==
    /\ loopPc = "off"
    /\ running' = TRUE
    /\ loopPc' = "select"
    /\ UNCHANGED <<height, inserterPc, BlockInsertch, ch2, ch1, genVars, listVars,
                   roleVars, calm>>

\* GetIDType asks the topology; one that was never built knows nobody.
GetIDType(list) == IF list = None THEN "illegal" ELSE RoleAt[list]

\* Mutant: the services of the new role are stopped in place of the old one's.
StartTaskStopsNew(type) ==
    /\ mining' = (type = "SUPERMINER" \/ mining)
    /\ nodeBusy' = (type = "SUPERVERIFY" \/ nodeBusy)
    /\ nodetype' = type
    /\ prenodetype' = type

\* startTask: stop what the role before runs, start what the new one does.
StartTask(type) ==
    /\ mining' = (type = "SUPERMINER" \/ (mining /\ prenodetype # "SUPERMINER"))
    /\ nodeBusy' = (type = "SUPERVERIFY" \/ (nodeBusy /\ prenodetype # "SUPERVERIFY"))
    /\ nodetype' = type
    /\ prenodetype' = type

TakeBlock ==
    /\ loopPc = "select"
    /\ BlockInsertch = 1
    /\ BlockInsertch' = 0
    /\ loopPc' = "block"
    /\ UNCHANGED <<chainVars, ch2, ch1, genVars, listVars, roleVars, calm>>

\* Afterwards the verifier is told of the block if that is the node's role.
AfterBlock(type) == IF type = "SUPERVERIFY" THEN "notify" ELSE "select"

EffectBlock == height - blockEffectDelay

EffectDelay ==
    /\ loopPc = "block"
    /\ height > BroadcastInterval
    /\ height % BroadcastInterval = blockEffectDelay
    /\ nodeList' = [nodeList EXCEPT ![eletempIndex] = EffectBlock]
    /\ building' = [building EXCEPT ![eletempIndex] = @ + 1]
    /\ loopPc' = AfterBlock(nodetype)
    /\ UNCHANGED <<chainVars, BlockInsertch, ch2, ch1, signalling, ele, eleEffterIndex,
                   wallet, paid, roleVars, calm>>

\* Mutant: the swap waits for a token on ch1, as the other path does.
ElectionNetEffectWaits ==
    /\ loopPc = "block"
    /\ height > BroadcastInterval
    /\ height % BroadcastInterval = electionNetEffterTime
    /\ eleEffterIndex' = eletempIndex
    /\ loopPc' = "gen"
    /\ UNCHANGED <<chainVars, BlockInsertch, ch2, ch1, genVars, nodeList, wallet, paid, roleVars,
                   calm>>

\* The deposits of the exits on a list are paid back, from the account that holds
\* the deposits.  A buffer nobody filled has no exits.
OfflineListMortgageDeal(list) ==
    IF list = None THEN UNCHANGED paid ELSE paid' = [paid EXCEPT ![list] = @ + 1]

\* The swap does not wait for GenNetwork, whose token stays in ch1.  A wallet
\* without an account skips the rest, the verifier's Notify too; deposits are paid
\* back by the one node whose wallet holds the account they went to.
TakeEffect ==
    /\ eleEffterIndex' = eletempIndex
    /\ StartTask(GetIDType(ele[eletempIndex]))
    /\ loopPc' = IF wallet = "none" THEN "select" ELSE AfterBlock(GetIDType(ele[eletempIndex]))
    /\ \/ /\ wallet = "deposits"
          /\ OfflineListMortgageDeal(nodeList[eletempIndex])
       \/ /\ wallet # "deposits"
          /\ UNCHANGED paid
    /\ UNCHANGED <<chainVars, BlockInsertch, ch2, ch1, genVars, nodeList, wallet, calm>>

\* Mutant: from the effect time on, not at it.
EffectTimeOn(n) == n % BroadcastInterval >= electionNetEffterTime

EffectTime(n) == n % BroadcastInterval = electionNetEffterTime

ElectionNetEffect ==
    /\ loopPc = "block"
    /\ height > BroadcastInterval
    /\ EffectTime(height)
    /\ TakeEffect

OtherBlock ==
    /\ loopPc = "block"
    /\ \/ height <= BroadcastInterval
       \/ /\ height % BroadcastInterval # blockEffectDelay
          /\ ~EffectTime(height)
    /\ loopPc' = AfterBlock(nodetype)
    /\ UNCHANGED <<chainVars, BlockInsertch, ch2, ch1, genVars, listVars, roleVars, calm>>

\* The verifier's Notify returns.
NotifyVerifier ==
    /\ loopPc = "notify"
    /\ loopPc' = "select"
    /\ UNCHANGED <<chainVars, BlockInsertch, ch2, ch1, genVars, listVars, roleVars, calm>>

\* Mutant: the list of the last broadcast block, in effect or not.
CalcLastBroadcast(n) == n - (n % BroadcastInterval)

\* calcbcnodeblocknumber.
Calcbcnodeblocknumber(n) ==
    IF n % BroadcastInterval < electionNetEffterTime
    THEN (n \div BroadcastInterval - 1) * BroadcastInterval
    ELSE n - (n % BroadcastInterval)

\* Mutant: the topology of the list is not built.
TakeMainNodeListOnly ==
    /\ loopPc = "select"
    /\ ch2 = 1
    /\ ch2' = 0
    /\ nodeList' = [nodeList EXCEPT ![eletempIndex] =
                       IF height < BroadcastInterval + electionNetEffterTime
                       THEN 0 ELSE Calcbcnodeblocknumber(height)]
    /\ eleEffterIndex' = eletempIndex
    /\ loopPc' = "gen"
    /\ UNCHANGED <<chainVars, BlockInsertch, ch1, genVars, wallet, paid, roleVars, calm>>

\* The block sync is over: the list that is in effect at this height.
TakeMainNodeList ==
    /\ loopPc = "select"
    /\ ch2 = 1
    /\ ch2' = 0
    /\ nodeList' = [nodeList EXCEPT ![eletempIndex] =
                       IF height < BroadcastInterval + electionNetEffterTime
                       THEN 0 ELSE Calcbcnodeblocknumber(height)]
    /\ eleEffterIndex' = eletempIndex
    /\ building' = [building EXCEPT ![eletempIndex] = @ + 1]
    /\ loopPc' = "gen"
    /\ UNCHANGED <<chainVars, BlockInsertch, ch1, signalling, ele, wallet, paid, roleVars, calm>>

TakeToken ==
    /\ loopPc = "gen"
    /\ ch1 = 1
    /\ ch1' = 0
    /\ StartTask(GetIDType(ele[eleEffterIndex]))
    /\ loopPc' = "select"
    /\ UNCHANGED <<chainVars, BlockInsertch, ch2, genVars, listVars, calm>>

-----------------------------------------------------------------------------
HandleBlock == EffectDelay \/ ElectionNetEffect \/ OtherBlock

Next ==
    \/ InsertBlock \/ Setblockinsernotify
    \/ Signal \/ \E i \in {0, 1} : GenNetwork(i)
    \/ Start
    \/ TakeBlock \/ HandleBlock \/ NotifyVerifier
    \/ TakeMainNodeList \/ TakeToken

Spec == Init /\ [][Next]_vars

\* The loop and the goroutines run; select picks among the ready channels at
\* random, so that one that is ready again and again is picked in the end; and
\* the verifier's Notify returns (VerifierLeader, SchedulerReleased).
FairSpec ==
    /\ Spec
    /\ WF_vars(Start)
    /\ WF_vars(Setblockinsernotify)
    /\ \A i \in {0, 1} : WF_vars(GenNetwork(i))
    /\ WF_vars(Signal)
    /\ SF_vars(TakeBlock)
    /\ SF_vars(TakeMainNodeList)
    /\ WF_vars(HandleBlock)
    /\ WF_vars(NotifyVerifier)
    /\ WF_vars(TakeToken)
-----------------------------------------------------------------------------
(* Properties.                                                             *)

\* Types of the scheduler's state.
TypeOK ==
    /\ height \in 0 .. MaxBlock
    /\ inserterPc \in {"idle", "notify"}
    /\ running \in BOOLEAN
    /\ {BlockInsertch, ch2, ch1} \subseteq {0, 1}
    /\ loopPc \in {"off", "select", "block", "notify", "gen"}
    /\ nodeList \in [{0, 1} -> Broadcasts \cup {None}]
    /\ ele \in [{0, 1} -> Broadcasts \cup {None}]
    /\ eleEffterIndex \in {0, 1}
    /\ building \in [{0, 1} -> Nat]
    /\ signalling \in Nat
    /\ nodetype \in NodeTypes \cup {"illegal"}
    /\ prenodetype \in NodeTypes \cup {"illegal"}
    /\ mining \in BOOLEAN
    /\ nodeBusy \in BOOLEAN
    /\ wallet \in Wallets
    /\ paid \in [Broadcasts -> Nat]
    /\ calm \in BOOLEAN

\* The node does the work of one role (startTask): it mines only as a super
\* miner and verifies only as a super verifier, whatever roles it had before and
\* however the two paths into startTask follow each other.
WorkOfOneRole ==
    /\ mining <=> prenodetype = "SUPERMINER"
    /\ nodeBusy <=> prenodetype = "SUPERVERIFY"

\* The broadcast block whose list is in effect at a height, 0 before the first.
InEffect(n) ==
    LET past == {b \in Broadcasts : b + electionNetEffterTime <= n}
    IN  CHOOSE b \in past \cup {0} : \A a \in past : a <= b

\* The right list is in effect (the two buffers, calcbcnodeblocknumber): when
\* blocks come no faster than they are handled, the buffer in effect always
\* holds the list of the last broadcast block that has taken effect, with its
\* topology, and the node has its role there.
ListInEffect ==
    calm /\ Quiet =>
        /\ nodeList[eleEffterIndex] = InEffect(height)
        /\ ele[eleEffterIndex] = InEffect(height)
        /\ nodetype = RoleAt[InEffect(height)]

\* A list's deposits are paid back once (offlineListmortgagedeal, which keeps no
\* record of what it paid): each buffer is refilled before it takes effect again,
\* when blocks come no faster than they are handled.
ExitsPaidOnce == calm => \A b \in Broadcasts : paid[b] <= 1

\* The chain is not held up for ever (Setblockinsernotify): an inserter that
\* waits in its send gets on.
InserterReleased == inserterPc = "notify" ~> inserterPc = "idle"

\* The node takes up its role after the block sync (Setmainnodelistnotify): the
\* list is taken although block notifications compete with it, and ch1 brings
\* a token.
SyncTakesEffect == ch2 = 1 ~> ch2 = 0 /\ loopPc = "select"
=============================================================================
