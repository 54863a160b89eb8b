---------------------------- MODULE MainNodeList ----------------------------
(***************************************************************************)
(* How the list of main nodes gets into the chain.                         *)
(*                                                                         *)
(* Nodes join and leave with election transactions.  Two blocks before     *)
(* each broadcast block the leading verifier merges the transactions of    *)
(* the last blocks with the lists of the broadcast block before            *)
(* (verify/interface.go, GenerateMainNodeList) and sends the lists to the  *)
(* miners over UDP; each miner keeps the newest it received in its own     *)
(* broadcastCache (miner/cache.go), in memory, and writes that into the    *)
(* header of the next broadcast block it mines.                            *)
(*                                                                         *)
(* Blocks are final here: the chain grows and is never reorganised.        *)
(***************************************************************************)
EXTENDS Integers, Sequences

CONSTANTS
    Miners,             \* the miners that receive the lists and mine
    Nodes,              \* node IDs, one account each
    BootCommittee,      \* MainnetBootnodes[0], as a set
    BootMiners,         \* the other boot nodes
    BroadcastInterval,  \* params.BroadcastInterval, 10 in the code
    MaxBlock,           \* bound: blocks mined
    MaxTx,              \* bound: election transactions
    MaxFaults,          \* bound: messages lost or delivered twice, and restarts of a miner
    MaxEvents           \* bound: transactions and faults together

ASSUME IntervalAssumption == BroadcastInterval \in Nat /\ BroadcastInterval > 2

ASSUME BootAssumption ==
    /\ BootCommittee \subseteq Nodes
    /\ BootMiners \subseteq Nodes
    /\ BootCommittee \cap BootMiners = {}

ASSUME BoundsAssumption == {MaxBlock, MaxTx, MaxFaults, MaxEvents} \subseteq Nat

VARIABLES
    chain,            \* the blocks, by number: transactions and header lists
    sent,             \* the block numbers whose lists the leader has sent
    net,              \* messages on their way to a miner
    broadcastInfoCh,  \* [Miners -> the miner's channel, capacity 1]
    cache,            \* [Miners -> the miner's broadcastCache]
    spent             \* bound: transactions and faults

vars == <<chain, sent, net, broadcastInfoCh, cache, spent>>

ElectExit      == "ElectExit"
ElectMiner     == "ElectMiner"
ElectCommittee == "ElectCommittee"
ElectBoth      == "ElectBoth"

ElectTypes == {ElectExit, ElectMiner, ElectCommittee, ElectBoth}

\* Election transactions, and exits.
Txs == [ID : Nodes, ElectType : ElectTypes]

\* An election.NodeList is a function from the election types to the sets of
\* nodes in the lists that belong to them.
BootList ==
    [t \in ElectTypes |-> CASE t = ElectMiner -> BootMiners
                            [] t = ElectCommittee -> BootCommittee
                            [] OTHER -> {}]

EmptyList == [t \in ElectTypes |-> {}]

Height == Len(chain) - 1

Block(number) == chain[number + 1]

IsBroadcast(number) == number % BroadcastInterval = 0

\* The blocks first .. last that hold an election or exit of a node.
ElectedIn(node, first, last) ==
    {b \in first .. last : \E i \in DOMAIN Block(b).txs : Block(b).txs[i].ID = node}

\* The last transaction of a node among those of a block.
LastTx(txs, node) ==
    txs[CHOOSE i \in DOMAIN txs : /\ txs[i].ID = node
                                  /\ \A j \in DOMAIN txs : txs[j].ID = node => j <= i]

\* What the last election or exit of a node in the blocks is for.
LatestBlock(node, first, last) ==
    CHOOSE b \in ElectedIn(node, first, last) : \A c \in ElectedIn(node, first, last) : c <= b

LatestElection(node, first, last) ==
    LastTx(Block(LatestBlock(node, first, last)).txs, node).ElectType

-----------------------------------------------------------------------------
(* The leader.                                                             *)

\* The last election or exit of each node that has one in the blocks.
GetElectionAndExitNodeInfo(first, last) ==
    [node \in {n \in Nodes : ElectedIn(n, first, last) # {}} |-> LatestElection(node, first, last)]

\* Mutant: the window starts one block after the leader's last look.
StartPosAfterLast(number) ==
    IF number > BroadcastInterval + 1 THEN number - BroadcastInterval + 2 ELSE 0

StartPos(number) ==
    IF number > BroadcastInterval + 1 THEN number - BroadcastInterval - 1 ELSE 0

\* Mutant: members of the miner list are merged as committee members.
MergeNodeInfoMixed(newNodeMap, list, node) ==
    IF node \in DOMAIN newNodeMap THEN newNodeMap[node]
    ELSE IF node \in list[ElectMiner] \cup list[ElectCommittee] THEN ElectCommittee
    ELSE IF node \in list[ElectBoth] THEN ElectBoth
    ELSE "none"

\* mergeNodeInfo, three times: a node with a new election or exit has that,
\* a node of the last broadcast block's lists what it had; the exits listed
\* there are not merged.
MergeNodeInfo(newNodeMap, list, node) ==
    IF node \in DOMAIN newNodeMap THEN newNodeMap[node]
    ELSE IF node \in list[ElectMiner] THEN ElectMiner
    ELSE IF node \in list[ElectCommittee] THEN ElectCommittee
    ELSE IF node \in list[ElectBoth] THEN ElectBoth
    ELSE "none"

GenerateMainNodeList(number) ==
    LET last == number + 2 - BroadcastInterval
        list == IF last = 0 THEN BootList ELSE Block(last).list
        newNodeMap == GetElectionAndExitNodeInfo(StartPos(number), number)
    IN  [t \in ElectTypes |-> {n \in Nodes : MergeNodeInfo(newNodeMap, list, n) = t}]

\* readySendNodelist, sendToMiner: one message to each miner.
ReadySendNodelist(number) ==
    /\ number \notin sent
    /\ IsBroadcast(number + 2)
    /\ sent' = sent \cup {number}
    /\ net' = net \cup {[to |-> miner, NodeList |-> GenerateMainNodeList(number),
                         BlockNum |-> number] : miner \in Miners}
    /\ UNCHANGED <<chain, broadcastInfoCh, cache, spent>>

-----------------------------------------------------------------------------
(* The network and the miners.                                             *)

\* Another fault within the bounds.
Fault ==
    /\ spent.faults < MaxFaults
    /\ spent.tx + spent.faults < MaxEvents
    /\ spent' = [spent EXCEPT !.faults = @ + 1]

Lose(m) ==
    /\ Fault
    /\ net' = net \ {m}
    /\ UNCHANGED <<chain, sent, broadcastInfoCh, cache>>

\* AddUDPMsg: a broadcast message goes into the channel.
AddUDPMsg(m) ==
    /\ broadcastInfoCh[m.to] = <<>>
    /\ broadcastInfoCh' = [broadcastInfoCh EXCEPT ![m.to] = <<m>>]
    /\ \/ /\ net' = net \ {m}
          /\ UNCHANGED spent
       \/ /\ Fault
          /\ UNCHANGED net
    /\ UNCHANGED <<chain, sent, cache>>

\* broadcastCache.update takes a list newer than its own, of the right block.
Accepts(miner, info) ==
    /\ info.BlockNum > cache[miner].BlockNum
    /\ IsBroadcast(info.BlockNum + 2)

Update(miner) ==
    /\ broadcastInfoCh[miner] # <<>>
    /\ broadcastInfoCh' = [broadcastInfoCh EXCEPT ![miner] = <<>>]
    /\ LET info == Head(broadcastInfoCh[miner])
       IN  \/ /\ Accepts(miner, info)
              /\ cache' = [cache EXCEPT ![miner] = [NodeList |-> info.NodeList,
                                                    BlockNum |-> info.BlockNum + 2]]
           \/ /\ ~Accepts(miner, info)
              /\ UNCHANGED cache
    /\ UNCHANGED <<chain, sent, net, spent>>

\* newBroadCastCache.
BootCache == [NodeList |-> BootList, BlockNum |-> 0]

\* The process of a miner starts again: the cache is not kept anywhere.
Restart(miner) ==
    /\ Fault
    /\ broadcastInfoCh' = [broadcastInfoCh EXCEPT ![miner] = <<>>]
    /\ cache' = [cache EXCEPT ![miner] = BootCache]
    /\ UNCHANGED <<chain, sent, net>>

\* Mutant: no lists in the header when the cache is not of this block.
HeaderListOwnOnly(miner, number) ==
    [list |-> IF number = cache[miner].BlockNum THEN cache[miner].NodeList ELSE EmptyList,
     of |-> IF IsBroadcast(number) THEN cache[miner].BlockNum ELSE number]

\* writeCacheToHeader: the list of the cache, also when it is not of this block.
\* The header keeps the block the list is of for the properties only.
HeaderList(miner, number) ==
    IF IsBroadcast(number)
    THEN [list |-> cache[miner].NodeList, of |-> cache[miner].BlockNum]
    ELSE [list |-> EmptyList, of |-> number]

\* How many transactions a block may have within the bounds.
Counts == {count \in 0 .. MaxTx - spent.tx : spent.tx + spent.faults + count <= MaxEvents}

\* A miner's block: the worker fills the header and packs transactions.
MineBlock(miner) ==
    /\ Height < MaxBlock
    /\ \E count \in Counts : \E txs \in [1 .. count -> Txs] :
          /\ spent' = [spent EXCEPT !.tx = @ + count]
          /\ chain' = Append(chain, [txs |-> txs, list |-> HeaderList(miner, Height + 1).list,
                                     of |-> HeaderList(miner, Height + 1).of])
    /\ UNCHANGED <<sent, net, broadcastInfoCh, cache>>

-----------------------------------------------------------------------------
Init ==
    /\ chain = <<[txs |-> <<>>, list |-> EmptyList, of |-> 0]>>
    /\ sent = {}
    /\ net = {}
    /\ broadcastInfoCh = [miner \in Miners |-> <<>>]
    /\ cache = [miner \in Miners |-> BootCache]
    /\ spent = [tx |-> 0, faults |-> 0]

Next ==
    \/ \E number \in 0 .. Height : ReadySendNodelist(number)
    \/ \E m \in net : AddUDPMsg(m) \/ Lose(m)
    \/ \E miner \in Miners : Update(miner) \/ Restart(miner) \/ MineBlock(miner)

Spec == Init /\ [][Next]_vars
-----------------------------------------------------------------------------
(* Properties.                                                             *)

\* The block holds a transaction that elects the node into a role.
Asks(node, type, number) ==
    \E i \in DOMAIN Block(number).txs :
        Block(number).txs[i].ID = node /\ Block(number).txs[i].ElectType = type

BroadcastBlocks == {b \in 1 .. Height : IsBroadcast(b)}

\* What a node is after all its elections and exits up to a block.
RoleAfter(node, number) ==
    IF ElectedIn(node, 0, number) # {} THEN LatestElection(node, 0, number)
    ELSE IF node \in BootMiners THEN ElectMiner
    ELSE IF node \in BootCommittee THEN ElectCommittee
    ELSE "none"

\* Merging one window of blocks at a time (GenerateMainNodeList) loses and
\* resurrects nobody: as long as every broadcast block carries the list made for
\* it, its members are those that a replay of the whole chain gives.
ListsFollowChain ==
    \A b \in BroadcastBlocks :
        (\A a \in BroadcastBlocks : a <= b => Block(a).of = a) =>
            \A n \in Nodes, t \in ElectTypes \ {ElectExit} :
                n \in Block(b).list[t] <=> RoleAfter(n, b - 2) = t

\* Whatever messages are lost, doubled or late and whoever restarts, who is listed
\* asked for it: each member of a broadcast block's list is a boot node in its boot
\* role, or has elected itself into that role in an earlier block (mergeNodeInfo).
MembersElectedThemselves ==
    \A b \in BroadcastBlocks : \A t \in ElectTypes : \A n \in Block(b).list[t] :
        n \in BootList[t] \/ \E c \in 0 .. b - 2 : Asks(n, t, c)

\* Lists that miners lose, get late or forget in a restart leave stale lists in later
\* headers, and lists that are made from those.  All the same, an election that has
\* been in the list made for its broadcast block stays in effect until the node's
\* next one, as long as no header falls back to a list from before it
\* (GenerateMainNodeList, update, writeCacheToHeader).
ElectionsSurvive ==
    \A b, d \in BroadcastBlocks : \A n \in Nodes :
        LET first == StartPos(b - 2)
        IN  /\ b <= d /\ Block(b).of = b
            /\ \A e \in BroadcastBlocks : b <= e /\ e <= d => Block(e).of >= b
            /\ ElectedIn(n, first, b - 2) # {} /\ ElectedIn(n, b - 1, d - 2) = {}
            => \A t \in ElectTypes \ {ElectExit} :
                  n \in Block(d).list[t] <=> LatestElection(n, first, b - 2) = t

\* An exit is handed on once: it is new in the period it appears in, and "the
\* exits of the last broadcast block need not be merged"
\* (verify/interface.go, GenerateMainNodeList).  So a node in the exit list of
\* a broadcast block is in that of the next only after another exit.
ExitListedOnce ==
    \A b \in BroadcastBlocks : \A n \in Nodes :
        LET next == b + BroadcastInterval
        IN  next <= Height /\ Block(b).of = b /\ Block(next).of = next
            /\ n \in Block(b).list[ElectExit] /\ n \in Block(next).list[ElectExit]
            => \E c \in b - 1 .. next - 2 : Asks(n, ElectExit, c)
=============================================================================
