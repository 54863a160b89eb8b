------------------------- MODULE MainNodeListProofs -------------------------
(***************************************************************************)
(* The lists of main nodes for every broadcast interval, set of nodes and  *)
(* miners and length of the chain: they follow the elections in the chain, *)
(* contain only nodes that asked for it, and keep an election they show,   *)
(* whatever messages are lost, doubled or late and whoever restarts.       *)
(***************************************************************************)
EXTENDS MainNodeList, FiniteSetTheorems, WellFoundedInduction, TLAPS

-----------------------------------------------------------------------------
(* Broadcast blocks are BroadcastInterval apart.                           *)

LEMMA Multiple ==
    ASSUME NEW x \in Nat, IsBroadcast(x)
    PROVE  \E q \in Nat : x = BroadcastInterval * q
  BY IntervalAssumption DEF IsBroadcast

LEMMA Apart ==
    ASSUME NEW x \in Nat, NEW y \in Nat, IsBroadcast(x), IsBroadcast(y), x > y
    PROVE  x >= y + BroadcastInterval
<1>1. PICK q \in Nat, p \in Nat : x = BroadcastInterval * q /\ y = BroadcastInterval * p
  BY Multiple
<1>2. q >= p + 1
  <2>1. CASE q <= p
    <3>1. BroadcastInterval * q <= BroadcastInterval * p
      BY <2>1, IntervalAssumption
    <3> QED
      BY <1>1, <3>1
  <2> QED
    BY <2>1
<1>3. BroadcastInterval * q >= BroadcastInterval * (p + 1)
  BY <1>2, IntervalAssumption
<1>4. BroadcastInterval * (p + 1) = BroadcastInterval * p + BroadcastInterval
  BY IntervalAssumption
<1> QED
  BY <1>1, <1>3, <1>4, IntervalAssumption

LEMMA BroadcastBefore ==
    ASSUME NEW x \in Nat, IsBroadcast(x), x > 0
    PROVE  /\ x - BroadcastInterval \in Nat
           /\ IsBroadcast(x - BroadcastInterval)
<1>1. PICK q \in Nat : x = BroadcastInterval * q
  BY Multiple
<1>2. q - 1 \in Nat
  BY <1>1, IntervalAssumption
<1>3. x - BroadcastInterval = BroadcastInterval * (q - 1)
  BY <1>1, IntervalAssumption
<1>4. (BroadcastInterval * (q - 1)) % BroadcastInterval = 0
  BY <1>2, IntervalAssumption
<1> QED
  BY <1>2, <1>3, <1>4, IntervalAssumption DEF IsBroadcast
-----------------------------------------------------------------------------
(* Where the lists come from.                                              *)

Lists == [ElectTypes -> SUBSET Nodes]
Blocks == [txs : Seq(Txs), list : Lists, of : Nat]
Infos == [to : Miners, NodeList : Lists, BlockNum : Nat]
Caches == [NodeList : Lists, BlockNum : Nat]

ChainType == chain \in Seq(Blocks) /\ Len(chain) > 0

\* The list made for a block number: the boot nodes, or what the leader made two
\* blocks before.
Made(list, of) ==
    /\ IsBroadcast(of)
    /\ of <= Height + 2
    /\ list = IF of = 0 THEN BootList ELSE GenerateMainNodeList(of - 2)

Sent(m) == m \in Infos /\ Made(m.NodeList, m.BlockNum + 2)

\* A list of a broadcast block, and one in a miner's hands.
BlockMade(b) == Block(b).of <= b /\ Made(Block(b).list, Block(b).of)

MinerMade(channel, memory) ==
    /\ channel = <<>> \/ \E m : channel = <<m>> /\ Sent(m)
    /\ memory \in Caches /\ Made(memory.NodeList, memory.BlockNum)

MadeInv ==
    /\ ChainType
    /\ \A m \in net : Sent(m)
    /\ DOMAIN broadcastInfoCh = Miners /\ DOMAIN cache = Miners
    /\ \A miner \in Miners : MinerMade(broadcastInfoCh[miner], cache[miner])
    /\ \A b \in BroadcastBlocks : BlockMade(b)

LEMMA BlockType ==
    ASSUME ChainType
    PROVE  /\ Height \in Nat
           /\ \A b \in 0 .. Height : /\ Block(b) \in Blocks /\ Block(b).of \in Nat
                                     /\ Block(b).list \in Lists /\ Block(b).txs \in Seq(Txs)
<1>1. Height \in Nat /\ \A b \in 0 .. Height : Block(b) \in Blocks
  BY DEF ChainType, Height, Block
<1> QED
  BY <1>1 DEF Blocks

LEMMA BootType == BootList \in Lists /\ EmptyList \in Lists
  BY BootAssumption DEF BootList, EmptyList, Lists

LEMMA GenerateType == \A number : GenerateMainNodeList(number) \in Lists
  BY DEF GenerateMainNodeList, Lists

\* A block is added: those before it, and what is made of them, stay as they are.
LEMMA Extended ==
    ASSUME ChainType, NEW x \in Blocks, chain' = Append(chain, x)
    PROVE  /\ ChainType' /\ Height' = Height + 1
           /\ \A b \in 0 .. Height : Block(b)' = Block(b)
           /\ Block(Height)' = x
<1>1. chain' \in Seq(Blocks) /\ Len(chain') = Len(chain) + 1
  BY DEF ChainType
<1>2. \A i \in 1 .. Len(chain) : chain'[i] = chain[i]
  BY DEF ChainType
<1>3. chain'[Len(chain) + 1] = x
  BY DEF ChainType
<1>4. ChainType' /\ Height' = Height + 1
  BY <1>1 DEF ChainType, Height
<1>5. \A b \in 0 .. Height : Block(b)' = Block(b)
  BY <1>2 DEF ChainType, Height, Block
<1>6. Block(Height)' = x
  <2>1. Block(Height)' = chain'[Len(chain) + 1]
    BY <1>1 DEF Block, Height, ChainType
  <2> QED
    BY <1>3, <2>1
<1> QED
  BY <1>4, <1>5, <1>6

\* A set of numbers in an interval has a least and a greatest element.
LEMMA LeastNat ==
    ASSUME NEW T, T \subseteq Nat, T # {}
    PROVE  \E x \in T : \A y \in T : x <= y
<1>1. PICK x \in T : \A y \in T : ~(<<y, x>> \in OpToRel(<, Nat))
  BY NatLessThanWellFounded, WFMin
<1>2. \A y \in T : ~(y < x)
  BY <1>1 DEF OpToRel
<1> QED
  BY <1>2

LEMMA GreatestNat ==
    ASSUME NEW T, T # {}, NEW n \in Nat, T \subseteq 0 .. n
    PROVE  \E x \in T : \A y \in T : y <= x
<1>1. PICK D : D = {n - y : y \in T}
  OBVIOUS
<1>2. D \subseteq Nat /\ D # {}
  <2>1. PICK y : y \in T
    OBVIOUS
  <2>2. n - y \in D /\ \A z \in T : n - z \in Nat
    BY <1>1, <2>1
  <2> QED
    BY <1>1, <2>2
<1>3. PICK d \in D : \A e \in D : d <= e
  BY <1>2, LeastNat
<1>4. PICK x \in T : d = n - x
  BY <1>1
<1>5. \A y \in T : n - y \in D
  BY <1>1
<1>6. \A y \in T : d <= n - y
  BY <1>3, <1>5
<1> QED
  BY <1>4, <1>6

\* The last election of a node in some blocks is in one of them.
LEMMA LatestExists ==
    ASSUME NEW node, NEW first \in Nat, NEW last \in Nat, ElectedIn(node, first, last) # {}
    PROVE  /\ LatestBlock(node, first, last) \in ElectedIn(node, first, last)
           /\ LatestBlock(node, first, last) \in first .. last
           /\ \A c \in ElectedIn(node, first, last) : c <= LatestBlock(node, first, last)
<1>1. PICK T : T = ElectedIn(node, first, last)
  OBVIOUS
<1>2. T \subseteq first .. last
  BY <1>1 DEF ElectedIn
<1>3. T \subseteq 0 .. last
  BY <1>2
<1>4. \E b \in T : \A c \in T : c <= b
  BY <1>1, <1>3, GreatestNat
<1>5. PICK m : m = CHOOSE b \in T : \A c \in T : c <= b
  OBVIOUS
<1>6. m \in T /\ \A c \in T : c <= m
  BY <1>4, <1>5
<1> QED
  BY <1>1, <1>2, <1>5, <1>6 DEF LatestBlock

LEMMA ElectionsStable ==
    ASSUME ChainType, NEW x \in Blocks, chain' = Append(chain, x),
           NEW first \in Nat, NEW last \in 0 .. Height, NEW node
    PROVE  /\ ElectedIn(node, first, last)' = ElectedIn(node, first, last)
           /\ ElectedIn(node, first, last) # {} =>
                 LatestElection(node, first, last)' = LatestElection(node, first, last)
<1>1. \A b \in first .. last : b \in 0 .. Height
  BY BlockType
<1>2. \A b \in first .. last : Block(b)' = Block(b)
  BY <1>1, Extended
<1>3. ElectedIn(node, first, last)' = ElectedIn(node, first, last)
  BY <1>2 DEF ElectedIn
<1>4. ASSUME ElectedIn(node, first, last) # {}
      PROVE  LatestElection(node, first, last)' = LatestElection(node, first, last)
  <2>1. LatestBlock(node, first, last)' = LatestBlock(node, first, last)
    BY <1>3 DEF LatestBlock
  <2>2. LatestBlock(node, first, last) \in first .. last
    BY <1>4, LatestExists, BlockType
  <2> QED
    BY <1>2, <2>1, <2>2 DEF LatestElection, LastTx
<1> QED
  BY <1>3, <1>4

LEMMA GenerateStable ==
    ASSUME ChainType, NEW x \in Blocks, chain' = Append(chain, x),
           NEW number \in 0 .. Height, IsBroadcast(number + 2)
    PROVE  GenerateMainNodeList(number)' = GenerateMainNodeList(number)
<1>1. number \in Nat /\ Height \in Nat
  BY BlockType
<1>2. PICK last : last = number + 2 - BroadcastInterval
  OBVIOUS
<1>3. last \in 0 .. Height
  BY <1>1, <1>2, BroadcastBefore, IntervalAssumption
<1>4. Block(last)' = Block(last)
  BY <1>3, Extended
<1>5. PICK first : first = StartPos(number)
  OBVIOUS
<1>6. first \in Nat /\ StartPos(number)' = first
  BY <1>1, <1>5, IntervalAssumption DEF StartPos
<1>7. \A n : ElectedIn(n, first, number)' = ElectedIn(n, first, number)
  BY <1>6, ElectionsStable
<1>8. \A n : ElectedIn(n, first, number) # {} =>
                LatestElection(n, first, number)' = LatestElection(n, first, number)
  BY <1>6, ElectionsStable
<1>9. GetElectionAndExitNodeInfo(first, number)' = GetElectionAndExitNodeInfo(first, number)
  BY <1>7, <1>8 DEF GetElectionAndExitNodeInfo
<1> QED
  BY <1>2, <1>4, <1>5, <1>6, <1>9 DEF GenerateMainNodeList, MergeNodeInfo, BootList

LEMMA MadeStable ==
    ASSUME ChainType, NEW x \in Blocks, chain' = Append(chain, x), NEW of \in Nat, NEW list,
           Made(list, of)
    PROVE  Made(list, of)'
<1>1. Height' = Height + 1 /\ Height \in Nat
  BY Extended, BlockType
<1>2. IsBroadcast(of)' = IsBroadcast(of) /\ BootList' = BootList
  BY DEF IsBroadcast, BootList
<1>3. CASE of = 0
  BY <1>1, <1>2, <1>3 DEF Made
<1>4. CASE of # 0
  <2>1. PICK number : number = of - 2
    OBVIOUS
  <2>2. of \in Nat /\ IsBroadcast(of) /\ of <= Height + 2 /\ of >= BroadcastInterval
    BY <1>4, BroadcastBefore, IntervalAssumption DEF Made
  <2>3. number \in 0 .. Height /\ number + 2 = of
    BY <1>1, <2>1, <2>2, IntervalAssumption
  <2>4. GenerateMainNodeList(number)' = GenerateMainNodeList(number)
    BY <2>2, <2>3, GenerateStable
  <2> QED
    BY <1>1, <1>2, <1>4, <2>1, <2>2, <2>4 DEF Made
<1> QED
  BY <1>3, <1>4

\* The boot lists count as made for block 0 (miner/cache.go, newBroadCastCache).
LEMMA BootMade ==
    ASSUME ChainType
    PROVE  BootCache \in Caches /\ Made(BootCache.NodeList, BootCache.BlockNum)
<1>1. BootCache \in Caches /\ BootCache.NodeList = BootList /\ BootCache.BlockNum = 0
  BY BootType DEF BootCache, Caches
<1>2. Height \in Nat
  BY BlockType
<1> QED
  BY <1>1, <1>2, IntervalAssumption DEF Made, IsBroadcast

\* A block is mined with the list of a miner's cache (miner/cache.go, writeCacheToHeader).
LEMMA MadeMine ==
    ASSUME MadeInv, NEW miner \in Miners, MineBlock(miner)
    PROVE  MadeInv'
<1>1. PICK txs \in Seq(Txs) :
         chain' = Append(chain, [txs |-> txs, list |-> HeaderList(miner, Height + 1).list,
                                 of |-> HeaderList(miner, Height + 1).of])
  <2>1. PICK count \in Counts : \E txs \in [1 .. count -> Txs] :
           chain' = Append(chain, [txs |-> txs, list |-> HeaderList(miner, Height + 1).list,
                                   of |-> HeaderList(miner, Height + 1).of])
    BY DEF MineBlock
  <2>2. count \in Nat
    BY DEF Counts
  <2>3. \A txs \in [1 .. count -> Txs] : txs \in Seq(Txs)
    BY <2>2
  <2> QED
    BY <2>1, <2>3
<1>2. PICK h, l, o, memory : /\ h = Height + 1 /\ l = HeaderList(miner, h).list
                             /\ o = HeaderList(miner, h).of /\ memory = cache[miner]
  OBVIOUS
<1>3. /\ ChainType /\ Made(memory.NodeList, memory.BlockNum) /\ memory.BlockNum \in Nat
      /\ memory.NodeList \in Lists
  <2>1. MinerMade(broadcastInfoCh[miner], memory)
    BY <1>2 DEF MadeInv
  <2> QED
    BY <2>1 DEF MadeInv, MinerMade, Caches
<1>4. h \in Nat \ {0} /\ h = Height + 1
  BY <1>2, <1>3, BlockType
<1>5. IF IsBroadcast(h) THEN l = memory.NodeList /\ o = memory.BlockNum ELSE l = EmptyList /\ o = h
  BY <1>2 DEF HeaderList
<1>7. PICK x : x = [txs |-> txs, list |-> l, of |-> o]
  OBVIOUS
<1>8. x \in Blocks /\ x.list = l /\ x.of = o
  BY <1>3, <1>4, <1>5, <1>7, BootType DEF Blocks
<1>9. chain' = Append(chain, x)
  BY <1>1, <1>2, <1>7
<1>10. /\ ChainType' /\ Height' = h
       /\ \A b \in 0 .. Height : Block(b)' = Block(b)
       /\ Block(h)' = x
  <2>1. Block(Height)' = x /\ Height' = h
    BY <1>3, <1>4, <1>8, <1>9, Extended
  <2>2. Block(h)' = Block(Height)'
    BY <2>1 DEF Block
  <2> QED
    BY <1>3, <1>4, <1>8, <1>9, <2>1, <2>2, Extended
<1>11. UNCHANGED <<net, broadcastInfoCh, cache>>
  BY DEF MineBlock
<1>12. \A list, of : of \in Nat /\ Made(list, of) => Made(list, of)'
  BY <1>3, <1>8, <1>9, MadeStable
<1>13. \A m : Sent(m) => Sent(m)'
  BY <1>12 DEF Sent, Infos
<1>14. IsBroadcast(h) => memory.BlockNum <= h
  <2>1. memory.BlockNum <= h + 1 /\ IsBroadcast(memory.BlockNum)
    <3>1. memory.BlockNum <= Height + 2 /\ IsBroadcast(memory.BlockNum)
      BY <1>3 DEF Made
    <3>2. Height \in Nat
      BY <1>3, BlockType
    <3> QED
      BY <1>4, <3>1, <3>2
  <2> QED
    BY <1>3, <1>4, <2>1, Apart, IntervalAssumption
<1>15. \A b \in BroadcastBlocks' : b = h \/ (b \in BroadcastBlocks /\ b < h /\ Block(b)' = Block(b))
  <2>1. Height \in Nat
    BY <1>3, BlockType
  <2>2. \A b : b \in BroadcastBlocks' <=> b \in 1 .. h /\ IsBroadcast(b)
    BY <1>10 DEF BroadcastBlocks, IsBroadcast
  <2>3. \A b : b \in BroadcastBlocks <=> b \in 1 .. Height /\ IsBroadcast(b)
    BY DEF BroadcastBlocks
  <2> QED
    BY <1>4, <1>10, <2>1, <2>2, <2>3
<1>16. h \in BroadcastBlocks' => Block(h)'.of = memory.BlockNum /\ Block(h)'.list = memory.NodeList
                                 /\ memory.BlockNum <= h
  BY <1>5, <1>8, <1>10, <1>14 DEF BroadcastBlocks, IsBroadcast
<1>17. ASSUME NEW b \in BroadcastBlocks'
       PROVE  BlockMade(b)'
  <2>1. CASE b = h
    <3>1. Made(memory.NodeList, memory.BlockNum)'
      <4>1. PICK of, list : of = memory.BlockNum /\ list = memory.NodeList
        OBVIOUS
      <4>2. Made(list, of)'
        BY <1>3, <1>12, <4>1
      <4> QED
        BY <1>16, <1>17, <2>1, <4>1, <4>2 DEF Made, IsBroadcast
    <3> QED
      BY <1>16, <1>17, <2>1, <3>1 DEF BlockMade, Made, IsBroadcast
  <2>2. CASE b \in BroadcastBlocks /\ Block(b)' = Block(b)
    <3>1. Block(b).of \in Nat
      BY <1>3, <2>2, BlockType DEF BroadcastBlocks
    <3>2. PICK of, list : of = Block(b).of /\ list = Block(b).list
      OBVIOUS
    <3>3. Made(list, of)' /\ of <= b
      BY <1>12, <2>2, <3>1, <3>2 DEF MadeInv, BlockMade
    <3>4. of = Block(b)'.of /\ list = Block(b)'.list
      BY <2>2, <3>2
    <3> QED
      BY <3>3, <3>4 DEF BlockMade
  <2> QED
    BY <1>15, <1>17, <2>1, <2>2
<1>18. \A m \in net' : Sent(m)'
  BY <1>11, <1>13 DEF MadeInv
<1>19. ASSUME NEW any \in Miners
       PROVE  MinerMade(broadcastInfoCh[any], cache[any])'
  <2>1. PICK channel, mem : channel = broadcastInfoCh[any] /\ mem = cache[any]
    OBVIOUS
  <2>2. MinerMade(channel, mem)
    BY <2>1 DEF MadeInv
  <2>3. PICK of, list : of = mem.BlockNum /\ list = mem.NodeList
    OBVIOUS
  <2>4. Made(list, of)'
    BY <1>12, <2>2, <2>3 DEF MinerMade, Caches
  <2>5. channel = <<>> \/ \E m : channel = <<m>> /\ Sent(m)'
    BY <1>13, <2>2 DEF MinerMade
  <2>6. MinerMade(channel, mem)'
    BY <2>2, <2>3, <2>4, <2>5 DEF MinerMade, Caches
  <2> QED
    BY <1>11, <2>1, <2>6
<1> QED
  BY <1>10, <1>11, <1>17, <1>18, <1>19 DEF MadeInv

\* The chain stays as it is: so does what is made of it.
LEMMA MadeKept ==
    ASSUME MadeInv, UNCHANGED chain,
           \A m \in net' : m \in net \/ Sent(m),
           DOMAIN broadcastInfoCh' = Miners, DOMAIN cache' = Miners,
           \A miner \in Miners : MinerMade(broadcastInfoCh'[miner], cache'[miner])
    PROVE  MadeInv'
<1>1. ChainType' /\ Height' = Height /\ \A b : Block(b)' = Block(b)
  BY DEF ChainType, Height, Block, MadeInv
<1>2. BroadcastBlocks' = BroadcastBlocks
  BY <1>1 DEF BroadcastBlocks, IsBroadcast
<1>3. \A number : GenerateMainNodeList(number)' = GenerateMainNodeList(number)
  <2>1. \A n, f, l : ElectedIn(n, f, l)' = ElectedIn(n, f, l)
    BY <1>1 DEF ElectedIn
  <2>2. \A n, f, l : LatestElection(n, f, l)' = LatestElection(n, f, l)
    <3>1. \A n, f, l : LatestBlock(n, f, l)' = LatestBlock(n, f, l)
      BY <2>1 DEF LatestBlock
    <3> QED
      BY <3>1 DEF LatestElection, Block
  <2>3. \A f, l : GetElectionAndExitNodeInfo(f, l)' = GetElectionAndExitNodeInfo(f, l)
    BY <2>1, <2>2 DEF GetElectionAndExitNodeInfo
  <2> QED
    BY <1>1, <2>3 DEF GenerateMainNodeList, StartPos, BootList, MergeNodeInfo
<1>4. \A list, of : Made(list, of)' = Made(list, of)
  BY <1>1, <1>3 DEF Made, IsBroadcast, BootList
<1>5. \A m : Sent(m) => Sent(m)'
  BY <1>4 DEF Sent
<1>6. \A m \in net' : Sent(m)'
  BY <1>5 DEF MadeInv
<1>7. ASSUME NEW miner \in Miners
      PROVE  MinerMade(broadcastInfoCh[miner], cache[miner])'
  <2>1. PICK channel, memory : channel = broadcastInfoCh'[miner] /\ memory = cache'[miner]
    OBVIOUS
  <2>2. MinerMade(channel, memory)
    BY <2>1
  <2>3. MinerMade(channel, memory)'
    BY <1>4, <1>5, <2>2 DEF MinerMade
  <2> QED
    BY <2>1, <2>3
<1>8. \A b \in BroadcastBlocks' : BlockMade(b)'
  <2> TAKE b \in BroadcastBlocks'
  <2>1. PICK of, list : of = Block(b).of /\ list = Block(b).list
    OBVIOUS
  <2>2. Made(list, of) /\ of <= b
    BY <1>2, <2>1 DEF MadeInv, BlockMade
  <2>3. Made(list, of)' /\ of = Block(b)'.of /\ list = Block(b)'.list
    BY <1>1, <1>4, <2>1, <2>2
  <2> QED
    BY <2>2, <2>3 DEF BlockMade
<1> QED
  BY <1>1, <1>6, <1>7, <1>8 DEF MadeInv

LEMMA MadeStep == MadeInv /\ [Next]_vars => MadeInv'
<1> SUFFICES ASSUME MadeInv, [Next]_vars
             PROVE  MadeInv'
  OBVIOUS
<1> USE DEF MadeInv
<1>1. ASSUME NEW number \in 0 .. Height, ReadySendNodelist(number)
      PROVE  MadeInv'
  <2>1. number \in Nat /\ Height \in Nat /\ number <= Height
    BY BlockType
  <2>2. number + 2 # 0 /\ number + 2 - 2 = number /\ number + 2 <= Height + 2
    BY <2>1
  <2>3. \A m \in net' : m \in net \/ Sent(m)
    <3> SUFFICES ASSUME NEW miner \in Miners, NEW m,
                        m = [to |-> miner, NodeList |-> GenerateMainNodeList(number),
                             BlockNum |-> number]
                 PROVE  Sent(m)
      BY <1>1 DEF ReadySendNodelist
    <3>1. m.NodeList = GenerateMainNodeList(number) /\ m.BlockNum = number /\ m \in Infos
      BY <2>1, GenerateType DEF Infos
    <3> QED
      BY <1>1, <2>2, <3>1 DEF Sent, Made, ReadySendNodelist
  <2>4. UNCHANGED <<chain, broadcastInfoCh, cache>>
    BY <1>1 DEF ReadySendNodelist
  <2> QED
    BY <2>3, <2>4, MadeKept
<1>2. ASSUME NEW m \in net, AddUDPMsg(m)
      PROVE  MadeInv'
  <2>1. UNCHANGED <<chain, cache>> /\ net' \subseteq net
    BY <1>2 DEF AddUDPMsg
  <2>2. /\ DOMAIN broadcastInfoCh' = Miners
        /\ \A miner \in Miners : broadcastInfoCh'[miner] \in {broadcastInfoCh[miner], <<m>>}
    BY <1>2 DEF AddUDPMsg
  <2>3. Sent(m)
    OBVIOUS
  <2>4. \A miner \in Miners : MinerMade(broadcastInfoCh'[miner], cache'[miner])
    BY <2>1, <2>2, <2>3 DEF MinerMade
  <2> QED
    BY <2>1, <2>2, <2>4, MadeKept
<1>3. ASSUME NEW m \in net, Lose(m)
      PROVE  MadeInv'
  BY <1>3, MadeKept DEF Lose
<1>4. ASSUME NEW miner \in Miners, Update(miner)
      PROVE  MadeInv'
  <2>1. PICK channel : channel = broadcastInfoCh[miner]
    OBVIOUS
  <2>2. PICK info : channel = <<info>> /\ Sent(info) /\ info = Head(broadcastInfoCh[miner])
    <3>1. channel # <<>> /\ MinerMade(channel, cache[miner])
      BY <1>4, <2>1 DEF Update
    <3>2. PICK info : channel = <<info>> /\ Sent(info)
      BY <3>1 DEF MinerMade
    <3>3. info = Head(channel)
      BY <3>2
    <3> QED
      BY <2>1, <3>2, <3>3
  <2>3. /\ UNCHANGED <<chain, net>>
        /\ broadcastInfoCh' = [broadcastInfoCh EXCEPT ![miner] = <<>>]
        /\ \/ UNCHANGED cache
           \/ cache' = [cache EXCEPT ![miner] = [NodeList |-> info.NodeList,
                                                 BlockNum |-> info.BlockNum + 2]]
    BY <1>4, <2>2 DEF Update
  <2>4. PICK new : new = [NodeList |-> info.NodeList, BlockNum |-> info.BlockNum + 2]
    OBVIOUS
  <2>5. new \in Caches /\ Made(new.NodeList, new.BlockNum)
    BY <2>2, <2>4 DEF Sent, Infos, Caches
  <2>6. DOMAIN broadcastInfoCh' = Miners /\ DOMAIN cache' = Miners
    BY <2>3
  <2>7. \A any \in Miners : /\ broadcastInfoCh'[any] \in {broadcastInfoCh[any], <<>>}
                            /\ cache'[any] \in {cache[any], new}
    BY <2>3, <2>4
  <2>8. \A any \in Miners : MinerMade(broadcastInfoCh'[any], cache'[any])
    BY <2>5, <2>7 DEF MinerMade
  <2> QED
    BY <2>3, <2>6, <2>8, MadeKept
<1>5. ASSUME NEW miner \in Miners, Restart(miner)
      PROVE  MadeInv'
  <2>1. BootCache \in Caches /\ Made(BootCache.NodeList, BootCache.BlockNum)
    BY BootMade
  <2>2. /\ UNCHANGED <<chain, net>> /\ DOMAIN broadcastInfoCh' = Miners /\ DOMAIN cache' = Miners
        /\ \A any \in Miners : /\ broadcastInfoCh'[any] \in {broadcastInfoCh[any], <<>>}
                               /\ cache'[any] \in {cache[any], BootCache}
    BY <1>5 DEF Restart
  <2>3. \A any \in Miners : MinerMade(broadcastInfoCh'[any], cache'[any])
    BY <2>1, <2>2 DEF MinerMade
  <2> QED
    BY <2>2, <2>3, MadeKept
<1>6. CASE UNCHANGED vars
  BY <1>6, MadeKept DEF vars
<1> QED
  BY <1>1, <1>2, <1>3, <1>4, <1>5, <1>6, MadeMine DEF Next

LEMMA MadeInit == Init => MadeInv
<1> SUFFICES ASSUME Init
             PROVE  MadeInv
  OBVIOUS
<1>1. PICK e : e = [txs |-> <<>>, list |-> EmptyList, of |-> 0]
  OBVIOUS
<1>2. chain = <<e>> /\ e \in Blocks
  BY <1>1, BootType DEF Init, Blocks
<1>3. ChainType /\ Height = 0
  BY <1>2 DEF ChainType, Height
<1>4. BroadcastBlocks = {}
  BY <1>3 DEF BroadcastBlocks
<1>5. BootCache \in Caches /\ Made(BootCache.NodeList, BootCache.BlockNum)
  BY <1>3, BootMade
<1>6. /\ DOMAIN broadcastInfoCh = Miners /\ DOMAIN cache = Miners
      /\ \A miner \in Miners : MinerMade(broadcastInfoCh[miner], cache[miner])
  BY <1>5 DEF MinerMade, Init
<1> QED
  BY <1>3, <1>4, <1>6 DEF MadeInv, Init

-----------------------------------------------------------------------------
(* MembersElectedThemselves.                                               *)

\* The last transaction of a node in a list of them is one of them.
LEMMA LastTxExists ==
    ASSUME NEW txs \in Seq(Txs), NEW node, \E i \in DOMAIN txs : txs[i].ID = node
    PROVE  \E i \in DOMAIN txs : txs[i].ID = node /\ LastTx(txs, node) = txs[i]
<1>1. PICK T : T = {i \in DOMAIN txs : txs[i].ID = node}
  OBVIOUS
<1>2. T # {} /\ Len(txs) \in Nat /\ T \subseteq 0 .. Len(txs)
  BY <1>1
<1>3. \E i \in T : \A j \in T : j <= i
  BY <1>2, GreatestNat
<1>4. \E i \in DOMAIN txs : txs[i].ID = node /\ \A j \in DOMAIN txs : txs[j].ID = node => j <= i
  BY <1>1, <1>3
<1>5. PICK k : k = CHOOSE i \in DOMAIN txs : /\ txs[i].ID = node
                                            /\ \A j \in DOMAIN txs : txs[j].ID = node => j <= i
  OBVIOUS
<1>6. k \in DOMAIN txs /\ txs[k].ID = node
  BY <1>4, <1>5
<1> QED
  BY <1>5, <1>6 DEF LastTx

\* The last election of a node is in a transaction of its own.
LEMMA LatestAsked ==
    ASSUME ChainType, NEW node, NEW first \in Nat, NEW last \in 0 .. Height,
           ElectedIn(node, first, last) # {}
    PROVE  \E c \in first .. last : Asks(node, LatestElection(node, first, last), c)
<1>1. last \in Nat
  BY BlockType
<1>2. PICK b : b = LatestBlock(node, first, last)
  OBVIOUS
<1>3. b \in ElectedIn(node, first, last) /\ b \in first .. last
  BY <1>1, <1>2, LatestExists
<1>4. b \in 0 .. Height
  BY <1>3, BlockType
<1>5. Block(b).txs \in Seq(Txs)
  BY <1>4, BlockType
<1>6. \E i \in DOMAIN Block(b).txs : Block(b).txs[i].ID = node
  BY <1>3 DEF ElectedIn
<1>7. PICK i \in DOMAIN Block(b).txs :
         Block(b).txs[i].ID = node /\ LastTx(Block(b).txs, node) = Block(b).txs[i]
  BY <1>5, <1>6, LastTxExists
<1>8. Asks(node, LatestElection(node, first, last), b)
  BY <1>2, <1>7 DEF Asks, LatestElection
<1> QED
  BY <1>3, <1>8

Asked(list, upto) ==
    \A t \in ElectTypes : \A n \in list[t] : n \in BootList[t] \/ \E c \in 0 .. upto : Asks(n, t, c)

\* What the leader makes of a window and the list before it.
LEMMA Generated ==
    ASSUME ChainType, NEW number \in 0 .. Height, IsBroadcast(number + 2)
    PROVE  LET last == number + 2 - BroadcastInterval
               list == IF last = 0 THEN BootList ELSE Block(last).list
               first == StartPos(number)
           IN  /\ last \in 0 .. Height /\ IsBroadcast(last) /\ first \in Nat /\ number \in Nat
               /\ first = IF number > BroadcastInterval + 1 THEN last - 3 ELSE 0
               /\ last < number + 2
               /\ list \in Lists
               /\ \A n, t : t \in ElectTypes =>
                     (n \in GenerateMainNodeList(number)[t] <=>
                        n \in Nodes /\ IF ElectedIn(n, first, number) # {}
                                       THEN LatestElection(n, first, number) = t
                                       ELSE /\ n \in list[t] /\ t # ElectExit
                                            /\ t = ElectCommittee => n \notin list[ElectMiner]
                                            /\ t = ElectBoth => n \notin list[ElectMiner] \cup list[ElectCommittee])
<1>1. number \in Nat /\ Height \in Nat
  BY BlockType
<1>2. PICK last, first : last = number + 2 - BroadcastInterval /\ first = StartPos(number)
  OBVIOUS
<1>3. last \in 0 .. Height /\ IsBroadcast(last) /\ last < number + 2
  BY <1>1, <1>2, BroadcastBefore, IntervalAssumption
<1>4. first \in Nat /\ first = IF number > BroadcastInterval + 1 THEN last - 3 ELSE 0
  BY <1>1, <1>2, IntervalAssumption DEF StartPos
<1>5. PICK list : list = IF last = 0 THEN BootList ELSE Block(last).list
  OBVIOUS
<1>6. list \in Lists
  BY <1>3, <1>5, BlockType, BootType
<1>7. PICK map : map = GetElectionAndExitNodeInfo(first, number)
  OBVIOUS
<1>8. /\ \A n \in Nodes : n \in DOMAIN map <=> ElectedIn(n, first, number) # {}
      /\ \A n \in Nodes : n \in DOMAIN map => map[n] = LatestElection(n, first, number)
  BY <1>7 DEF GetElectionAndExitNodeInfo
<1>9. GenerateMainNodeList(number) = [t \in ElectTypes |-> {n \in Nodes : MergeNodeInfo(map, list, n) = t}]
  BY <1>2, <1>5, <1>7 DEF GenerateMainNodeList
<1>10. \A n \in Nodes, t \in ElectTypes : n \notin DOMAIN map =>
          (MergeNodeInfo(map, list, n) = t <=>
              /\ n \in list[t] /\ t # ElectExit
              /\ t = ElectCommittee => n \notin list[ElectMiner]
              /\ t = ElectBoth => n \notin list[ElectMiner] \cup list[ElectCommittee])
  BY DEF MergeNodeInfo, ElectTypes, ElectExit, ElectMiner, ElectCommittee, ElectBoth
<1>11. \A n \in Nodes : n \in DOMAIN map => MergeNodeInfo(map, list, n) = LatestElection(n, first, number)
  BY <1>8 DEF MergeNodeInfo
<1>12. \A n, t : t \in ElectTypes =>
          (n \in GenerateMainNodeList(number)[t] <=> n \in Nodes /\ MergeNodeInfo(map, list, n) = t)
  BY <1>9
<1>13. \A n, t : t \in ElectTypes =>
          (n \in GenerateMainNodeList(number)[t] <=>
              n \in Nodes /\ IF ElectedIn(n, first, number) # {}
                             THEN LatestElection(n, first, number) = t
                             ELSE /\ n \in list[t] /\ t # ElectExit
                                  /\ t = ElectCommittee => n \notin list[ElectMiner]
                                  /\ t = ElectBoth => n \notin list[ElectMiner] \cup list[ElectCommittee])
  BY <1>8, <1>10, <1>11, <1>12
<1> QED
  BY <1>1, <1>2, <1>3, <1>4, <1>5, <1>6, <1>13
LEMMA GeneratedAsked ==
    ASSUME ChainType, NEW number \in 0 .. Height, IsBroadcast(number + 2),
           NEW last, last = number + 2 - BroadcastInterval,
           last # 0 => Asked(Block(last).list, last - 2)
    PROVE  Asked(GenerateMainNodeList(number), number)
<1>1. PICK list, first : /\ list = IF last = 0 THEN BootList ELSE Block(last).list
                         /\ first = StartPos(number)
  OBVIOUS
<1>2. /\ last \in 0 .. Height /\ first \in Nat /\ number \in Nat /\ last < number + 2
      /\ \A n, t : t \in ElectTypes =>
            (n \in GenerateMainNodeList(number)[t] <=>
               n \in Nodes /\ IF ElectedIn(n, first, number) # {}
                              THEN LatestElection(n, first, number) = t
                              ELSE /\ n \in list[t] /\ t # ElectExit
                                   /\ t = ElectCommittee => n \notin list[ElectMiner]
                                   /\ t = ElectBoth => n \notin list[ElectMiner] \cup list[ElectCommittee])
  BY <1>1, Generated
<1> SUFFICES ASSUME NEW t \in ElectTypes, NEW n \in GenerateMainNodeList(number)[t]
             PROVE  n \in BootList[t] \/ \E c \in 0 .. number : Asks(n, t, c)
  BY DEF Asked
<1>3. CASE ElectedIn(n, first, number) # {}
  <2>1. LatestElection(n, first, number) = t
    BY <1>2, <1>3
  <2>2. PICK c \in first .. number : Asks(n, t, c)
    BY <1>2, <1>3, <2>1, LatestAsked
  <2>3. c \in 0 .. number
    BY <1>2
  <2> QED
    BY <2>2, <2>3
<1>4. CASE ElectedIn(n, first, number) = {}
  <2>1. n \in list[t]
    BY <1>2, <1>4
  <2>2. CASE last = 0
    BY <1>1, <2>1, <2>2
  <2>3. CASE last # 0
    <3>1. n \in BootList[t] \/ \E c \in 0 .. last - 2 : Asks(n, t, c)
      BY <1>1, <2>1, <2>3 DEF Asked
    <3>2. \A c \in 0 .. last - 2 : c \in 0 .. number
      BY <1>2
    <3> QED
      BY <3>1, <3>2
  <2> QED
    BY <2>2, <2>3
<1> QED
  BY <1>3, <1>4

\* A list made for a broadcast block rests on that of an earlier one.
LEMMA MadeFor ==
    ASSUME MadeInv, NEW b \in BroadcastBlocks, Block(b).of # 0
    PROVE  LET number == Block(b).of - 2
               last == Block(b).of - BroadcastInterval
           IN  /\ number \in 0 .. Height /\ IsBroadcast(number + 2) /\ number <= b - 2
               /\ last = number + 2 - BroadcastInterval
               /\ last = 0 \/ (last \in BroadcastBlocks /\ last < b)
               /\ Block(b).list = GenerateMainNodeList(number)
<1>1. PICK of : of = Block(b).of
  OBVIOUS
<1>2. b \in 1 .. Height /\ Height \in Nat /\ of \in Nat
  BY <1>1, BlockType DEF BroadcastBlocks, MadeInv
<1>3. of <= b /\ IsBroadcast(of) /\ Block(b).list = GenerateMainNodeList(of - 2)
  BY <1>1 DEF MadeInv, Made, BlockMade
<1>4. of - BroadcastInterval \in Nat /\ IsBroadcast(of - BroadcastInterval)
  BY <1>1, <1>2, <1>3, BroadcastBefore
<1>5. of - 2 \in 0 .. Height /\ of - 2 + 2 = of /\ of - 2 <= b - 2 /\ of - BroadcastInterval < b
      /\ of - BroadcastInterval = of - 2 + 2 - BroadcastInterval
  BY <1>2, <1>3, <1>4, IntervalAssumption
<1>6. of - BroadcastInterval = 0 \/ of - BroadcastInterval \in BroadcastBlocks
  BY <1>2, <1>3, <1>4, <1>5 DEF BroadcastBlocks
<1> QED
  BY <1>1, <1>3, <1>5, <1>6

\* Whatever is lost, doubled or late, each member of a broadcast block's list is a
\* boot node in its boot role or has elected itself into that role in an earlier
\* block (verify/interface.go, GenerateMainNodeList and mergeNodeInfo).
THEOREM MembersAsked == Spec => []MembersElectedThemselves
<1>1. ASSUME MadeInv
      PROVE  MembersElectedThemselves
  <2>1. \A b \in BroadcastBlocks : Asked(Block(b).list, b - 2)
    <3>1. PICK T : T = {b \in BroadcastBlocks : ~Asked(Block(b).list, b - 2)}
      OBVIOUS
    <3>2. CASE T = {}
      BY <3>1, <3>2
    <3>3. CASE T # {}
      <4>1. T \subseteq Nat
        BY <3>1, <1>1, BlockType DEF BroadcastBlocks, MadeInv
      <4>2. PICK b \in T : \A c \in T : b <= c
        BY <3>3, <4>1, LeastNat
      <4>3. b \in BroadcastBlocks /\ b \in Nat /\ ~Asked(Block(b).list, b - 2)
        BY <3>1, <4>1, <4>2
      <4>4. CASE Block(b).of = 0
        <5>1. Block(b).list = BootList
          BY <1>1, <4>3, <4>4 DEF MadeInv, Made, BlockMade
        <5> QED
          BY <4>3, <5>1 DEF Asked
      <4>5. CASE Block(b).of # 0
        <5>1. PICK number, last :
                 /\ number \in 0 .. Height /\ IsBroadcast(number + 2) /\ number <= b - 2
                 /\ last = number + 2 - BroadcastInterval
                 /\ last = 0 \/ (last \in BroadcastBlocks /\ last < b)
                 /\ Block(b).list = GenerateMainNodeList(number)
          BY <1>1, <4>3, <4>5, MadeFor
        <5>2. last # 0 => Asked(Block(last).list, last - 2)
          <6> SUFFICES ASSUME last # 0
                       PROVE  last \notin T
            BY <3>1, <5>1
          <6>1. last \in Nat
            BY <5>1, <1>1, BlockType DEF BroadcastBlocks, MadeInv
          <6> QED
            BY <4>2, <4>3, <5>1, <6>1
        <5>3. Asked(GenerateMainNodeList(number), number)
          BY <1>1, <5>1, <5>2, GeneratedAsked DEF MadeInv
        <5>4. \A c \in 0 .. number : c \in 0 .. b - 2
          BY <4>3, <5>1, <1>1, BlockType DEF MadeInv
        <5>5. Asked(GenerateMainNodeList(number), b - 2)
          BY <5>3, <5>4 DEF Asked
        <5> QED
          BY <4>3, <5>1, <5>5
      <4> QED
        BY <4>4, <4>5
    <3> QED
      BY <3>2, <3>3
  <2> QED
    BY <2>1 DEF MembersElectedThemselves, Asked
<1> QED
  BY <1>1, MadeInit, MadeStep, PTL DEF Spec
-----------------------------------------------------------------------------
(* ListsFollowChain.                                                       *)

\* The list gives the roles after a block.
Right(list, upto) ==
    \A n \in Nodes, t \in ElectTypes \ {ElectExit} : n \in list[t] <=> RoleAfter(n, upto) = t

\* A window that ends at a block and holds an election has the last one in it.
LEMMA Window ==
    ASSUME NEW node, NEW first \in Nat, NEW last \in Nat, ElectedIn(node, first, last) # {}
    PROVE  /\ ElectedIn(node, 0, last) # {}
           /\ LatestElection(node, 0, last) = LatestElection(node, first, last)
<1>1. ElectedIn(node, first, last) \subseteq ElectedIn(node, 0, last)
  BY DEF ElectedIn
<1>2. ElectedIn(node, 0, last) # {}
  BY <1>1
<1>3. PICK a, b : a = LatestBlock(node, 0, last) /\ b = LatestBlock(node, first, last)
  OBVIOUS
<1>4. /\ b \in ElectedIn(node, first, last) /\ b \in first .. last
      /\ \A c \in ElectedIn(node, first, last) : c <= b
  BY <1>3, LatestExists
<1>5. /\ a \in ElectedIn(node, 0, last) /\ a \in 0 .. last
      /\ \A c \in ElectedIn(node, 0, last) : c <= a
  BY <1>2, <1>3, LatestExists
<1>6. b <= a
  BY <1>1, <1>4, <1>5
<1>7. a \in ElectedIn(node, first, last)
  BY <1>4, <1>5, <1>6 DEF ElectedIn
<1>8. a = b
  BY <1>4, <1>5, <1>6, <1>7
<1> QED
  BY <1>2, <1>3, <1>8 DEF LatestElection

\* A window without an election changes no role.
LEMMA NoElection ==
    ASSUME NEW node, NEW first \in Nat, NEW mid \in Nat, NEW last \in Nat,
           first <= mid + 1, mid <= last, ElectedIn(node, first, last) = {}
    PROVE  RoleAfter(node, last) = RoleAfter(node, mid)
<1>1. ElectedIn(node, 0, last) = ElectedIn(node, 0, mid)
  <2>1. \A b \in ElectedIn(node, 0, last) : b \in 0 .. mid
    BY DEF ElectedIn
  <2>2. \A b \in 0 .. mid : b \in 0 .. last
    OBVIOUS
  <2> QED
    BY <2>1, <2>2 DEF ElectedIn
<1>2. LatestElection(node, 0, last) = LatestElection(node, 0, mid)
  BY <1>1 DEF LatestElection, LatestBlock
<1> QED
  BY <1>1, <1>2 DEF RoleAfter

LEMMA GeneratedRight ==
    ASSUME ChainType, NEW number \in 0 .. Height, IsBroadcast(number + 2),
           NEW last, last = number + 2 - BroadcastInterval,
           last # 0 => Right(Block(last).list, last - 2)
    PROVE  Right(GenerateMainNodeList(number), number)
<1>1. PICK list, first : /\ list = IF last = 0 THEN BootList ELSE Block(last).list
                         /\ first = StartPos(number)
  OBVIOUS
<1>2. /\ last \in 0 .. Height /\ first \in Nat /\ number \in Nat /\ last < number + 2
      /\ IsBroadcast(last)
      /\ first = IF number > BroadcastInterval + 1 THEN last - 3 ELSE 0
      /\ \A n, t : t \in ElectTypes =>
            (n \in GenerateMainNodeList(number)[t] <=>
               n \in Nodes /\ IF ElectedIn(n, first, number) # {}
                              THEN LatestElection(n, first, number) = t
                              ELSE /\ n \in list[t] /\ t # ElectExit
                                   /\ t = ElectCommittee => n \notin list[ElectMiner]
                                   /\ t = ElectBoth => n \notin list[ElectMiner] \cup list[ElectCommittee])
  BY <1>1, Generated
<1> SUFFICES ASSUME NEW n \in Nodes, NEW t \in ElectTypes \ {ElectExit}
             PROVE  n \in GenerateMainNodeList(number)[t] <=> RoleAfter(n, number) = t
  BY DEF Right
<1>3. CASE ElectedIn(n, first, number) # {}
  <2>1. RoleAfter(n, number) = LatestElection(n, first, number)
    BY <1>2, <1>3, Window DEF RoleAfter
  <2> QED
    BY <1>2, <1>3, <2>1
<1>4. CASE ElectedIn(n, first, number) = {}
  <2>1. n \in GenerateMainNodeList(number)[t] <=>
           /\ n \in list[t]
           /\ t = ElectCommittee => n \notin list[ElectMiner]
           /\ t = ElectBoth => n \notin list[ElectMiner] \cup list[ElectCommittee]
    BY <1>2, <1>4
  <2>2. \A x \in ElectTypes \ {ElectExit} : n \in list[x] <=> RoleAfter(n, number) = x
    <3>1. CASE last = 0
      <4>1. first = 0
        BY <1>2, <3>1, IntervalAssumption
      <4>2. RoleAfter(n, number) = IF n \in BootMiners THEN ElectMiner
                                   ELSE IF n \in BootCommittee THEN ElectCommittee ELSE "none"
        BY <1>4, <4>1 DEF RoleAfter
      <4>3. \A x \in ElectTypes \ {ElectExit} :
               n \in list[x] <=> (x = ElectMiner /\ n \in BootMiners)
                                 \/ (x = ElectCommittee /\ n \in BootCommittee)
        BY <1>1, <3>1 DEF BootList, ElectTypes, ElectExit, ElectMiner, ElectCommittee, ElectBoth
      <4>4. ~(n \in BootMiners /\ n \in BootCommittee)
        BY BootAssumption
      <4> QED
        BY <4>2, <4>3, <4>4 DEF ElectTypes, ElectExit, ElectMiner, ElectCommittee, ElectBoth
    <3>2. CASE last # 0
      <4>1. last - 2 \in Nat
        <5>1. last >= BroadcastInterval
          BY <1>2, <3>2, BroadcastBefore, IntervalAssumption
        <5> QED
          BY <1>2, <5>1, IntervalAssumption
      <4>2. first <= last - 2 + 1 /\ last - 2 <= number
        BY <1>2, <4>1, IntervalAssumption
      <4>3. RoleAfter(n, number) = RoleAfter(n, last - 2)
        BY <1>2, <1>4, <4>1, <4>2, NoElection
      <4> QED
        BY <1>1, <3>2, <4>3 DEF Right
    <3> QED
      BY <3>1, <3>2
  <2>3. {ElectMiner, ElectCommittee} \subseteq ElectTypes \ {ElectExit} /\ ElectMiner # ElectCommittee
        /\ ElectBoth \notin {ElectMiner, ElectCommittee}
    BY DEF ElectTypes, ElectExit, ElectMiner, ElectCommittee, ElectBoth
  <2> QED
    BY <2>1, <2>2, <2>3
<1> QED
  BY <1>3, <1>4

\* As long as every broadcast block carries the list made for it, merging one window
\* of blocks at a time gives what a replay of the whole chain gives: the windows
\* overlap and leave no block out, whatever the interval (verify/interface.go,
\* GenerateMainNodeList and GetElectionAndExitNodeInfo).
THEOREM ListsAreRight == Spec => []ListsFollowChain
<1>1. ASSUME MadeInv
      PROVE  ListsFollowChain
  <2> DEFINE Current(b) == \A a \in BroadcastBlocks : a <= b => Block(a).of = a
  <2>1. \A b \in BroadcastBlocks : Current(b) => Right(Block(b).list, b - 2)
    <3>1. PICK T : T = {b \in BroadcastBlocks : Current(b) /\ ~Right(Block(b).list, b - 2)}
      OBVIOUS
    <3>2. CASE T = {}
      BY <3>1, <3>2
    <3>3. CASE T # {}
      <4>1. BroadcastBlocks \subseteq Nat
        BY <1>1, BlockType DEF BroadcastBlocks, MadeInv
      <4>2. PICK b \in T : \A c \in T : b <= c
        BY <3>1, <3>3, <4>1, LeastNat
      <4>3. b \in BroadcastBlocks /\ b \in Nat /\ Current(b) /\ ~Right(Block(b).list, b - 2)
        BY <3>1, <4>1, <4>2
      <4>4. Block(b).of = b /\ b # 0
        BY <1>1, <4>3 DEF BroadcastBlocks
      <4>5. PICK number, last :
               /\ number \in 0 .. Height /\ IsBroadcast(number + 2) /\ number = b - 2
               /\ last = number + 2 - BroadcastInterval
               /\ last = 0 \/ (last \in BroadcastBlocks /\ last < b)
               /\ Block(b).list = GenerateMainNodeList(number)
        BY <1>1, <4>3, <4>4, MadeFor
      <4>6. last # 0 => Right(Block(last).list, last - 2)
        <5> SUFFICES ASSUME last # 0
                     PROVE  Right(Block(last).list, last - 2)
          OBVIOUS
        <5>1. last \in BroadcastBlocks /\ last < b /\ last \in Nat
          BY <4>1, <4>5
        <5>2. Current(last)
          BY <4>1, <4>3, <5>1
        <5>3. last \notin T
          BY <4>2, <4>3, <5>1
        <5> QED
          BY <3>1, <5>1, <5>2, <5>3
      <4>7. Right(GenerateMainNodeList(number), number)
        BY <1>1, <4>5, <4>6, GeneratedRight DEF MadeInv
      <4> QED
        BY <4>3, <4>5, <4>7
    <3> QED
      BY <3>2, <3>3
  <2> QED
    BY <2>1 DEF ListsFollowChain, Right
<1> QED
  BY <1>1, MadeInit, MadeStep, PTL DEF Spec
-----------------------------------------------------------------------------
(* ElectionsSurvive.                                                       *)

\* The list has the node in its role, and in no other one.
Has(list, node, role) ==
    \A t \in ElectTypes \ {ElectExit} : node \in list[t] <=> role = t

\* A list made from the node's election, or from a list that has it, has it.
LEMMA GeneratedHas ==
    ASSUME ChainType, NEW number \in 0 .. Height, IsBroadcast(number + 2),
           NEW last, last = number + 2 - BroadcastInterval, NEW n \in Nodes,
           \/ ElectedIn(n, StartPos(number), number) # {}
           \/ last # 0 /\ Has(Block(last).list, n, RoleAfter(n, number))
    PROVE  Has(GenerateMainNodeList(number), n, RoleAfter(n, number))
<1>1. PICK list, first : /\ list = IF last = 0 THEN BootList ELSE Block(last).list
                         /\ first = StartPos(number)
  OBVIOUS
<1>2. /\ first \in Nat /\ number \in Nat
      /\ \A m, t : t \in ElectTypes =>
            (m \in GenerateMainNodeList(number)[t] <=>
               m \in Nodes /\ IF ElectedIn(m, first, number) # {}
                              THEN LatestElection(m, first, number) = t
                              ELSE /\ m \in list[t] /\ t # ElectExit
                                   /\ t = ElectCommittee => m \notin list[ElectMiner]
                                   /\ t = ElectBoth => m \notin list[ElectMiner] \cup list[ElectCommittee])
  BY <1>1, Generated
<1> SUFFICES ASSUME NEW t \in ElectTypes \ {ElectExit}
             PROVE  n \in GenerateMainNodeList(number)[t] <=> RoleAfter(n, number) = t
  BY DEF Has
<1>3. CASE ElectedIn(n, first, number) # {}
  <2>1. RoleAfter(n, number) = LatestElection(n, first, number)
    BY <1>2, <1>3, Window DEF RoleAfter
  <2> QED
    BY <1>2, <1>3, <2>1
<1>4. CASE ElectedIn(n, first, number) = {}
  <2>1. n \in GenerateMainNodeList(number)[t] <=>
           /\ n \in list[t]
           /\ t = ElectCommittee => n \notin list[ElectMiner]
           /\ t = ElectBoth => n \notin list[ElectMiner] \cup list[ElectCommittee]
    BY <1>2, <1>4
  <2>2. \A x \in ElectTypes \ {ElectExit} : n \in list[x] <=> RoleAfter(n, number) = x
    BY <1>1, <1>4 DEF Has
  <2>3. {ElectMiner, ElectCommittee} \subseteq ElectTypes \ {ElectExit} /\ ElectMiner # ElectCommittee
        /\ ElectBoth \notin {ElectMiner, ElectCommittee}
    BY DEF ElectTypes, ElectExit, ElectMiner, ElectCommittee, ElectBoth
  <2> QED
    BY <2>1, <2>2, <2>3
<1> QED
  BY <1>3, <1>4

\* From b to d no header falls back behind b, and the node has no new election.
Holds(n, b, d) ==
    /\ b <= d
    /\ \A e \in BroadcastBlocks : b <= e /\ e <= d => Block(e).of >= b
    /\ ElectedIn(n, b - 1, d - 2) = {}

\* One header more: its list is made for b or a later block, and from a header in between.
LEMMA StillThere ==
    ASSUME MadeInv, NEW b \in BroadcastBlocks, NEW d \in BroadcastBlocks, NEW n \in Nodes,
           ElectedIn(n, StartPos(b - 2), b - 2) # {}, Holds(n, b, d),
           \A e \in BroadcastBlocks : e < d /\ Holds(n, b, e) =>
               Has(Block(e).list, n, RoleAfter(n, b - 2))
    PROVE  Has(Block(d).list, n, RoleAfter(n, b - 2))
<1>1. PICK of : of = Block(d).of
  OBVIOUS
<1>2. /\ ChainType /\ Height \in Nat /\ b \in 1 .. Height /\ d \in 1 .. Height /\ of \in Nat
      /\ IsBroadcast(b)
  BY <1>1, BlockType DEF BroadcastBlocks, MadeInv
<1>3. b <= d /\ of >= b /\ of <= d
  BY <1>1, <1>2 DEF Holds, MadeInv, BlockMade
<1>4. PICK number, last :
         /\ number \in 0 .. Height /\ IsBroadcast(number + 2) /\ number = of - 2
         /\ last = number + 2 - BroadcastInterval
         /\ last = 0 \/ (last \in BroadcastBlocks /\ last < d)
         /\ Block(d).list = GenerateMainNodeList(number)
  BY <1>1, <1>2, <1>3, MadeFor
<1>5. IsBroadcast(of) /\ number \in Nat /\ number + 2 = of
  BY <1>2, <1>4
<1>6. b - 2 \in Nat /\ b - 1 \in Nat
  BY <1>2, BroadcastBefore, IntervalAssumption
<1>7. RoleAfter(n, number) = RoleAfter(n, b - 2)
  <2>1. ElectedIn(n, b - 1, number) = {}
    <3>1. \A c \in b - 1 .. number : c \in b - 1 .. d - 2
      BY <1>2, <1>3, <1>5, <1>6
    <3> QED
      BY <3>1 DEF Holds, ElectedIn
  <2>2. b - 1 <= b - 2 + 1 /\ b - 2 <= number
    BY <1>2, <1>3, <1>5, <1>6
  <2> QED
    BY <1>5, <1>6, <2>1, <2>2, NoElection
<1>8. CASE of = b
  <2>1. number = b - 2
    BY <1>4, <1>8
  <2> QED
    BY <1>2, <1>4, <1>7, <2>1, GeneratedHas
<1>9. CASE of > b
  <2>1. last >= b /\ last # 0 /\ last \in BroadcastBlocks /\ last < d /\ last \in Nat
    <3>1. of >= b + BroadcastInterval
      BY <1>2, <1>5, <1>9, Apart
    <3> QED
      BY <1>2, <1>4, <1>5, <3>1, IntervalAssumption
  <2>2. Holds(n, b, last)
    <3>1. \A e \in BroadcastBlocks : e \in Nat
      BY <1>2 DEF BroadcastBlocks
    <3>2. \A e \in BroadcastBlocks : b <= e /\ e <= last => Block(e).of >= b
      BY <1>2, <2>1, <3>1 DEF Holds
    <3>3. \A c \in b - 1 .. last - 2 : c \in b - 1 .. d - 2
      BY <1>2, <2>1
    <3>4. ElectedIn(n, b - 1, last - 2) = {}
      BY <3>3 DEF Holds, ElectedIn
    <3> QED
      BY <2>1, <3>2, <3>4 DEF Holds
  <2>3. Has(Block(last).list, n, RoleAfter(n, number))
    BY <1>7, <2>1, <2>2
  <2>4. Has(GenerateMainNodeList(number), n, RoleAfter(n, number))
    BY <1>2, <1>4, <2>1, <2>3, GeneratedHas
  <2> QED
    BY <1>4, <1>7, <2>4
<1> QED
  BY <1>2, <1>3, <1>8, <1>9

\* With any number of miners, lists that get lost, late or doubled and miners that
\* forget theirs: an election that has been in the list made for its broadcast block
\* is in every later header until the node's next one, unless a header falls back to
\* a list from before it (verify/interface.go, GenerateMainNodeList; miner/cache.go,
\* update and writeCacheToHeader).
THEOREM ElectionsLast == Spec => []ElectionsSurvive
<1>1. ASSUME MadeInv
      PROVE  ElectionsSurvive
  <2>1. ASSUME NEW b \in BroadcastBlocks, NEW n \in Nodes,
               ElectedIn(n, StartPos(b - 2), b - 2) # {}
        PROVE  \A d \in BroadcastBlocks : Holds(n, b, d) =>
                   Has(Block(d).list, n, RoleAfter(n, b - 2))
    <3>1. PICK T : T = {d \in BroadcastBlocks :
                          Holds(n, b, d) /\ ~Has(Block(d).list, n, RoleAfter(n, b - 2))}
      OBVIOUS
    <3>2. CASE T = {}
      BY <3>1, <3>2
    <3>3. CASE T # {}
      <4>1. BroadcastBlocks \subseteq Nat
        BY <1>1, BlockType DEF BroadcastBlocks, MadeInv
      <4>2. PICK d \in T : \A e \in T : d <= e
        BY <3>1, <3>3, <4>1, LeastNat
      <4>3. d \in BroadcastBlocks /\ Holds(n, b, d) /\ ~Has(Block(d).list, n, RoleAfter(n, b - 2))
        BY <3>1, <4>2
      <4>4. \A e \in BroadcastBlocks : e < d /\ Holds(n, b, e) =>
               Has(Block(e).list, n, RoleAfter(n, b - 2))
        BY <3>1, <4>1, <4>2, <4>3
      <4> QED
        BY <1>1, <2>1, <4>3, <4>4, StillThere
    <3> QED
      BY <3>2, <3>3
  <2>2. ASSUME NEW b \in BroadcastBlocks, NEW n \in Nodes,
               ElectedIn(n, StartPos(b - 2), b - 2) # {}
        PROVE  RoleAfter(n, b - 2) = LatestElection(n, StartPos(b - 2), b - 2)
    <3>1. b \in Nat /\ IsBroadcast(b) /\ b > 0
      BY <1>1, BlockType DEF BroadcastBlocks, MadeInv
    <3>2. b - 2 \in Nat
      BY <3>1, BroadcastBefore, IntervalAssumption
    <3>3. StartPos(b - 2) \in Nat
      BY <3>2, IntervalAssumption DEF StartPos
    <3> QED
      BY <2>2, <3>2, <3>3, Window DEF RoleAfter
  <2> QED
    BY <2>1, <2>2 DEF ElectionsSurvive, Holds, Has
<1> QED
  BY <1>1, MadeInit, MadeStep, PTL DEF Spec
=============================================================================
