--------------------------- MODULE SchedulerProofs ---------------------------
(***************************************************************************)
(* For every chain, every broadcast interval with its two delays and every *)
(* assignment of roles: the node does the work of one role at a time, the  *)
(* list in effect is the one its height asks for, and no list's exits are  *)
(* paid twice, as long as blocks come no faster than they are handled.     *)
(***************************************************************************)
EXTENDS Scheduler, TLAPS

\* What startTask leaves running depends on the new role alone, once the old
\* role's services are what ran before (scheduler/scheduler.go, startTask).
LEMMA StartTaskSwitches ==
    ASSUME NEW type, WorkOfOneRole, mining \in BOOLEAN, nodeBusy \in BOOLEAN,
           StartTask(type)
    PROVE  WorkOfOneRole' /\ mining' \in BOOLEAN /\ nodeBusy' \in BOOLEAN
  BY Zenon DEF StartTask, WorkOfOneRole

\* WorkOfOneRole with the types it rests on.
RoleInv ==
    /\ mining \in BOOLEAN
    /\ nodeBusy \in BOOLEAN
    /\ WorkOfOneRole

\* A node never mines or verifies out of its role, in whatever order blocks, the
\* end of the block sync and topologies arrive (startTask and its two callers).
THEOREM OneRole == Spec => []WorkOfOneRole
<1>1. Init => RoleInv
  BY DEF Init, RoleInv, WorkOfOneRole
<1>2. RoleInv /\ [Next]_vars => RoleInv'
  <2> SUFFICES ASSUME RoleInv, [Next]_vars
               PROVE  RoleInv'
    OBVIOUS
  <2>1. CASE ElectionNetEffect
    BY <2>1, StartTaskSwitches DEF ElectionNetEffect, TakeEffect, RoleInv
  <2>2. CASE TakeToken
    BY <2>2, StartTaskSwitches DEF TakeToken, RoleInv
  <2>3. CASE UNCHANGED roleVars
    BY <2>3 DEF roleVars, RoleInv, WorkOfOneRole
  <2>4. ASSUME ~ElectionNetEffect, ~TakeToken
        PROVE  UNCHANGED roleVars
    <3>1. CASE InsertBlock \/ Setblockinsernotify \/ Signal \/ Start
      BY <3>1 DEF InsertBlock, Setblockinsernotify, Signal, Start
    <3>2. CASE \E i \in {0, 1} : GenNetwork(i)
      BY <3>2 DEF GenNetwork
    <3>3. CASE TakeBlock \/ EffectDelay \/ OtherBlock \/ NotifyVerifier \/ TakeMainNodeList
      BY <3>3 DEF TakeBlock, EffectDelay, OtherBlock, NotifyVerifier, TakeMainNodeList
    <3>4. CASE UNCHANGED vars
      BY <3>4 DEF vars
    <3> QED
      BY <2>4, <3>1, <3>2, <3>3, <3>4 DEF Next, HandleBlock
  <2> QED
    BY <2>1, <2>2, <2>3, <2>4
<1>3. RoleInv => WorkOfOneRole
  BY DEF RoleInv
<1> QED
  BY <1>1, <1>2, <1>3, PTL DEF Spec-----------------------------------------------------------------------------
(* Arithmetic of the broadcast period.                                     *)

LEMMA Interval ==
    /\ BroadcastInterval \in Nat /\ BroadcastInterval > 0
    /\ blockEffectDelay \in Nat /\ blockEffectDelay > 0
    /\ electionNetEffterTime \in Nat
    /\ blockEffectDelay < electionNetEffterTime
    /\ electionNetEffterTime < BroadcastInterval
  BY IntervalAssumption

\* Quotient and remainder of a height.
LEMMA Division ==
    ASSUME NEW n \in Nat
    PROVE  /\ n \div BroadcastInterval \in Nat
           /\ n % BroadcastInterval \in 0 .. BroadcastInterval - 1
           /\ n = BroadcastInterval * (n \div BroadcastInterval) + (n % BroadcastInterval)
  BY Interval

\* A larger quotient is a larger multiple, by the interval at least.
LEMMA NextMultiple ==
    ASSUME NEW p \in Nat, NEW q \in Nat, p < q
    PROVE  BroadcastInterval * p + BroadcastInterval <= BroadcastInterval * q
  BY Interval

\* They are the only ones.
LEMMA Remainder ==
    ASSUME NEW q \in Nat, NEW r \in 0 .. BroadcastInterval - 1
    PROVE  /\ (BroadcastInterval * q + r) % BroadcastInterval = r
           /\ (BroadcastInterval * q + r) \div BroadcastInterval = q
<1> DEFINE n == BroadcastInterval * q + r
<1>1. n \in Nat
  BY Interval
<1>2. PICK p \in Nat, s \in 0 .. BroadcastInterval - 1 :
         /\ n = BroadcastInterval * p + s
         /\ n \div BroadcastInterval = p /\ n % BroadcastInterval = s
  <2> HIDE DEF n
  <2> QED
    BY <1>1, Division
<1>3. BroadcastInterval * p + s = BroadcastInterval * q + r
  BY <1>2
<1>4. p = q
  <2>1. CASE p < q
    <3>1. BroadcastInterval * p + BroadcastInterval <= BroadcastInterval * q
      BY <2>1, NextMultiple
    <3> QED
      BY <1>3, <3>1, Interval
  <2>2. CASE q < p
    <3>1. BroadcastInterval * q + BroadcastInterval <= BroadcastInterval * p
      BY <2>2, NextMultiple
    <3> QED
      BY <1>3, <3>1, Interval
  <2> QED
    BY <2>1, <2>2
<1> QED
  BY <1>2, <1>3, <1>4, Interval

\* A multiple of the interval is a broadcast block.
LEMMA Multiple ==
    ASSUME NEW q \in Nat, BroadcastInterval * q <= MaxBlock
    PROVE  BroadcastInterval * q \in Broadcasts
<1>1. BroadcastInterval * q \in 0 .. MaxBlock
  BY Interval, SchedulerAssumption
<1>2. (BroadcastInterval * q + 0) % BroadcastInterval = 0
  BY Interval, Remainder
<1> QED
  BY <1>1, <1>2, Interval DEF Broadcasts

\* The list that TakeMainNodeList takes at a height.
ListAt(n) ==
    IF n < BroadcastInterval + electionNetEffterTime THEN 0 ELSE Calcbcnodeblocknumber(n)

LEMMA ListAtValue ==
    ASSUME NEW n \in Nat, NEW q \in Nat, NEW r \in 0 .. BroadcastInterval - 1,
           n = BroadcastInterval * q + r
    PROVE  /\ n < BroadcastInterval + electionNetEffterTime => ListAt(n) = 0
           /\ n >= BroadcastInterval + electionNetEffterTime =>
                 /\ q >= 1
                 /\ r >= electionNetEffterTime => ListAt(n) = BroadcastInterval * q
                 /\ r < electionNetEffterTime => q - 1 \in Nat /\ ListAt(n) = BroadcastInterval * (q - 1)
<1>1. n % BroadcastInterval = r /\ n \div BroadcastInterval = q
  BY Remainder
<1>2. n >= BroadcastInterval + electionNetEffterTime => q >= 1
  BY Interval
<1>3. (q - 1) * BroadcastInterval = BroadcastInterval * (q - 1)
  BY Interval
<1>4. n - r = BroadcastInterval * q
  BY Interval
<1> QED
  BY <1>1, <1>2, <1>3, <1>4, Interval DEF ListAt, Calcbcnodeblocknumber

LEMMA ListAtIsBroadcast ==
    ASSUME NEW n \in 0 .. MaxBlock
    PROVE  ListAt(n) \in Broadcasts
<1> DEFINE q == n \div BroadcastInterval
           r == n % BroadcastInterval
<1>1. q \in Nat /\ r \in 0 .. BroadcastInterval - 1 /\ n = BroadcastInterval * q + r /\ n \in Nat
  BY Division, SchedulerAssumption
<1> HIDE DEF q, r
<1>2. BroadcastInterval * q <= MaxBlock
  BY <1>1, Interval, SchedulerAssumption
<1>3. 0 \in Broadcasts
  BY Interval, SchedulerAssumption DEF Broadcasts
<1>4. ASSUME q - 1 \in Nat
      PROVE  BroadcastInterval * (q - 1) \in Broadcasts
  <2>1. BroadcastInterval * (q - 1) <= MaxBlock
    BY <1>1, <1>2, <1>4, Interval, SchedulerAssumption
  <2> QED
    BY <1>4, <2>1, Multiple
<1>5. BroadcastInterval * q \in Broadcasts
  BY <1>1, <1>2, Multiple
<1>6. /\ n < BroadcastInterval + electionNetEffterTime => ListAt(n) = 0
      /\ n >= BroadcastInterval + electionNetEffterTime =>
            /\ r >= electionNetEffterTime => ListAt(n) = BroadcastInterval * q
            /\ r < electionNetEffterTime => q - 1 \in Nat /\ ListAt(n) = BroadcastInterval * (q - 1)
  BY <1>1, ListAtValue
<1> QED
  BY <1>1, <1>3, <1>4, <1>5, <1>6, Interval
\* The list of the block that takes effect at a height is a broadcast block.
LEMMA EffectIsBroadcast ==
    ASSUME NEW n \in 0 .. MaxBlock, NEW d \in 0 .. BroadcastInterval - 1,
           n % BroadcastInterval = d
    PROVE  n - d \in Broadcasts
<1> DEFINE q == n \div BroadcastInterval
<1>1. q \in Nat /\ n = BroadcastInterval * q + d /\ d \in Nat
  BY Division, SchedulerAssumption, Interval
<1> HIDE DEF q
<1>2. BroadcastInterval * q <= MaxBlock /\ n - d = BroadcastInterval * q
  BY <1>1, SchedulerAssumption, Interval
<1> QED
  BY <1>1, <1>2, Multiple
-----------------------------------------------------------------------------
(* Types.                                                                  *)

\* The scheduler's state keeps its types: what is copied into a buffer is always the
\* list of a broadcast block of the chain, and a topology always that of such a list.
THEOREM TypeCorrect == Spec => []TypeOK
<1>1. Init => TypeOK
  <2> SUFFICES ASSUME Init
               PROVE  TypeOK
    OBVIOUS
  <2>1. nodeList \in [{0, 1} -> Broadcasts \cup {None}] /\ ele \in [{0, 1} -> Broadcasts \cup {None}]
    BY DEF Init
  <2>2. building \in [{0, 1} -> Nat] /\ paid \in [Broadcasts -> Nat]
    BY DEF Init
  <2>3. running \in BOOLEAN /\ mining \in BOOLEAN /\ nodeBusy \in BOOLEAN /\ calm \in BOOLEAN
    BY DEF Init
  <2>4. height \in 0 .. MaxBlock
    BY SchedulerAssumption DEF Init
  <2> QED
    BY <2>1, <2>2, <2>3, <2>4 DEF Init, TypeOK, NodeTypes
<1>2. TypeOK /\ [Next]_vars => TypeOK'
  <2> SUFFICES ASSUME TypeOK, [Next]_vars
               PROVE  TypeOK'
    OBVIOUS
  <2> USE DEF TypeOK
  <2>0. eletempIndex \in {0, 1}
    BY DEF eletempIndex
  <2>1. CASE InsertBlock
    BY <2>1, SchedulerAssumption DEF InsertBlock, genVars, listVars, roleVars
  <2>2. CASE Setblockinsernotify
    BY <2>2 DEF Setblockinsernotify, genVars, listVars, roleVars
  <2>3. CASE Signal
    BY <2>3 DEF Signal, chainVars, listVars, roleVars
  <2>4. ASSUME NEW i \in {0, 1}, GenNetwork(i)
        PROVE  TypeOK'
    BY <2>4 DEF GenNetwork, chainVars, listVars, roleVars
  <2>5. CASE Start
    BY <2>5 DEF Start, genVars, listVars, roleVars
  <2>6. CASE TakeBlock
    BY <2>6 DEF TakeBlock, chainVars, genVars, listVars, roleVars
  <2>7. CASE EffectDelay
    <3>1. EffectBlock \in Broadcasts
      BY <2>7, EffectIsBroadcast, Interval DEF EffectDelay, EffectBlock
    <3> QED
      BY <2>0, <2>7, <3>1 DEF EffectDelay, AfterBlock, chainVars, roleVars
  <2>8. CASE ElectionNetEffect
    <3>1. GetIDType(ele[eletempIndex]) \in NodeTypes \cup {"illegal"}
      BY <2>0, SchedulerAssumption DEF GetIDType
    <3>2. mining' \in BOOLEAN /\ nodeBusy' \in BOOLEAN
      BY <2>8 DEF ElectionNetEffect, TakeEffect, StartTask
    <3>3. nodetype' \in NodeTypes \cup {"illegal"} /\ prenodetype' \in NodeTypes \cup {"illegal"}
      BY <2>8, <3>1 DEF ElectionNetEffect, TakeEffect, StartTask
    <3>4. paid' \in [Broadcasts -> Nat]
      BY <2>0, <2>8 DEF ElectionNetEffect, TakeEffect, OfflineListMortgageDeal
    <3> QED
      BY <2>0, <2>8, <3>2, <3>3, <3>4
         DEF ElectionNetEffect, TakeEffect, AfterBlock, chainVars, genVars
  <2>9. CASE OtherBlock
    BY <2>9 DEF OtherBlock, AfterBlock, chainVars, genVars, listVars, roleVars
  <2>10. CASE NotifyVerifier
    BY <2>10 DEF NotifyVerifier, chainVars, genVars, listVars, roleVars
  <2>11. CASE TakeMainNodeList
    <3>1. ListAt(height) \in Broadcasts
      BY ListAtIsBroadcast
    <3> QED
      BY <2>0, <2>11, <3>1 DEF TakeMainNodeList, ListAt, chainVars, roleVars
  <2>12. CASE TakeToken
    <3>1. GetIDType(ele[eleEffterIndex]) \in NodeTypes \cup {"illegal"}
      BY SchedulerAssumption DEF GetIDType
    <3>2. mining' \in BOOLEAN /\ nodeBusy' \in BOOLEAN
      BY <2>12 DEF TakeToken, StartTask
    <3>3. nodetype' \in NodeTypes \cup {"illegal"} /\ prenodetype' \in NodeTypes \cup {"illegal"}
      BY <2>12, <3>1 DEF TakeToken, StartTask
    <3> QED
      BY <2>12, <3>2, <3>3 DEF TakeToken, chainVars, genVars, listVars
  <2>13. CASE UNCHANGED vars
    BY <2>13 DEF vars, chainVars, genVars, listVars, roleVars
  <2> QED
    BY <2>1, <2>2, <2>3, <2>4, <2>5, <2>6, <2>7, <2>8, <2>9, <2>10, <2>11, <2>12, <2>13
       DEF Next, HandleBlock
<1> QED
  BY <1>1, <1>2, PTL DEF Spec-----------------------------------------------------------------------------
(* Blocks that come no faster than they are handled.                       *)

\* The list in effect is the one calcbcnodeblocknumber computes.
LEMMA InEffectIsListAt ==
    ASSUME NEW n \in 0 .. MaxBlock
    PROVE  InEffect(n) = ListAt(n)
<1> DEFINE past == {b \in Broadcasts : b + electionNetEffterTime <= n}
           q == n \div BroadcastInterval
           r == n % BroadcastInterval
<1>1. q \in Nat /\ r \in 0 .. BroadcastInterval - 1 /\ n = BroadcastInterval * q + r /\ n \in Nat
  BY Division, SchedulerAssumption
<1>2. past \subseteq Nat
  BY SchedulerAssumption DEF Broadcasts
<1> HIDE DEF q, r
<1>3. /\ n < BroadcastInterval + electionNetEffterTime => ListAt(n) = 0
      /\ n >= BroadcastInterval + electionNetEffterTime =>
            /\ q >= 1
            /\ r >= electionNetEffterTime => ListAt(n) = BroadcastInterval * q
            /\ r < electionNetEffterTime => q - 1 \in Nat /\ ListAt(n) = BroadcastInterval * (q - 1)
  BY <1>1, ListAtValue
<1>4. ListAt(n) \in past \cup {0}
  <2>1. ListAt(n) \in Broadcasts
    BY ListAtIsBroadcast
  <2> QED
    BY <1>1, <1>3, <2>1, Interval
<1>5. ASSUME NEW a \in past
      PROVE  a <= ListAt(n)
  <2>1. PICK p \in Nat : a = BroadcastInterval * p
    <3>1. a \in Nat /\ a % BroadcastInterval = 0
      BY SchedulerAssumption DEF Broadcasts
    <3> QED
      BY <3>1, Division, Interval
  <2>2. a + electionNetEffterTime <= n
    OBVIOUS
  <2>3. CASE n < BroadcastInterval + electionNetEffterTime
    <3>1. p = 0
      <4>1. 0 < p => BroadcastInterval * 0 + BroadcastInterval <= BroadcastInterval * p
        BY NextMultiple
      <4> QED
        BY <2>1, <2>2, <2>3, <4>1, <1>1, Interval
    <3> QED
      BY <1>3, <2>1, <2>3, <3>1, Interval
  <2>4. CASE n >= BroadcastInterval + electionNetEffterTime /\ r >= electionNetEffterTime
    <3>1. q < p => BroadcastInterval * q + BroadcastInterval <= BroadcastInterval * p
      BY <1>1, NextMultiple
    <3>2. p < q => BroadcastInterval * p + BroadcastInterval <= BroadcastInterval * q
      BY <1>1, NextMultiple
    <3> QED
      BY <1>1, <1>3, <2>1, <2>2, <2>4, <3>1, <3>2, Interval
  <2>5. CASE n >= BroadcastInterval + electionNetEffterTime /\ r < electionNetEffterTime
    <3>1. q <= p => BroadcastInterval * q <= BroadcastInterval * p
      BY <1>1, NextMultiple, Interval
    <3>2. p < q => BroadcastInterval * p + BroadcastInterval <= BroadcastInterval * q
      BY <1>1, NextMultiple
    <3>3. BroadcastInterval * (q - 1) = BroadcastInterval * q - BroadcastInterval
      BY <1>1, Interval
    <3> QED
      BY <1>1, <1>3, <2>1, <2>2, <2>5, <3>1, <3>2, <3>3, Interval
  <2> QED
    BY <1>1, <2>3, <2>4, <2>5, Interval
<1>6. ASSUME NEW b \in past \cup {0}, \A a \in past : a <= b
      PROVE  b = ListAt(n)
  <2>1. ListAt(n) \in Nat /\ b \in Nat
    BY <1>2, <1>4
  <2>2. ListAt(n) <= b
    BY <1>4, <1>6, <2>1
  <2>3. b <= ListAt(n)
    BY <1>5, <2>1
  <2> QED
    BY <2>1, <2>2, <2>3
<1> HIDE DEF past
<1>7. (CHOOSE b \in past \cup {0} : \A a \in past : a <= b) = ListAt(n)
  BY <1>4, <1>5, <1>6
<1> QED
  BY <1>7 DEF past, InEffect

\* From one height to the next the list in effect changes at the effect time alone.
LEMMA ListAtStep ==
    ASSUME NEW n \in Nat, n > 0
    PROVE  IF n > BroadcastInterval /\ n % BroadcastInterval = electionNetEffterTime
           THEN ListAt(n) = n - electionNetEffterTime
           ELSE ListAt(n) = ListAt(n - 1)
<1> DEFINE q == n \div BroadcastInterval
           r == n % BroadcastInterval
<1>1. q \in Nat /\ r \in 0 .. BroadcastInterval - 1 /\ n = BroadcastInterval * q + r
  BY Division
<1> HIDE DEF q, r
<1>2. /\ n < BroadcastInterval + electionNetEffterTime => ListAt(n) = 0
      /\ n >= BroadcastInterval + electionNetEffterTime =>
            /\ q >= 1
            /\ r >= electionNetEffterTime => ListAt(n) = BroadcastInterval * q
            /\ r < electionNetEffterTime => q - 1 \in Nat /\ ListAt(n) = BroadcastInterval * (q - 1)
  BY <1>1, ListAtValue
<1>3. CASE r > 0
  <2>1. r - 1 \in 0 .. BroadcastInterval - 1 /\ n - 1 \in Nat /\ n - 1 = BroadcastInterval * q + (r - 1)
    BY <1>1, <1>3, Interval
  <2>2. /\ n - 1 < BroadcastInterval + electionNetEffterTime => ListAt(n - 1) = 0
        /\ n - 1 >= BroadcastInterval + electionNetEffterTime =>
              /\ r - 1 >= electionNetEffterTime => ListAt(n - 1) = BroadcastInterval * q
              /\ r - 1 < electionNetEffterTime => ListAt(n - 1) = BroadcastInterval * (q - 1)
    BY <1>1, <2>1, ListAtValue
  <2>3. q > 1 => BroadcastInterval * 1 + BroadcastInterval <= BroadcastInterval * q
    BY <1>1, NextMultiple
  <2>4. q <= 1 => q = 0 \/ q = 1
    BY <1>1
  <2>5. /\ q = 0 => BroadcastInterval * q = 0
        /\ q = 1 => BroadcastInterval * q = BroadcastInterval
    BY Interval
  <2> QED
    BY <1>1, <1>2, <1>3, <2>1, <2>2, <2>3, <2>4, <2>5, Interval DEF r
<1>4. CASE r = 0
  <2>1. q > 0
    BY <1>1, <1>4, Interval
  <2>2. /\ q - 1 \in Nat /\ BroadcastInterval - 1 \in 0 .. BroadcastInterval - 1 /\ n - 1 \in Nat
        /\ n - 1 = BroadcastInterval * (q - 1) + (BroadcastInterval - 1)
    BY <1>1, <1>4, <2>1, Interval
  <2>3. /\ n - 1 < BroadcastInterval + electionNetEffterTime => ListAt(n - 1) = 0
        /\ n - 1 >= BroadcastInterval + electionNetEffterTime =>
              ListAt(n - 1) = BroadcastInterval * (q - 1)
    BY <2>2, ListAtValue, Interval
  <2>4. n < BroadcastInterval + electionNetEffterTime <=> n - 1 < BroadcastInterval + electionNetEffterTime
    <3>1. q > 1 => BroadcastInterval * 1 + BroadcastInterval <= BroadcastInterval * q
      BY <1>1, NextMultiple
    <3>2. q = 1 => BroadcastInterval * q = BroadcastInterval
      BY Interval
    <3> QED
      BY <1>1, <1>4, <2>1, <3>1, <3>2, Interval
  <2> QED
    BY <1>1, <1>2, <1>4, <2>2, <2>3, <2>4, Interval DEF r
<1> QED
  BY <1>1, <1>3, <1>4
\* The height's block has not been handled yet.
Pending == inserterPc = "notify" \/ BlockInsertch = 1 \/ loopPc = "block"

\* The last block the loop has handled, or that the block sync ended with.
Seen == IF Pending THEN height - 1 ELSE height

\* The list of this period has been copied and is not yet in effect.
Window(n) ==
    /\ n > BroadcastInterval
    /\ n % BroadcastInterval \in blockEffectDelay .. electionNetEffterTime - 1

\* The inserter notifies a loop that runs, and a buffer at which no GenNetwork works
\* has the topology of its list.
Built ==
    /\ loopPc # "off" => running
    /\ \A i \in {0, 1} : building[i] = 0 => ele[i] = nodeList[i]

\* Before the list is taken.
Fresh ==
    /\ loopPc \in {"off", "select"}
    /\ inserterPc = "idle" /\ BlockInsertch = 0
    /\ building = [i \in {0, 1} |-> 0] /\ signalling = 0 /\ ch1 = 0
    /\ nodeList = [i \in {0, 1} |-> None]
    /\ \A b \in Broadcasts : paid[b] = 0

\* While the loop waits for the list's topology.
Waiting ==
    /\ inserterPc = "idle" /\ BlockInsertch = 0
    /\ building[eletempIndex] = 0
    /\ building[eleEffterIndex] + signalling + ch1 = 1
    /\ nodeList[eletempIndex] = None
    /\ \A b \in Broadcasts : paid[b] = 0

\* From then on: one block at a time, after the one before and its GenNetwork.
OneBlock ==
    /\ loopPc \in {"select", "block", "notify"}
    /\ inserterPc = "notify" => BlockInsertch = 0 /\ loopPc = "select"
    /\ BlockInsertch = 1 => loopPc = "select"
    /\ Pending => height > 0 /\ \A i \in {0, 1} : building[i] = 0

\* What has been paid took effect, and a buffer about to take effect is new.
PaidInv ==
    /\ \A b \in Broadcasts : paid[b] <= 1 /\ (paid[b] = 1 => b + electionNetEffterTime <= Seen)
    /\ Window(Seen) => nodeList[eletempIndex] \in {None, Seen - (Seen % BroadcastInterval)}

CalmInv ==
    calm =>
        /\ loopPc = "off" => ch2 = 1
        /\ ch2 = 1 => Fresh
        /\ ch2 = 0 /\ loopPc = "gen" => Waiting
        /\ ch2 = 0 /\ loopPc # "gen" => OneBlock /\ PaidInv

\* The lists are right if the block sync ends outside the window.
ListInv ==
    calm =>
        /\ ch2 = 1 \/ loopPc = "gen" => height \in StartHeights
        /\ ch2 = 0 => nodeList[eleEffterIndex] = ListAt(Seen)
        /\ ch2 = 0 /\ loopPc # "gen" =>
              /\ Window(Seen) => nodeList[eletempIndex] = Seen - (Seen % BroadcastInterval)
              /\ nodetype = GetIDType(nodeList[eleEffterIndex])

\* Inside the window the list that was copied is still this period's, up to the
\* block at which it takes effect.
LEMMA WindowStep ==
    ASSUME NEW n \in Nat, n > BroadcastInterval,
           n % BroadcastInterval \in blockEffectDelay + 1 .. electionNetEffterTime
    PROVE  /\ Window(n - 1)
           /\ (n - 1) - ((n - 1) % BroadcastInterval) = n - (n % BroadcastInterval)
<1> DEFINE q == n \div BroadcastInterval
           r == n % BroadcastInterval
<1>1. q \in Nat /\ r \in 0 .. BroadcastInterval - 1 /\ n = BroadcastInterval * q + r
  BY Division
<1>2. r \in blockEffectDelay + 1 .. electionNetEffterTime
  OBVIOUS
<1> HIDE DEF q, r
<1>3. r - 1 \in 0 .. BroadcastInterval - 1 /\ n - 1 = BroadcastInterval * q + (r - 1)
  BY <1>1, <1>2, Interval
<1>4. (n - 1) % BroadcastInterval = r - 1
  BY <1>1, <1>3, Remainder
<1>5. n - 1 > BroadcastInterval
  <2>1. q > 0
    BY <1>1, Interval
  <2>2. q = 1 => BroadcastInterval * q = BroadcastInterval
    BY Interval
  <2>3. q > 1 => BroadcastInterval * 1 + BroadcastInterval <= BroadcastInterval * q
    BY <1>1, NextMultiple
  <2> QED
    BY <1>1, <1>2, <2>1, <2>2, <2>3, Interval
<1> QED
  BY <1>1, <1>2, <1>4, <1>5, Interval DEF Window, r

LEMMA BuiltInit == Init => Built
  BY DEF Init, Built

LEMMA BuiltStep == TypeOK /\ Built /\ [Next]_vars => Built'
<1> SUFFICES ASSUME TypeOK, Built, [Next]_vars
             PROVE  Built'
  OBVIOUS
<1> USE DEF TypeOK, Built
<1>0. eletempIndex \in {0, 1}
  BY DEF eletempIndex
<1>1. CASE InsertBlock \/ Setblockinsernotify \/ Signal \/ Start
  BY <1>1 DEF InsertBlock, Setblockinsernotify, Signal, Start, genVars, listVars, chainVars
<1>2. ASSUME NEW i \in {0, 1}, GenNetwork(i)
      PROVE  Built'
  BY <1>2 DEF GenNetwork, chainVars, listVars
<1>3. CASE TakeBlock \/ OtherBlock \/ NotifyVerifier \/ ElectionNetEffect \/ TakeToken
  BY <1>3 DEF TakeBlock, OtherBlock, NotifyVerifier, ElectionNetEffect, TakeEffect, TakeToken, chainVars, genVars, listVars
<1>4. CASE EffectDelay
  BY <1>0, <1>4 DEF EffectDelay, chainVars
<1>5. CASE TakeMainNodeList
  BY <1>0, <1>5 DEF TakeMainNodeList, chainVars
<1>6. CASE UNCHANGED vars
  BY <1>6 DEF vars, chainVars, genVars, listVars
<1> QED
  BY <1>1, <1>2, <1>3, <1>4, <1>5, <1>6 DEF Next, HandleBlock
LEMMA CalmInit == Init => CalmInv
  BY DEF Init, CalmInv, Fresh

LEMMA CalmStep == TypeOK /\ Built /\ CalmInv /\ [Next]_vars => CalmInv'
<1> SUFFICES ASSUME TypeOK, Built, CalmInv, [Next]_vars, calm'
             PROVE  CalmInv'
  BY DEF CalmInv
<1>0. eletempIndex \in {0, 1} /\ eleEffterIndex \in {0, 1} /\ height \in Nat /\ ch2 \in {0, 1}
  BY SchedulerAssumption DEF eletempIndex, TypeOK
<1>1. CASE InsertBlock
  <2>1. calm /\ Quiet /\ height' = height + 1 /\ inserterPc' = "notify"
    BY <1>1 DEF InsertBlock, Quiet, Built
  <2>2. UNCHANGED <<BlockInsertch, ch2, ch1, loopPc, genVars, listVars>>
    BY <1>1 DEF InsertBlock
  <2>3. ch2 = 0 /\ loopPc = "select" /\ BlockInsertch = 0 /\ OneBlock /\ PaidInv
    BY <2>1 DEF Quiet, CalmInv
  <2>4. Seen = height /\ Seen' = height
    BY <1>0, <2>1, <2>2 DEF Quiet, Seen, Pending
  <2>5. OneBlock'
    BY <1>0, <2>1, <2>2, <2>3 DEF OneBlock, Quiet, genVars
  <2>6. PaidInv'
    BY <2>2, <2>3, <2>4 DEF PaidInv, Window, eletempIndex, listVars
  <2> QED
    BY <2>2, <2>3, <2>5, <2>6 DEF CalmInv
<1>2. CASE Setblockinsernotify
  <2>1. UNCHANGED <<height, ch2, ch1, loopPc, genVars, listVars, calm>> /\ inserterPc = "notify"
        /\ inserterPc' = "idle" /\ BlockInsertch' = 1
    BY <1>2 DEF Setblockinsernotify
  <2>2. ch2 = 0 /\ loopPc # "gen" /\ OneBlock /\ PaidInv
    BY <1>0, <2>1 DEF CalmInv, Fresh, Waiting
  <2>3. Seen' = Seen
    BY <2>1 DEF Seen, Pending
  <2>4. OneBlock'
    BY <2>1, <2>2 DEF OneBlock, Pending, genVars
  <2>5. PaidInv'
    BY <2>1, <2>2, <2>3 DEF PaidInv, Window, eletempIndex, listVars
  <2> QED
    BY <2>1, <2>2, <2>4, <2>5 DEF CalmInv, OneBlock
<1>3. CASE Signal
  <2>1. UNCHANGED <<chainVars, BlockInsertch, ch2, loopPc, building, ele, listVars, calm>>
        /\ signalling > 0 /\ ch1 = 0 /\ ch1' = 1 /\ signalling' = signalling - 1
    BY <1>3 DEF Signal
  <2>2. Fresh => Fresh'
    BY <2>1 DEF Fresh, TypeOK
  <2>3. Waiting => Waiting'
    BY <1>0, <2>1 DEF Waiting, eletempIndex, TypeOK, chainVars, listVars
  <2>4. OneBlock /\ PaidInv => OneBlock' /\ PaidInv'
    BY <2>1 DEF OneBlock, PaidInv, Seen, Pending, Window, eletempIndex, chainVars, listVars
  <2> QED
    BY <2>1, <2>2, <2>3, <2>4 DEF CalmInv
<1>4. ASSUME NEW i \in {0, 1}, GenNetwork(i)
      PROVE  CalmInv'
  <2>1. UNCHANGED <<chainVars, BlockInsertch, ch2, ch1, loopPc, listVars, calm>>
        /\ building[i] > 0 /\ building' = [building EXCEPT ![i] = @ - 1] /\ signalling' = signalling + 1
    BY <1>4 DEF GenNetwork
  <2>2. ~Fresh
    BY <2>1 DEF Fresh
  <2>3. Waiting => Waiting'
    <3> SUFFICES ASSUME Waiting
                 PROVE  Waiting'
      OBVIOUS
    <3>1. i = eleEffterIndex /\ eletempIndex # eleEffterIndex
      BY <1>0, <2>1 DEF Waiting, eletempIndex, TypeOK
    <3>2. building'[eletempIndex] = 0 /\ building'[eleEffterIndex] = building[eleEffterIndex] - 1
      BY <1>0, <2>1, <3>1 DEF Waiting, TypeOK
    <3> QED
      BY <1>0, <2>1, <3>2 DEF Waiting, eletempIndex, TypeOK, chainVars, listVars
  <2>4. OneBlock /\ PaidInv => OneBlock' /\ PaidInv'
    <3> SUFFICES ASSUME OneBlock, PaidInv
                 PROVE  OneBlock' /\ PaidInv'
      OBVIOUS
    <3>1. ~Pending
      BY <2>1 DEF OneBlock
    <3> QED
      BY <2>1, <3>1 DEF OneBlock, PaidInv, Seen, Pending, Window, eletempIndex, chainVars, listVars
  <2> QED
    BY <2>1, <2>2, <2>3, <2>4 DEF CalmInv
<1>5. CASE Start
  <2>1. ch2 = 1 /\ Fresh
    BY <1>5 DEF CalmInv, Start
  <2>2. Fresh'
    BY <1>5, <2>1 DEF Fresh, Start, genVars, listVars
  <2> QED
    BY <1>5, <2>1, <2>2 DEF CalmInv, Start
<1>6. CASE TakeBlock
  <2>1. UNCHANGED <<chainVars, ch2, ch1, genVars, listVars, calm>> /\ loopPc = "select"
        /\ BlockInsertch = 1 /\ BlockInsertch' = 0 /\ loopPc' = "block"
    BY <1>6 DEF TakeBlock
  <2>2. ch2 = 0 /\ OneBlock /\ PaidInv
    BY <1>0, <2>1 DEF CalmInv, Fresh
  <2>3. Seen' = Seen
    BY <2>1 DEF Seen, Pending, chainVars
  <2>4. OneBlock'
    BY <2>1, <2>2 DEF OneBlock, Pending, chainVars, genVars
  <2>5. PaidInv'
    BY <2>1, <2>2, <2>3 DEF PaidInv, Window, eletempIndex, listVars
  <2> QED
    BY <2>1, <2>2, <2>4, <2>5 DEF CalmInv
<1>7. ASSUME loopPc = "block", UNCHANGED <<chainVars, BlockInsertch, ch2, calm>>, loopPc' \in {"select", "notify"}
      PROVE  /\ ch2 = 0 /\ OneBlock /\ PaidInv /\ OneBlock'
             /\ Seen = height - 1 /\ Seen' = height /\ height' = height /\ height > 0
             /\ \A i \in {0, 1} : building[i] = 0
             /\ PaidInv' => CalmInv'
  <2>1. ch2 = 0 /\ OneBlock /\ PaidInv
    BY <1>0, <1>7 DEF CalmInv, Fresh
  <2>2. inserterPc = "idle" /\ BlockInsertch = 0 /\ height > 0 /\ \A i \in {0, 1} : building[i] = 0
    BY <1>7, <2>1 DEF OneBlock, Pending, TypeOK
  <2>3. Seen = height - 1 /\ Seen' = height /\ height' = height
    BY <1>7, <2>2 DEF Seen, Pending, chainVars
  <2>4. ~Pending' /\ inserterPc' = "idle" /\ BlockInsertch' = 0
    BY <1>7, <2>2 DEF Pending, chainVars
  <2>5. OneBlock'
    BY <1>7, <2>4 DEF OneBlock
  <2> QED
    BY <1>7, <2>1, <2>2, <2>3, <2>5 DEF CalmInv
<1>8. CASE EffectDelay
  <2>1. loopPc = "block" /\ UNCHANGED <<chainVars, BlockInsertch, ch2, calm>> /\ loopPc' \in {"select", "notify"}
    BY <1>8 DEF EffectDelay, AfterBlock
  <2>2. nodeList'[eletempIndex] = height - blockEffectDelay /\ height % BroadcastInterval = blockEffectDelay
    BY <1>0, <1>8 DEF EffectDelay, EffectBlock, TypeOK
  <2>3. PaidInv /\ Seen = height - 1 /\ Seen' = height
    BY <1>7, <2>1
  <2>4. paid' = paid /\ eletempIndex' = eletempIndex
    BY <1>8 DEF EffectDelay, eletempIndex
  <2>5. \A b \in Broadcasts : b \in Nat /\ (b + electionNetEffterTime <= Seen => b + electionNetEffterTime <= Seen')
    BY <1>0, <2>3, Interval, SchedulerAssumption DEF Broadcasts
  <2>6. PaidInv'
    BY <2>2, <2>3, <2>4, <2>5 DEF PaidInv
  <2> QED
    BY <1>7, <2>1, <2>6
<1>9. CASE ElectionNetEffect
  <2>1. loopPc = "block" /\ UNCHANGED <<chainVars, BlockInsertch, ch2, calm>> /\ loopPc' \in {"select", "notify"}
    BY <1>9 DEF ElectionNetEffect, TakeEffect, AfterBlock
  <2>2. height > BroadcastInterval /\ height % BroadcastInterval = electionNetEffterTime
    BY <1>9 DEF ElectionNetEffect, EffectTime
  <2>3. PaidInv /\ Seen = height - 1 /\ Seen' = height
    BY <1>7, <2>1
  <2>4. Window(Seen) /\ Seen - (Seen % BroadcastInterval) = height - electionNetEffterTime
    BY <1>0, <2>2, <2>3, WindowStep, Interval
  <2>5. nodeList[eletempIndex] \in {None, height - electionNetEffterTime}
    BY <2>3, <2>4 DEF PaidInv
  <2>6. \A b \in Broadcasts : b \in Nat /\ paid[b] \in Nat /\ paid[b] <= 1
                              /\ (paid[b] = 1 => b + electionNetEffterTime <= height - 1)
    BY <2>3, SchedulerAssumption DEF PaidInv, Broadcasts, TypeOK
  <2>7. \/ paid' = paid
        \/ /\ nodeList[eletempIndex] # None
           /\ paid' = [paid EXCEPT ![nodeList[eletempIndex]] = @ + 1]
    BY <1>9 DEF ElectionNetEffect, TakeEffect, OfflineListMortgageDeal
  <2>8. ASSUME NEW b \in Broadcasts
        PROVE  paid'[b] <= 1 /\ (paid'[b] = 1 => b + electionNetEffterTime <= height)
    <3>1. CASE paid' = paid
      BY <1>0, <2>6, <3>1, Interval
    <3>2. CASE b = height - electionNetEffterTime
      <4>1. paid[b] = 0
        BY <1>0, <2>6, <3>2, Interval
      <4> QED
        BY <1>0, <2>5, <2>7, <3>2, <4>1, Interval DEF TypeOK
    <3>3. CASE paid' # paid /\ b # height - electionNetEffterTime
      <4>1. paid'[b] = paid[b]
        BY <2>5, <2>7, <3>3 DEF TypeOK
      <4> QED
        BY <1>0, <2>6, <4>1, Interval
    <3> QED
      BY <3>1, <3>2, <3>3
  <2>9. ~Window(Seen)'
    BY <1>0, <2>2, <2>3, Interval DEF Window
  <2> QED
    BY <1>7, <2>1, <2>3, <2>8, <2>9 DEF PaidInv
<1>10. CASE OtherBlock
  <2>1. loopPc = "block" /\ UNCHANGED <<chainVars, BlockInsertch, ch2, calm>> /\ loopPc' \in {"select", "notify"}
    BY <1>10 DEF OtherBlock, AfterBlock
  <2>2. PaidInv /\ Seen = height - 1 /\ Seen' = height
    BY <1>7, <2>1
  <2>3. paid' = paid /\ nodeList' = nodeList /\ eletempIndex' = eletempIndex
    BY <1>10 DEF OtherBlock, eletempIndex, listVars
  <2>4. \A b \in Broadcasts : b \in Nat /\ (b + electionNetEffterTime <= Seen => b + electionNetEffterTime <= Seen')
    BY <1>0, <2>2, Interval, SchedulerAssumption DEF Broadcasts
  <2>5. Window(height) => Window(Seen) /\ Seen - (Seen % BroadcastInterval) = height - (height % BroadcastInterval)
    <3> SUFFICES ASSUME Window(height)
                 PROVE  Window(Seen) /\ Seen - (Seen % BroadcastInterval) = height - (height % BroadcastInterval)
      OBVIOUS
    <3>1. height > BroadcastInterval /\ height % BroadcastInterval \in blockEffectDelay + 1 .. electionNetEffterTime
      BY <1>0, <1>10, Interval DEF OtherBlock, Window
    <3> QED
      BY <1>0, <2>2, <3>1, WindowStep
  <2>6. PaidInv'
    BY <2>2, <2>3, <2>4, <2>5 DEF PaidInv, Window
  <2> QED
    BY <1>7, <2>1, <2>6
<1>11. CASE NotifyVerifier
  <2>1. UNCHANGED <<chainVars, BlockInsertch, ch2, ch1, genVars, listVars, calm>> /\ loopPc = "notify" /\ loopPc' = "select"
    BY <1>11 DEF NotifyVerifier
  <2>2. ch2 = 0 /\ OneBlock /\ PaidInv
    BY <1>0, <2>1 DEF CalmInv, Fresh
  <2>3. Seen' = Seen
    BY <2>1 DEF Seen, Pending, chainVars
  <2>4. OneBlock'
    BY <2>1, <2>2 DEF OneBlock, Pending, chainVars, genVars
  <2>5. PaidInv'
    BY <2>1, <2>2, <2>3 DEF PaidInv, Window, eletempIndex, listVars
  <2> QED
    BY <2>1, <2>2, <2>4, <2>5 DEF CalmInv
<1>12. CASE TakeMainNodeList
  <2>1. Fresh /\ ch2' = 0 /\ loopPc' = "gen"
    BY <1>12 DEF TakeMainNodeList, CalmInv
  <2>2. eletempIndex' = eleEffterIndex /\ eleEffterIndex' = eletempIndex /\ eletempIndex # eleEffterIndex
    BY <1>0, <1>12 DEF TakeMainNodeList, eletempIndex
  <2>3. building'[eleEffterIndex] = 0 /\ building'[eletempIndex] = 1 /\ nodeList'[eleEffterIndex] = None
    BY <1>0, <1>12, <2>1, <2>2 DEF TakeMainNodeList, Fresh
  <2>4. Waiting'
    BY <1>0, <1>12, <2>1, <2>2, <2>3 DEF TakeMainNodeList, Fresh, Waiting, chainVars
  <2> QED
    BY <2>1, <2>4 DEF CalmInv
<1>13. CASE TakeToken
  <2>1. UNCHANGED <<chainVars, BlockInsertch, ch2, genVars, listVars, calm>> /\ loopPc = "gen" /\ loopPc' = "select" /\ ch1 = 1
    BY <1>13 DEF TakeToken
  <2>2. ch2 = 0 /\ Waiting
    BY <1>0, <2>1 DEF CalmInv, Fresh
  <2>3. ~Pending'
    BY <2>1, <2>2 DEF Waiting, Pending, chainVars
  <2>4. OneBlock'
    BY <2>1, <2>2, <2>3 DEF Waiting, OneBlock, chainVars
  <2>5. PaidInv'
    BY <2>1, <2>2 DEF Waiting, PaidInv, eletempIndex, listVars
  <2> QED
    BY <2>1, <2>2, <2>4, <2>5 DEF CalmInv
<1>14. CASE UNCHANGED vars
  BY <1>14 DEF vars, chainVars, genVars, listVars, CalmInv, Fresh, Waiting, OneBlock, PaidInv, Seen, Pending,
               Window, eletempIndex
<1> QED
  BY <1>1, <1>2, <1>3, <1>4, <1>5, <1>6, <1>8, <1>9, <1>10, <1>11, <1>12, <1>13, <1>14
     DEF Next, HandleBlock
\* A list's deposits are paid back once (offlineListmortgagedeal), on every chain
\* whose blocks come no faster than they are handled, wherever the block sync ended:
\* a list is paid when it takes effect, and a buffer takes effect only after a list
\* of that very period was copied into it, or while nothing was.
THEOREM PaidOnce == Spec => []ExitsPaidOnce
<1>1. Init => Built /\ CalmInv
  BY BuiltInit, CalmInit
<1>2. TypeOK /\ Built /\ CalmInv /\ [Next]_vars => Built' /\ CalmInv'
  BY BuiltStep, CalmStep
<1>3. TypeOK /\ CalmInv => ExitsPaidOnce
  BY DEF TypeOK, CalmInv, Fresh, Waiting, PaidInv, ExitsPaidOnce
<1> QED
  BY <1>1, <1>2, <1>3, TypeCorrect, PTL DEF Spec
-----------------------------------------------------------------------------
\* The block sync ends outside the window in which this period's list has been
\* copied and is not in effect: a node that starts inside it finds the buffer empty.
SyncOutsideWindow == \A h \in StartHeights : ~Window(h)

LEMMA ListInit == Init => ListInv
  BY DEF Init, ListInv

LEMMA ListStep ==
    ASSUME SyncOutsideWindow
    PROVE  TypeOK /\ Built /\ CalmInv /\ ListInv /\ [Next]_vars => ListInv'
<1> SUFFICES ASSUME TypeOK, Built, CalmInv, ListInv, [Next]_vars, calm'
             PROVE  ListInv'
  BY DEF ListInv
<1>0. eletempIndex \in {0, 1} /\ eleEffterIndex \in {0, 1} /\ height \in Nat /\ ch2 \in {0, 1}
  BY SchedulerAssumption DEF eletempIndex, TypeOK
<1>1. CASE InsertBlock
  <2>1. calm /\ Quiet /\ height' = height + 1 /\ inserterPc' = "notify"
    BY <1>1 DEF InsertBlock, Quiet, Built
  <2>2. UNCHANGED <<BlockInsertch, ch2, ch1, loopPc, genVars, listVars, roleVars>>
    BY <1>1 DEF InsertBlock
  <2>3. Seen = height /\ Seen' = height
    BY <1>0, <2>1, <2>2 DEF Quiet, Seen, Pending
  <2> QED
    BY <2>1, <2>2, <2>3 DEF ListInv, Quiet, Window, eletempIndex, listVars, roleVars
<1>2. CASE UNCHANGED <<height, ch2, listVars, roleVars, calm, loopPc, inserterPc, BlockInsertch>>
  BY <1>2 DEF ListInv, Seen, Pending, Window, eletempIndex, listVars, roleVars
<1>3. CASE Setblockinsernotify
  <2>1. Seen' = Seen
    BY <1>3 DEF Seen, Pending, Setblockinsernotify
  <2> QED
    BY <1>3, <2>1 DEF Setblockinsernotify, ListInv, Window, eletempIndex, listVars, roleVars
<1>4. CASE Start
  BY <1>4 DEF Start, ListInv, CalmInv
<1>5. CASE TakeBlock
  <2>1. Seen' = Seen
    BY <1>5 DEF Seen, Pending, TakeBlock, chainVars
  <2> QED
    BY <1>5, <2>1 DEF TakeBlock, ListInv, Window, eletempIndex, chainVars, listVars, roleVars
<1>6. CASE NotifyVerifier
  <2>1. Seen' = Seen
    BY <1>6 DEF Seen, Pending, NotifyVerifier, chainVars
  <2> QED
    BY <1>6, <2>1 DEF NotifyVerifier, ListInv, Window, eletempIndex, chainVars, listVars, roleVars
<1>7. ASSUME loopPc = "block", UNCHANGED <<chainVars, BlockInsertch, ch2, calm>>, loopPc' \in {"select", "notify"}
      PROVE  /\ ch2 = 0 /\ ch2' = 0 /\ calm
             /\ Seen = height - 1 /\ Seen' = height /\ height > 0
             /\ \A i \in {0, 1} : building[i] = 0
  <2>1. ch2 = 0 /\ OneBlock
    BY <1>0, <1>7 DEF CalmInv, Fresh
  <2>2. inserterPc = "idle" /\ BlockInsertch = 0 /\ height > 0 /\ \A i \in {0, 1} : building[i] = 0
    BY <1>7, <2>1 DEF OneBlock, Pending, TypeOK
  <2> QED
    BY <1>7, <2>1, <2>2 DEF Seen, Pending, chainVars
<1>8. CASE EffectDelay
  <2>1. loopPc = "block" /\ UNCHANGED <<chainVars, BlockInsertch, ch2, calm>> /\ loopPc' \in {"select", "notify"}
    BY <1>8 DEF EffectDelay, AfterBlock
  <2>2. ch2 = 0 /\ ch2' = 0 /\ Seen = height - 1 /\ Seen' = height /\ height > 0
    BY <1>7, <2>1
  <2>3. nodeList'[eletempIndex] = height - blockEffectDelay /\ height % BroadcastInterval = blockEffectDelay
        /\ nodeList'[eleEffterIndex] = nodeList[eleEffterIndex]
    BY <1>0, <1>8 DEF EffectDelay, EffectBlock, TypeOK, eletempIndex
  <2>4. eletempIndex' = eletempIndex /\ eleEffterIndex' = eleEffterIndex /\ nodetype' = nodetype
    BY <1>8 DEF EffectDelay, eletempIndex, roleVars
  <2>5. ListAt(height) = ListAt(height - 1)
    BY <1>0, <2>2, <2>3, ListAtStep, Interval
  <2> QED
    BY <2>1, <2>2, <2>3, <2>4, <2>5 DEF ListInv
<1>9. CASE ElectionNetEffect
  <2>1. loopPc = "block" /\ UNCHANGED <<chainVars, BlockInsertch, ch2, calm>> /\ loopPc' \in {"select", "notify"}
    BY <1>9 DEF ElectionNetEffect, TakeEffect, AfterBlock
  <2>2. height > BroadcastInterval /\ height % BroadcastInterval = electionNetEffterTime
    BY <1>9 DEF ElectionNetEffect, EffectTime
  <2>3. ch2 = 0 /\ ch2' = 0 /\ Seen = height - 1 /\ Seen' = height /\ height > 0
        /\ \A i \in {0, 1} : building[i] = 0
    BY <1>7, <2>1
  <2>4. Window(Seen) /\ Seen - (Seen % BroadcastInterval) = height - electionNetEffterTime
    BY <1>0, <2>2, <2>3, WindowStep, Interval
  <2>5. nodeList[eletempIndex] = height - electionNetEffterTime
    BY <2>1, <2>3, <2>4 DEF ListInv
  <2>6. ListAt(height) = height - electionNetEffterTime
    BY <1>0, <2>2, <2>3, ListAtStep, Interval
  <2>7. nodeList' = nodeList /\ eleEffterIndex' = eletempIndex /\ nodetype' = GetIDType(ele[eletempIndex])
    BY <1>9 DEF ElectionNetEffect, TakeEffect, StartTask
  <2>8. ele[eletempIndex] = nodeList[eletempIndex]
    BY <1>0, <2>3 DEF Built
  <2>9. ~Window(Seen)'
    BY <1>0, <2>2, <2>3, Interval DEF Window
  <2> QED
    BY <2>1, <2>3, <2>5, <2>6, <2>7, <2>8, <2>9 DEF ListInv, GetIDType
<1>10. CASE OtherBlock
  <2>1. loopPc = "block" /\ UNCHANGED <<chainVars, BlockInsertch, ch2, calm>> /\ loopPc' \in {"select", "notify"}
    BY <1>10 DEF OtherBlock, AfterBlock
  <2>2. ch2 = 0 /\ ch2' = 0 /\ Seen = height - 1 /\ Seen' = height /\ height > 0
    BY <1>7, <2>1
  <2>3. nodeList' = nodeList /\ eletempIndex' = eletempIndex /\ eleEffterIndex' = eleEffterIndex /\ nodetype' = nodetype
    BY <1>10 DEF OtherBlock, eletempIndex, listVars, roleVars
  <2>4. ListAt(height) = ListAt(height - 1)
    BY <1>0, <1>10, <2>2, ListAtStep, Interval DEF OtherBlock, EffectTime
  <2>5. Window(height) => Window(Seen) /\ Seen - (Seen % BroadcastInterval) = height - (height % BroadcastInterval)
    <3> SUFFICES ASSUME Window(height)
                 PROVE  Window(Seen) /\ Seen - (Seen % BroadcastInterval) = height - (height % BroadcastInterval)
      OBVIOUS
    <3>1. height > BroadcastInterval /\ height % BroadcastInterval \in blockEffectDelay + 1 .. electionNetEffterTime
      BY <1>0, <1>10, Interval DEF OtherBlock, Window
    <3> QED
      BY <1>0, <2>2, <3>1, WindowStep
  <2>6. Window(Seen)' => Window(height)
    BY <2>2 DEF Window
  <2> QED
    BY <2>1, <2>2, <2>3, <2>4, <2>5, <2>6 DEF ListInv
<1>11. CASE TakeMainNodeList
  <2>1. ch2 = 1 /\ Fresh /\ ch2' = 0 /\ loopPc' = "gen" /\ calm /\ height' = height
    BY <1>11 DEF TakeMainNodeList, CalmInv, chainVars
  <2>2. ~Pending'
    BY <1>11, <2>1 DEF TakeMainNodeList, Fresh, Pending, chainVars
  <2>3. nodeList'[eletempIndex] = ListAt(height) /\ eleEffterIndex' = eletempIndex
    BY <1>0, <1>11 DEF TakeMainNodeList, ListAt, TypeOK
  <2> QED
    BY <2>1, <2>2, <2>3 DEF ListInv, Seen
<1>12. CASE TakeToken
  <2>1. UNCHANGED <<chainVars, BlockInsertch, ch2, genVars, listVars, calm>> /\ loopPc = "gen" /\ loopPc' = "select" /\ ch1 = 1
    BY <1>12 DEF TakeToken
  <2>2. ch2 = 0 /\ Waiting /\ ch2' = 0 /\ height \in StartHeights /\ height' = height
    BY <1>0, <2>1 DEF CalmInv, ListInv, Fresh, chainVars
  <2>3. ~Pending /\ ~Pending'
    BY <2>1, <2>2 DEF Waiting, Pending, chainVars
  <2>4. Seen' = height /\ Seen = height /\ ~Window(Seen)'
    BY <2>2, <2>3 DEF Seen, SyncOutsideWindow, Window
  <2>5. building[eleEffterIndex] = 0
    BY <1>0, <2>1, <2>2 DEF Waiting, TypeOK
  <2>6. nodetype' = GetIDType(nodeList[eleEffterIndex])
    BY <1>0, <1>12, <2>5 DEF TakeToken, StartTask, Built
  <2> QED
    BY <2>1, <2>2, <2>4, <2>6 DEF ListInv, GetIDType, listVars
<1>13. ASSUME Signal \/ (\E i \in {0, 1} : GenNetwork(i)) \/ UNCHANGED vars
       PROVE  UNCHANGED <<height, ch2, listVars, roleVars, calm, loopPc, inserterPc, BlockInsertch>>
  BY <1>13 DEF Signal, GenNetwork, vars, chainVars
<1> QED
  BY <1>1, <1>2, <1>3, <1>4, <1>5, <1>6, <1>8, <1>9, <1>10, <1>11, <1>12, <1>13
     DEF Next, HandleBlock

\* The right list is in effect whenever the scheduler is at rest: for every chain,
\* interval, delays and roles, when blocks come no faster than they are handled and
\* the block sync did not end between a list's copy and its effect
\* (calcbcnodeblocknumber, the two buffers, startTask).
THEOREM RightList ==
    ASSUME SyncOutsideWindow
    PROVE  Spec => []ListInEffect
<1>1. Init => Built /\ CalmInv /\ ListInv
  BY BuiltInit, CalmInit, ListInit
<1>2. TypeOK /\ (Built /\ CalmInv /\ ListInv) /\ [Next]_vars => (Built /\ CalmInv /\ ListInv)'
  BY BuiltStep, CalmStep, ListStep
<1>3. TypeOK /\ Built /\ CalmInv /\ ListInv => ListInEffect
  <2> SUFFICES ASSUME TypeOK, Built, ListInv, calm, Quiet
               PROVE  /\ nodeList[eleEffterIndex] = InEffect(height)
                      /\ ele[eleEffterIndex] = InEffect(height)
                      /\ nodetype = RoleAt[InEffect(height)]
    BY DEF ListInEffect
  <2>1. Seen = height /\ ch2 = 0 /\ loopPc = "select"
    BY DEF Quiet, Seen, Pending
  <2>2. nodeList[eleEffterIndex] = ListAt(height) /\ nodetype = GetIDType(nodeList[eleEffterIndex])
    BY <2>1 DEF ListInv
  <2>3. ListAt(height) = InEffect(height) /\ ListAt(height) \in Broadcasts
    BY InEffectIsListAt, ListAtIsBroadcast DEF TypeOK
  <2>4. ele[eleEffterIndex] = nodeList[eleEffterIndex]
    BY DEF Quiet, Built, TypeOK
  <2>5. ListAt(height) # None
    BY <2>3, SchedulerAssumption DEF Broadcasts, None
  <2> QED
    BY <2>2, <2>3, <2>4, <2>5 DEF GetIDType
<1> QED
  BY <1>1, <1>2, <1>3, TypeCorrect, PTL DEF Spec
=============================================================================
