----------------------------- MODULE BootProofs -----------------------------
(***************************************************************************)
(* Proofs about Boot: as long as no two goroutines meet in Need_Ack, the   *)
(* answers that come late neither pile up nor outlive the next call, for   *)
(* every number of calls, faults and messages in flight.                   *)
(***************************************************************************)
EXTENDS Boot, SequenceTheorems, WellFoundedInduction, TLAPS

IPs == ToSet(Boots)
SeqNos == [ask : Asks, call : Nat, ip : IPs]
Answers == [call : Nat, len : Nat]

\* A call asks two nodes.
TwoAsked == asked \in Seq(IPs) /\ Len(asked) = 2 /\ asked[1] # asked[2]

\* The types, as far as the counting needs them.
PeerType ==
    /\ isDefault \in BOOLEAN
    /\ peerHeight \in [IPs -> Nat]
    /\ net \subseteq SeqNos
    /\ spent \in [grow : Nat, faults : Nat]
    /\ races \in Nat

SearchType ==
    /\ pc \in {"stat", "wait", "strike", "decide", "done", "crashed"}
    /\ stage \in {"zero", "lists", "check", "other"}
    /\ stage # "other" => isDefault
    /\ ask \in Asks
    /\ call \in [Asks -> Nat]
    /\ waits \in Nat
    /\ pc = "wait" => waits < 2
    /\ pc \in {"wait", "strike", "decide"} => TwoAsked
    /\ got \in Seq(Answers)

AckType ==
    /\ needAck \in Seq(SeqNos)
    /\ queue \in [Asks -> Seq(Answers)]
    /\ \A h \in handlers :
          h.seq \in SeqNos /\ h.rsp \in Answers /\ h.rsp.call = h.seq.call /\ h.at \in Nat \ {0}

TypeInv == PeerType /\ SearchType /\ AckType

-----------------------------------------------------------------------------
\* s is what is left of the numbers a and b of a call.
PartOf(s, a, b) ==
    /\ Len(s) <= 2
    /\ \A i \in 1 .. Len(s) : s[i] = a \/ s[i] = b
    /\ \A i, j \in 1 .. Len(s) : s[i] = s[j] => i = j

Open == pc \in {"wait", "strike"}

\* The waits that a call for a has before it, and the answers it may still get.
Left(a) == IF pc = "wait" /\ a = ask THEN 2 - waits ELSE 0
Due(a) == IF a = ask THEN Len(needAck) ELSE 0

\* Need_Ack holds numbers of the call in progress only.
NeedInv ==
    IF Open THEN PartOf(needAck, SeqNo(ask, call[ask], asked[1]), SeqNo(ask, call[ask], asked[2]))
    ELSE needAck = <<>>

\* One goroutine at most is halfway, and its index is right.
AloneInv ==
    \A h \in handlers :
        handlers = {h} /\ h.at \in DOMAIN needAck /\ needAck[h.at] = h.seq

\* Each wait that is left takes one of the blocked goroutines away.
RoomInv == \A a \in Asks : Len(queue[a]) + Due(a) <= 2 + Left(a)

\* Those of the call before are first in the queue, and no more than the waits
\* that are left.
AgeInv ==
    \A a \in Asks : \A i \in 1 .. Len(queue[a]) :
        /\ queue[a][i].call = call[a] \/ queue[a][i].call = call[a] - 1
        /\ i > Left(a) => queue[a][i].call = call[a]

GotInv == \A i \in 1 .. Len(got) : got[i].call >= call[ask] - 1

CalmInv == pc # "crashed" /\ NeedInv /\ AloneInv /\ RoomInv /\ AgeInv /\ GotInv

BootInv == TypeInv /\ (races = 0 => CalmInv)

-----------------------------------------------------------------------------
(* Need_Ack as a sequence of at most two numbers.                          *)

\* A set of numbers that is not empty has a least one.
LEMMA LeastNumber ==
    ASSUME NEW T, T # {}, T \subseteq Nat
    PROVE  \E x \in T : \A y \in T : x <= y
<1>1. PICK x \in T : \A y \in T : ~(<<y, x>> \in OpToRel(<, Nat))
  BY WFMin, NatLessThanWellFounded
<1>2. \A y \in T : ~(y < x)
  BY <1>1 DEF OpToRel
<1> QED
  BY <1>2

\* RemoveAt leaves the elements before and after the one it removes.
LEMMA RemoveAtElements ==
    ASSUME NEW S, NEW s \in Seq(S), NEW i \in 1 .. Len(s)
    PROVE  /\ RemoveAt(s, i) \in Seq(S)
           /\ Len(RemoveAt(s, i)) = Len(s) - 1
           /\ \A j \in 1 .. Len(s) - 1 :
                 RemoveAt(s, i)[j] = IF j < i THEN s[j] ELSE s[j + 1]
<1> DEFINE a == SubSeq(s, 1, i - 1)
           b == SubSeq(s, i + 1, Len(s))
<1>1. Len(s) \in Nat /\ \A j \in 1 .. Len(s) : s[j] \in S
  OBVIOUS
<1>2. /\ a \in Seq(S) /\ Len(a) = i - 1
      /\ \A j \in 1 .. i - 1 : a[j] = s[j]
  <2>1. \A j \in 1 .. i - 1 : s[j] \in S
    BY <1>1
  <2>2. /\ a \in Seq(S)
        /\ Len(a) = IF 1 <= i - 1 THEN (i - 1) - 1 + 1 ELSE 0
        /\ \A j \in 1 .. (i - 1) - 1 + 1 : a[j] = s[1 + j - 1]
    BY <2>1, <1>1, SubSeqProperties
  <2> HIDE DEF a
  <2> QED
    BY <2>2, <1>1
<1>3. /\ b \in Seq(S) /\ Len(b) = Len(s) - i
      /\ \A j \in 1 .. Len(s) - i : b[j] = s[i + j]
  <2>1. \A j \in i + 1 .. Len(s) : s[j] \in S
    BY <1>1
  <2>2. /\ b \in Seq(S)
        /\ Len(b) = IF i + 1 <= Len(s) THEN Len(s) - (i + 1) + 1 ELSE 0
        /\ \A j \in 1 .. Len(s) - (i + 1) + 1 : b[j] = s[i + 1 + j - 1]
    BY <2>1, <1>1, SubSeqProperties
  <2> HIDE DEF b
  <2> QED
    BY <2>2, <1>1
<1>4. RemoveAt(s, i) = a \o b
  BY DEF RemoveAt
<1> HIDE DEF a, b
<1>5. /\ a \o b \in Seq(S)
      /\ Len(a \o b) = Len(a) + Len(b)
      /\ \A j \in 1 .. Len(a) + Len(b) :
            (a \o b)[j] = IF j <= Len(a) THEN a[j] ELSE b[j - Len(a)]
  BY <1>2, <1>3, ConcatProperties
<1> QED
  BY <1>1, <1>2, <1>3, <1>4, <1>5

\* Cutting out one number leaves a part of the others.
LEMMA CutPart ==
    ASSUME NEW S, NEW a, NEW b, NEW s \in Seq(S), PartOf(s, a, b), NEW i \in 1 .. Len(s)
    PROVE  /\ PartOf(RemoveAt(s, i), a, b)
           /\ \A j \in 1 .. Len(RemoveAt(s, i)) : RemoveAt(s, i)[j] # s[i]
<1>1. PICK t : t = RemoveAt(s, i)
  OBVIOUS
<1>2. /\ t \in Seq(S)
      /\ Len(t) = Len(s) - 1
      /\ \A j \in 1 .. Len(s) - 1 : t[j] = IF j < i THEN s[j] ELSE s[j + 1]
  BY <1>1, RemoveAtElements
<1>3. PartOf(t, a, b)
  BY <1>2 DEF PartOf
<1>4. \A j \in 1 .. Len(t) : t[j] # s[i]
  BY <1>2 DEF PartOf
<1> QED
  BY <1>1, <1>3, <1>4

\* RemoveFirst on numbers that are all different.
LEMMA RemoveNumber ==
    ASSUME NEW S, NEW a, NEW b, NEW s \in Seq(S), PartOf(s, a, b), NEW e
    PROVE  /\ RemoveFirst(s, e) \in Seq(S)
           /\ PartOf(RemoveFirst(s, e), a, b)
           /\ \A j \in 1 .. Len(RemoveFirst(s, e)) : RemoveFirst(s, e)[j] # e
<1>1. CASE \E i \in 1 .. Len(s) : s[i] = e
  <2>1. PICK i \in 1 .. Len(s) : s[i] = e
    BY <1>1
  <2>2. {k \in 1 .. Len(s) : s[k] = e} = {i}
    BY <2>1 DEF PartOf
  <2>3. Min({i}) = i
    BY <2>1 DEF Min
  <2>4. RemoveFirst(s, e) = RemoveAt(s, i)
    BY <1>1, <2>2, <2>3 DEF RemoveFirst, SelectInSeq
  <2> QED
    BY <2>1, <2>4, CutPart, RemoveAtElements
<1>2. CASE ~ \E i \in 1 .. Len(s) : s[i] = e
  BY <1>2 DEF RemoveFirst
<1> QED
  BY <1>1, <1>2

\* RemoveFirst of any sequence of numbers is one.
LEMMA RemoveFirstType ==
    ASSUME NEW S, NEW s \in Seq(S), NEW e
    PROVE  RemoveFirst(s, e) \in Seq(S)
<1>1. CASE \E i \in 1 .. Len(s) : s[i] = e
  <2> DEFINE I == {k \in 1 .. Len(s) : s[k] = e}
  <2>1. I # {} /\ I \subseteq Nat
    BY <1>1
  <2>2. PICK i \in I : \A k \in I : i <= k
    BY <2>1, LeastNumber
  <2>3. Min(I) \in I
    BY <2>2 DEF Min
  <2>4. RemoveFirst(s, e) = RemoveAt(s, Min(I))
    BY <1>1 DEF RemoveFirst, SelectInSeq
  <2> QED
    BY <2>3, <2>4, RemoveAtElements
<1>2. CASE ~ \E i \in 1 .. Len(s) : s[i] = e
  BY <1>2 DEF RemoveFirst
<1> QED
  BY <1>1, <1>2

\* The strike at the end of a call takes out both of its numbers.
LEMMA StrikesBoth ==
    ASSUME NEW S, NEW a, NEW b, NEW s \in Seq(S), PartOf(s, a, b)
    PROVE  RemoveFirst(RemoveFirst(s, a), b) = <<>>
<1>1. PICK t : t = RemoveFirst(s, a)
  OBVIOUS
<1>2. t \in Seq(S) /\ PartOf(t, a, b) /\ \A j \in 1 .. Len(t) : t[j] # a
  BY <1>1, RemoveNumber
<1>3. PICK u : u = RemoveFirst(t, b)
  OBVIOUS
<1>4. u \in Seq(S) /\ PartOf(u, a, b) /\ \A j \in 1 .. Len(u) : u[j] # b
  BY <1>2, <1>3, RemoveNumber
<1>5. \A j \in 1 .. Len(u) : u[j] # a
  <2>1. CASE \E i \in 1 .. Len(t) : t[i] = b
    <3>1. PICK i \in 1 .. Len(t) : t[i] = b
      BY <2>1
    <3>2. Len(t) = 1
      <4>1. Len(t) \in Nat /\ Len(t) <= 2 /\ Len(t) >= 1
        BY <3>1, <1>2 DEF PartOf
      <4>2. Len(t) # 2
        <5> SUFFICES ASSUME Len(t) = 2 PROVE FALSE
          OBVIOUS
        <5>1. t[1] = b /\ t[2] = b
          BY <1>2 DEF PartOf
        <5> QED
          BY <5>1, <1>2 DEF PartOf
      <4>3. \A n \in Nat : n <= 2 /\ n >= 1 /\ n # 2 => n = 1
        OBVIOUS
      <4> QED
        BY <4>1, <4>2, <4>3
    <3>3. {k \in 1 .. Len(t) : t[k] = b} = {i}
      BY <3>1, <1>2 DEF PartOf
    <3>4. Min({i}) = i
      BY <3>1 DEF Min
    <3>5. u = RemoveAt(t, i)
      BY <1>3, <2>1, <3>3, <3>4 DEF RemoveFirst, SelectInSeq
    <3>6. Len(u) = 0
      <4>1. Len(u) = Len(t) - 1
        BY <3>5, <1>2, RemoveAtElements
      <4> QED
        BY <3>2, <4>1
    <3> QED
      BY <3>6
  <2>2. CASE ~ \E i \in 1 .. Len(t) : t[i] = b
    BY <2>2, <1>2, <1>3 DEF RemoveFirst
  <2> QED
    BY <2>1, <2>2
<1>6. Len(u) = 0
  BY <1>4, <1>5 DEF PartOf
<1> QED
  BY <1>1, <1>3, <1>4, <1>6
-----------------------------------------------------------------------------
(* The steps.                                                              *)

\* The search begins with nothing asked.
LEMMA InitBoot == Init => BootInv
<1> SUFFICES ASSUME Init PROVE BootInv
  OBVIOUS
<1>1. PeerType
  <2>1. 0 .. MaxHeight \subseteq Nat
    BY BoundsAssumption
  <2>2. spent \in [grow : Nat, faults : Nat]
    BY DEF Init
  <2> QED
    BY <2>1, <2>2 DEF Init, PeerType, IPs
<1>2. SearchType
  BY DEF Init, SearchType, Asks
<1>3. AckType
  BY DEF Init, AckType, Asks
<1>4. NeedInv /\ AloneInv
  BY DEF Init, NeedInv, AloneInv, Open
<1>5. RoomInv
  BY DEF Init, RoomInv, Due, Left
<1>6. AgeInv /\ GotInv
  BY DEF Init, AgeInv, GotInv
<1> QED
  BY <1>1, <1>2, <1>3, <1>4, <1>5, <1>6 DEF Init, BootInv, TypeInv, CalmInv

\* The numbers of a call to two nodes.
Numbers(a, n, list) == [i \in DOMAIN list |-> SeqNo(a, n, list[i])]

LEMMA NumbersType ==
    ASSUME NEW a \in Asks, NEW n \in Nat, NEW list \in Seq(IPs), Len(list) = 2,
           list[1] # list[2]
    PROVE  /\ Numbers(a, n, list) \in Seq(SeqNos)
           /\ Len(Numbers(a, n, list)) = 2
           /\ PartOf(Numbers(a, n, list), SeqNo(a, n, list[1]), SeqNo(a, n, list[2]))
<1>1. DOMAIN list = 1 .. 2 /\ \A i \in 1 .. 2 : list[i] \in IPs
  OBVIOUS
<1>2. \A i \in 1 .. 2 : SeqNo(a, n, list[i]) \in SeqNos
  BY <1>1 DEF SeqNo, SeqNos
<1>3. SeqNo(a, n, list[1]) # SeqNo(a, n, list[2])
  BY DEF SeqNo
<1>4. PICK s : s = Numbers(a, n, list)
  OBVIOUS
<1>5. s = [i \in 1 .. 2 |-> SeqNo(a, n, list[i])]
  BY <1>1, <1>4 DEF Numbers
<1>6. s \in Seq(SeqNos) /\ Len(s) = 2
  BY <1>2, <1>5
<1>7. s[1] = SeqNo(a, n, list[1]) /\ s[2] = SeqNo(a, n, list[2])
  BY <1>5
<1>8. PartOf(s, SeqNo(a, n, list[1]), SeqNo(a, n, list[2]))
  <2>1. \A i \in 1 .. Len(s) : i = 1 \/ i = 2
    BY <1>6
  <2> QED
    BY <2>1, <1>3, <1>6, <1>7 DEF PartOf
<1> QED
  BY <1>4, <1>6, <1>8

\* A call begins: what was left over is at most one call old now.
LEMMA CallInv ==
    ASSUME BootInv, ~Open, NEW a \in Asks, NEW list \in Seq(IPs), Len(list) = 2,
           list[1] # list[2], Call(a, list), UNCHANGED stage
    PROVE  BootInv'
<1> USE DEF peerVars
<1>1. PICK n : n = call[a] + 1
  OBVIOUS
<1>2. n \in Nat /\ call[a] \in Nat /\ n = call[a] + 1
  BY <1>1 DEF BootInv, TypeInv, SearchType
<1>3. PICK s : s = Numbers(a, n, list)
  OBVIOUS
<1>4. /\ s \in Seq(SeqNos)
      /\ Len(s) = 2
      /\ PartOf(s, SeqNo(a, n, list[1]), SeqNo(a, n, list[2]))
  BY <1>2, <1>3, NumbersType
<1>5. /\ call' = [call EXCEPT ![a] = n] /\ ask' = a /\ asked' = list /\ waits' = 0
      /\ got' = <<>> /\ needAck' = needAck \o s /\ net' = net \cup ToSet(s)
      /\ pc' = "wait" /\ UNCHANGED <<isDefault, local, peerHeight, handlers, queue, spent>>
  BY <1>1, <1>3 DEF Call, Numbers
<1>6. PeerType'
  <2>1. ToSet(s) \subseteq SeqNos
    BY <1>4 DEF ToSet
  <2>2. races' \in Nat
    BY DEF Call, Enter, BootInv, TypeInv, PeerType
  <2> QED
    BY <1>5, <2>1, <2>2 DEF BootInv, TypeInv, PeerType
<1>7. SearchType'
  BY <1>2, <1>5 DEF BootInv, TypeInv, SearchType, TwoAsked
<1>8. AckType'
  BY <1>4, <1>5 DEF BootInv, TypeInv, AckType
<1>9. ASSUME races' = 0 PROVE CalmInv'
  <2>1. races = 0 /\ handlers = {}
    BY <1>9 DEF Call, Enter, BootInv, TypeInv, PeerType
  <2>2. CalmInv
    BY <2>1 DEF BootInv
  <2>3. needAck = <<>>
    BY <2>2 DEF CalmInv, NeedInv
  <2>4. needAck' = s
    BY <2>3, <1>4, <1>5, ConcatEmptySeq
  <2>5. call'[a] = n /\ \A b \in Asks : b # a => call'[b] = call[b]
    BY <1>5 DEF BootInv, TypeInv, SearchType
  <2>6. \A b \in Asks : Len(queue[b]) \in Nat /\ Len(queue[b]) <= 2
    BY <2>2, <2>3 DEF CalmInv, RoomInv, Open, Left, Due, BootInv, TypeInv, AckType
  <2>7. NeedInv'
    BY <1>4, <1>5, <2>4, <2>5 DEF NeedInv, Open
  <2>8. AloneInv'
    BY <1>5, <2>1 DEF AloneInv
  <2>9. RoomInv'
    <3>1. Due(a)' = 2 /\ Left(a)' = 2
      BY <1>4, <1>5, <2>4 DEF Left, Due
    <3>2. \A b \in Asks : b # a => Due(b)' = 0 /\ Left(b)' = 0
      BY <1>5 DEF Left, Due
    <3>3. queue' = queue
      BY <1>5
    <3> QED
      BY <3>1, <3>2, <3>3, <2>6 DEF RoomInv
  <2>10. AgeInv'
    <3>1. \A b \in Asks : \A i \in 1 .. Len(queue[b]) :
             queue[b][i].call = call[b]
      <4> SUFFICES ASSUME NEW b \in Asks, NEW i \in 1 .. Len(queue[b])
                   PROVE  queue[b][i].call = call[b]
        OBVIOUS
      <4>1. Left(b) = 0
        BY DEF Left, Open
      <4> QED
        BY <4>1, <2>2, <2>6 DEF CalmInv, AgeInv
    <3>2. Left(a)' = 2 /\ \A b \in Asks : b # a => Left(b)' = 0
      BY <1>5 DEF Left
    <3>3. queue' = queue
      BY <1>5
    <3>4. ASSUME NEW b \in Asks, NEW i \in 1 .. Len(queue'[b])
          PROVE  /\ queue'[b][i].call = call'[b] \/ queue'[b][i].call = call'[b] - 1
                 /\ i > Left(b)' => queue'[b][i].call = call'[b]
      <4>1. CASE b = a
        BY <4>1, <3>1, <3>2, <3>3, <3>4, <2>5, <2>6, <1>2
      <4>2. CASE b # a
        BY <4>2, <3>1, <3>3, <3>4, <2>5
      <4> QED
        BY <4>1, <4>2
    <3> QED
      BY <3>4 DEF AgeInv
  <2>11. GotInv'
    BY <1>5 DEF GotInv
  <2> QED
    BY <1>5, <2>7, <2>8, <2>9, <2>10, <2>11 DEF CalmInv
<1> QED
  BY <1>6, <1>7, <1>8, <1>9 DEF BootInv, TypeInv
\* The nodes to be found are two or three different ones.
LEMMA TargetsType ==
    isDefault \in BOOLEAN =>
        /\ Targets \in Seq(IPs)
        /\ Len(Targets) = IF isDefault THEN 2 ELSE 3
        /\ \A i, j \in 1 .. Len(Targets) : i < j => Targets[i] # Targets[j]
<1>1. /\ Boots \in Seq(IPs) /\ Len(Boots) = 3
      /\ \A i \in 1 .. 3 : Boots[i] \in IPs
      /\ \A i, j \in 1 .. 3 : Boots[i] = Boots[j] => i = j
  <2>1. Boots \in Seq(IPs) /\ Len(Boots) = 3 /\ IsInjective(Boots)
    BY BootsAssumption DEF IPs
  <2>2. DOMAIN Boots = 1 .. 3
    BY <2>1
  <2> QED
    BY <2>1, <2>2 DEF IsInjective
<1>2. PICK s : s = SubSeq(Boots, 1, 2)
  OBVIOUS
<1>3. /\ s \in Seq(IPs)
      /\ Len(s) = IF 1 <= 2 THEN 2 - 1 + 1 ELSE 0
      /\ \A i \in 1 .. 2 - 1 + 1 : s[i] = Boots[1 + i - 1]
  <2>1. \A i \in 1 .. 2 : Boots[i] \in IPs
    BY <1>1
  <2> QED
    BY <1>2, <2>1, SubSeqProperties
<1>4. Len(s) = 2 /\ s[1] = Boots[1] /\ s[2] = Boots[2]
  BY <1>3
<1>5. CASE isDefault
  <2>1. Targets = s
    BY <1>2, <1>5 DEF Targets
  <2>2. \A i, j \in 1 .. 2 : i < j => i = 1 /\ j = 2
    OBVIOUS
  <2>3. Boots[1] # Boots[2]
    BY <1>1
  <2> QED
    BY <2>1, <2>2, <2>3, <1>3, <1>4, <1>5
<1>6. CASE ~isDefault
  <2>1. Targets = Boots
    BY <1>6 DEF Targets
  <2>2. \A i, j \in 1 .. 3 : i < j => i # j
    OBVIOUS
  <2> QED
    BY <2>1, <2>2, <1>1, <1>6
<1> QED
  BY <1>5, <1>6

\* Every call waits twice.
LEMMA WaitsTwice == TypeInv /\ pc = "wait" => Waits = 2
  BY DEF TypeInv, SearchType, TwoAsked, Waits

\* Steps outside a call.
LEMMA QuietInv ==
    ASSUME BootInv, PeerType', UNCHANGED <<ask, asked, call, waits, got, needAck, handlers,
                                           queue, races, isDefault>>,
           pc' = pc \/ (pc = "decide" /\ pc' \in {"stat", "done"}),
           stage' = stage \/ (stage # "other" /\ stage' \in {"lists", "check"})
    PROVE  BootInv'
<1>1. SearchType'
  BY DEF BootInv, TypeInv, SearchType, TwoAsked
<1>2. AckType'
  BY DEF BootInv, TypeInv, AckType
<1>3. ASSUME CalmInv PROVE CalmInv'
  <2>1. \A a : Left(a)' = Left(a) /\ Due(a)' = Due(a)
    BY DEF Left, Due
  <2>2. NeedInv'
    BY <1>3 DEF CalmInv, NeedInv, Open
  <2>3. AloneInv' /\ GotInv'
    BY <1>3 DEF CalmInv, AloneInv, GotInv
  <2>4. RoomInv'
    BY <1>3, <2>1 DEF CalmInv, RoomInv
  <2>5. AgeInv'
    BY <1>3, <2>1 DEF CalmInv, AgeInv
  <2> QED
    BY <1>3, <2>2, <2>3, <2>4, <2>5 DEF CalmInv
<1> QED
  BY <1>1, <1>2, <1>3 DEF BootInv, TypeInv

\* An answer is taken: the oldest, and one wait less is left.
LEMMA TakeAnswerInv == BootInv /\ TakeAnswer => BootInv'
<1> SUFFICES ASSUME BootInv, TakeAnswer PROVE BootInv'
  OBVIOUS
<1> USE DEF peerVars
<1>1. PICK q : q = queue[ask]
  OBVIOUS
<1>2. q \in Seq(Answers) /\ q # <<>> /\ ask \in Asks /\ queue \in [Asks -> Seq(Answers)]
  BY <1>1 DEF TakeAnswer, BootInv, TypeInv, AckType, SearchType
<1>3. PICK t : t = Tail(q)
  OBVIOUS
<1>4. /\ t \in Seq(Answers) /\ Len(t) = Len(q) - 1 /\ Len(q) \in Nat /\ Len(q) > 0
      /\ Head(q) = q[1] /\ Head(q) \in Answers
      /\ \A i \in 1 .. Len(t) : t[i] = q[i + 1]
  BY <1>2, <1>3, HeadTailProperties
<1>5. /\ queue' = [queue EXCEPT ![ask] = t]
      /\ got' = Append(got, Head(q))
      /\ waits' = waits + 1
      /\ pc = "wait"
      /\ pc' = IF waits + 1 = 2 THEN "strike" ELSE "wait"
      /\ UNCHANGED <<isDefault, local, peerHeight, stage, ask, asked, call, needAck, handlers,
                     net, races, spent>>
  BY <1>1, <1>3, WaitsTwice DEF TakeAnswer, EndWait, BootInv
<1>6. queue'[ask] = t /\ \A a \in Asks : a # ask => queue'[a] = queue[a]
  BY <1>2, <1>5
<1>7. waits \in Nat /\ waits < 2
  BY <1>5 DEF BootInv, TypeInv, SearchType
<1>8. PeerType'
  BY <1>5 DEF BootInv, TypeInv, PeerType
<1>9. SearchType'
  BY <1>4, <1>5, <1>7 DEF BootInv, TypeInv, SearchType, TwoAsked
<1>10. AckType'
  BY <1>2, <1>4, <1>5 DEF BootInv, TypeInv, AckType
<1>11. ASSUME races = 0 PROVE CalmInv'
  <2>1. CalmInv
    BY <1>11 DEF BootInv
  <2>k. PICK k \in Asks : k = ask
    BY <1>2
  <2>2. Left(k) = 2 - waits /\ Left(k)' = 1 - waits
    BY <2>k, <1>5, <1>7 DEF Left
  <2>3. \A a \in Asks : a # k => Left(a) = 0 /\ Left(a)' = 0
    BY <2>k, <1>5 DEF Left
  <2>4. \A a : Due(a)' = Due(a)
    BY <1>5 DEF Due
  <2>5. NeedInv'
    BY <2>1, <1>5 DEF CalmInv, NeedInv, Open
  <2>6. AloneInv'
    BY <2>1, <1>5 DEF CalmInv, AloneInv
  <2>7. RoomInv'
    <3>1. Due(k) \in Nat /\ Len(q) + Due(k) <= 2 + Left(k)
      <4>1. Due(k) \in Nat
        BY DEF Due, BootInv, TypeInv, AckType
      <4> QED
        BY <4>1, <2>1, <2>k, <1>1 DEF CalmInv, RoomInv
    <3>2. Len(t) + Due(k) <= 2 + (1 - waits)
      BY <3>1, <2>2, <1>4, <1>7
    <3> SUFFICES ASSUME NEW a \in Asks PROVE Len(queue'[a]) + Due(a)' <= 2 + Left(a)'
      BY DEF RoomInv
    <3>3. CASE a = k
      BY <3>2, <3>3, <2>k, <2>2, <2>4, <1>6
    <3>4. CASE a # k
      BY <3>4, <2>k, <2>1, <2>3, <2>4, <1>6 DEF CalmInv, RoomInv
    <3> QED
      BY <3>3, <3>4
  <2>8. AgeInv'
    <3> SUFFICES ASSUME NEW a \in Asks, NEW i \in 1 .. Len(queue'[a])
                 PROVE  /\ queue'[a][i].call = call[a] \/ queue'[a][i].call = call[a] - 1
                        /\ i > Left(a)' => queue'[a][i].call = call[a]
      BY <1>5 DEF AgeInv
    <3>1. CASE a = k
      <4>1. i + 1 \in 1 .. Len(q) /\ queue'[a][i] = q[i + 1]
        BY <3>1, <2>k, <1>4, <1>6
      <4>2. /\ q[i + 1].call = call[a] \/ q[i + 1].call = call[a] - 1
            /\ i + 1 > Left(a) => q[i + 1].call = call[a]
        BY <4>1, <3>1, <2>k, <2>1, <1>1 DEF CalmInv, AgeInv
      <4>3. i > Left(a)' => i + 1 > Left(a)
        BY <3>1, <2>2, <1>7
      <4> QED
        BY <4>1, <4>2, <4>3
    <3>2. CASE a # k
      BY <3>2, <2>k, <2>1, <2>3, <1>6 DEF CalmInv, AgeInv
    <3> QED
      BY <3>1, <3>2
  <2>9. GotInv'
    <3>1. got \in Seq(Answers) /\ call[ask] \in Nat
      BY <1>2 DEF BootInv, TypeInv, SearchType
    <3>2. 1 \in 1 .. Len(q)
      BY <1>4
    <3>3. q[1].call = call[ask] \/ q[1].call = call[ask] - 1
      BY <3>2, <2>1, <1>1, <1>2 DEF CalmInv, AgeInv
    <3> SUFFICES ASSUME NEW i \in 1 .. Len(got') PROVE got'[i].call >= call[ask] - 1
      BY <1>5 DEF GotInv
    <3>4. PICK x : x = Head(q)
      OBVIOUS
    <3>5. Len(got') = Len(got) + 1 /\ got'[i] = IF i <= Len(got) THEN got[i] ELSE x
      BY <3>1, <3>4, <1>4, <1>5
    <3>6. CASE i <= Len(got)
      BY <3>1, <3>5, <3>6, <2>1 DEF CalmInv, GotInv
    <3>7. CASE ~(i <= Len(got))
      BY <3>1, <3>3, <3>4, <3>5, <3>7, <1>4
    <3> QED
      BY <3>6, <3>7
  <2> QED
    BY <1>5, <2>5, <2>6, <2>7, <2>8, <2>9 DEF CalmInv
<1> QED
  BY <1>5, <1>8, <1>9, <1>10, <1>11 DEF BootInv, TypeInv

\* A wait times out: nothing is in the queue then.
LEMMA TimeOutInv == BootInv /\ TimeOut => BootInv'
<1> SUFFICES ASSUME BootInv, TimeOut PROVE BootInv'
  OBVIOUS
<1> USE DEF peerVars
<1>1. /\ waits' = waits + 1
      /\ pc = "wait" /\ queue[ask] = <<>>
      /\ pc' = IF waits + 1 = 2 THEN "strike" ELSE "wait"
      /\ UNCHANGED <<isDefault, local, peerHeight, stage, ask, asked, call, got, needAck,
                     handlers, queue, net, races>>
  BY WaitsTwice DEF TimeOut, EndWait, BootInv
<1>2. waits \in Nat /\ waits < 2
  BY <1>1 DEF BootInv, TypeInv, SearchType
<1>3. PeerType'
  <2>1. spent' \in [grow : Nat, faults : Nat]
    <3>1. PICK n \in {0, 1} : Faults(n)
      BY DEF TimeOut
    <3> QED
      BY <3>1 DEF Faults, BootInv, TypeInv, PeerType
  <2> QED
    BY <1>1, <2>1 DEF BootInv, TypeInv, PeerType
<1>4. SearchType'
  BY <1>1, <1>2 DEF BootInv, TypeInv, SearchType, TwoAsked
<1>5. AckType'
  BY <1>1 DEF BootInv, TypeInv, AckType
<1>6. ASSUME races = 0 PROVE CalmInv'
  <2>1. CalmInv
    BY <1>6 DEF BootInv
  <2>2. PICK k \in Asks : k = ask
    BY DEF BootInv, TypeInv, SearchType
  <2>3. Left(k)' = 1 - waits
    BY <2>2, <1>1, <1>2 DEF Left
  <2>4. \A a \in Asks : a # k => Left(a) = 0 /\ Left(a)' = 0
    BY <2>2, <1>1 DEF Left
  <2>5. \A a : Due(a)' = Due(a)
    BY <1>1 DEF Due
  <2>6. NeedInv'
    BY <2>1, <1>1 DEF CalmInv, NeedInv, Open
  <2>7. AloneInv' /\ GotInv'
    BY <2>1, <1>1 DEF CalmInv, AloneInv, GotInv
  <2>8. RoomInv'
    <3>1. Len(needAck) \in Nat /\ Len(needAck) <= 2
      BY <2>1, <1>1 DEF CalmInv, NeedInv, Open, PartOf, BootInv, TypeInv, AckType
    <3>2. Due(k) \in Nat /\ Due(k) <= 2
      BY <3>1, <2>2 DEF Due
    <3>3. queue' = queue /\ Len(queue[k]) = 0
      BY <2>2, <1>1
    <3> SUFFICES ASSUME NEW a \in Asks PROVE Len(queue'[a]) + Due(a)' <= 2 + Left(a)'
      BY DEF RoomInv
    <3>4. CASE a = k
      BY <3>2, <3>3, <3>4, <2>3, <2>5, <1>2
    <3>5. CASE a # k
      BY <3>3, <3>5, <2>1, <2>4, <2>5 DEF CalmInv, RoomInv
    <3> QED
      BY <3>4, <3>5
  <2>9. AgeInv'
    <3> SUFFICES ASSUME NEW a \in Asks, NEW i \in 1 .. Len(queue[a])
                 PROVE  /\ queue[a][i].call = call[a] \/ queue[a][i].call = call[a] - 1
                        /\ i > Left(a)' => queue[a][i].call = call[a]
      BY <1>1 DEF AgeInv
    <3>1. a # k
      BY <2>2, <1>1
    <3> QED
      BY <3>1, <2>1, <2>4 DEF CalmInv, AgeInv
  <2> QED
    BY <1>1, <2>6, <2>7, <2>8, <2>9 DEF CalmInv
<1> QED
  BY <1>1, <1>3, <1>4, <1>5, <1>6 DEF BootInv, TypeInv

\* The call strikes its numbers: from now on no answer to it is taken.
LEMMA StrikeInv == BootInv /\ Strike => BootInv'
<1> SUFFICES ASSUME BootInv, Strike PROVE BootInv'
  OBVIOUS
<1> USE DEF peerVars
<1>1. /\ pc = "strike" /\ pc' = "decide"
      /\ UNCHANGED <<isDefault, local, peerHeight, stage, ask, asked, call, waits, got,
                     handlers, queue, net, spent>>
  BY DEF Strike
<1>2. PICK x, y, s : x = MeNeedAck[1] /\ y = MeNeedAck[2] /\ s = needAck
  OBVIOUS
<1>3. /\ s \in Seq(SeqNos) /\ x = SeqNo(ask, call[ask], asked[1])
      /\ y = SeqNo(ask, call[ask], asked[2])
  <2>1. DOMAIN asked = 1 .. 2
    BY <1>1 DEF BootInv, TypeInv, SearchType, TwoAsked
  <2> QED
    BY <2>1, <1>2 DEF MeNeedAck, BootInv, TypeInv, AckType
<1>4. needAck' = RemoveFirst(RemoveFirst(s, x), y) \/ (handlers # {} /\ needAck' = s)
  BY <1>2 DEF Strike
<1>5. races' \in Nat /\ (races' = 0 => races = 0 /\ handlers = {})
  BY DEF Strike, Enter, BootInv, TypeInv, PeerType
<1>6. PeerType'
  BY <1>1, <1>5 DEF BootInv, TypeInv, PeerType
<1>7. SearchType'
  BY <1>1 DEF BootInv, TypeInv, SearchType, TwoAsked
<1>8. AckType'
  <2>1. needAck' \in Seq(SeqNos)
    <3>1. ASSUME NEW u \in Seq(SeqNos), NEW e PROVE RemoveFirst(u, e) \in Seq(SeqNos)
      BY <3>1, RemoveFirstType
    <3> QED
      BY <3>1, <1>3, <1>4
  <2> QED
    BY <2>1, <1>1 DEF BootInv, TypeInv, AckType
<1>9. ASSUME races' = 0 PROVE CalmInv'
  <2>1. CalmInv /\ handlers = {}
    BY <1>5, <1>9 DEF BootInv
  <2>2. PartOf(s, x, y)
    BY <2>1, <1>1, <1>2, <1>3 DEF CalmInv, NeedInv, Open
  <2>3. needAck' = <<>>
    BY <2>1, <2>2, <1>3, <1>4, StrikesBoth
  <2>4. \A a : Left(a) = 0 /\ Left(a)' = 0
    BY <1>1 DEF Left
  <2>5. NeedInv'
    BY <2>3, <1>1 DEF NeedInv, Open
  <2>6. AloneInv' /\ GotInv'
    BY <2>1, <1>1 DEF CalmInv, AloneInv, GotInv
  <2>7. RoomInv'
    <3>1. \A a : Due(a)' = 0 /\ Due(a) \in Nat
      BY <2>3 DEF Due, BootInv, TypeInv, AckType
    <3>2. \A a \in Asks : Len(queue[a]) \in Nat
      BY DEF BootInv, TypeInv, AckType
    <3>3. queue' = queue
      BY <1>1
    <3> QED
      BY <3>1, <3>2, <3>3, <2>1, <2>4 DEF CalmInv, RoomInv
  <2>8. AgeInv'
    BY <2>1, <2>4, <1>1 DEF CalmInv, AgeInv
  <2> QED
    BY <1>1, <2>5, <2>6, <2>7, <2>8 DEF CalmInv
<1> QED
  BY <1>6, <1>7, <1>8, <1>9 DEF BootInv, TypeInv
\* An answer arrives: a number that is waited for is found at one index.
LEMMA ReceiveInv ==
    ASSUME BootInv, NEW m \in net, Receive(m)
    PROVE  BootInv'
<1> USE DEF peerVars, searchVars
<1> DEFINE found == {i \in DOMAIN needAck : needAck[i] = m}
           New(i) == [seq |-> m, rsp |-> Answer(m), at |-> i, copy |-> spent.faults]
<1>1. /\ handlers' = handlers \cup {New(i) : i \in found}
      /\ IF found = {} THEN races' = races ELSE Enter
      /\ UNCHANGED <<isDefault, local, peerHeight, pc, stage, ask, asked, call, waits, got, ssRe,
                     result, needAck, queue>>
  BY DEF Receive
<1>2. m \in SeqNos
  BY DEF BootInv, TypeInv, PeerType
<1>3. Answer(m) \in Answers /\ Answer(m).call = m.call
  BY <1>2 DEF Answer, Answers, SeqNos, BootInv, TypeInv, PeerType
<1>4. PeerType'
  <2>1. PICK n \in {0, 1} : Faults(n)
    BY DEF Receive
  <2>2. spent' \in [grow : Nat, faults : Nat]
    BY <2>1 DEF Faults, BootInv, TypeInv, PeerType
  <2>3. net' \subseteq SeqNos
    BY DEF Receive, BootInv, TypeInv, PeerType
  <2>4. races' \in Nat
    BY <1>1 DEF Enter, BootInv, TypeInv, PeerType
  <2> QED
    BY <1>1, <2>2, <2>3, <2>4 DEF BootInv, TypeInv, PeerType
<1>5. SearchType'
  BY <1>1 DEF BootInv, TypeInv, SearchType, TwoAsked
<1>6. DOMAIN needAck = 1 .. Len(needAck) /\ Len(needAck) \in Nat
  BY DEF BootInv, TypeInv, AckType
<1>7. AckType'
  <2>1. \A i \in found : /\ New(i).seq \in SeqNos /\ New(i).rsp \in Answers
                         /\ New(i).rsp.call = New(i).seq.call /\ New(i).at \in Nat \ {0}
    BY <1>2, <1>3, <1>6
  <2> HIDE DEF New, found
  <2> QED
    BY <1>1, <2>1 DEF BootInv, TypeInv, AckType
<1>8. ASSUME races' = 0 PROVE CalmInv'
  <2>1. races = 0 /\ (found # {} => handlers = {})
    BY <1>1, <1>8 DEF Enter, BootInv, TypeInv, PeerType
  <2>2. CalmInv
    BY <2>1 DEF BootInv
  <2>3. AloneInv'
    <3>1. CASE found = {}
      <4>1. handlers' = handlers
        BY <1>1, <3>1
      <4> QED
        BY <4>1, <1>1, <2>2 DEF CalmInv, AloneInv
    <3>2. CASE found # {}
      <4>1. PICK i \in found : TRUE
        BY <3>2
      <4>2. i \in 1 .. Len(needAck) /\ needAck[i] = m
        BY <4>1, <1>6
      <4>3. Open
        <5>1. needAck # <<>>
          BY <4>2
        <5> QED
          BY <5>1, <2>2 DEF CalmInv, NeedInv
      <4>4. found = {i}
        BY <4>2, <4>3, <1>6, <2>2 DEF CalmInv, NeedInv, PartOf
      <4>5. handlers' = {New(i)}
        BY <4>4, <3>2, <2>1, <1>1
      <4>6. New(i).at = i /\ New(i).seq = m
        OBVIOUS
      <4> HIDE DEF New
      <4> QED
        BY <4>2, <4>5, <4>6, <1>1, <1>6 DEF AloneInv
    <3> QED
      BY <3>1, <3>2
  <2>4. \A a : Left(a)' = Left(a) /\ Due(a)' = Due(a)
    BY <1>1 DEF Left, Due
  <2>5. NeedInv' /\ GotInv'
    BY <2>2, <1>1 DEF CalmInv, NeedInv, Open, GotInv
  <2>6. RoomInv'
    BY <2>2, <2>4, <1>1 DEF CalmInv, RoomInv
  <2>7. AgeInv'
    BY <2>2, <2>4, <1>1 DEF CalmInv, AgeInv
  <2> QED
    BY <1>1, <2>2, <2>3, <2>5, <2>6, <2>7 DEF CalmInv
<1> QED
  BY <1>4, <1>5, <1>7, <1>8 DEF BootInv, TypeInv

\* A number is cut out and its answer queued: one comes in place of the other.
LEMMA CutInv ==
    ASSUME BootInv, NEW h \in handlers, Cut(h)
    PROVE  BootInv'
<1> USE DEF peerVars
<1>1. /\ handlers' = handlers \ {h}
      /\ UNCHANGED <<isDefault, local, peerHeight, stage, ask, asked, call, waits, got, net,
                     races, spent>>
  BY DEF Cut
<1>2. /\ h.seq \in SeqNos /\ h.rsp \in Answers /\ h.rsp.call = h.seq.call /\ h.at \in Nat \ {0}
      /\ needAck \in Seq(SeqNos) /\ queue \in [Asks -> Seq(Answers)] /\ h.seq.ask \in Asks
  BY DEF BootInv, TypeInv, AckType, SeqNos
<1>3. \/ h.at > Len(needAck) /\ pc' = "crashed" /\ UNCHANGED <<needAck, queue>>
      \/ /\ h.at <= Len(needAck) /\ pc' = pc
         /\ needAck' = RemoveAt(needAck, h.at) \/ (handlers # {h} /\ needAck' = needAck)
         /\ queue' = [queue EXCEPT ![h.seq.ask] = Append(queue[h.seq.ask], h.rsp)]
  BY DEF Cut
<1>4. PeerType'
  BY <1>1 DEF BootInv, TypeInv, PeerType
<1>5. SearchType'
  BY <1>1, <1>3 DEF BootInv, TypeInv, SearchType, TwoAsked
<1>6. AckType'
  <2>1. needAck' \in Seq(SeqNos)
    <3>1. CASE h.at > Len(needAck)
      BY <3>1, <1>2, <1>3
    <3>2. CASE h.at <= Len(needAck)
      <4>1. h.at \in 1 .. Len(needAck)
        BY <3>2, <1>2
      <4>2. RemoveAt(needAck, h.at) \in Seq(SeqNos)
        BY <4>1, <1>2, RemoveAtElements
      <4> QED
        BY <3>2, <4>2, <1>2, <1>3
    <3> QED
      BY <3>1, <3>2, <1>2
  <2>2. queue' \in [Asks -> Seq(Answers)]
    <3>1. PICK k \in Asks, x \in Answers : k = h.seq.ask /\ x = h.rsp
      BY <1>2
    <3>2. PICK t : t = Append(queue[k], x)
      OBVIOUS
    <3>3. t \in Seq(Answers)
      BY <3>2, <1>2
    <3>4. queue' = queue \/ queue' = [queue EXCEPT ![k] = t]
      BY <3>1, <3>2, <1>3
    <3> QED
      BY <3>3, <3>4, <1>2
  <2> QED
    BY <1>1, <2>1, <2>2 DEF BootInv, TypeInv, AckType
<1>7. ASSUME races = 0 PROVE CalmInv'
  <2>1. CalmInv
    BY <1>7 DEF BootInv
  <2>2. handlers = {h} /\ h.at \in 1 .. Len(needAck) /\ needAck[h.at] = h.seq
    BY <2>1, <1>2 DEF CalmInv, AloneInv
  <2>3. /\ pc' = pc /\ needAck' = RemoveAt(needAck, h.at) /\ handlers' = {}
        /\ queue' = [queue EXCEPT ![h.seq.ask] = Append(queue[h.seq.ask], h.rsp)]
    BY <2>2, <1>1, <1>2, <1>3
  <2>4. PICK k \in Asks : k = ask
    BY DEF BootInv, TypeInv, SearchType
  <2>5. PICK x, y : x = SeqNo(k, call[k], asked[1]) /\ y = SeqNo(k, call[k], asked[2])
    OBVIOUS
  <2>6. Open /\ PartOf(needAck, x, y)
    <3>1. needAck # <<>>
      BY <2>2
    <3> QED
      BY <3>1, <2>1, <2>4, <2>5 DEF CalmInv, NeedInv
  <2>7. h.seq.ask = k /\ h.seq.call = call[k] /\ h.rsp.call = call[k]
    <3>1. h.seq = x \/ h.seq = y
      BY <2>2, <2>6 DEF PartOf
    <3> QED
      BY <3>1, <2>5, <1>2 DEF SeqNo
  <2>8. PICK q : q = queue[k]
    OBVIOUS
  <2>9. /\ q \in Seq(Answers)
        /\ queue'[k] = Append(q, h.rsp)
        /\ \A a \in Asks : a # k => queue'[a] = queue[a]
    BY <2>3, <2>7, <2>8, <1>2
  <2>10. Len(needAck') = Len(needAck) - 1 /\ PartOf(needAck', x, y)
    BY <2>2, <2>3, <2>6, <1>2, CutPart, RemoveAtElements
  <2>11. NeedInv'
    BY <2>3, <2>4, <2>5, <2>6, <2>10, <1>1 DEF NeedInv, Open
  <2>12. AloneInv' /\ GotInv'
    BY <2>1, <2>3, <1>1 DEF CalmInv, AloneInv, GotInv
  <2>13. \A a : Left(a)' = Left(a)
    BY <2>3, <1>1 DEF Left
  <2>14. RoomInv'
    <3>1. Due(k)' = Due(k) - 1 /\ Due(k) = Len(needAck)
      BY <2>4, <2>10, <1>1 DEF Due
    <3>2. \A a \in Asks : a # k => Due(a)' = 0 /\ Due(a) = 0
      BY <2>4, <1>1 DEF Due
    <3>3. Len(queue'[k]) = Len(q) + 1 /\ Len(q) \in Nat /\ Len(needAck) \in Nat
      BY <2>9, <1>2
    <3>4. Len(q) + Due(k) <= 2 + Left(k)
      BY <2>1, <2>8 DEF CalmInv, RoomInv
    <3> SUFFICES ASSUME NEW a \in Asks PROVE Len(queue'[a]) + Due(a)' <= 2 + Left(a)'
      BY DEF RoomInv
    <3>5. CASE a = k
      <4>1. (Len(q) + 1) + (Due(k) - 1) = Len(q) + Due(k)
        BY <3>1, <3>3
      <4>2. Len(queue'[k]) + Due(k)' <= 2 + Left(k)'
        BY <4>1, <3>1, <3>3, <3>4, <2>13
      <4> QED
        BY <4>2, <3>5
    <3>6. CASE a # k
      BY <3>2, <3>6, <2>1, <2>9, <2>13 DEF CalmInv, RoomInv
    <3> QED
      BY <3>5, <3>6
  <2>15. AgeInv'
    <3> SUFFICES ASSUME NEW a \in Asks, NEW i \in 1 .. Len(queue'[a])
                 PROVE  /\ queue'[a][i].call = call[a] \/ queue'[a][i].call = call[a] - 1
                        /\ i > Left(a) => queue'[a][i].call = call[a]
      BY <2>13, <1>1 DEF AgeInv
    <3>1. CASE a = k /\ i <= Len(q)
      <4>1. queue'[a][i] = q[i] /\ i \in 1 .. Len(q)
        BY <3>1, <2>9
      <4> QED
        BY <4>1, <3>1, <2>1, <2>8 DEF CalmInv, AgeInv
    <3>2. CASE a = k /\ ~(i <= Len(q))
      <4>1. queue'[a][i] = h.rsp
        BY <3>2, <2>9, <1>2
      <4> QED
        BY <4>1, <3>2, <2>7
    <3>3. CASE a # k
      BY <3>3, <2>1, <2>9 DEF CalmInv, AgeInv
    <3> QED
      BY <3>1, <3>2, <3>3
  <2> QED
    BY <2>1, <2>3, <2>11, <2>12, <2>14, <2>15 DEF CalmInv
<1> QED
  BY <1>1, <1>4, <1>5, <1>6, <1>7 DEF BootInv, TypeInv

\* Every step preserves the invariant.
LEMMA NextBoot == BootInv /\ [Next]_vars => BootInv'
<1> SUFFICES ASSUME BootInv, [Next]_vars PROVE BootInv'
  OBVIOUS
<1> USE DEF peerVars, searchVars
<1>t. isDefault \in BOOLEAN
  BY DEF BootInv, TypeInv, PeerType
<1>1. ASSUME Stat PROVE BootInv'
  <2>1. PICK i, j \in DOMAIN Targets : i < j /\ Call("height", <<Targets[i], Targets[j]>>)
    BY <1>1 DEF Stat
  <2>2. i \in 1 .. Len(Targets) /\ j \in 1 .. Len(Targets)
    BY <1>t, TargetsType
  <2>3. PICK list : list = <<Targets[i], Targets[j]>>
    OBVIOUS
  <2>4. Targets[i] \in IPs /\ Targets[j] \in IPs /\ Targets[i] # Targets[j]
    BY <1>t, <2>1, <2>2, TargetsType
  <2>5. list \in Seq(IPs) /\ Len(list) = 2 /\ list[1] # list[2]
    BY <2>3, <2>4
  <2>6. ~Open /\ UNCHANGED stage /\ "height" \in Asks
    BY <1>1 DEF Stat, Open, Asks
  <2> QED
    BY <2>1, <2>3, <2>5, <2>6, CallInv
<1>2. ASSUME AskLists PROVE BootInv'
  <2>1. isDefault
    BY <1>2 DEF AskLists, BootInv, TypeInv, SearchType
  <2>2. Targets \in Seq(IPs) /\ Len(Targets) = 2 /\ Targets[1] # Targets[2]
    BY <2>1, <1>t, TargetsType
  <2>3. Call("main", Targets) /\ ~Open /\ UNCHANGED stage /\ "main" \in Asks
    BY <1>2 DEF AskLists, Open, Asks
  <2> QED
    BY <2>2, <2>3, CallInv
<1>3. ASSUME AskMainNode PROVE BootInv'
  <2>1. TwoAsked
    BY <1>3 DEF AskMainNode, BootInv, TypeInv, SearchType
  <2>2. Call("main", asked) /\ ~Open /\ UNCHANGED stage /\ "main" \in Asks
    BY <1>3 DEF AskMainNode, Open, Asks
  <2> QED
    BY <2>1, <2>2, CallInv DEF TwoAsked
<1>4. ASSUME Again \/ FindTwoBoot \/ Finish PROVE BootInv'
  <2>1. PeerType'
    BY <1>4 DEF Again, FindTwoBoot, Finish, Stay, BootInv, TypeInv, PeerType
  <2>2. /\ UNCHANGED <<ask, asked, call, waits, got, needAck, handlers, queue, races, isDefault>>
        /\ pc = "decide" /\ pc' \in {"stat", "done"}
        /\ stage' = stage \/ (stage # "other" /\ stage' \in {"lists", "check"})
    BY <1>4 DEF Again, FindTwoBoot, Finish, Stay
  <2> QED
    BY <2>1, <2>2, QuietInv
<1>5. ASSUME NEW p \in ToSet(Targets), Grow(p) PROVE BootInv'
  <2>1. spent' \in [grow : Nat, faults : Nat]
    BY <1>5 DEF Grow, BootInv, TypeInv, PeerType
  <2>2. peerHeight' \in [IPs -> Nat]
    <3>1. p \in IPs
      <4>1. PICK i \in DOMAIN Targets : p = Targets[i]
        BY DEF ToSet
      <4> QED
        BY <4>1, <1>t, TargetsType
    <3> QED
      BY <3>1, <1>5 DEF Grow, BootInv, TypeInv, PeerType
  <2>3. PeerType'
    BY <1>5, <2>1, <2>2 DEF Grow, BootInv, TypeInv, PeerType
  <2>4. UNCHANGED <<ask, asked, call, waits, got, needAck, handlers, queue, races, isDefault, pc, stage>>
    BY <1>5 DEF Grow
  <2> QED
    BY <2>3, <2>4, QuietInv
<1>6. ASSUME NEW m \in net, Lose(m) PROVE BootInv'
  <2>1. spent' \in [grow : Nat, faults : Nat]
    BY <1>6 DEF Lose, Faults, BootInv, TypeInv, PeerType
  <2>2. PeerType'
    BY <1>6, <2>1 DEF Lose, BootInv, TypeInv, PeerType
  <2>3. UNCHANGED <<ask, asked, call, waits, got, needAck, handlers, queue, races, isDefault, pc, stage>>
    BY <1>6 DEF Lose
  <2> QED
    BY <2>2, <2>3, QuietInv
<1>7. ASSUME UNCHANGED vars PROVE BootInv'
  <2>1. PeerType'
    BY <1>7 DEF vars, BootInv, TypeInv, PeerType
  <2>2. UNCHANGED <<ask, asked, call, waits, got, needAck, handlers, queue, races, isDefault, pc, stage>>
    BY <1>7 DEF vars
  <2> QED
    BY <2>1, <2>2, QuietInv
<1> QED
  BY <1>1, <1>2, <1>3, <1>4, <1>5, <1>6, <1>7, TakeAnswerInv, TimeOutInv, StrikeInv,
     ReceiveInv, CutInv DEF Next, Search

\* The invariant holds throughout the search.
LEMMA BootInvariance == Spec => []BootInv
  BY InitBoot, NextBoot, PTL DEF Spec

\* Touch_And_Analy_1 leaves goroutines blocked in their send when a call gives up
\* on them; between two calls there are never more than two for each channel,
\* however many calls the search takes.
THEOREM LateAnswersAreFew == Spec => []LateAnswersBounded
<1>1. BootInv => LateAnswersBounded
  <2> SUFFICES ASSUME BootInv, races = 0, pc # "wait", NEW a \in Asks
               PROVE  Len(queue[a]) <= 2
    BY DEF LateAnswersBounded
  <2>1. Left(a) = 0
    BY DEF Left
  <2>2. Due(a) \in Nat /\ Len(queue[a]) \in Nat
    BY DEF Due, BootInv, TypeInv, AckType
  <2>3. Len(queue[a]) + Due(a) <= 2 + Left(a)
    BY DEF BootInv, CalmInv, RoomInv
  <2> QED
    BY <2>1, <2>2, <2>3
<1> QED
  BY <1>1, BootInvariance, PTL

\* Get_Block_Height and Get_Main_Node take an answer of the call before for one
\* of their own, but never an older one.
THEOREM AnswersAreOneCallLate == Spec => []OneCallLate
<1>1. BootInv => OneCallLate
  <2>1. BootInv => DOMAIN got = 1 .. Len(got)
    BY DEF BootInv, TypeInv, SearchType
  <2> QED
    BY <2>1 DEF BootInv, CalmInv, GotInv, OneCallLate
<1> QED
  BY <1>1, BootInvariance, PTL
=============================================================================
