---------------------------- MODULE TxFloodProofs ----------------------------
(***************************************************************************)
(* Flooding with any set of transactions, any limit and any number of      *)
(* batches: numbers find their transactions while packers do not overlap.  *)
(***************************************************************************)
EXTENDS TxFlood, FiniteSetTheorems, FunctionTheorems, WellFoundedInduction, TLAPS

\* A list that is not empty has a front.
LEMMA MinIsMember ==
    ASSUME NEW S, S \subseteq Nat, S # {}
    PROVE  Min(S) \in S
<1>1. PICK x \in S : \A y \in S : ~(<<y, x>> \in OpToRel(<, Nat))
  BY NatLessThanWellFounded, WFMin
<1>2. \A y \in S : ~(y < x)
  BY <1>1 DEF OpToRel
<1>3. \A y \in S : x <= y
  BY <1>2
<1> QED
  BY <1>3 DEF Min

LEMMA FollowingIsMember ==
    ASSUME NEW e, NEW n \in Nat, list \subseteq 1 .. n
    PROVE  Following(e) \in {None} \cup 1 .. n
<1> DEFINE later == {f \in list : f > e}
<1>1. later \subseteq 1 .. n
  OBVIOUS
<1> HIDE DEF later
<1>2. later # {} => Min(later) \in later
  <2>1. later \subseteq Nat
    BY <1>1
  <2> QED
    BY <2>1, MinIsMember
<1>3. Following(e) = IF e \in list /\ later # {} THEN Min(later) ELSE None
  BY DEF Following, later
<1> QED
  BY <1>1, <1>2, <1>3

\* addTx announces what became executable.
LEMMA SetToSeqIsSeq ==
    ASSUME NEW txs \in SUBSET Txs
    PROVE  SetToSeq(txs) \in Seq(Txs) /\ \A i \in DOMAIN SetToSeq(txs) : SetToSeq(txs)[i] \in txs
<1>1. IsFiniteSet(txs)
  BY FloodAssumption, FS_Subset
<1>2. Cardinality(txs) \in Nat /\ ExistsBijection(1 .. Cardinality(txs), txs)
  BY <1>1, FS_CardinalityType
<1>3. PICK f \in [1 .. Cardinality(txs) -> txs] : IsInjective(f)
  BY <1>2 DEF ExistsBijection, Bijection, Injection
<1>4. SetToSeq(txs) \in [1 .. Cardinality(txs) -> txs]
  BY <1>3 DEF SetToSeq
<1> QED
  BY <1>2, <1>4
-----------------------------------------------------------------------------
(* Types.                                                                  *)

Places == {"new", "pending", "queue", "again", "out"}
PackerStates ==
    [pc : {"off", "front", "next", "check", "num", "setN", "setn"}, elem : Nat, next : Nat, i : Nat]

PoolType ==
    /\ adding \in Seq(Txs) \cup {Free}
    /\ place \in [Txs -> Places]
    /\ SContainer \subseteq Txs
    /\ N \in [Txs -> SUBSET Nat]
    /\ NContainer \in [Numbers -> Txs \cup {None}]
    /\ num \in 0 .. MaxTxN + 1
    /\ recv \in {"off", "add"}

ListType ==
    /\ notice \in Seq(Txs)
    /\ slist \in Seq(Txs)
    /\ batches \in Seq(Seq(Txs))
    /\ list \subseteq 1 .. Len(batches)
    /\ packer \in [Packers -> PackerStates]

\* Where a packer works on a transaction, that is one of an announced batch.
PackerType(p) ==
    /\ packer[p].pc \in {"next", "check", "num", "setN", "setn"} => packer[p].elem \in DOMAIN batches
    /\ packer[p].pc \in {"check", "num", "setN", "setn"} =>
          packer[p].i > 0 /\ packer[p].next \in {None} \cup DOMAIN batches
    /\ packer[p].pc \in {"num", "setN", "setn"} => packer[p].i <= Len(Batch(p))

\* What addTx has yet to announce is pending.
AddingPending ==
    adding # Free => \A i \in DOMAIN adding : place[adding[i]] \in {"pending", "again"}

FloodType == PoolType /\ ListType /\ AddingPending /\ \A p \in Packers : PackerType(p)

LEMMA TypeInit == Init => FloodType
<1> SUFFICES ASSUME Init
             PROVE  FloodType
  OBVIOUS
<1>1. PoolType /\ AddingPending
  BY FloodAssumption DEF Init, PoolType, AddingPending, Places, None
<1>2. packer \in [Packers -> PackerStates]
  BY DEF Init, PackerStates, Off, None
<1>3. <<>> \in Seq(Txs) /\ <<>> \in Seq(Seq(Txs))
  OBVIOUS
<1>4. ListType
  BY <1>2, <1>3 DEF Init, ListType
<1>5. \A p \in Packers : PackerType(p)
  BY DEF Init, PackerType, Off
<1> QED
  BY <1>1, <1>4, <1>5 DEF FloodType
\* What a new batch does to the list and to the packers.
LEMMA PackageKeeps ==
    ASSUME FloodType, NEW s \in Seq(Txs), PackageSNList(s)
    PROVE  /\ batches' \in Seq(Seq(Txs)) /\ list' \subseteq 1 .. Len(batches')
           /\ packer' \in [Packers -> PackerStates] /\ slist' \in Seq(Txs)
           /\ \A p \in Packers : PackerType(p)'
<1> USE DEF FloodType, ListType
<1>1. /\ batches' \in Seq(Seq(Txs)) /\ Len(batches') = Len(batches) + 1
      /\ \A e \in DOMAIN batches : e \in DOMAIN batches' /\ batches'[e] = batches[e]
  BY DEF PackageSNList
<1>2. list' \subseteq 1 .. Len(batches')
  BY <1>1 DEF PackageSNList
<1>3. packer' \in [Packers -> PackerStates]
  BY DEF PackageSNList, PackerStates
<1>4. ASSUME NEW p \in Packers
      PROVE  PackerType(p)'
  <2>1. packer'[p].pc = "front" \/ packer'[p] = packer[p]
    BY DEF PackageSNList, PackerStates
  <2>2. CASE packer'[p].pc = "front"
    BY <2>2 DEF PackerType
  <2>3. CASE packer'[p] = packer[p]
    BY <1>1, <2>3 DEF PackerType, Batch, PackerStates
  <2> QED
    BY <2>1, <2>2, <2>3
<1> QED
  BY <1>1, <1>2, <1>3, <1>4 DEF PackageSNList

\* What a step of one packer does to the types of the packers.
LEMMA PackerKeeps ==
    ASSUME FloodType, NEW p \in Packers, NEW r \in PackerStates,
           packer' = [packer EXCEPT ![p] = r], batches' = batches, PackerType(p)'
    PROVE  packer' \in [Packers -> PackerStates] /\ \A q \in Packers : PackerType(q)'
<1>1. ASSUME NEW q \in Packers
      PROVE  PackerType(q)'
  BY DEF PackerType, Batch, FloodType, ListType
<1> QED
  BY <1>1 DEF FloodType, ListType

\* The states a packer goes to.
LEMMA MoveNext ==
    ASSUME NEW r \in PackerStates, NEW e \in Nat
    PROVE  \E s \in PackerStates : s = [r EXCEPT !.pc = "next", !.elem = e] /\ s.pc = "next" /\ s.elem = e
<1>1. [r EXCEPT !.pc = "next", !.elem = e] \in PackerStates
  BY DEF PackerStates
<1> QED
  BY <1>1 DEF PackerStates

LEMMA MoveCheck ==
    ASSUME NEW r \in PackerStates, NEW e \in Nat
    PROVE  \E s \in PackerStates : s = [r EXCEPT !.pc = "check", !.next = e, !.i = 1]
                                   /\ s.pc = "check" /\ s.elem = r.elem /\ s.next = e /\ s.i = 1
<1>1. [r EXCEPT !.pc = "check", !.next = e, !.i = 1] \in PackerStates
  BY DEF PackerStates
<1> QED
  BY <1>1 DEF PackerStates

LEMMA MoveOn ==
    ASSUME NEW r \in PackerStates
    PROVE  \E s \in PackerStates : s = [r EXCEPT !.i = @ + 1]
                                   /\ s.pc = r.pc /\ s.elem = r.elem /\ s.next = r.next /\ s.i = r.i + 1
<1>1. r.i \in Nat /\ r.i + 1 \in Nat
  BY DEF PackerStates
<1>2. [r EXCEPT !.i = r.i + 1] \in PackerStates
  BY <1>1 DEF PackerStates
<1> QED
  BY <1>2 DEF PackerStates

LEMMA MoveBack ==
    ASSUME NEW r \in PackerStates
    PROVE  \E s \in PackerStates : s = [r EXCEPT !.pc = "check", !.i = @ + 1]
                                   /\ s.pc = "check" /\ s.elem = r.elem /\ s.next = r.next /\ s.i = r.i + 1
<1>1. r.i \in Nat /\ r.i + 1 \in Nat
  BY DEF PackerStates
<1>2. [r EXCEPT !.pc = "check", !.i = r.i + 1] \in PackerStates
  BY <1>1 DEF PackerStates
<1> QED
  BY <1>2 DEF PackerStates

LEMMA MoveTo ==
    ASSUME NEW r \in PackerStates, NEW pc \in {"num", "setN", "setn"}
    PROVE  \E s \in PackerStates : s = [r EXCEPT !.pc = pc]
                                   /\ s.pc = pc /\ s.elem = r.elem /\ s.next = r.next /\ s.i = r.i
<1>1. [r EXCEPT !.pc = pc] \in PackerStates
  BY DEF PackerStates
<1> QED
  BY <1>1 DEF PackerStates

\* The steps of a packer, told by what becomes of its state.
LEMMA PackerChanges ==
    ASSUME FloodType, NEW p \in Packers, PackerStep(p)
    PROVE  /\ UNCHANGED <<adding, place, SContainer, mapNS, notice, slist, batches, recv, overlap>>
           /\ ~crashed
           /\ \E r \in PackerStates : packer' = [packer EXCEPT ![p] = r]
           /\ PackerType(p)'
<1>1. UNCHANGED <<adding, place, SContainer, mapNS, notice, slist, batches, recv, overlap>> /\ ~crashed
  BY DEF PackerStep, TakeFront, TakeNext, Check, TakeNumber, SetTxNum, SetnTx, Send, At, poolVars
<1>2. PICK r \in PackerStates : r = packer[p] /\ r.i \in Nat /\ r.elem \in Nat /\ r.next \in Nat
  BY DEF FloodType, ListType, PackerStates
<1>3. packer \in [Packers -> PackerStates]
  BY DEF FloodType, ListType
<1>4. PackerType(p) /\ batches' = batches
  BY <1>1 DEF FloodType
<1>5. list \subseteq Nat /\ list \subseteq 1 .. Len(batches) /\ Len(batches) \in Nat /\ DOMAIN batches = 1 .. Len(batches)
  BY DEF FloodType, ListType
<1>6. ASSUME NEW s \in PackerStates, packer' = [packer EXCEPT ![p] = s],
             s.pc \in {"next", "check", "num", "setN", "setn"} => s.elem \in DOMAIN batches,
             s.pc \in {"check", "num", "setN", "setn"} => s.i > 0 /\ s.next \in {None} \cup DOMAIN batches,
             s.pc \in {"num", "setN", "setn"} => s.i <= Len(batches[s.elem])
      PROVE  (\E u \in PackerStates : packer' = [packer EXCEPT ![p] = u]) /\ PackerType(p)'
  <2>1. packer'[p] = s
    BY <1>3, <1>6
  <2>2. PackerType(p)'
    BY <1>4, <1>6, <2>1 DEF PackerType, Batch
  <2> QED
    BY <1>6, <2>2
<1>7. Off \in PackerStates /\ Off.pc = "off"
  BY DEF Off, PackerStates, None
<1>8. CASE TakeFront(p)
  <2>1. CASE list = {}
    <3>1. packer' = [packer EXCEPT ![p] = Off]
      BY <1>8, <2>1 DEF TakeFront
    <3> QED
      BY <1>1, <1>6, <1>7, <3>1
  <2>2. CASE list # {}
    <3>1. Min(list) \in 1 .. Len(batches) /\ Min(list) \in Nat
      BY <1>5, <2>2, MinIsMember
    <3>2. PICK s \in PackerStates : s = [r EXCEPT !.pc = "next", !.elem = Min(list)]
                                    /\ s.pc = "next" /\ s.elem = Min(list)
      BY <3>1, MoveNext
    <3>3. packer' = [packer EXCEPT ![p] = s]
      BY <1>2, <1>8, <2>2, <3>2 DEF TakeFront
    <3> QED
      BY <1>1, <1>5, <1>6, <3>1, <3>2, <3>3
  <2> QED
    BY <2>1, <2>2
<1>9. CASE TakeNext(p)
  <2>1. Following(r.elem) \in {None} \cup 1 .. Len(batches)
    BY <1>5, FollowingIsMember
  <2>2. Following(r.elem) \in Nat
    BY <1>5, <2>1 DEF None
  <2>3. PICK s \in PackerStates : s = [r EXCEPT !.pc = "check", !.next = Following(r.elem), !.i = 1]
                                  /\ s.pc = "check" /\ s.elem = r.elem /\ s.next = Following(r.elem) /\ s.i = 1
    BY <2>2, MoveCheck
  <2>4. packer' = [packer EXCEPT ![p] = s]
    BY <1>2, <1>3, <1>9, <2>3 DEF TakeNext
  <2>5. r.elem \in DOMAIN batches
    BY <1>2, <1>4, <1>9 DEF TakeNext, At, PackerType
  <2> QED
    <3>1. s.i > 0 /\ s.next \in {None} \cup DOMAIN batches /\ s.elem \in DOMAIN batches
      BY <1>5, <2>1, <2>3, <2>5
    <3> QED
      BY <1>1, <1>6, <2>3, <2>4, <3>1
<1>10. ASSUME r.pc \in {"check", "num", "setN", "setn"}
       PROVE  /\ r.elem \in DOMAIN batches /\ r.i > 0 /\ r.next \in {None} \cup DOMAIN batches
              /\ r.pc # "check" => r.i <= Len(batches[r.elem])
  BY <1>2, <1>4, <1>10 DEF PackerType, Batch
<1>11. CASE Check(p)
  <2>1. r.pc = "check" /\ r.i <= Len(batches[r.elem])
    BY <1>2, <1>11 DEF Check, At, Batch
  <2>2. CASE N[Current(p)] = {}
    <3>1. PICK s \in PackerStates : s = [r EXCEPT !.pc = "num"]
                                    /\ s.pc = "num" /\ s.elem = r.elem /\ s.next = r.next /\ s.i = r.i
      BY MoveTo
    <3>2. packer' = [packer EXCEPT ![p] = s]
      BY <1>2, <1>11, <2>2, <3>1 DEF Check
    <3> QED
      BY <1>1, <1>6, <1>10, <2>1, <3>1, <3>2
  <2>3. CASE N[Current(p)] # {}
    <3>1. PICK s \in PackerStates : s = [r EXCEPT !.i = @ + 1]
                                    /\ s.pc = r.pc /\ s.elem = r.elem /\ s.next = r.next /\ s.i = r.i + 1
      BY MoveOn
    <3>2. packer' = [packer EXCEPT ![p] = s]
      BY <1>2, <1>3, <1>11, <2>3, <3>1 DEF Check
    <3>3. s.i > 0
      BY <1>2, <1>10, <2>1, <3>1
    <3> QED
      BY <1>1, <1>6, <1>10, <2>1, <3>1, <3>2, <3>3
  <2> QED
    BY <2>2, <2>3
<1>12. CASE TakeNumber(p)
  <2>1. PICK s \in PackerStates : s = [r EXCEPT !.pc = "setN"]
                                  /\ s.pc = "setN" /\ s.elem = r.elem /\ s.next = r.next /\ s.i = r.i
    BY MoveTo
  <2>2. packer' = [packer EXCEPT ![p] = s] /\ r.pc = "num"
    BY <1>2, <1>12, <2>1 DEF TakeNumber, Goes, At
  <2> QED
    BY <1>1, <1>6, <1>10, <2>1, <2>2
<1>13. CASE SetTxNum(p)
  <2>1. PICK s \in PackerStates : s = [r EXCEPT !.pc = "setn"]
                                  /\ s.pc = "setn" /\ s.elem = r.elem /\ s.next = r.next /\ s.i = r.i
    BY MoveTo
  <2>2. packer' = [packer EXCEPT ![p] = s] /\ r.pc = "setN"
    BY <1>2, <1>13, <2>1 DEF SetTxNum, Goes, At
  <2> QED
    BY <1>1, <1>6, <1>10, <2>1, <2>2
<1>14. CASE SetnTx(p)
  <2>1. PICK s \in PackerStates : s = [r EXCEPT !.pc = "check", !.i = @ + 1]
                                  /\ s.pc = "check" /\ s.elem = r.elem /\ s.next = r.next /\ s.i = r.i + 1
    BY MoveBack
  <2>2. packer' = [packer EXCEPT ![p] = s] /\ r.pc = "setn"
    BY <1>2, <1>3, <1>14, <2>1 DEF SetnTx, At
  <2>3. s.i > 0
    BY <1>2, <1>10, <2>1, <2>2
  <2> QED
    BY <1>1, <1>6, <1>10, <2>1, <2>2, <2>3
<1>15. CASE Send(p)
  <2>1. CASE r.next = None
    <3>1. packer' = [packer EXCEPT ![p] = Off]
      BY <1>2, <1>15, <2>1 DEF Send
    <3> QED
      BY <1>1, <1>6, <1>7, <3>1
  <2>2. CASE r.next # None
    <3>1. PICK s \in PackerStates : s = [r EXCEPT !.pc = "next", !.elem = r.next] /\ s.pc = "next" /\ s.elem = r.next
      BY <1>2, MoveNext
    <3>2. packer' = [packer EXCEPT ![p] = s] /\ r.pc = "check"
      BY <1>2, <1>15, <2>2, <3>1 DEF Send, At
    <3> QED
      BY <1>1, <1>6, <1>10, <2>2, <3>1, <3>2
  <2> QED
    BY <2>1, <2>2
<1> QED
  BY <1>8, <1>9, <1>11, <1>12, <1>13, <1>14, <1>15 DEF PackerStep
\* The transaction a packer works on.
LEMMA CurrentIsTx ==
    ASSUME FloodType, NEW p \in Packers,
           packer[p].pc \in {"num", "setN", "setn"} \/ (packer[p].pc = "check" /\ packer[p].i <= Len(Batch(p)))
    PROVE  Current(p) \in Txs
<1>1. packer[p].i \in Nat
  BY DEF FloodType, ListType, PackerStates
<1>2. PackerType(p) /\ batches \in Seq(Seq(Txs))
  BY DEF FloodType, ListType
<1>3. Batch(p) \in Seq(Txs) /\ packer[p].i > 0 /\ packer[p].i <= Len(Batch(p))
  BY <1>2 DEF PackerType, Batch
<1> QED
  BY <1>1, <1>3 DEF Current

LEMMA TypeStep == FloodType /\ [Next]_vars => FloodType'
<1> SUFFICES ASSUME FloodType, [Next]_vars
             PROVE  FloodType'
  OBVIOUS
<1>0. PoolType /\ ListType /\ AddingPending /\ \A p \in Packers : PackerType(p)
  BY DEF FloodType
<1>a. ASSUME UNCHANGED <<notice, slist, batches, list, packer>>
      PROVE  ListType' /\ \A p \in Packers : PackerType(p)'
  BY <1>0, <1>a DEF ListType, PackerType, Batch
<1>b. ASSUME UNCHANGED <<adding, place, SContainer, N, NContainer, num, recv>>
      PROVE  PoolType' /\ AddingPending'
  BY <1>0, <1>b DEF PoolType, AddingPending
<1>1. ASSUME NEW txs \in SUBSET Txs \ {{}}, BeginAdd(txs)
      PROVE  FloodType'
  <2>1. ListType' /\ \A p \in Packers : PackerType(p)'
    BY <1>1, <1>a DEF BeginAdd
  <2>2. SetToSeq(txs) \in Seq(Txs) /\ \A i \in DOMAIN SetToSeq(txs) : SetToSeq(txs)[i] \in txs
    BY SetToSeqIsSeq
  <2>3. \A t \in Txs : place'[t] \in Places /\ (t \in txs => place'[t] \in {"pending", "again"})
    <3>1. TAKE t \in Txs
    <3>2. CASE t \notin txs
      BY <1>0, <1>1, <3>2 DEF BeginAdd, PoolType
    <3>3. CASE t \in txs /\ place[t] = "new"
      BY <1>1, <3>3 DEF BeginAdd, Places
    <3>4. CASE t \in txs /\ place[t] # "new"
      BY <1>1, <3>4 DEF BeginAdd, Places
    <3> QED
      BY <3>2, <3>3, <3>4
  <2>4. place' \in [Txs -> Places]
    BY <1>1, <2>3 DEF BeginAdd
  <2>5. PoolType'
    BY <1>0, <1>1, <2>2, <2>4 DEF BeginAdd, PoolType
  <2>6. AddingPending'
    BY <1>1, <2>2, <2>3 DEF BeginAdd, AddingPending
  <2> QED
    BY <2>1, <2>5, <2>6 DEF FloodType
<1>2. CASE Announce
  <2>1. adding \in Seq(Txs) /\ adding # <<>>
    BY <1>0, <1>2 DEF Announce, PoolType
  <2>2. Head(adding) \in Txs /\ Tail(adding) \in Seq(Txs) /\ Len(Tail(adding)) = Len(adding) - 1
        /\ \A i \in DOMAIN Tail(adding) : i + 1 \in DOMAIN adding /\ Tail(adding)[i] = adding[i + 1]
    BY <2>1
  <2>3. PoolType' /\ AddingPending'
    BY <1>0, <1>2, <2>1, <2>2 DEF Announce, PoolType, AddingPending
  <2>4. <<Head(adding)>> \in Seq(Txs)
    BY <2>2
  <2>5. ListType'
    BY <1>0, <1>2, <2>4 DEF Announce, ListType
  <2>6. \A p \in Packers : PackerType(p)'
    BY <1>0, <1>2 DEF Announce, PackerType, Batch
  <2> QED
    BY <2>3, <2>5, <2>6 DEF FloodType
<1>3. CASE EndAdd
  BY <1>0, <1>3, <1>a DEF EndAdd, FloodType, PoolType, AddingPending
<1>4. ASSUME NEW t \in Dropped, Demote(t) \/ RemoveTx(t)
      PROVE  FloodType'
  <2>1. ListType' /\ \A p \in Packers : PackerType(p)'
    BY <1>4, <1>a DEF Demote, RemoveTx
  <2>2. place' \in [Txs -> Places] /\ adding' = adding /\ adding = Free /\ UNCHANGED <<N, num, recv>>
    BY <1>0, <1>4 DEF Demote, RemoveTx, Unlocked, PoolType, Places
  <2>3. SContainer' \subseteq Txs
    BY <1>0, <1>4 DEF Demote, RemoveTx, PoolType
  <2>4. NContainer' \in [Numbers -> Txs \cup {None}]
    BY <1>0, <1>4 DEF Demote, RemoveTx, PoolType
  <2> QED
    BY <1>0, <2>1, <2>2, <2>3, <2>4 DEF FloodType, PoolType, AddingPending
<1>5. CASE Tick
  <2>1. PoolType' /\ AddingPending'
    BY <1>5, <1>b DEF Tick, poolVars
  <2>2. slist \in Seq(Txs) /\ notice' = notice /\ PackageSNList(slist)
    BY <1>0, <1>5 DEF Tick, ListType
  <2> QED
    BY <1>0, <2>1, <2>2, PackageKeeps DEF FloodType, ListType
<1>6. CASE TakeNotice
  <2>1. PoolType' /\ AddingPending'
    BY <1>6, <1>b DEF TakeNotice, poolVars
  <2>2. PICK s \in Seq(Txs) : s = Append(slist, Head(notice))
    <3>1. slist \in Seq(Txs) /\ notice \in Seq(Txs) /\ notice # <<>>
      BY <1>0, <1>6 DEF TakeNotice, ListType
    <3>2. Head(notice) \in Txs
      BY <3>1
    <3>3. Append(slist, Head(notice)) \in Seq(Txs)
      BY <3>1, <3>2
    <3> QED
      BY <3>3
  <2>3. notice' \in Seq(Txs)
    BY <1>6 DEF TakeNotice
  <2>4. CASE PackageSNList(s)
    BY <1>0, <2>1, <2>3, <2>4, PackageKeeps DEF FloodType, ListType
  <2>5. CASE slist' \in {s, slist} /\ UNCHANGED <<batches, list, packer>>
    BY <1>0, <2>1, <2>3, <2>5 DEF FloodType, ListType, PackerType, Batch
  <2>6. PackageSNList(s) \/ (slist' \in {s, slist} /\ UNCHANGED <<batches, list, packer>>)
    BY <1>6, <2>2 DEF TakeNotice
  <2> QED
    BY <2>4, <2>5, <2>6
<1>7. ASSUME NEW p \in Packers, PackerStep(p)
      PROVE  FloodType'
  <2>1. UNCHANGED <<adding, place, SContainer, notice, slist, batches, recv>> /\ PackerType(p)'
    BY <1>7, PackerChanges
  <2>2. packer' \in [Packers -> PackerStates] /\ \A q \in Packers : PackerType(q)'
    BY <1>7, <2>1, PackerChanges, PackerKeeps
  <2>3. list' \subseteq list
    BY <1>7 DEF PackerStep, TakeFront, TakeNext, Check, TakeNumber, SetTxNum, SetnTx, Send, poolVars
  <2>4. ListType'
    BY <1>0, <2>1, <2>2, <2>3 DEF ListType
  <2>5. num' \in 0 .. MaxTxN + 1
    <3>1. Upped(num) \in 0 .. MaxTxN + 1
      BY <1>0, FloodAssumption DEF PoolType, Upped
    <3>2. num' \in {num, Upped(num)}
      BY <1>7 DEF PackerStep, TakeFront, TakeNext, Check, TakeNumber, SetTxNum, SetnTx, Send, poolVars
    <3> QED
      BY <1>0, <3>1, <3>2 DEF PoolType
  <2>6. N' \in [Txs -> SUBSET Nat] /\ NContainer' \in [Numbers -> Txs \cup {None}]
    <3>1. CASE SetTxNum(p)
      <4>1. num \in Nat /\ N' = [N EXCEPT ![Current(p)] = N[Current(p)] \cup {num}] /\ NContainer' = NContainer
        BY <1>0, <3>1, FloodAssumption DEF SetTxNum, PoolType
      <4> QED
        BY <1>0, <4>1 DEF PoolType
    <3>2. CASE SetnTx(p)
      <4>1. Current(p) \in Txs
        BY <3>2, CurrentIsTx DEF SetnTx, At
      <4> QED
        BY <1>0, <3>2, <4>1 DEF SetnTx, PoolType
    <3>3. CASE UNCHANGED <<N, NContainer>>
      BY <1>0, <3>3 DEF PoolType
    <3> QED
      BY <1>7, <3>1, <3>2, <3>3 DEF PackerStep, TakeFront, TakeNext, Check, TakeNumber, Send, poolVars
  <2>7. PoolType' /\ AddingPending'
    BY <1>0, <2>1, <2>5, <2>6 DEF PoolType, AddingPending
  <2> QED
    BY <2>2, <2>4, <2>7 DEF FloodType
<1>8. ASSUME NEW n \in PeerNumbers, CheckTx(n) \/ RecvFloodTx(n)
      PROVE  FloodType'
  <2>1. ListType' /\ \A p \in Packers : PackerType(p)'
    BY <1>8, <1>a DEF CheckTx, RecvFloodTx
  <2>2. PoolType' /\ AddingPending'
    BY <1>0, <1>8 DEF CheckTx, RecvFloodTx, PoolType, AddingPending, poolVars
  <2> QED
    BY <2>1, <2>2 DEF FloodType
<1>9. CASE UNCHANGED vars
  BY <1>9, <1>a, <1>b DEF vars, poolVars, FloodType
<1> QED
  BY <1>1, <1>2, <1>3, <1>4, <1>5, <1>6, <1>7, <1>8, <1>9 DEF Next
-----------------------------------------------------------------------------
(* One packer at a time.                                                   *)

Solo == ~overlap => \A p, q \in Packers : packer[p] # Off /\ packer[q] # Off => p = q

\* A number is kept by a transaction that can be found, or that was removed.
Known == ~crashed => \A t \in Txs : N[t] # {} => t \in SContainer \/ place[t] = "out"

Numbered == {t \in Txs : N[t] # {}}
Count == Cardinality(Numbered)

\* The last number given is the number of transactions that have one, or the next
\* for the packer about to give it; a transaction has one number at most.
Counted ==
    /\ \A t \in Txs : \A n \in N[t] : n \in 1 .. Count
    /\ (\A p \in Packers : packer[p].pc # "setN") => num = Count
    /\ \A p \in Packers :
          /\ packer[p].pc = "setN" => num = Upped(Count)
          /\ packer[p].pc \in {"num", "setN"} => N[Current(p)] = {}
          /\ packer[p].pc = "setn" => N[Current(p)] = {num}

Disjoint == \A t, u \in Txs : t # u => N[t] \cap N[u] = {}

FoundRight == \A n \in Numbers : NContainer[n] # None => n \in N[NContainer[n]]

FoundAll ==
    \A t \in SContainer : \A n \in N[t] :
        NContainer[n] = t \/ \E p \in Packers : packer[p].pc = "setn" /\ Current(p) = t

NumberInv ==
    ~overlap /\ FirstRound /\ ~crashed => Counted /\ Disjoint /\ FoundRight /\ FoundAll

LEMMA SoloStep == FloodType /\ Solo /\ [Next]_vars => Solo'
<1> SUFFICES ASSUME FloodType, Solo, [Next]_vars, ~overlap'
             PROVE  \A p, q \in Packers : packer'[p] # Off /\ packer'[q] # Off => p = q
  BY DEF Solo
<1>1. CASE packer' = packer /\ overlap' = overlap
  BY <1>1 DEF Solo
<1>2. ASSUME NEW s, PackageSNList(s)
      PROVE  \A p, q \in Packers : packer'[p] # Off /\ packer'[q] # Off => p = q
  <2>1. \A q \in Packers : packer[q] = Off
    BY <1>2 DEF PackageSNList
  <2>2. \A q \in Packers : q # Len(batches) + 1 => packer'[q] = packer[q]
    BY <1>2 DEF PackageSNList, FloodType, ListType
  <2> QED
    BY <2>1, <2>2
<1>3. ASSUME NEW p \in Packers, PackerStep(p)
      PROVE  \A r, q \in Packers : packer'[r] # Off /\ packer'[q] # Off => r = q
  <2>1. overlap' = overlap /\ \A q \in Packers : q # p => packer'[q] = packer[q]
    BY <1>3, PackerChanges DEF FloodType, ListType
  <2>2. packer[p] # Off
    BY <1>3 DEF PackerStep, TakeFront, TakeNext, Check, TakeNumber, SetTxNum, SetnTx, Send, At, Off
  <2> QED
    BY <2>1, <2>2 DEF Solo
<1>4. CASE Tick \/ TakeNotice
  <2>1. (\E s : PackageSNList(s)) \/ (packer' = packer /\ overlap' = overlap)
    BY <1>4 DEF Tick, TakeNotice
  <2> QED
    BY <1>1, <1>2, <2>1
<1>5. ASSUME ~(Tick \/ TakeNotice), ~\E p \in Packers : PackerStep(p)
      PROVE  packer' = packer /\ overlap' = overlap
  BY <1>5 DEF Next, BeginAdd, Announce, EndAdd, Demote, RemoveTx, CheckTx, RecvFloodTx, vars
<1> QED
  BY <1>1, <1>3, <1>4, <1>5

LEMMA KnownStep == FloodType /\ Known /\ [Next]_vars => Known'
<1> SUFFICES ASSUME FloodType, Known, [Next]_vars, ~crashed', NEW t \in Txs, N'[t] # {}
             PROVE  t \in SContainer' \/ place'[t] = "out"
  BY DEF Known
<1>0. place \in [Txs -> Places] /\ N \in [Txs -> SUBSET Nat]
  BY DEF FloodType, PoolType
<1>1. ASSUME NEW txs \in SUBSET Txs \ {{}}, BeginAdd(txs)
      PROVE  t \in SContainer' \/ place'[t] = "out"
  BY <1>1 DEF BeginAdd, Known
<1>2. CASE Announce \/ EndAdd
  BY <1>2 DEF Announce, EndAdd, Known
<1>3. ASSUME NEW u \in Dropped, Demote(u) \/ RemoveTx(u)
      PROVE  t \in SContainer' \/ place'[t] = "out"
  <2>1. u \in Txs
    BY FloodAssumption
  <2>2. t \in SContainer \/ place[t] = "out"
    BY <1>3 DEF Demote, RemoveTx, Known
  <2> QED
    BY <1>0, <1>3, <2>1, <2>2 DEF Demote, RemoveTx
<1>4. CASE Tick \/ TakeNotice \/ UNCHANGED vars
  BY <1>4 DEF Tick, TakeNotice, vars, poolVars, Known
<1>5. ASSUME NEW p \in Packers, PackerStep(p)
      PROVE  t \in SContainer' \/ place'[t] = "out"
  <2>1. CASE SetTxNum(p)
    <3>1. Current(p) \in SContainer /\ ~crashed /\ SContainer' = SContainer /\ place' = place
      BY <2>1 DEF SetTxNum, At
    <3>2. t # Current(p) => N'[t] = N[t]
      BY <1>0, <2>1 DEF SetTxNum
    <3> QED
      BY <3>1, <3>2 DEF Known
  <2>2. CASE ~SetTxNum(p)
    BY <1>5, <2>2 DEF PackerStep, TakeFront, TakeNext, Check, TakeNumber, SetnTx, Send, At, poolVars, Known
  <2> QED
    BY <2>1, <2>2
<1>6. ASSUME NEW n \in PeerNumbers, CheckTx(n) \/ RecvFloodTx(n)
      PROVE  t \in SContainer' \/ place'[t] = "out"
  BY <1>6 DEF CheckTx, RecvFloodTx, poolVars, Known
<1> QED
  BY <1>1, <1>2, <1>3, <1>4, <1>5, <1>6 DEF Next
\* Transactions with a number are finitely many and never lose it.
LEMMA NumberedGrows ==
    ASSUME FloodType, FloodType', \A t \in Txs : N[t] \subseteq N'[t]
    PROVE  Count \in Nat /\ Count' \in Nat /\ Count <= Count'
<1>1. Numbered \subseteq Numbered' /\ Numbered' \subseteq Txs
  BY DEF Numbered
<1>2. IsFiniteSet(Numbered') /\ IsFiniteSet(Numbered)
  BY <1>1, FloodAssumption, FS_Subset
<1> QED
  BY <1>1, <1>2, FS_Subset, FS_CardinalityType DEF Count

\* What becomes of a packer that gives a number.
Works(p) == packer[p].pc \in {"num", "setN", "setn"}

\* Steps that leave the numbers alone, and the packers that give them too, but for
\* one that has found a transaction without a number.
LEMMA Idle ==
    ASSUME Counted, Disjoint, FoundRight, FoundAll,
           UNCHANGED <<N, NContainer, SContainer, num>>,
           \A p \in Packers : Works(p)' =>
              \/ Works(p) /\ packer'[p].pc = packer[p].pc /\ Current(p)' = Current(p)
              \/ packer'[p].pc = "num" /\ N[Current(p)'] = {},
           \A p \in Packers : packer[p].pc \in {"setN", "setn"} =>
              packer'[p].pc = packer[p].pc /\ Current(p)' = Current(p)
    PROVE  Counted' /\ Disjoint' /\ FoundRight' /\ FoundAll'
<1>1. Count' = Count
  BY DEF Count, Numbered
<1>2. Disjoint' /\ FoundRight'
  BY DEF Disjoint, FoundRight
<1>3. FoundAll'
  <2> SUFFICES ASSUME NEW t \in SContainer, NEW n \in N[t], NContainer[n] # t
               PROVE  \E p \in Packers : packer'[p].pc = "setn" /\ Current(p)' = t
    BY Zenon DEF FoundAll
  <2>1. PICK p \in Packers : packer[p].pc = "setn" /\ Current(p) = t
    BY DEF FoundAll
  <2> QED
    BY <2>1
<1>4. (\A p \in Packers : packer'[p].pc # "setN") => num' = Count'
  BY <1>1 DEF Counted
<1>5. ASSUME NEW p \in Packers
      PROVE  /\ packer'[p].pc = "setN" => num' = Upped(Count)'
             /\ packer'[p].pc \in {"num", "setN"} => N'[Current(p)'] = {}
             /\ packer'[p].pc = "setn" => N'[Current(p)'] = {num'}
  BY <1>1 DEF Works, Counted, Upped
<1>6. \A t \in Txs : \A n \in N'[t] : n \in 1 .. Count'
  BY <1>1 DEF Counted
<1> QED
  BY <1>2, <1>3, <1>4, <1>5, <1>6 DEF Counted

LEMMA NumberStep ==
    ASSUME FloodType, FloodType', Solo, Known, NumberInv, [Next]_vars
    PROVE  NumberInv'
<1> SUFFICES ASSUME ~overlap', FirstRound', ~crashed'
             PROVE  Counted' /\ Disjoint' /\ FoundRight' /\ FoundAll'
  BY DEF NumberInv
<1>0. /\ N \in [Txs -> SUBSET Nat] /\ place \in [Txs -> Places] /\ SContainer \subseteq Txs
      /\ NContainer \in [Numbers -> Txs \cup {None}] /\ num \in Nat
  BY FloodAssumption DEF FloodType, PoolType
<1>1. ~overlap /\ ~crashed
  <2>1. ~overlap
    BY PackerChanges DEF Next, BeginAdd, Announce, EndAdd, Demote, RemoveTx, Tick, TakeNotice, PackageSNList,
                         CheckTx, RecvFloodTx, vars
  <2>2. ~crashed
    BY PackerChanges DEF Next, BeginAdd, Announce, EndAdd, Demote, RemoveTx, Tick, TakeNotice,
                         CheckTx, RecvFloodTx, vars
  <2> QED
    BY <2>1, <2>2
<1>2. \A t \in Txs : N[t] \subseteq N'[t]
  <2>1. ASSUME NEW p \in Packers, SetTxNum(p)
        PROVE  \A t \in Txs : N[t] \subseteq N'[t]
    BY <1>0, <2>1 DEF SetTxNum
  <2>2. (\E p \in Packers : SetTxNum(p)) \/ N' = N
    BY DEF Next, BeginAdd, Announce, EndAdd, Demote, RemoveTx, Tick, TakeNotice, PackerStep, TakeFront,
           TakeNext, Check, TakeNumber, SetnTx, Send, CheckTx, RecvFloodTx, vars, poolVars
  <2> QED
    BY <2>1, <2>2
<1>3. Count \in Nat /\ Count' \in Nat /\ Count <= Count' /\ Count' <= MaxTxN + 1
  BY <1>2, NumberedGrows DEF FirstRound, Count, Numbered
<1>4. Counted /\ Disjoint /\ FoundRight /\ FoundAll
  <2>1. FirstRound
    BY <1>3, FloodAssumption DEF FirstRound, Count, Numbered
  <2> QED
    BY <1>1, <2>1 DEF NumberInv
<1>5. CASE UNCHANGED <<N, NContainer, SContainer, num, batches, packer>>
  <2>1. \A p \in Packers : packer'[p] = packer[p] /\ Current(p)' = Current(p)
    BY <1>5 DEF Current, Batch
  <2> QED
    BY <1>4, <1>5, <2>1, Idle DEF Works
<1>6. CASE Announce
  <2>1. UNCHANGED <<N, NContainer, num, batches, packer>> /\ SContainer' = SContainer \cup {Head(adding)}
    BY <1>6 DEF Announce
  <2>2. \A p \in Packers : packer'[p] = packer[p] /\ Current(p)' = Current(p)
    BY <2>1 DEF Current, Batch
  <2>3. Head(adding) \in Txs /\ place[Head(adding)] \in {"pending", "again"}
    BY <1>6 DEF Announce, FloodType, PoolType, AddingPending
  <2>4. N[Head(adding)] # {} => Head(adding) \in SContainer
    BY <1>1, <2>3 DEF Known
  <2>5. Count' = Count
    BY <2>1 DEF Count, Numbered
  <2>6. Counted'
    BY <1>4, <2>1, <2>2, <2>5 DEF Counted, Upped
  <2>7. FoundAll'
    <3> SUFFICES ASSUME NEW t \in SContainer', NEW n \in N[t], NContainer[n] # t
                 PROVE  \E p \in Packers : packer'[p].pc = "setn" /\ Current(p)' = t
      BY <2>1, Zenon DEF FoundAll
    <3>1. t \in SContainer
      BY <2>1, <2>4
    <3>2. PICK p \in Packers : packer[p].pc = "setn" /\ Current(p) = t
      BY <1>4, <3>1 DEF FoundAll
    <3> QED
      BY <2>2, <3>2
  <2> QED
    BY <1>4, <2>1, <2>6, <2>7 DEF Disjoint, FoundRight
<1>7. ASSUME NEW u \in Dropped, RemoveTx(u)
      PROVE  Counted' /\ Disjoint' /\ FoundRight' /\ FoundAll'
  <2>0. UNCHANGED <<N, num, batches, packer>>
    BY <1>7 DEF RemoveTx
  <2>1. CASE place[u] # "queue"
    BY <1>5, <1>7, <2>0, <2>1 DEF RemoveTx
  <2>2. CASE place[u] = "queue"
    <3>1. /\ SContainer' = SContainer \ {u}
          /\ NContainer' = [n \in Numbers |-> IF n \in N[u] THEN None ELSE NContainer[n]]
      BY <1>7, <2>2 DEF RemoveTx
    <3>2. \A p \in Packers : packer'[p] = packer[p] /\ Current(p)' = Current(p)
      BY <2>0 DEF Current, Batch
    <3>3. Count' = Count
      BY <2>0 DEF Count, Numbered
    <3>4. Counted'
      BY <1>4, <2>0, <3>2, <3>3 DEF Counted, Upped
    <3>5. FoundRight'
      BY <1>4, <2>0, <3>1 DEF FoundRight
    <3>6. FoundAll'
      <4> SUFFICES ASSUME NEW t \in SContainer', NEW n \in N[t]
                   PROVE  NContainer'[n] = t \/ \E p \in Packers : packer'[p].pc = "setn" /\ Current(p)' = t
        BY <2>0, Zenon DEF FoundAll
      <4>1. t \in SContainer /\ t # u /\ t \in Txs /\ u \in Txs
        BY <1>0, <3>1, FloodAssumption
      <4>2. n \notin N[u]
        BY <1>4, <4>1 DEF Disjoint
      <4>3. n \in Numbers
        BY <1>3, <1>4, <4>1, FloodAssumption DEF Counted, Numbers
      <4>4. NContainer'[n] = NContainer[n]
        BY <3>1, <4>2, <4>3
      <4>5. NContainer[n] = t \/ \E p \in Packers : packer[p].pc = "setn" /\ Current(p) = t
        BY <1>4, <4>1 DEF FoundAll
      <4> QED
        BY <3>2, <4>4, <4>5
    <3> QED
      BY <1>4, <2>0, <3>4, <3>5, <3>6 DEF Disjoint
  <2> QED
    BY <2>1, <2>2
<1>8. ASSUME NEW s, PackageSNList(s), UNCHANGED <<N, NContainer, SContainer, num>>
      PROVE  Counted' /\ Disjoint' /\ FoundRight' /\ FoundAll'
  <2>1. \A q \in Packers : packer[q] = Off
    BY <1>8 DEF PackageSNList
  <2>2. \A q \in Packers : packer[q].pc = "off" /\ packer'[q].pc \in {"off", "front"}
    BY <1>8, <2>1 DEF PackageSNList, FloodType, ListType, Off
  <2> QED
    BY <1>4, <1>8, <2>2, Idle DEF Works
<1>9. CASE Tick \/ TakeNotice
  <2>1. UNCHANGED <<N, NContainer, SContainer, num>>
        /\ ((\E s : PackageSNList(s)) \/ UNCHANGED <<batches, packer>>)
    BY <1>9 DEF Tick, TakeNotice, poolVars
  <2> QED
    BY <1>5, <1>8, <2>1
<1>10. ASSUME NEW p \in Packers, PackerStep(p)
       PROVE  Counted' /\ Disjoint' /\ FoundRight' /\ FoundAll'
  <2>0. /\ UNCHANGED <<SContainer, batches>>
        /\ \A q \in Packers : q # p => packer'[q] = packer[q] /\ Current(q)' = Current(q)
    BY <1>10, PackerChanges DEF FloodType, ListType, Current, Batch
  <2>1. \A q \in Packers : q # p => packer[q].pc = "off"
    <3>1. packer[p] # Off
      BY <1>10 DEF PackerStep, TakeFront, TakeNext, Check, TakeNumber, SetTxNum, SetnTx, Send, At, Off
    <3> QED
      BY <1>1, <3>1 DEF Solo, Off
  <2>2. packer[p] \in PackerStates /\ packer \in [Packers -> PackerStates]
    BY DEF FloodType, ListType
  <2>3. CASE TakeFront(p) \/ TakeNext(p) \/ Send(p)
    <3>1. packer[p].pc \in {"front", "next", "check"} /\ UNCHANGED <<N, NContainer, num>>
      BY <2>3 DEF TakeFront, TakeNext, Send, At, poolVars
    <3>2. packer'[p].pc \in {"off", "next", "check"}
      <4>1. CASE TakeFront(p)
        BY <2>2, <4>1 DEF TakeFront, Off, PackerStates
      <4>2. CASE TakeNext(p)
        BY <2>2, <4>2 DEF TakeNext, PackerStates
      <4>3. CASE Send(p)
        BY <2>2, <4>3 DEF Send, Off, PackerStates
      <4> QED
        BY <2>3, <4>1, <4>2, <4>3
    <3>3. \A q \in Packers : ~Works(q)' /\ packer[q].pc \notin {"setN", "setn"}
      BY <2>0, <2>1, <3>1, <3>2 DEF Works
    <3> QED
      BY <1>4, <2>0, <3>1, <3>3, Idle
  <2>4. CASE Check(p)
    <3>1. packer[p].pc = "check" /\ UNCHANGED <<N, NContainer, num>>
      BY <2>4 DEF Check, At, poolVars
    <3>2. packer'[p].pc = "check" \/ (packer'[p].pc = "num" /\ N[Current(p)'] = {})
      <4>1. CASE N[Current(p)] = {}
        <5>1. packer' = [packer EXCEPT ![p].pc = "num"]
          BY <2>4, <4>1 DEF Check
        <5>2. packer'[p].pc = "num" /\ packer'[p].elem = packer[p].elem /\ packer'[p].i = packer[p].i
          BY <2>2, <5>1 DEF PackerStates
        <5> QED
          BY <2>0, <4>1, <5>2 DEF Current, Batch
      <4>2. CASE N[Current(p)] # {}
        <5>1. packer' = [packer EXCEPT ![p].i = @ + 1]
          BY <2>4, <4>2 DEF Check
        <5> QED
          BY <2>2, <3>1, <5>1 DEF PackerStates
      <4> QED
        BY <4>1, <4>2
    <3>3. \A q \in Packers : /\ packer[q].pc \notin {"setN", "setn"}
                             /\ Works(q)' => packer'[q].pc = "num" /\ N[Current(q)'] = {}
      BY <2>0, <2>1, <3>1, <3>2 DEF Works
    <3> QED
      BY <1>4, <2>0, <3>1, <3>3, Idle
  <2>5. CASE TakeNumber(p)
    <3>1. packer[p].pc = "num" /\ UNCHANGED <<N, NContainer>> /\ packer' = [packer EXCEPT ![p].pc = "setN"]
      BY <2>5 DEF TakeNumber, At, Goes, poolVars
    <3>2. packer'[p].pc = "setN" /\ packer'[p].elem = packer[p].elem /\ packer'[p].i = packer[p].i
      BY <2>2, <3>1 DEF PackerStates
    <3>3. Current(p)' = Current(p)
      BY <2>0, <3>2 DEF Current, Batch
    <3>4. \A q \in Packers : packer[q].pc \notin {"setN", "setn"}
      BY <2>1, <3>1
    <3>5. num' = Upped(num) /\ num = Count
      BY <1>4, <2>5, <3>4 DEF TakeNumber, At, Counted
    <3>6. Count' = Count
      BY <3>1 DEF Count, Numbered
    <3>7. Counted'
      BY <1>4, <2>0, <2>1, <3>1, <3>2, <3>3, <3>5, <3>6 DEF Counted, Upped
    <3>8. FoundAll'
      BY <1>4, <2>0, <3>1, <3>4 DEF FoundAll
    <3> QED
      BY <1>4, <3>1, <3>7, <3>8 DEF Disjoint, FoundRight
  <2>6. CASE SetTxNum(p)
    <3> DEFINE t == Current(p)
    <3>1. packer[p].pc = "setN" /\ UNCHANGED <<NContainer, num>> /\ packer' = [packer EXCEPT ![p].pc = "setn"]
          /\ N' = [N EXCEPT ![t] = @ \cup {num}]
      BY <2>6 DEF SetTxNum, At, Goes
    <3>2. packer'[p].pc = "setn" /\ packer'[p].elem = packer[p].elem /\ packer'[p].i = packer[p].i
      BY <2>2, <3>1 DEF PackerStates
    <3>3. Current(p)' = t /\ t \in Txs
      BY <2>0, <3>1, <3>2, CurrentIsTx DEF Current, Batch
    <3>4. N[t] = {} /\ num = Upped(Count)
      BY <1>4, <3>1 DEF Counted
    <3> HIDE DEF t
    <3>5. N'[t] = {num} /\ \A u \in Txs : u # t => N'[u] = N[u]
      BY <1>0, <3>1, <3>3, <3>4
    <3>6. Count' = Count + 1
      <4>1. Numbered' = Numbered \cup {t} /\ t \notin Numbered /\ Numbered \subseteq Txs
        BY <3>3, <3>4, <3>5 DEF Numbered
      <4>2. IsFiniteSet(Numbered)
        BY <4>1, FloodAssumption, FS_Subset
      <4> QED
        BY <4>1, <4>2, FS_AddElement DEF Count
    <3>7. num = Count + 1
      BY <1>3, <3>4, <3>6, FloodAssumption DEF Upped
    <3>8. \A u \in Txs : \A n \in N'[u] : n \in 1 .. Count'
      BY <1>3, <1>4, <3>5, <3>6, <3>7 DEF Counted
    <3>9. Counted'
      <4>1. \A q \in Packers : q # p => packer'[q].pc = "off"
        BY <2>0, <2>1
      <4> QED
        BY <3>1, <3>2, <3>3, <3>5, <3>6, <3>7, <3>8, <4>1 DEF Counted
    <3>10. Disjoint'
      <4>1. \A u \in Txs : num \notin N[u]
        BY <1>3, <1>4, <3>7 DEF Counted
      <4> QED
        BY <1>4, <3>5, <4>1 DEF Disjoint
    <3>11. FoundRight'
      BY <1>0, <1>2, <1>4, <3>1 DEF FoundRight
    <3>12. FoundAll'
      <4> SUFFICES ASSUME NEW u \in SContainer, NEW n \in N'[u], u # t
                   PROVE  NContainer[n] = u
        BY <2>0, <3>1, <3>2, <3>3, Zenon DEF FoundAll
      <4>1. n \in N[u]
        BY <1>0, <3>5
      <4>2. \A q \in Packers : packer[q].pc # "setn"
        BY <2>1, <3>1
      <4> QED
        BY <1>4, <4>1, <4>2 DEF FoundAll
    <3> QED
      BY <3>9, <3>10, <3>11, <3>12
  <2>7. CASE SetnTx(p)
    <3> DEFINE t == Current(p)
    <3>1. packer[p].pc = "setn" /\ UNCHANGED <<N, num>> /\ packer' = [packer EXCEPT ![p].pc = "check", ![p].i = @ + 1]
          /\ NContainer' = [NContainer EXCEPT ![num] = t]
      BY <2>7 DEF SetnTx, At
    <3>2. packer'[p].pc = "check"
      BY <2>2, <3>1 DEF PackerStates
    <3>3. t \in Txs /\ N[t] = {num}
      BY <1>4, <3>1, CurrentIsTx DEF Counted
    <3>4. num \in Numbers
      <4>1. num \in 1 .. Count
        BY <1>4, <3>3 DEF Counted
      <4> QED
        BY <1>3, <4>1, FloodAssumption DEF Numbers
    <3>5. \A q \in Packers : packer'[q].pc \in {"off", "check"}
      BY <2>0, <2>1, <3>2
    <3>6. Count' = Count /\ num = Count
      BY <1>4, <2>1, <3>1 DEF Count, Numbered, Counted
    <3>7. Counted'
      BY <1>4, <3>1, <3>5, <3>6 DEF Counted
    <3>8. \A q \in Packers : packer[q].pc = "setn" => Current(q) = t
      BY <2>1
    <3> HIDE DEF t
    <3>9. FoundRight'
      BY <1>0, <1>4, <3>1, <3>3, <3>4 DEF FoundRight
    <3>10. FoundAll'
      <4> SUFFICES ASSUME NEW u \in SContainer, NEW n \in N[u]
                   PROVE  NContainer'[n] = u
        BY <2>0, <3>1, Zenon DEF FoundAll
      <4>1. CASE u = t
        BY <1>0, <3>1, <3>3, <3>4, <4>1
      <4>2. CASE u # t
        <5>1. n # num
          BY <1>0, <1>4, <3>3, <4>2 DEF Disjoint
        <5>2. NContainer[n] = u
          BY <1>4, <3>8, <4>2 DEF FoundAll
        <5>3. n \in Numbers
          BY <1>0, <1>3, <1>4, FloodAssumption DEF Counted, Numbers
        <5> QED
          BY <1>0, <3>1, <5>1, <5>2, <5>3
      <4> QED
        BY <4>1, <4>2
    <3> QED
      BY <1>4, <3>1, <3>7, <3>9, <3>10 DEF Disjoint
  <2> QED
    BY <1>10, <2>3, <2>4, <2>5, <2>6, <2>7 DEF PackerStep
<1>11. ASSUME ~Announce, ~\E u \in Dropped : RemoveTx(u), ~(Tick \/ TakeNotice), ~\E p \in Packers : PackerStep(p)
       PROVE  UNCHANGED <<N, NContainer, SContainer, num, batches, packer>>
  BY <1>11 DEF Next, BeginAdd, EndAdd, Demote, CheckTx, RecvFloodTx, vars, poolVars
<1> QED
  BY <1>5, <1>6, <1>7, <1>9, <1>10, <1>11

\* While one packer ends before the next begins, and before the numbers come round,
\* a number names one transaction and finds it: for any number of transactions,
\* batches, demotions and removals (packageSNList, setTxNum, setnTx, deleteMap).
THEOREM NumbersAreFound == Spec => []NumbersFind
<1>1. Init => FloodType /\ Solo /\ Known /\ NumberInv
  <2> SUFFICES ASSUME Init
               PROVE  Solo /\ Known /\ NumberInv
    BY TypeInit
  <2>1. Solo /\ Known
    BY DEF Init, Solo, Known
  <2>2. Numbered = {} /\ Count = 0
    <3>1. Numbered = {}
      BY DEF Init, Numbered
    <3> QED
      BY <3>1, FS_EmptySet DEF Count
  <2>3. Counted
    BY <2>2 DEF Init, Counted, Off
  <2>4. Disjoint /\ FoundRight /\ FoundAll
    BY DEF Init, Disjoint, FoundRight, FoundAll
  <2> QED
    BY <2>1, <2>3, <2>4 DEF NumberInv
<1>2. FloodType /\ Solo /\ Known /\ NumberInv /\ [Next]_vars => (FloodType /\ Solo /\ Known /\ NumberInv)'
  BY TypeStep, SoloStep, KnownStep, NumberStep
<1>3. NumberInv => NumbersFind
  BY Zenon DEF NumberInv, NumbersFind, Disjoint, FoundRight, FoundAll
<1> QED
  BY <1>1, <1>2, <1>3, PTL DEF Spec
=============================================================================
