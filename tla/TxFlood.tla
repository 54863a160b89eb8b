------------------------------ MODULE TxFlood -------------------------------
(***************************************************************************)
(* How the pool floods its transactions (core/tx_pool.go).  A transaction  *)
(* that becomes executable is put in SContainer, by its signature S, and   *)
(* announced on a channel to checkList, which gathers the announced ones   *)
(* and hands each batch to a goroutine of its own, the packer: it numbers  *)
(* the transactions, enters them in NContainer and sends the numbers.      *)
(*                                                                         *)
(* The list of batches and the counter num are shared by the packers       *)
(* without a lock, so the packers' steps are the reads and writes of them. *)
(* SContainer, NContainer and the transactions' N are read and written     *)
(* under pool.mu.  The node has a role that floods, and no node number:    *)
(* nothing fills Identity.idList, so peers number from 1 as this node does.*)
(* SContainer is keyed by the pointer to S: an S that comes in a message   *)
(* is a pointer of its own and finds nothing.                              *)
(***************************************************************************)
EXTENDS Integers, FiniteSets, Sequences, SequencesExt

CONSTANTS
    Txs,                    \* transactions, named by their S
    FloodMaxTransactions,   \* 200 in the code
    MaxTxN,                 \* 0x1FFFF in the code
    Dropped,                \* transactions that may be demoted and removed
    PeerNumbers,            \* the numbers peers use
    MaxBatches              \* bound: batches handed over, each to a packer of its own;
                            \* what is announced after them is not followed

ASSUME FloodAssumption ==
    /\ FloodMaxTransactions \in Nat \ {0}
    /\ MaxBatches \in Nat
    /\ Txs \subseteq Nat \ {0} /\ IsFiniteSet(Txs)
    /\ Dropped \subseteq Txs
    /\ MaxTxN \in Nat
    /\ PeerNumbers \subseteq 1 .. MaxTxN + 1

VARIABLES
    adding,     \* what an addTx that holds pool.mu has yet to announce, or Free
    place,      \* [Txs -> "new", "pending", "queue", "again" (pending after the
                \* queue) or "out"]
    SContainer, \* the transactions found by their S
    N,          \* [Txs -> the numbers in tx.N]
    NContainer, \* [numbers -> the transaction found by it, or None]
    mapNS,      \* the numbers a peer has given to a transaction
    notice,     \* the channel gSendst.notice, capacity 1
    slist,      \* announced, not yet in a batch
    batches,    \* all the batches so far
    list,       \* the batches on the list, by their index, which is their order
    num,        \* the last number given
    packer,     \* [Packers -> the state of the goroutine]
    recv,       \* RecvFloodTx: "off", or "add" in its call of addTx
    overlap,    \* two packers have run at once
    crashed     \* a packer has dereferenced nil

poolVars == <<adding, place, SContainer, N, NContainer, mapNS>>
vars == <<poolVars, notice, slist, batches, list, num, packer, recv, overlap, crashed>>

None == 0
Free == <<None>>
Numbers == 1 .. MaxTxN + 1
Packers == 1 .. MaxBatches
Off == [pc |-> "off", elem |-> None, next |-> None, i |-> 0]

Init ==
    /\ adding = Free
    /\ place = [t \in Txs |-> "new"]
    /\ SContainer = {}
    /\ N = [t \in Txs |-> {}]
    /\ NContainer = [n \in Numbers |-> None]
    /\ mapNS = {}
    /\ notice = <<>>
    /\ slist = <<>>
    /\ batches = <<>>
    /\ list = {}
    /\ num = 0
    /\ packer = [p \in Packers |-> Off]
    /\ recv = "off"
    /\ overlap = FALSE
    /\ crashed = FALSE

\* pool.mu can be taken for writing: RecvFloodTx keeps a read lock.
Unlocked == adding = Free /\ recv = "off" /\ ~crashed

-----------------------------------------------------------------------------
(* The pool's own operations, under pool.mu.                               *)

\* addTx or reset, as far as it makes transactions executable: new ones come in
\* the order of their names.
BeginAdd(txs) ==
    /\ Unlocked
    /\ \A t \in txs : place[t] \in {"new", "queue"}
    /\ \A t \in txs, u \in Txs \ txs : u < t => place[u] # "new"
    /\ place' = [t \in Txs |-> IF t \notin txs THEN place[t]
                               ELSE IF place[t] = "new" THEN "pending" ELSE "again"]
    /\ adding' = SetToSeq(txs)
    /\ UNCHANGED <<SContainer, N, NContainer, mapNS, notice, slist, batches, list, num,
                   packer, recv, overlap, crashed>>

\* setsTx and the send on the channel, which waits for room with pool.mu held.
Announce ==
    /\ adding \notin {Free, <<>>}
    /\ N[Head(adding)] = {} => notice = <<>>
    /\ SContainer' = SContainer \cup {Head(adding)}
    /\ notice' = IF N[Head(adding)] = {} THEN <<Head(adding)>> ELSE notice
    /\ adding' = Tail(adding)
    /\ UNCHANGED <<place, N, NContainer, mapNS, slist, batches, list, num, packer, recv, overlap, crashed>>

EndAdd ==
    /\ adding = <<>>
    /\ adding' = Free
    /\ UNCHANGED <<place, SContainer, N, NContainer, mapNS, notice, slist, batches, list,
                   num, packer, recv, overlap, crashed>>

\* A transaction loses the one before it and goes back to the queue: once, as a
\* bound.
Demote(t) ==
    /\ Unlocked
    /\ place[t] = "pending"
    /\ place' = [place EXCEPT ![t] = "queue"]
    /\ UNCHANGED <<adding, SContainer, N, NContainer, mapNS, notice, slist, batches, list,
                   num, packer, recv, overlap, crashed>>

\* removeTx: only a transaction of the queue gets to deleteMap.
RemoveTx(t) ==
    /\ Unlocked
    /\ place[t] \in {"pending", "queue", "again"}
    /\ place' = [place EXCEPT ![t] = "out"]
    /\ IF place[t] = "queue"
       THEN /\ SContainer' = SContainer \ {t}
            /\ NContainer' = [n \in Numbers |-> IF n \in N[t] THEN None ELSE NContainer[n]]
            /\ mapNS' = mapNS \ N[t]
       ELSE UNCHANGED <<SContainer, NContainer, mapNS>>
    /\ UNCHANGED <<adding, N, notice, slist, batches, list, num, packer, recv,
                   overlap, crashed>>

-----------------------------------------------------------------------------
(* checkList.                                                              *)

\* packageSNList: a batch, and a packer that starts at the head of the list.
PackageSNList(s) ==
    /\ Len(batches) < MaxBatches
    /\ batches' = Append(batches, s)
    /\ list' = list \cup {Len(batches) + 1}
    /\ slist' = <<>>
    /\ packer' = [packer EXCEPT ![Len(batches) + 1].pc = "front"]
    /\ overlap' = (overlap \/ \E q \in Packers : packer[q] # Off)

Tick ==
    /\ ~crashed
    /\ slist # <<>>
    /\ PackageSNList(slist)
    /\ UNCHANGED <<poolVars, notice, num, recv, crashed>>

\* Mutant: checkList numbers a batch itself before it takes another notice.
TakeNoticeInLine ==
    /\ ~crashed
    /\ notice # <<>>
    /\ \A p \in Packers : packer[p] = Off
    /\ notice' = <<>>
    /\ LET s == Append(slist, Head(notice))
       IN  IF Len(batches) < MaxBatches /\ Len(s) >= FloodMaxTransactions
           THEN PackageSNList(s)
           ELSE /\ slist' = IF Len(batches) < MaxBatches THEN s ELSE slist
                /\ UNCHANGED <<batches, list, packer, overlap>>
    /\ UNCHANGED <<poolVars, num, recv, crashed>>

TakeNotice ==
    /\ ~crashed
    /\ notice # <<>>
    /\ notice' = <<>>
    /\ LET s == Append(slist, Head(notice))
       IN  IF Len(batches) < MaxBatches /\ Len(s) >= FloodMaxTransactions
           THEN PackageSNList(s)
           ELSE /\ slist' = IF Len(batches) < MaxBatches THEN s ELSE slist
                /\ UNCHANGED <<batches, list, packer, overlap>>
    /\ UNCHANGED <<poolVars, num, recv, crashed>>

-----------------------------------------------------------------------------
(* A packer.                                                               *)

At(p, pc) == packer[p].pc = pc /\ ~crashed
Goes(p, pc) == packer' = [packer EXCEPT ![p].pc = pc]

\* Front.
TakeFront(p) ==
    /\ At(p, "front")
    /\ packer' = [packer EXCEPT ![p] = IF list = {} THEN Off
                                       ELSE [@ EXCEPT !.pc = "next", !.elem = Min(list)]]
    /\ UNCHANGED <<poolVars, notice, slist, batches, list, num, recv, overlap, crashed>>

\* Next, which is nil for an element another packer has removed.
Following(e) ==
    LET later == {f \in list : f > e}
    IN  IF e \in list /\ later # {} THEN Min(later) ELSE None

TakeNext(p) ==
    /\ At(p, "next")
    /\ packer' = [packer EXCEPT ![p].pc = "check", ![p].next = Following(packer[p].elem),
                                ![p].i = 1]
    /\ UNCHANGED <<poolVars, notice, slist, batches, list, num, recv, overlap, crashed>>

Batch(p) == batches[packer[p].elem]
Current(p) == Batch(p)[packer[p].i]

\* sTxValIsNil, under pool.mu, looks the transaction up without a check for nil.
Check(p) ==
    /\ At(p, "check")
    /\ packer[p].i <= Len(Batch(p))
    /\ Unlocked
    /\ crashed' = (Current(p) \notin SContainer)
    /\ packer' = IF N[Current(p)] = {} THEN [packer EXCEPT ![p].pc = "num"]
                                       ELSE [packer EXCEPT ![p].i = @ + 1]
    /\ UNCHANGED <<poolVars, notice, slist, batches, list, num, recv, overlap>>

Upped(n) == (IF n > MaxTxN THEN 0 ELSE n) + 1

\* Mutant: the numbers start again one too early.
TakeNumberEarly(p) ==
    /\ At(p, "num")
    /\ num' = (IF num >= MaxTxN THEN 0 ELSE num) + 1
    /\ Goes(p, "setN")
    /\ UNCHANGED <<poolVars, notice, slist, batches, list, recv, overlap, crashed>>

\* The addition is atomic, the assignment of its result is not: a packer that has
\* added may store its own result after this one's.
TakeNumber(p) ==
    /\ At(p, "num")
    /\ num' \in {Upped(num)} \cup {num : q \in {r \in Packers \ {p} : At(r, "setN")}}
    /\ Goes(p, "setN")
    /\ UNCHANGED <<poolVars, notice, slist, batches, list, recv, overlap, crashed>>

\* getTxbyS and setTxNum, with num as it is now.
SetTxNum(p) ==
    /\ At(p, "setN")
    /\ Unlocked
    /\ crashed' = (Current(p) \notin SContainer)
    /\ N' = [N EXCEPT ![Current(p)] = @ \cup {num}]
    /\ Goes(p, "setn")
    /\ UNCHANGED <<adding, place, SContainer, NContainer, mapNS, notice, slist, batches, list,
                   num, recv, overlap>>

\* setnTx, with num as it is now.
SetnTx(p) ==
    /\ At(p, "setn")
    /\ Unlocked
    /\ NContainer' = [NContainer EXCEPT ![num] = Current(p)]
    /\ packer' = [packer EXCEPT ![p].pc = "check", ![p].i = @ + 1]
    /\ UNCHANGED <<adding, place, SContainer, N, mapNS, notice, slist, batches, list,
                   num, recv, overlap, crashed>>

\* Mutant: the batch stays on the list.
SendKeeps(p) ==
    /\ At(p, "check")
    /\ packer[p].i > Len(Batch(p))
    /\ packer' = [packer EXCEPT ![p] =
                    IF packer[p].next = None THEN Off ELSE [@ EXCEPT !.pc = "next", !.elem = packer[p].next]]
    /\ UNCHANGED <<poolVars, notice, slist, batches, list, num, recv, overlap, crashed>>

\* sendMsg, with the numbers of this batch and of the batches before it, and
\* Remove, which does nothing the second time.
Send(p) ==
    /\ At(p, "check")
    /\ packer[p].i > Len(Batch(p))
    /\ list' = list \ {packer[p].elem}
    /\ packer' = [packer EXCEPT ![p] =
                    IF packer[p].next = None THEN Off ELSE [@ EXCEPT !.pc = "next", !.elem = packer[p].next]]
    /\ UNCHANGED <<poolVars, notice, slist, batches, num, recv, overlap, crashed>>

-----------------------------------------------------------------------------
(* Messages of peers.                                                      *)

\* CheckTx writes mapNS without a lock, then asks for the transaction.
CheckTx(n) ==
    /\ ~crashed
    /\ mapNS' = mapNS \cup {n}
    /\ UNCHANGED <<adding, place, SContainer, N, NContainer, notice, slist, batches, list,
                   num, packer, recv, overlap, crashed>>

\* RecvFloodTx with the answer: addTx waits for the read lock of its caller.
RecvFloodTx(n) ==
    /\ Unlocked
    /\ n \in mapNS
    /\ recv' = "add"
    /\ UNCHANGED <<poolVars, notice, slist, batches, list, num, packer, overlap,
                   crashed>>

-----------------------------------------------------------------------------
PackerStep(p) ==
    \/ TakeFront(p) \/ TakeNext(p) \/ Check(p) \/ TakeNumber(p) \/ SetTxNum(p)
    \/ SetnTx(p) \/ Send(p)

Next ==
    \/ \E txs \in SUBSET Txs \ {{}} : BeginAdd(txs)
    \/ Announce
    \/ EndAdd
    \/ \E t \in Dropped : Demote(t) \/ RemoveTx(t)
    \/ Tick
    \/ TakeNotice
    \/ \E p \in Packers : PackerStep(p)
    \/ \E n \in PeerNumbers : CheckTx(n) \/ RecvFloodTx(n)

\* checkList, the packers and a call that holds pool.mu keep running.
Spec ==
    /\ Init /\ [][Next]_vars
    /\ WF_vars(TakeNotice) /\ WF_vars(Tick)
    /\ WF_vars(Announce) /\ WF_vars(EndAdd)
    /\ \A p \in Packers : SF_vars(PackerStep(p))

-----------------------------------------------------------------------------
\* The numbers are given once round: none has been given a second time.
FirstRound == Cardinality({t \in Txs : N[t] # {}}) <= MaxTxN + 1

\* packageSNList: as long as one packer ends before the next begins, a number
\* names one transaction, and a request for the number is answered with that
\* transaction.  (One removed between setTxNum and setnTx stays in NContainer.)
NumbersFind ==
    ~overlap /\ FirstRound /\ ~crashed =>
        /\ \A t, u \in Txs : t # u => N[t] \cap N[u] = {}
        /\ \A n \in Numbers : NContainer[n] # None =>
              n \in N[NContainer[n]]
        /\ \A t \in SContainer : \A n \in N[t] :
              NContainer[n] = t \/ \E p \in Packers : packer[p].pc = "setn" /\ Current(p) = t

\* addTx announces with pool.mu held and packers wait for pool.mu: the call
\* still ends, because checkList takes an announcement without pool.mu.
AdderReleased == (adding # Free) ~> (adding = Free)

\* Every batch handed over is numbered, sent and taken off the list, unless two
\* packers met on the list, one failed, or pool.mu is held for ever.
Drains == <>[](list = {} \/ overlap \/ crashed \/ recv = "add")
=============================================================================
