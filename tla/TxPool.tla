------------------------------- MODULE TxPool -------------------------------
(***************************************************************************)
(* The transaction pool (core/tx_pool.go, core/tx_list.go and              *)
(* core/tx_journal.go): executable transactions in pending, the others in  *)
(* queue, all of them in all.                                              *)
(*                                                                         *)
(* Every operation runs under pool.mu, so each is one action; what the     *)
(* code does inside it is an operator from pool to pool.  An account's     *)
(* list is the part of pending or queue that comes from it.  Where Go      *)
(* leaves an order of the accounts open (a map, a heap with ties, the      *)
(* heartbeats) an operation takes one, ord.  The price heap is represented *)
(* by what it returns: the cheapest transactions of all.  The cost of a    *)
(* transaction stands for its gas as well.                                 *)
(***************************************************************************)
EXTENDS Integers, FiniteSets, Sequences, FiniteSetsExt, SequencesExt

CONSTANTS
    Accounts,
    Own,            \* the accounts whose transactions come through AddLocal
    Txs,            \* the transactions, by their hashes
    from, nonce, price, cost, costAll,  \* their fields; Cost() and CostALL()
    Heads,          \* the blocks' effects: [mined, balance]
    Genesis,        \* the head the node starts with
    Prices,         \* the thresholds given to SetGasPrice
    PriceLimit, PriceBump, AccountSlots, GlobalSlots, AccountQueue, GlobalQueue

ASSUME TxsAssumption ==
    /\ IsFiniteSet(Txs) /\ IsFiniteSet(Accounts)
    /\ from \in [Txs -> Accounts]
    /\ \A t \in Txs : cost[t] <= costAll[t]
    /\ {nonce, price, cost, costAll} \subseteq [Txs -> Nat]

\* Nonces have no gap in the chain, and no two transactions share one.
ASSUME HeadsAssumption ==
    /\ Heads \subseteq [mined: SUBSET Txs, balance: [Accounts -> Nat]]
    /\ Genesis \in Heads
    /\ \A h \in Heads : \A t \in h.mined :
          /\ \A u \in h.mined : from[u] = from[t] /\ nonce[u] = nonce[t] => u = t
          /\ \A n \in 0 .. nonce[t] - 1 : \E u \in h.mined : from[u] = from[t] /\ nonce[u] = n

\* A list that equalizing allowances could empty would break reset.
ASSUME ConfigAssumption ==
    /\ {PriceBump, AccountSlots} \subseteq Nat \ {0}
    /\ {GlobalSlots, AccountQueue, GlobalQueue} \subseteq Nat
    /\ Prices \subseteq Nat \ {0}
    /\ PriceLimit \in Prices

VARIABLES
    pool,       \* what pool.mu guards: the sets pending, queue and all; nonces, the
                \* pendingState's nonce of each account; locals, the local accounts;
                \* and journal, the file, which outlives the pool
    head,       \* the block the loop saw last
    current,    \* currentState: the head of the last reset that succeeded
    gasPrice    \* the pool's price threshold

vars == <<pool, head, current, gasPrice>>

Orders == {o \in [Accounts -> 1 .. Cardinality(Accounts)] : IsInjective(o)}

-----------------------------------------------------------------------------
(* Lists.                                                                  *)

Of(S, a) == {t \in S : from[t] = a}
StateNonce(c, a) == Cardinality(Of(c.mined, a))

\* The transactions of S that have the account and the nonce of one of T.
At(S, T) == {u \in S : \E t \in T : from[u] = from[t] /\ nonce[u] = nonce[t]}

\* txList.Add: whether tx may take the place of old.
Better(tx, old) ==
    /\ price[old] < price[tx]
    /\ (price[old] * (100 + PriceBump)) \div 100 <= price[tx]

Refused(S, T) == {t \in T : \E old \in At(S, {t}) : ~Better(t, old)}

\* The n transactions of S with the highest nonces, and those above a limit.
Highest(S, n) == {t \in S : Cardinality({u \in S : nonce[u] > nonce[t]}) < n}
OverCap(S, limit) == Highest(S, Cardinality(S) - limit)

\* What follows a transaction of D in its account's list.
After(S, D) == {t \in S \ D : \E d \in D : from[d] = from[t] /\ nonce[d] < nonce[t]}

\* What Ready returns: the run of nonces from the first one.
Ready(S, start) ==
    {t \in S : /\ \E u \in S : nonce[u] <= start
               /\ \A u \in S : \A n \in nonce[u] .. nonce[t] : \E v \in S : nonce[v] = n}

\* The price heap gives the cheapest up first, and of those the highest nonce.
Cheapest(S, n, ord) ==
    LET Before(t, u) ==
            \/ price[t] < price[u]
            \/ price[t] = price[u] /\ nonce[t] > nonce[u]
            \/ price[t] = price[u] /\ nonce[t] = nonce[u] /\ ord[from[t]] < ord[from[u]]
    IN  {u \in S : Cardinality({t \in S : Before(t, u)}) < n}

-----------------------------------------------------------------------------
(* Moving the transactions T between the lists.                            *)

EnqueueTxs(p, T) ==
    LET taken == T \ Refused(p.queue, T)
        old   == At(p.queue, taken)
    IN  [p EXCEPT !.queue = (@ \ old) \cup taken, !.all = (@ \ old) \cup taken]

PromoteTxs(p, T) ==
    LET taken == T \ Refused(p.pending, T)
        old   == At(p.pending, taken)
    IN  [p EXCEPT
           !.pending = (@ \ old) \cup taken,
           !.all     = (@ \ (old \cup T)) \cup taken,
           !.nonces  = [a \in Accounts |-> IF Of(taken, a) = {} THEN @[a]
                                           ELSE Max({nonce[t] + 1 : t \in Of(taken, a)})]]

Lowered(nonces, T) == [a \in Accounts |-> Min({nonces[a]} \cup {nonce[t] : t \in Of(T, a)})]

\* Mutant: what follows a removed transaction stays in the lookup only.
RemoveTxsForgets(p, T) ==
    [p EXCEPT !.all     = @ \ T,
              !.pending = @ \ (T \cup After(p.pending, T \cap p.pending)),
              !.queue   = @ \ T,
              !.nonces  = Lowered(@, T \cap p.pending)]

\* removeTx for each of T.  What follows a pending one goes back to the queue.
RemoveTxs(p, T) ==
    LET executable == T \cap p.pending
        invalids   == After(p.pending, executable)
    IN  EnqueueTxs([p EXCEPT !.all     = @ \ T,
                             !.pending = @ \ (T \cup invalids),
                             !.queue   = @ \ T,
                             !.nonces  = Lowered(@, executable)], invalids)

-----------------------------------------------------------------------------
(* promoteExecutables and demoteUnexecutables, in the state of head c.     *)

TooOld(S, c) == {t \in S : nonce[t] < StateNonce(c, from[t])}
Unpayable(S, c) == {t \in S : cost[t] > c.balance[from[t]]}

\* The turns of the accounts.
PromoteReady(p, accounts, c) ==
    LET list    == {t \in p.queue : from[t] \in accounts}
        drops   == TooOld(list, c) \cup Unpayable(list, c)
        ready   == UNION {Ready(Of(list \ drops, a), p.nonces[a]) : a \in accounts}
        waiting == list \ (drops \cup ready)
        excess  == UNION {OverCap(Of(waiting, a), AccountQueue) : a \in accounts \ p.locals}
    IN  PromoteTxs([p EXCEPT !.queue = @ \ (drops \cup ready \cup excess),
                             !.all   = @ \ (drops \cup excess)], ready)

\* Mutant: the nonces are left as they are.
EqualizeKeepsNonces(p) ==
    LET spammers == {a \in Accounts \ p.locals : Cardinality(Of(p.pending, a)) > AccountSlots}
        Over(l)  == UNION {OverCap(Of(p.pending, a), l) : a \in spammers}
        fits     == {l \in AccountSlots .. Cardinality(p.pending) :
                        Cardinality(p.pending \ Over(l)) <= GlobalSlots}
        drops    == Over(Max({AccountSlots} \cup fits))
    IN  [p EXCEPT !.pending = @ \ drops, !.all = @ \ drops]

\* The rounds that take one transaction from each offender, and let the next
\* offender join when the others come down to its length, cut the offenders'
\* lists at one level, the highest that brings pending within GlobalSlots.
Equalize(p) ==
    LET spammers == {a \in Accounts \ p.locals : Cardinality(Of(p.pending, a)) > AccountSlots}
        Over(l)  == UNION {OverCap(Of(p.pending, a), l) : a \in spammers}
        fits     == {l \in AccountSlots .. Cardinality(p.pending) :
                        Cardinality(p.pending \ Over(l)) <= GlobalSlots}
        drops    == Over(Max({AccountSlots} \cup fits))
    IN  [p EXCEPT !.pending = @ \ drops, !.all = @ \ drops, !.nonces = Lowered(@, drops)]

\* The accounts lose their queues in turn, the last one only in part.
LimitQueue(p, ord) ==
    LET exposed == {t \in p.queue : from[t] \notin p.locals}
        Before(t, u) == \/ ord[from[t]] < ord[from[u]]
                        \/ from[t] = from[u] /\ nonce[t] > nonce[u]
        surplus == Cardinality(p.queue) - GlobalQueue
    IN  RemoveTxs(p, {u \in exposed : Cardinality({t \in exposed : Before(t, u)}) < surplus})

PromoteExecutables(p, accounts, c, ord) ==
    LimitQueue(Equalize(PromoteReady(p, accounts, c)), ord)

\* Mutant: no look at the first nonce.
DemoteKeepsGap(p, c) ==
    LET drops    == TooOld(p.pending, c) \cup Unpayable(p.pending, c)
        invalids == After(p.pending, Unpayable(p.pending, c) \ TooOld(p.pending, c)) \ drops
    IN  EnqueueTxs([p EXCEPT !.pending = @ \ (drops \cup invalids), !.all = @ \ drops], invalids)

DemoteUnexecutables(p, c) ==
    LET drops    == TooOld(p.pending, c) \cup Unpayable(p.pending, c)
        invalids == After(p.pending, Unpayable(p.pending, c) \ TooOld(p.pending, c)) \ drops
        kept     == p.pending \ (drops \cup invalids)
        gapped   == {t \in kept : ~\E u \in kept :
                        from[u] = from[t] /\ nonce[u] = StateNonce(c, from[t])}
    IN  EnqueueTxs([p EXCEPT !.pending = kept \ gapped, !.all = @ \ drops],
                   invalids \cup gapped)

-----------------------------------------------------------------------------
(* Adding transactions.  A result tells, beside the pool, whether there    *)
(* was an error and whether another transaction was replaced.              *)

Valid(p, tx, local, c, limit) ==
    /\ local \/ from[tx] \in p.locals \/ price[tx] >= limit
    /\ nonce[tx] >= StateNonce(c, from[tx])
    /\ costAll[tx] <= c.balance[from[tx]]

JournalTx(p, tx) == IF from[tx] \in p.locals THEN [p EXCEPT !.journal = @ \cup {tx}] ELSE p

Result(p, err, replace) == [p |-> p, err |-> err, replace |-> replace]

\* The tail of add, when there is room for tx.
Insert(p, tx, local) ==
    LET old    == At(p.pending, {tx})
        direct == [p EXCEPT !.pending = (@ \ old) \cup {tx}, !.all = (@ \ old) \cup {tx}]
        marked == [p EXCEPT !.locals = IF local THEN @ \cup {from[tx]} ELSE @]
    IN  IF Refused(p.pending \cup p.queue, {tx}) # {} THEN Result(p, TRUE, FALSE)
        ELSE IF old # {} THEN Result(JournalTx(direct, tx), FALSE, TRUE)
        ELSE Result(JournalTx(EnqueueTxs(marked, {tx}), tx), FALSE, At(p.queue, {tx}) # {})

\* Mutant: room is made only once the pool is over its limit.
AddLateRoom(p, tx, local, c, limit, ord) ==
    LET surplus == Cardinality(p.all) - (GlobalSlots + GlobalQueue)
        remote  == {t \in p.all : from[t] \notin p.locals}
    IN  IF tx \in p.all \/ ~Valid(p, tx, local, c, limit) THEN Result(p, TRUE, FALSE)
        ELSE Insert(RemoveTxs(p, Cheapest(remote, surplus, ord)), tx, local)

\* add: room is made in a full pool before tx is known to find a place.
Add(p, tx, local, c, limit, ord) ==
    LET surplus == Cardinality(p.all) - (GlobalSlots + GlobalQueue - 1)
        remote  == {t \in p.all : from[t] \notin p.locals}
        underpriced == ~local /\ from[tx] \notin p.locals /\ \A t \in p.all : price[t] >= price[tx]
    IN  IF \/ tx \in p.all
           \/ ~Valid(p, tx, local, c, limit)
           \/ surplus > 0 /\ underpriced
        THEN Result(p, TRUE, FALSE)
        ELSE Insert(RemoveTxs(p, Cheapest(remote, surplus, ord)), tx, local)

\* addTxsLocked, and addTx for a single transaction.
AddTxsLocked(p, txs, local, c, limit, ord) ==
    LET Step(acc, tx) ==
            LET r == Add(acc.p, tx, local, c, limit, ord)
            IN  [p     |-> r.p,
                 dirty |-> IF r.err \/ r.replace THEN acc.dirty ELSE acc.dirty \cup {from[tx]}]
        added[n \in 0 .. Len(txs)] ==
            IF n = 0 THEN [p |-> p, dirty |-> {}] ELSE Step(added[n - 1], txs[n])
        last == added[Len(txs)]
    IN  IF last.dirty = {} THEN last.p ELSE PromoteExecutables(last.p, last.dirty, c, ord)

\* reset, once the state of the new head c is at hand.
Reset(p, c, reinject, ord) ==
    LET fresh   == [p EXCEPT !.nonces = [a \in Accounts |-> StateNonce(c, a)]]
        added   == AddTxsLocked(fresh, reinject, FALSE, c, gasPrice, ord)
        demoted == DemoteUnexecutables(added, c)
        Following(a) == {nonce[t] + 1 : t \in Of(demoted.pending, a)}
        renumbered == [demoted EXCEPT !.nonces =
                        [a \in Accounts |-> IF Following(a) = {} THEN @[a] ELSE Max(Following(a))]]
    IN  PromoteExecutables(renumbered, Accounts, c, ord)

-----------------------------------------------------------------------------
(* The operations.                                                         *)

\* The sequences of the transactions S in the order of their nonces.
ByNonce(S) ==
    {s \in SetToSeqs(S) : \A i, j \in DOMAIN s : i < j => nonce[s[i]] <= nonce[s[j]]}

Local(p) == {t \in p.pending \cup p.queue : from[t] \in p.locals}

\* A pool with nothing in it, over a journal file.
Empty(file, c) ==
    [pending |-> {}, queue |-> {}, all |-> {}, locals |-> {}, journal |-> file,
     nonces |-> [a \in Accounts |-> StateNonce(c, a)]]

Init ==
    /\ pool = Empty({}, Genesis)
    /\ head = Genesis
    /\ current = Genesis
    /\ gasPrice = PriceLimit

\* AddLocal and AddRemote.
AddTx(tx, local, ord) ==
    /\ local => from[tx] \in Own
    /\ pool' = AddTxsLocked(pool, <<tx>>, local, current, gasPrice, ord)
    /\ UNCHANGED <<head, current, gasPrice>>

SetGasPrice(limit) ==
    /\ gasPrice' = limit
    /\ pool' = RemoveTxs(pool, {t \in pool.all : from[t] \notin pool.locals /\ price[t] < limit})
    /\ UNCHANGED <<head, current>>

\* The eviction tick; idle are the accounts whose heartbeat is too old.
Evict(idle) ==
    /\ pool' = RemoveTxs(pool, {t \in pool.queue : from[t] \in idle \ pool.locals})
    /\ UNCHANGED <<head, current, gasPrice>>

\* The journal tick.
Rotate ==
    /\ pool' = [pool EXCEPT !.journal = Local(pool)]
    /\ UNCHANGED <<head, current, gasPrice>>

\* A head event.  The transactions of the blocks left behind come back, from
\* the last block to the first, unless the branches are too far apart.  BlockTiming
\* then finds nothing: AddErrorTx, which would fill its map, has no caller.
ChainHead(h, shallow, oneBlock, ord) ==
    /\ head.mined \subseteq h.mined => shallow /\ oneBlock
    /\ \E lost \in ByNonce(head.mined \ h.mined) :
           LET reinject == IF ~shallow THEN <<>> ELSE IF oneBlock THEN lost ELSE Reverse(lost)
           IN  pool' = Reset(pool, h, reinject, ord)
    /\ head' = h
    /\ current' = h
    /\ UNCHANGED gasPrice

\* A head event whose state, or one of whose ancestors, is not at hand.
ChainHeadFails(h) ==
    /\ head' = h
    /\ UNCHANGED <<pool, current, gasPrice>>

\* Mutant: the file is read as if it came from the network.
RestartRemote(ord) ==
    /\ \E file \in SetToSeqs(pool.journal) :
           pool' = AddTxsLocked(Empty({}, head), file, FALSE, head, PriceLimit, ord)
    /\ current' = head
    /\ gasPrice' = PriceLimit
    /\ UNCHANGED head

\* The node stops, with or without warning, and NewTxPool starts from the file.
Restart(ord) ==
    /\ \E file \in SetToSeqs(pool.journal) :
           LET loaded == AddTxsLocked(Empty({}, head), file, TRUE, head, PriceLimit, ord)
           IN  pool' = [loaded EXCEPT !.journal = Local(loaded)]
    /\ current' = head
    /\ gasPrice' = PriceLimit
    /\ UNCHANGED head

Next ==
    \/ \E tx \in Txs, local \in BOOLEAN, ord \in Orders : AddTx(tx, local, ord)
    \/ \E limit \in Prices : SetGasPrice(limit)
    \/ \E idle \in SUBSET Accounts : Evict(idle)
    \/ Rotate
    \/ \E h \in Heads, shallow, oneBlock \in BOOLEAN, ord \in Orders :
           ChainHead(h, shallow, oneBlock, ord)
    \/ \E h \in Heads : ChainHeadFails(h)
    \/ \E ord \in Orders : Restart(ord)

Spec == Init /\ [][Next]_vars

-----------------------------------------------------------------------------
(* Properties.                                                             *)

\* The lookup holds the transactions of the two lists and nothing else, and no
\* account has two transactions with one nonce, although removeTx and the list
\* operations search by nonce and enqueueTx may refuse what it is given back.
Accounted ==
    /\ pool.all = pool.pending \cup pool.queue
    /\ pool.pending \cap pool.queue = {}
    /\ \A t, u \in pool.all : from[t] = from[u] /\ nonce[t] = nonce[u] => t = u

\* An account with executable transactions can execute one now: whatever was
\* mined, reorganised, evicted or cut, its first one has the state's nonce.
FrontExecutable ==
    \A t \in pool.pending : \E u \in Of(pool.pending, from[t]) :
        nonce[u] = StateNonce(current, from[t])

\* "Ensure the next nonce to assign is the correct one" (validateTxPoolInternals):
\* for an account with executable transactions it follows the last of them.
NextNonce ==
    \A a \in Accounts : Of(pool.pending, a) # {} =>
        pool.nonces[a] = 1 + Max({nonce[t] : t \in Of(pool.pending, a)})

PendingContinuous ==
    \A t \in pool.pending : \A n \in StateNonce(current, from[t]) .. nonce[t] :
        \E u \in Of(pool.pending, from[t]) : nonce[u] = n

\* As long as the chain only grows, pending stays without gaps and the nonces
\* handed out follow it.  A reorganisation may open a gap, when add refuses one
\* of the transactions that come back.
OrderlyUntilReorg ==
    [][/\ head.mined \subseteq head'.mined /\ current.mined \subseteq current'.mined
       /\ PendingContinuous /\ NextNonce
       => PendingContinuous' /\ NextNonce']_vars

\* A full pool makes room: beyond GlobalSlots + GlobalQueue it holds local
\* transactions, and at most one other, which was taken when only local ones
\* were left to discard.
PoolBound ==
    Cardinality(pool.all) > GlobalSlots + GlobalQueue =>
        Cardinality({t \in pool.all : from[t] \notin pool.locals}) <= 1

\* No limit, no price and no restart drops a journaled transaction of a local
\* account: it leaves the pool when it is outdated, when the account cannot pay
\* it, or for a better one, although the file is read in one batch into a pool
\* that has limits.  The file may still have a transaction that left the pool, and
\* bring it back in place of one that has taken its nonce and does not outbid it.
LocalsKept ==
    [][\A t \in (Local(pool) \cap pool.journal) \ pool'.all :
          \/ nonce[t] < StateNonce(current', from[t])
          \/ costAll[t] > current'.balance[from[t]]
          \/ \E u \in At(pool'.all, {t}) :
             Better(u, t) \/ (u \in pool.journal /\ ~Better(t, u))]_vars
=============================================================================
