---------------------------- MODULE TxPoolProofs ----------------------------
(***************************************************************************)
(* Proofs about TxPool: the lists and the lookup agree, an account with    *)
(* pending transactions can execute one, a full pool makes room, local     *)
(* transactions stay, and pending has no gap while the chain grows, for    *)
(* any transactions, chains, limits and orders of the accounts.            *)
(***************************************************************************)
EXTENDS TxPool, FiniteSetTheorems, WellFoundedInduction, TLAPS

LEMMA LeastNat ==
    ASSUME NEW T, T \subseteq Nat, T # {}
    PROVE  \E x \in T : \A y \in T : x <= y
<1>1. PICK x \in T : \A y \in T : ~(<<y, x>> \in OpToRel(<, Nat))
  BY NatLessThanWellFounded, WFMin
<1>2. \A y \in T : ~(y < x)
  BY <1>1 DEF OpToRel
<1> QED
  BY <1>2

\* A finite set has a first element in a strict order: one with the fewest before it.
LEMMA FirstOf ==
    ASSUME NEW F, IsFiniteSet(F), F # {}, NEW R,
           \A x \in F : <<x, x>> \notin R,
           \A x, y, z \in F : <<x, y>> \in R /\ <<y, z>> \in R => <<x, z>> \in R
    PROVE  \E w \in F : \A t \in F : <<t, w>> \notin R
<1> DEFINE Before(w) == {t \in F : <<t, w>> \in R}
           Ranks == {Cardinality(Before(w)) : w \in F}
<1>1. \A w : IsFiniteSet(Before(w)) /\ Cardinality(Before(w)) \in Nat
  <2> TAKE w
  <2>1. Before(w) \in SUBSET F
    OBVIOUS
  <2> HIDE DEF Before
  <2> QED
    BY <2>1, FS_Subset, FS_CardinalityType
<1>2. Ranks \subseteq Nat /\ Ranks # {}
  <2> HIDE DEF Before
  <2> QED
    BY <1>1
<1>3. PICK r \in Ranks : \A s \in Ranks : r <= s
  <2> HIDE DEF Ranks
  <2> QED
    BY <1>2, LeastNat
<1>4. PICK w \in F : r = Cardinality(Before(w))
  BY <1>3
<1>5. ASSUME NEW t \in F, <<t, w>> \in R
      PROVE  FALSE
  <2>1. Before(t) \subseteq Before(w) /\ t \in Before(w) /\ t \notin Before(t)
    BY <1>4, <1>5
  <2>2. Cardinality(Before(t)) \in Ranks
    OBVIOUS
  <2> HIDE DEF Before, Ranks
  <2>3. Before(t) \in SUBSET Before(w) /\ Before(t) # Before(w)
    BY <2>1
  <2>4. /\ Cardinality(Before(t)) <= Cardinality(Before(w))
        /\ Cardinality(Before(w)) = Cardinality(Before(t)) => Before(w) = Before(t)
    BY <1>1, <2>3, FS_Subset
  <2> QED
    BY <1>1, <1>3, <1>4, <2>2, <2>3, <2>4
<1> QED
  BY <1>4, <1>5

\* Fields of transactions, and what a head says of an account.
LEMMA TxFields ==
    ASSUME NEW t \in Txs
    PROVE  /\ from[t] \in Accounts
           /\ nonce[t] \in Nat /\ price[t] \in Nat /\ cost[t] \in Nat /\ costAll[t] \in Nat
           /\ cost[t] <= costAll[t]
BY TxsAssumption

LEMMA TxSets ==
    ASSUME NEW S \in SUBSET Txs
    PROVE  IsFiniteSet(S) /\ Cardinality(S) \in Nat
BY TxsAssumption, FS_Subset, FS_CardinalityType

LEMMA HeadFields ==
    ASSUME NEW c \in Heads
    PROVE  /\ c.mined \in SUBSET Txs
           /\ \A a \in Accounts : StateNonce(c, a) \in Nat /\ c.balance[a] \in Nat
<1>1. c \in [mined: SUBSET Txs, balance: [Accounts -> Nat]]
  BY HeadsAssumption
<1>2. \A a : Of(c.mined, a) \in SUBSET Txs
  BY <1>1 DEF Of
<1> QED
  BY <1>1, <1>2, TxSets DEF StateNonce

\* A non-empty set of transactions has a last one.
LEMMA LastTx ==
    ASSUME NEW F \in SUBSET Txs, F # {}
    PROVE  \E t \in F : \A u \in F : nonce[u] <= nonce[t]
<1> DEFINE R == {r \in Txs \X Txs : nonce[r[1]] > nonce[r[2]]}
<1>0. IsFiniteSet(F)
  BY TxSets
<1>1. \A x, y \in Txs : <<x, y>> \in R <=> nonce[x] > nonce[y]
  OBVIOUS
<1>2. \A x \in F : nonce[x] \in Nat
  BY TxFields
<1> HIDE DEF R
<1>3. /\ \A x \in F : <<x, x>> \notin R
      /\ \A x, y, z \in F : <<x, y>> \in R /\ <<y, z>> \in R => <<x, z>> \in R
  BY <1>1, <1>2
<1>4. PICK w \in F : \A t \in F : <<t, w>> \notin R
  BY <1>0, <1>3, FirstOf
<1>5. ASSUME NEW t \in F
      PROVE  nonce[t] <= nonce[w]
  <2>1. t \in Txs /\ w \in Txs /\ <<t, w>> \notin R
    BY <1>4
  <2>2. ~(nonce[t] > nonce[w])
    BY <1>1, <2>1
  <2> QED
    BY <1>2, <2>2
<1> QED
  BY <1>4, <1>5

\* The numbers that follow the transactions of a non-empty set have a greatest.
LEMMA MaxFollowing ==
    ASSUME NEW F \in SUBSET Txs, F # {}
    PROVE  /\ Max({nonce[t] + 1 : t \in F}) \in Nat
           /\ \E t \in F : Max({nonce[u] + 1 : u \in F}) = nonce[t] + 1
           /\ \A t \in F : nonce[t] < Max({nonce[u] + 1 : u \in F})
<1>1. PICK t \in F : \A u \in F : nonce[u] <= nonce[t]
  BY LastTx
<1>2. PICK T : T = {nonce[u] + 1 : u \in F}
  OBVIOUS
<1>3. T \subseteq Nat
  BY <1>2, TxFields
<1>4. nonce[t] + 1 \in T /\ \A y \in T : nonce[t] + 1 >= y
  BY <1>1, <1>2, TxFields
<1>5. \E x \in T : \A y \in T : x >= y
  BY <1>4
<1>6. Max(T) \in T /\ \A y \in T : Max(T) >= y
  BY <1>5 DEF Max
<1>7. \A u \in F : nonce[u] + 1 \in T /\ nonce[u] \in Nat
  BY <1>2, TxFields
<1>8. PICK m \in Nat : m = Max(T)
  BY <1>3, <1>6
<1>9. \A u \in F : nonce[u] < m
  <2>1. \A u \in F : m >= nonce[u] + 1
    BY <1>6, <1>7, <1>8
  <2> QED
    BY <1>7, <2>1
<1>10. \E u \in F : m = nonce[u] + 1
  BY <1>2, <1>6, <1>8
<1> QED
  BY <1>2, <1>8, <1>9, <1>10

\* Lowering the nonces to those of the transactions that leave.
LEMMA LoweredNonces ==
    ASSUME NEW m \in [Accounts -> Nat], NEW T \in SUBSET Txs
    PROVE  /\ Lowered(m, T) \in [Accounts -> Nat]
           /\ \A a \in Accounts :
                 /\ Lowered(m, T)[a] <= m[a]
                 /\ \A t \in T : from[t] = a => Lowered(m, T)[a] <= nonce[t]
                 /\ \/ Lowered(m, T)[a] = m[a]
                    \/ \E t \in T : from[t] = a /\ Lowered(m, T)[a] = nonce[t]
<1>1. ASSUME NEW a \in Accounts
      PROVE  /\ Lowered(m, T)[a] \in Nat
             /\ Lowered(m, T)[a] <= m[a]
             /\ \A t \in T : from[t] = a => Lowered(m, T)[a] <= nonce[t]
             /\ \/ Lowered(m, T)[a] = m[a]
                \/ \E t \in T : from[t] = a /\ Lowered(m, T)[a] = nonce[t]
  <2>1. PICK S : S = {m[a]} \cup {nonce[t] : t \in Of(T, a)}
    OBVIOUS
  <2>2. S \subseteq Nat /\ m[a] \in S
    BY <2>1, TxFields DEF Of
  <2>3. \E x \in S : \A y \in S : x <= y
    BY <2>2, LeastNat
  <2>4. Min(S) \in S /\ \A y \in S : Min(S) <= y
    BY <2>3 DEF Min
  <2>5. Lowered(m, T)[a] = Min(S)
    BY <2>1 DEF Lowered
  <2>6. \A t \in T : from[t] = a => nonce[t] \in S
    BY <2>1 DEF Of
  <2>7. \A x \in S : x = m[a] \/ \E t \in T : from[t] = a /\ x = nonce[t]
    BY <2>1 DEF Of
  <2> QED
    BY <2>2, <2>4, <2>5, <2>6, <2>7
<1>2. Lowered(m, T) = [a \in Accounts |-> Lowered(m, T)[a]]
  BY DEF Lowered
<1> QED
  BY <1>1, <1>2

-----------------------------------------------------------------------------
(* What the operations do to the parts of the pool.                        *)

Pools == [pending: SUBSET Txs, queue: SUBSET Txs, all: SUBSET Txs,
          nonces: [Accounts -> Nat], locals: SUBSET Accounts, journal: SUBSET Txs]

Unique(S) == \A t, u \in S : from[t] = from[u] /\ nonce[t] = nonce[u] => t = u

\* The lists and the lookup of p agree.
Sound(p) ==
    /\ p \in Pools
    /\ p.all = p.pending \cup p.queue
    /\ p.pending \cap p.queue = {}
    /\ Unique(p.all)

\* Where the queue has none of their nonces, transactions are enqueued as they are.
LEMMA EnqueueNew ==
    ASSUME NEW p \in Pools, NEW T \in SUBSET Txs, At(p.queue, T) = {}
    PROVE  EnqueueTxs(p, T) = [p EXCEPT !.queue = @ \cup T, !.all = @ \cup T]
<1>1. Refused(p.queue, T) = {}
  BY DEF Refused, At
<1>2. T \ {} = T /\ p.queue \ {} = p.queue /\ p.all \ {} = p.all
  OBVIOUS
<1> QED
  BY <1>1, <1>2 DEF EnqueueTxs

\* The same for promotion, which sets the nonces of the accounts it serves.
LEMMA PromoteNew ==
    ASSUME NEW p \in Pools, NEW T \in SUBSET Txs, At(p.pending, T) = {}, T \subseteq p.all
    PROVE  /\ PromoteTxs(p, T) \in Pools
           /\ PromoteTxs(p, T).pending = p.pending \cup T
           /\ PromoteTxs(p, T).queue = p.queue
           /\ PromoteTxs(p, T).all = p.all
           /\ PromoteTxs(p, T).locals = p.locals
           /\ PromoteTxs(p, T).journal = p.journal
           /\ \A a \in Accounts : Of(T, a) = {} => PromoteTxs(p, T).nonces[a] = p.nonces[a]
           /\ \A a \in Accounts : Of(T, a) # {} =>
                 PromoteTxs(p, T).nonces[a] = Max({nonce[t] + 1 : t \in Of(T, a)})
<1> DEFINE N == [a \in Accounts |-> IF Of(T, a) = {} THEN p.nonces[a]
                                    ELSE Max({nonce[t] + 1 : t \in Of(T, a)})]
<1>1. Refused(p.pending, T) = {}
  BY DEF Refused, At
<1>2. T \ {} = T /\ p.pending \ {} = p.pending /\ (p.all \ ({} \cup T)) \cup T = p.all
  OBVIOUS
<1>3. PromoteTxs(p, T) = [p EXCEPT !.pending = p.pending \cup T, !.all = p.all, !.nonces = N]
  BY <1>1, <1>2 DEF PromoteTxs
<1>4. N \in [Accounts -> Nat]
  <2>1. \A a : Of(T, a) \in SUBSET Txs
    BY DEF Of
  <2>2. \A a \in Accounts : Of(T, a) # {} => Max({nonce[t] + 1 : t \in Of(T, a)}) \in Nat
    BY <2>1, MaxFollowing
  <2> QED
    BY <2>2 DEF Pools
<1>5. \A a \in Accounts :
         /\ Of(T, a) = {} => N[a] = p.nonces[a]
         /\ Of(T, a) # {} => N[a] = Max({nonce[t] + 1 : t \in Of(T, a)})
  OBVIOUS
<1> HIDE DEF N
<1> QED
  BY <1>3, <1>4, <1>5 DEF Pools

\* removeTx: T is gone, and what follows a pending one of T is back in the queue.
Removed(q, p, T) ==
    LET inv == After(p.pending, T \cap p.pending)
    IN  /\ q.pending = p.pending \ (T \cup inv)
        /\ q.queue = (p.queue \ T) \cup inv
        /\ q.all = p.all \ T
        /\ q.nonces = Lowered(p.nonces, T \cap p.pending)
        /\ q.locals = p.locals
        /\ q.journal = p.journal

LEMMA RemoveSound ==
    ASSUME NEW p, Sound(p), NEW T \in SUBSET Txs
    PROVE  Sound(RemoveTxs(p, T)) /\ Removed(RemoveTxs(p, T), p, T)
<1> DEFINE inv == After(p.pending, T \cap p.pending)
           q   == RemoveTxs(p, T)
           r   == [p EXCEPT !.all     = @ \ T,
                            !.pending = @ \ (T \cup inv),
                            !.queue   = @ \ T,
                            !.nonces  = Lowered(@, T \cap p.pending)]
<1>1. q = EnqueueTxs(r, inv)
  BY DEF RemoveTxs
<1>2. inv \subseteq p.pending /\ inv \cap T = {}
  BY DEF After
<1>3. Lowered(p.nonces, T \cap p.pending) \in [Accounts -> Nat]
  BY LoweredNonces DEF Sound, Pools
<1> HIDE DEF inv
<1>4. /\ r \in Pools
      /\ r.all = p.all \ T /\ r.pending = p.pending \ (T \cup inv) /\ r.queue = p.queue \ T
      /\ r.nonces = Lowered(p.nonces, T \cap p.pending)
      /\ r.locals = p.locals /\ r.journal = p.journal
  BY <1>3 DEF Sound, Pools
<1>5. At(r.queue, inv) = {}
  BY <1>2, <1>4 DEF Sound, Unique, At, Pools
<1> HIDE DEF r
<1>6. q = [r EXCEPT !.queue = @ \cup inv, !.all = @ \cup inv]
  BY <1>1, <1>2, <1>4, <1>5, EnqueueNew DEF Sound, Pools
<1> HIDE DEF q
<1>7. /\ q \in Pools
      /\ q.pending = p.pending \ (T \cup inv) /\ q.queue = (p.queue \ T) \cup inv
      /\ q.all = (p.all \ T) \cup inv
      /\ q.nonces = Lowered(p.nonces, T \cap p.pending)
      /\ q.locals = p.locals /\ q.journal = p.journal
  BY <1>2, <1>4, <1>6 DEF Sound, Pools
<1>8. q.all = p.all \ T
  BY <1>2, <1>7 DEF Sound
<1>9. q.all = q.pending \cup q.queue /\ q.pending \cap q.queue = {}
  BY <1>2, <1>7, <1>8 DEF Sound
<1>10. Unique(q.all)
  BY <1>8 DEF Sound, Unique
<1> QED
  BY <1>7, <1>8, <1>9, <1>10 DEF Sound, Removed, q, inv

-----------------------------------------------------------------------------
(* The front of an account's executable transactions, in the state of c.   *)

AtFront(u, a, c) == from[u] = a /\ nonce[u] = StateNonce(c, a)

\* A nonce beyond the state's was handed out only behind a payable front.
FrontHeld(p, c) ==
    \A a \in Accounts :
        \/ p.nonces[a] <= StateNonce(c, a)
        \/ \E u \in p.pending : AtFront(u, a, c) /\ cost[u] <= c.balance[a]

\* Every pending transaction is at the front or behind one that is.
Fronted(p, c) ==
    \A t \in p.pending :
        /\ nonce[t] >= StateNonce(c, from[t])
        /\ \E u \in p.pending : AtFront(u, from[t], c)

LEMMA RemoveFront ==
    ASSUME NEW p, Sound(p), NEW T \in SUBSET Txs, NEW c \in Heads
    PROVE  /\ FrontHeld(p, c) => FrontHeld(RemoveTxs(p, T), c)
           /\ Fronted(p, c) => Fronted(RemoveTxs(p, T), c)
<1> DEFINE inv == After(p.pending, T \cap p.pending)
           q   == RemoveTxs(p, T)
<1>1. /\ q.pending = p.pending \ (T \cup inv)
      /\ q.nonces = Lowered(p.nonces, T \cap p.pending)
  BY RemoveSound DEF Removed
<1>2. p.pending \subseteq Txs /\ p.nonces \in [Accounts -> Nat]
  BY DEF Sound, Pools
<1>3. \A t \in inv : \E d \in T \cap p.pending : from[d] = from[t] /\ nonce[d] < nonce[t]
  BY DEF After
<1>4. \A t \in p.pending, d \in T \cap p.pending :
         from[d] = from[t] /\ nonce[d] < nonce[t] => t \in T \cup inv
  BY DEF After
<1>5. \A t \in p.pending : from[t] \in Accounts /\ nonce[t] \in Nat
  BY <1>2, TxFields
<1>6. \A a \in Accounts : StateNonce(c, a) \in Nat
  BY HeadFields
<1>7. \A a \in Accounts :
         /\ q.nonces[a] \in Nat
         /\ q.nonces[a] <= p.nonces[a]
         /\ \A d \in T \cap p.pending : from[d] = a => q.nonces[a] <= nonce[d]
  BY <1>1, <1>2, LoweredNonces
<1> HIDE DEF inv, q
<1>8. ASSUME FrontHeld(p, c), NEW a \in Accounts
      PROVE  \/ q.nonces[a] <= StateNonce(c, a)
             \/ \E u \in q.pending : AtFront(u, a, c) /\ cost[u] <= c.balance[a]
  <2>1. CASE p.nonces[a] <= StateNonce(c, a)
    BY <1>2, <1>6, <1>7, <2>1
  <2>2. ASSUME NEW u \in p.pending, AtFront(u, a, c), cost[u] <= c.balance[a]
        PROVE  \/ q.nonces[a] <= StateNonce(c, a)
               \/ \E v \in q.pending : AtFront(v, a, c) /\ cost[v] <= c.balance[a]
    <3>1. CASE u \in T
      BY <1>7, <2>2, <3>1 DEF AtFront
    <3>2. CASE u \in inv
      <4>1. PICK d \in T \cap p.pending : from[d] = from[u] /\ nonce[d] < nonce[u]
        BY <1>3, <3>2
      <4> QED
        BY <1>5, <1>6, <1>7, <2>2, <4>1 DEF AtFront
    <3>3. CASE u \notin T \cup inv
      BY <1>1, <2>2, <3>3
    <3> QED
      BY <3>1, <3>2, <3>3
  <2> QED
    BY <1>8, <2>1, <2>2 DEF FrontHeld
<1>9. ASSUME Fronted(p, c), NEW t \in q.pending
      PROVE  /\ nonce[t] >= StateNonce(c, from[t])
             /\ \E u \in q.pending : AtFront(u, from[t], c)
  <2>1. t \in p.pending /\ t \notin T \cup inv
    BY <1>1
  <2>2. PICK u \in p.pending : AtFront(u, from[t], c)
    BY <1>9, <2>1 DEF Fronted
  <2>3. nonce[t] >= StateNonce(c, from[t])
    BY <1>9, <2>1 DEF Fronted
  <2>4. u \notin T
    <3>1. SUFFICES ASSUME u \in T
                   PROVE  FALSE
      OBVIOUS
    <3>2. ~(nonce[u] < nonce[t])
      BY <1>4, <2>1, <2>2, <3>1 DEF AtFront
    <3>3. nonce[u] = nonce[t] /\ from[u] = from[t]
      BY <1>5, <1>6, <2>1, <2>2, <2>3, <3>2 DEF AtFront
    <3>4. u = t
      BY <2>1, <3>3 DEF Sound, Unique
    <3> QED
      BY <2>1, <3>1, <3>4
  <2>5. u \notin inv
    <3>1. SUFFICES ASSUME u \in inv
                   PROVE  FALSE
      OBVIOUS
    <3>2. PICK d \in T \cap p.pending : from[d] = from[u] /\ nonce[d] < nonce[u]
      BY <1>3, <3>1
    <3>3. nonce[d] >= StateNonce(c, from[d])
      BY <1>9, <3>2 DEF Fronted
    <3> QED
      BY <1>5, <1>6, <2>2, <3>2, <3>3 DEF AtFront
  <2> QED
    BY <1>1, <2>2, <2>3, <2>4, <2>5
<1> QED
  BY <1>8, <1>9 DEF FrontHeld, Fronted, q

\* The nonces of an account's pending transactions are those from the state's up
\* to, and without, the next one to hand out.
Has(S, a, n) == \E t \in S : from[t] = a /\ nonce[t] = n

Tidy(p, c) ==
    \A a \in Accounts, n \in Nat :
        Has(p.pending, a, n) <=> StateNonce(c, a) <= n /\ n < p.nonces[a]

\* Taking transactions and all that follow them, and lowering the nonces, is tidy.
LEMMA CutTidy ==
    ASSUME NEW p, Sound(p), NEW c \in Heads, Tidy(p, c), NEW D \in SUBSET p.pending,
           NEW q, q.pending = p.pending \ (D \cup After(p.pending, D)),
           q.nonces = Lowered(p.nonces, D)
    PROVE  Tidy(q, c)
<1>1. p.pending \in SUBSET Txs /\ p.nonces \in [Accounts -> Nat] /\ Unique(p.pending)
  BY DEF Sound, Pools, Unique
<1>2. \A t \in p.pending : from[t] \in Accounts /\ nonce[t] \in Nat
  BY <1>1, TxFields
<1> SUFFICES ASSUME NEW a \in Accounts, NEW n \in Nat
             PROVE  Has(q.pending, a, n) <=> StateNonce(c, a) <= n /\ n < q.nonces[a]
  BY DEF Tidy
<1>3. StateNonce(c, a) \in Nat /\ p.nonces[a] \in Nat
  BY <1>1, HeadFields
<1>4. Has(p.pending, a, n) <=> StateNonce(c, a) <= n /\ n < p.nonces[a]
  BY DEF Tidy
<1>5. /\ q.nonces[a] \in Nat /\ q.nonces[a] <= p.nonces[a]
      /\ \A d \in D : from[d] = a => q.nonces[a] <= nonce[d]
      /\ \/ q.nonces[a] = p.nonces[a]
         \/ \E d \in D : from[d] = a /\ q.nonces[a] = nonce[d]
  <2>1. D \in SUBSET Txs
    BY <1>1
  <2> QED
    BY <1>1, <2>1, LoweredNonces
<1>6. ASSUME NEW t \in q.pending, from[t] = a, nonce[t] = n
      PROVE  StateNonce(c, a) <= n /\ n < q.nonces[a]
  <2>1. t \in p.pending /\ t \notin D /\ t \notin After(p.pending, D)
    BY <1>6
  <2>2. StateNonce(c, a) <= n /\ n < p.nonces[a]
    BY <1>4, <1>6, <2>1 DEF Has
  <2>3. ASSUME NEW d \in D, from[d] = a, q.nonces[a] = nonce[d]
        PROVE  n < q.nonces[a]
    <3>1. ~(nonce[d] < nonce[t])
      BY <1>6, <2>1, <2>3 DEF After
    <3>2. nonce[d] # nonce[t]
      BY <1>1, <1>6, <2>1, <2>3 DEF Unique
    <3> QED
      BY <1>2, <1>6, <2>3, <3>1, <3>2
  <2> QED
    BY <1>5, <2>2, <2>3
<1>7. ASSUME StateNonce(c, a) <= n, n < q.nonces[a]
      PROVE  Has(q.pending, a, n)
  <2>1. n < p.nonces[a]
    BY <1>3, <1>5, <1>7
  <2>2. PICK t \in p.pending : from[t] = a /\ nonce[t] = n
    BY <1>4, <1>7, <2>1 DEF Has
  <2>3. \A d \in D : from[d] = a => n < nonce[d]
    BY <1>2, <1>5, <1>7
  <2>4. t \notin D
    BY <2>2, <2>3
  <2>5. t \notin After(p.pending, D)
    <3>1. SUFFICES ASSUME NEW d \in D, from[d] = from[t], nonce[d] < nonce[t]
                   PROVE  FALSE
      BY DEF After
    <3> QED
      BY <1>2, <2>2, <2>3, <3>1
  <2> QED
    BY <2>2, <2>4, <2>5 DEF Has
<1> QED
  BY <1>6, <1>7 DEF Has

LEMMA RemoveTidy ==
    ASSUME NEW p, Sound(p), NEW c \in Heads, Tidy(p, c), NEW T \in SUBSET Txs
    PROVE  Tidy(RemoveTxs(p, T), c)
<1> DEFINE q == RemoveTxs(p, T)
           D == T \cap p.pending
<1>1. /\ q.pending = p.pending \ (T \cup After(p.pending, D))
      /\ q.nonces = Lowered(p.nonces, D)
  BY RemoveSound DEF Removed
<1>2. q.pending = p.pending \ (D \cup After(p.pending, D)) /\ D \in SUBSET p.pending
  BY <1>1
<1> HIDE DEF q, D
<1>3. Tidy(q, c)
  BY <1>1, <1>2, CutTidy
<1> QED
  BY <1>3 DEF q

\* promoteExecutables, the turns of the accounts: the ready transactions go from
\* p's queue to q's pending list, those that are gone leave the pool.
Promoted(q, p, ready, gone, c) ==
    /\ ready \cap gone = {}
    /\ q \in Pools
    /\ q.pending = p.pending \cup ready
    /\ q.queue = p.queue \ (ready \cup gone)
    /\ q.all = p.all \ gone
    /\ q.locals = p.locals
    /\ \A a \in Accounts : Of(ready, a) = {} => q.nonces[a] = p.nonces[a]
    /\ \A t \in ready : nonce[t] >= StateNonce(c, from[t])
    /\ \A t \in ready :
          p.nonces[from[t]] <= StateNonce(c, from[t]) =>
              \E u \in ready : AtFront(u, from[t], c) /\ cost[u] <= c.balance[from[t]]
    /\ \A t \in gone :
          from[t] \in p.locals => nonce[t] < StateNonce(c, from[t]) \/ cost[t] > c.balance[from[t]]

\* The ready transactions of an account are a run that starts at the next nonce or
\* before it, and the next nonce will be the one after their last.
Runs(q, p, ready) ==
    /\ \A a \in Accounts : Of(ready, a) # {} =>
          q.nonces[a] = Max({nonce[t] + 1 : t \in Of(ready, a)})
    /\ \A t \in ready : \E u \in ready : from[u] = from[t] /\ nonce[u] <= p.nonces[from[t]]
    /\ \A t, u \in ready : from[u] = from[t] =>
          \A n \in nonce[u] .. nonce[t] : Has(ready, from[t], n)

LEMMA PromoteReadyParts ==
    ASSUME NEW p, Sound(p), NEW accounts \in SUBSET Accounts, NEW c \in Heads
    PROVE  \E ready, gone \in SUBSET p.queue :
              /\ Promoted(PromoteReady(p, accounts, c), p, ready, gone, c)
              /\ Runs(PromoteReady(p, accounts, c), p, ready)
<1> DEFINE list    == {t \in p.queue : from[t] \in accounts}
           drops   == TooOld(list, c) \cup Unpayable(list, c)
           ready   == UNION {Ready(Of(list \ drops, a), p.nonces[a]) : a \in accounts}
           waiting == list \ (drops \cup ready)
           excess  == UNION {OverCap(Of(waiting, a), AccountQueue) : a \in accounts \ p.locals}
           gone    == drops \cup excess
           r       == [p EXCEPT !.queue = @ \ (drops \cup ready \cup excess),
                                !.all   = @ \ (drops \cup excess)]
           q       == PromoteReady(p, accounts, c)
<1>1. q = PromoteTxs(r, ready)
  BY DEF PromoteReady
<1>2. /\ p \in Pools /\ p.queue \subseteq Txs /\ p.pending \subseteq Txs
      /\ p.nonces \in [Accounts -> Nat]
  BY DEF Sound, Pools
<1>3. list \subseteq p.queue /\ drops \subseteq list
  BY DEF TooOld, Unpayable
<1>4. \A t \in list \ drops : nonce[t] >= StateNonce(c, from[t]) /\ cost[t] <= c.balance[from[t]]
  <2>1. ASSUME NEW t \in list \ drops
        PROVE  nonce[t] >= StateNonce(c, from[t]) /\ cost[t] <= c.balance[from[t]]
    <3>1. t \in Txs /\ t \in list
      BY <1>2, <1>3
    <3>2. ~(nonce[t] < StateNonce(c, from[t])) /\ ~(cost[t] > c.balance[from[t]])
      BY <2>1, <3>1 DEF TooOld, Unpayable
    <3> QED
      BY <3>1, <3>2, TxFields, HeadFields
  <2> QED
    BY <2>1
<1>5. \A t \in drops : nonce[t] < StateNonce(c, from[t]) \/ cost[t] > c.balance[from[t]]
  BY DEF TooOld, Unpayable
<1> HIDE DEF list, drops
<1>6. \A t \in ready : \E a \in accounts : t \in Ready(Of(list \ drops, a), p.nonces[a])
  OBVIOUS
<1>7. \A a \in accounts : Ready(Of(list \ drops, a), p.nonces[a]) \subseteq ready
  OBVIOUS
<1>8. ready \subseteq list \ drops
  BY <1>6 DEF Ready, Of
<1> HIDE DEF ready
<1>9. excess \subseteq waiting /\ \A t \in excess : from[t] \notin p.locals
  BY DEF OverCap, Highest, Of
<1> HIDE DEF excess
<1>10. \A t \in gone : from[t] \in p.locals =>
                           nonce[t] < StateNonce(c, from[t]) \/ cost[t] > c.balance[from[t]]
  BY <1>9, <1>5
<1>11. /\ ready \in SUBSET p.queue /\ gone \in SUBSET p.queue /\ ready \cap gone = {}
  BY <1>3, <1>8, <1>9
<1>12. /\ r \in Pools
       /\ r.queue = p.queue \ (ready \cup gone) /\ r.all = p.all \ gone
       /\ r.pending = p.pending /\ r.locals = p.locals /\ r.nonces = p.nonces
  BY <1>2 DEF Pools
<1> HIDE DEF r, gone
<1>13. At(r.pending, ready) = {} /\ ready \subseteq r.all /\ ready \in SUBSET Txs
  BY <1>2, <1>11, <1>12 DEF At, Sound, Unique
<1>14. /\ q \in Pools
       /\ q.pending = p.pending \cup ready
       /\ q.queue = p.queue \ (ready \cup gone)
       /\ q.all = p.all \ gone
       /\ q.locals = p.locals
       /\ \A a \in Accounts : Of(ready, a) = {} => q.nonces[a] = p.nonces[a]
       /\ \A a \in Accounts : Of(ready, a) # {} =>
             q.nonces[a] = Max({nonce[t] + 1 : t \in Of(ready, a)})
  BY <1>1, <1>12, <1>13, PromoteNew
<1>15. \A t \in ready : nonce[t] >= StateNonce(c, from[t])
  BY <1>4, <1>8
<1>16. ASSUME NEW t \in ready, p.nonces[from[t]] <= StateNonce(c, from[t])
       PROVE  \E u \in ready : AtFront(u, from[t], c) /\ cost[u] <= c.balance[from[t]]
  <2>1. PICK a \in accounts : t \in Ready(Of(list \ drops, a), p.nonces[a])
    BY <1>6
  <2> DEFINE S == Of(list \ drops, a)
  <2>2. from[t] = a
    BY <2>1 DEF Ready, Of
  <2>3. PICK u \in S : nonce[u] <= p.nonces[a]
    BY <2>1 DEF Ready
  <2>4. \A v \in S : v \in list \ drops /\ from[v] = a /\ v \in Txs
    BY <1>2, <1>3 DEF Of
  <2>5. \A v \in S : nonce[v] \in Nat /\ nonce[v] >= StateNonce(c, a)
    BY <1>4, <2>4, TxFields
  <2>6. StateNonce(c, a) \in Nat /\ p.nonces[a] \in Nat
    BY <1>2, HeadFields
  <2> HIDE DEF S
  <2>7. nonce[u] = StateNonce(c, a)
    BY <1>16, <2>2, <2>3, <2>5, <2>6
  <2>8. \A v \in S : \A n \in nonce[v] .. nonce[u] : nonce[u] = n
    BY <2>3, <2>5, <2>6, <2>7
  <2>9. u \in Ready(S, p.nonces[a])
    BY <2>3, <2>8 DEF Ready
  <2>10. u \in ready
    BY <1>7, <2>9 DEF S
  <2>11. cost[u] <= c.balance[a]
    BY <1>4, <2>3, <2>4
  <2> QED
    BY <2>2, <2>3, <2>4, <2>7, <2>10, <2>11 DEF AtFront
<1>17. \A t \in ready : from[t] \in accounts
               /\ t \in Ready(Of(list \ drops, from[t]), p.nonces[from[t]])
  BY <1>6 DEF Ready, Of
<1>18. ASSUME NEW t \in ready
       PROVE  /\ \E u \in ready : from[u] = from[t] /\ nonce[u] <= p.nonces[from[t]]
              /\ \A u \in ready : from[u] = from[t] =>
                    \A n \in nonce[u] .. nonce[t] : Has(ready, from[t], n)
  <2> DEFINE a == from[t]
             S == Of(list \ drops, a)
             start == p.nonces[a]
  <2>1. t \in Ready(S, start) /\ a \in Accounts /\ start \in Nat /\ Ready(S, start) \subseteq ready
    BY <1>2, <1>7, <1>17
  <2>2. \A v \in S : from[v] = a /\ nonce[v] \in Nat
    <3>1. \A v \in S : from[v] = a /\ v \in Txs
      BY <1>2, <1>3 DEF Of
    <3> QED
      BY <3>1, TxFields
  <2>3. \A u \in ready : from[u] = a => u \in S
    BY <1>8 DEF Of
  <2> HIDE DEF S, start, a
  <2>4. /\ t \in S /\ \E u \in S : nonce[u] <= start
        /\ \A u \in S : \A n \in nonce[u] .. nonce[t] : \E v \in S : nonce[v] = n
    BY <2>1 DEF Ready
  <2>5. ASSUME NEW v \in S, nonce[v] <= nonce[t]
        PROVE  v \in ready
    <3>1. \A u \in S : \A n \in nonce[u] .. nonce[v] : \E w \in S : nonce[w] = n
      <4>1. \A u \in S : \A n \in nonce[u] .. nonce[v] : n \in nonce[u] .. nonce[t]
        BY <2>2, <2>4, <2>5
      <4> QED
        BY <2>4, <4>1
    <3> QED
      BY <2>1, <2>4, <3>1 DEF Ready
  <2>6. \E u \in ready : from[u] = a /\ nonce[u] <= start
    <3>1. PICK u \in S : nonce[u] <= start
      BY <2>4
    <3>2. CASE nonce[u] <= nonce[t]
      BY <2>2, <2>5, <3>1, <3>2
    <3>3. CASE nonce[t] <= start
      BY <2>2, <2>4, <3>3
    <3> QED
      BY <2>1, <2>2, <2>4, <3>1, <3>2, <3>3
  <2>7. ASSUME NEW u \in ready, from[u] = a, NEW n \in nonce[u] .. nonce[t]
        PROVE  Has(ready, a, n)
    <3>1. u \in S
      BY <2>3, <2>7
    <3>2. PICK v \in S : nonce[v] = n
      BY <2>4, <2>7, <3>1
    <3>3. nonce[v] <= nonce[t]
      BY <2>7, <3>2
    <3>4. v \in ready /\ from[v] = a
      BY <2>2, <2>5, <3>2, <3>3
    <3> QED
      BY <3>2, <3>4 DEF Has
  <2> QED
    BY <2>6, <2>7 DEF a, start
<1> HIDE DEF q
<1> QED
  <2>1. Promoted(q, p, ready, gone, c)
    BY <1>11, <1>14, <1>15, <1>16, <1>10 DEF Promoted
  <2>2. Runs(q, p, ready)
    BY <1>14, <1>18 DEF Runs
  <2> QED
    BY <1>11, <2>1, <2>2 DEF q

\* Promotion continues the pending nonces where they end.
LEMMA PromoteReadyTidy ==
    ASSUME NEW p, Sound(p), NEW accounts \in SUBSET Accounts, NEW c \in Heads, Tidy(p, c)
    PROVE  Tidy(PromoteReady(p, accounts, c), c)
<1> DEFINE q == PromoteReady(p, accounts, c)
<1>1. PICK ready, gone \in SUBSET p.queue :
         Promoted(q, p, ready, gone, c) /\ Runs(q, p, ready)
  BY PromoteReadyParts
<1> HIDE DEF q
<1>2. /\ p.pending \in SUBSET Txs /\ p.nonces \in [Accounts -> Nat] /\ ready \in SUBSET Txs
      /\ \A t \in p.pending, u \in ready : from[t] = from[u] => nonce[t] # nonce[u]
  BY DEF Sound, Pools, Unique
<1>3. q.pending = p.pending \cup ready /\ q.nonces \in [Accounts -> Nat]
  BY <1>1 DEF Promoted, Pools
<1> SUFFICES ASSUME NEW a \in Accounts, NEW n \in Nat
             PROVE  Has(q.pending, a, n) <=> StateNonce(c, a) <= n /\ n < q.nonces[a]
  BY DEF Tidy, q
<1>4. StateNonce(c, a) \in Nat /\ p.nonces[a] \in Nat /\ q.nonces[a] \in Nat
  BY <1>2, <1>3, HeadFields
<1>5. \A m \in Nat : Has(p.pending, a, m) <=> StateNonce(c, a) <= m /\ m < p.nonces[a]
  BY DEF Tidy
<1>6. Has(q.pending, a, n) <=> Has(p.pending, a, n) \/ Has(ready, a, n)
  BY <1>3 DEF Has
<1>7. CASE Of(ready, a) = {}
  <2>1. q.nonces[a] = p.nonces[a]
    BY <1>1, <1>7 DEF Promoted
  <2>2. ~Has(ready, a, n)
    BY <1>7 DEF Has, Of
  <2> QED
    BY <1>5, <1>6, <2>1, <2>2
<1>8. CASE Of(ready, a) # {}
  <2> DEFINE F == Of(ready, a)
  <2>1. \A t : t \in F <=> t \in ready /\ from[t] = a
    BY DEF Of
  <2>2. F \in SUBSET Txs /\ F # {}
    BY <1>2, <1>8, <2>1
  <2>3. q.nonces[a] = Max({nonce[t] + 1 : t \in F})
    BY <1>1, <1>8 DEF Runs
  <2> HIDE DEF F
  <2>4. \A t \in F : nonce[t] \in Nat
    BY <2>2, TxFields
  <2>5. PICK z \in F : q.nonces[a] = nonce[z] + 1
    BY <2>2, <2>3, MaxFollowing
  <2>6. \A t \in F : nonce[t] < q.nonces[a]
    BY <2>2, <2>3, MaxFollowing
  <2>7. PICK u \in F : nonce[u] <= p.nonces[a]
    BY <1>1, <2>1, <2>5 DEF Runs
  <2>8. \A t \in F : nonce[t] >= StateNonce(c, a)
    BY <1>1, <2>1 DEF Promoted
  <2>9. \A t \in F : ~(nonce[t] < p.nonces[a])
    <3>1. ASSUME NEW t \in F, nonce[t] < p.nonces[a]
          PROVE  FALSE
      <4>1. Has(p.pending, a, nonce[t])
        BY <1>4, <1>5, <2>4, <2>8, <3>1
      <4> QED
        BY <1>2, <2>1, <4>1 DEF Has
    <3> QED
      BY <3>1
  <2>10. nonce[u] = p.nonces[a]
    BY <1>4, <2>4, <2>7, <2>9
  <2>11. \A m \in nonce[u] .. nonce[z] : Has(ready, a, m)
    BY <1>1, <2>1, <2>5, <2>7 DEF Runs
  <2>12. Has(ready, a, n) <=> p.nonces[a] <= n /\ n < q.nonces[a]
    <3>1. ASSUME Has(ready, a, n)
          PROVE  p.nonces[a] <= n /\ n < q.nonces[a]
      <4>1. PICK t \in F : nonce[t] = n
        BY <2>1, <3>1 DEF Has
      <4> QED
        BY <1>4, <2>4, <2>6, <2>9, <4>1
    <3>2. ASSUME p.nonces[a] <= n, n < q.nonces[a]
          PROVE  Has(ready, a, n)
      <4>1. n \in nonce[u] .. nonce[z]
        BY <1>4, <2>4, <2>5, <2>10, <3>2
      <4> QED
        BY <2>11, <4>1
    <3> QED
      BY <3>1, <3>2
  <2>13. StateNonce(c, a) <= p.nonces[a] /\ p.nonces[a] <= q.nonces[a]
    BY <1>4, <2>4, <2>6, <2>8, <2>10
  <2> QED
    BY <1>4, <1>5, <1>6, <2>12, <2>13
<1> QED
  BY <1>7, <1>8

\* Nothing was added, and no account has ceased to be local.
Within(q, p) == q.all \subseteq p.all /\ p.locals \subseteq q.locals

\* The transaction u is in q, is outdated, cannot be paid, or has been outbid.
Spared(q, u, c) ==
    \/ u \in q.all
    \/ nonce[u] < StateNonce(c, from[u])
    \/ cost[u] > c.balance[from[u]]
    \/ \E v \in q.all : /\ from[v] = from[u] /\ nonce[v] = nonce[u]
                         /\ cost[v] <= c.balance[from[u]]
                         /\ Better(v, u)

\* The local transactions of p are spared on the way to q.
Spares(q, p, c) ==
    /\ p.locals \subseteq q.locals
    /\ \A u \in p.all : from[u] \in p.locals => Spared(q, u, c)

LEMMA BetterThan ==
    ASSUME NEW t \in Txs, NEW u \in Txs, NEW v \in Txs, Better(v, u)
    PROVE  /\ ~Better(u, v)
           /\ Better(u, t) => Better(v, t)
           /\ ~Better(t, u) => ~Better(t, v)
<1>1. price[t] \in Nat /\ price[u] \in Nat /\ price[v] \in Nat
  BY TxFields
<1>2. \A x \in Txs : (price[x] * (100 + PriceBump)) \div 100 \in Int
  <2>1. TAKE x \in Txs
  <2>2. price[x] \in Nat /\ 100 + PriceBump \in Nat
    BY TxFields, ConfigAssumption
  <2>3. price[x] * (100 + PriceBump) \in Nat
    BY <2>2
  <2> QED
    BY <2>3
<1> QED
  BY <1>1, <1>2 DEF Better

LEMMA SparesTransitive ==
    ASSUME NEW c, NEW p \in Pools, NEW q \in Pools, NEW r \in Pools, c \in Heads,
           Spares(q, p, c), Spares(r, q, c)
    PROVE  Spares(r, p, c)
<1>1. p.locals \subseteq r.locals
  BY DEF Spares
<1>2. ASSUME NEW u \in p.all, from[u] \in p.locals
      PROVE  Spared(r, u, c)
  <2>1. u \in Txs /\ q.all \subseteq Txs /\ r.all \subseteq Txs
    BY DEF Pools
  <2>2. Spared(q, u, c) /\ from[u] \in q.locals
    BY <1>2 DEF Spares
  <2>3. CASE u \in q.all
    BY <2>2, <2>3 DEF Spares
  <2>4. ASSUME NEW v \in q.all, from[v] = from[u], nonce[v] = nonce[u],
               cost[v] <= c.balance[from[u]], Better(v, u)
        PROVE  Spared(r, u, c)
    <3>1. Spared(r, v, c)
      BY <2>2, <2>4 DEF Spares
    <3>2. ~(cost[v] > c.balance[from[v]])
      <4>1. v \in Txs
        BY <2>1
      <4>2. cost[v] \in Nat /\ c.balance[from[v]] \in Nat
        BY <4>1, TxFields, HeadFields
      <4> QED
        BY <2>4, <4>2
    <3>3. ASSUME NEW w \in r.all, from[w] = from[v], nonce[w] = nonce[v],
                 cost[w] <= c.balance[from[v]], Better(w, v)
          PROVE  Spared(r, u, c)
      <4>1. Better(w, u)
        BY <2>1, <2>4, <3>3, BetterThan
      <4> QED
        BY <2>4, <3>3, <4>1 DEF Spared
    <3>4. CASE v \in r.all
      BY <2>4, <3>4 DEF Spared
    <3>5. CASE nonce[v] < StateNonce(c, from[v])
      BY <2>4, <3>5 DEF Spared
    <3> QED
      BY <3>1, <3>2, <3>3, <3>4, <3>5 DEF Spared
  <2> QED
    BY <2>2, <2>3, <2>4 DEF Spared
<1> QED
  BY <1>1, <1>2 DEF Spares

LEMMA PromoteReadyKeeps ==
    ASSUME NEW p, Sound(p), NEW accounts \in SUBSET Accounts, NEW c \in Heads, FrontHeld(p, c)
    PROVE  LET q == PromoteReady(p, accounts, c)
           IN  /\ Sound(q) /\ Within(q, p) /\ Spares(q, p, c)
               /\ FrontHeld(q, c) /\ (Fronted(p, c) => Fronted(q, c))
<1> DEFINE q == PromoteReady(p, accounts, c)
<1>0. PICK ready, gone \in SUBSET p.queue : Promoted(q, p, ready, gone, c)
  BY PromoteReadyParts
<1> HIDE DEF q
<1>1. /\ ready \in SUBSET p.queue /\ gone \in SUBSET p.queue
      /\ ready \cap gone = {}
      /\ q \in Pools
      /\ q.pending = p.pending \cup ready
      /\ q.queue = p.queue \ (ready \cup gone)
      /\ q.all = p.all \ gone
      /\ q.locals = p.locals
      /\ \A a \in Accounts : Of(ready, a) = {} => q.nonces[a] = p.nonces[a]
      /\ \A t \in ready : nonce[t] >= StateNonce(c, from[t])
      /\ \A t \in ready :
            p.nonces[from[t]] <= StateNonce(c, from[t]) =>
                \E u \in ready : AtFront(u, from[t], c) /\ cost[u] <= c.balance[from[t]]
      /\ \A t \in gone : from[t] \in p.locals =>
                            nonce[t] < StateNonce(c, from[t]) \/ cost[t] > c.balance[from[t]]
  BY <1>0 DEF Promoted
<1>2. Sound(q)
  <2>1. q.all = q.pending \cup q.queue /\ q.pending \cap q.queue = {}
    BY <1>1 DEF Sound
  <2>2. Unique(q.all)
    BY <1>1 DEF Sound, Unique
  <2> QED
    BY <1>1, <2>1, <2>2 DEF Sound
<1>3. Within(q, p) /\ Spares(q, p, c)
  BY <1>1 DEF Within, Spares, Spared
<1>4. \A t \in ready : from[t] \in Accounts
  BY <1>1, TxFields DEF Sound, Pools
<1>5. \A t \in ready : \E u \in q.pending : AtFront(u, from[t], c) /\ cost[u] <= c.balance[from[t]]
  <2>1. TAKE t \in ready
  <2>2. CASE p.nonces[from[t]] <= StateNonce(c, from[t])
    BY <1>1, <2>2
  <2>3. CASE ~(p.nonces[from[t]] <= StateNonce(c, from[t]))
    <3>1. PICK u \in p.pending : AtFront(u, from[t], c) /\ cost[u] <= c.balance[from[t]]
      BY <1>4, <2>3 DEF FrontHeld
    <3> QED
      BY <1>1, <3>1
  <2> QED
    BY <2>2, <2>3
<1>6. FrontHeld(q, c)
  <2>1. SUFFICES ASSUME NEW a \in Accounts
                 PROVE  \/ q.nonces[a] <= StateNonce(c, a)
                        \/ \E u \in q.pending : AtFront(u, a, c) /\ cost[u] <= c.balance[a]
    BY DEF FrontHeld
  <2>2. CASE Of(ready, a) = {}
    BY <1>1, <2>2 DEF FrontHeld
  <2>3. CASE Of(ready, a) # {}
    <3>1. PICK t \in ready : from[t] = a
      BY <2>3 DEF Of
    <3> QED
      BY <1>5, <3>1
  <2> QED
    BY <2>2, <2>3
<1>7. ASSUME Fronted(p, c), NEW t \in q.pending
      PROVE  /\ nonce[t] >= StateNonce(c, from[t])
             /\ \E u \in q.pending : AtFront(u, from[t], c)
  <2>1. CASE t \in ready
    BY <1>1, <1>5, <2>1
  <2>2. CASE t \in p.pending
    <3>1. nonce[t] >= StateNonce(c, from[t]) /\ \E u \in p.pending : AtFront(u, from[t], c)
      BY <1>7, <2>2 DEF Fronted
    <3> QED
      BY <1>1, <3>1
  <2> QED
    BY <1>1, <1>7, <2>1, <2>2
<1>8. Fronted(p, c) => Fronted(q, c)
  BY <1>7 DEF Fronted
<1> QED
  BY <1>2, <1>3, <1>6, <1>8 DEF q

\* The level at which lists are cut leaves each account one transaction at least.
LEMMA EqualizeParts ==
    ASSUME NEW p, Sound(p)
    PROVE  \E drops \in SUBSET p.pending :
              /\ Equalize(p) = [p EXCEPT !.pending = @ \ drops, !.all = @ \ drops,
                                         !.nonces = Lowered(@, drops)]
              /\ After(p.pending, drops) = {}
              /\ \A u \in drops :
                    /\ from[u] \notin p.locals
                    /\ Cardinality({v \in Of(p.pending, from[u]) : nonce[v] > nonce[u]})
                          < Cardinality(Of(p.pending, from[u])) - 1
<1> DEFINE spammers == {a \in Accounts \ p.locals : Cardinality(Of(p.pending, a)) > AccountSlots}
           Over(l)  == UNION {OverCap(Of(p.pending, a), l) : a \in spammers}
           fits     == {l \in AccountSlots .. Cardinality(p.pending) :
                           Cardinality(p.pending \ Over(l)) <= GlobalSlots}
           M        == {AccountSlots} \cup fits
           drops    == Over(Max(M))
<1>1. Equalize(p) = [p EXCEPT !.pending = @ \ drops, !.all = @ \ drops,
                              !.nonces = Lowered(@, drops)]
  BY DEF Equalize
<1>2. p.pending \in SUBSET Txs
  BY DEF Sound, Pools
<1>3. \A a : Of(p.pending, a) \subseteq p.pending /\ \A t \in Of(p.pending, a) : from[t] = a
  BY DEF Of
<1>4. AccountSlots \in Nat /\ AccountSlots >= 1 /\ Cardinality(p.pending) \in Nat
  BY <1>2, ConfigAssumption, TxSets
<1>5. \A x \in M : x \in Nat /\ x >= 1
  <2>1. \A x \in fits : x \in AccountSlots .. Cardinality(p.pending)
    OBVIOUS
  <2> QED
    BY <1>4, <2>1
<1>6. Max(M) \in Nat /\ Max(M) >= 1
  <2>1. M # {} /\ IsFiniteSet(M)
    <3>1. fits \in SUBSET (AccountSlots .. Cardinality(p.pending))
      OBVIOUS
    <3> HIDE DEF fits
    <3>2. IsFiniteSet(fits)
      <4>1. PICK I : I = AccountSlots .. Cardinality(p.pending)
        OBVIOUS
      <4>2. IsFiniteSet(I)
        BY <1>4, <4>1, FS_Interval
      <4> QED
        BY <3>1, <4>1, <4>2, FS_Subset
    <3>3. IsFiniteSet(fits \cup {AccountSlots})
      BY <3>2, FS_AddElement
    <3>4. fits \cup {AccountSlots} = M
      OBVIOUS
    <3> QED
      BY <3>3, <3>4
  <2> HIDE DEF M
  <2>2. PICK R : R = {r \in Int \X Int : r[1] > r[2]}
    OBVIOUS
  <2>3. \A x, y \in M : <<x, y>> \in R <=> x > y
    BY <1>5, <2>2
  <2>4. /\ \A x \in M : <<x, x>> \notin R
        /\ \A x, y, z \in M : <<x, y>> \in R /\ <<y, z>> \in R => <<x, z>> \in R
    BY <1>5, <2>3
  <2>5. PICK w \in M : \A t \in M : <<t, w>> \notin R
    BY <2>1, <2>4, FirstOf
  <2>6. ASSUME NEW y \in M
        PROVE  w >= y
    <3>1. ~(y > w)
      BY <2>3, <2>5
    <3> QED
      BY <1>5, <3>1
  <2>7. \E x \in M : \A y \in M : x >= y
    BY <2>6
  <2>8. Max(M) \in M
    BY <2>7 DEF Max
  <2> QED
    BY <1>5, <2>8
<1> HIDE DEF M
<1>7. ASSUME NEW u \in drops
      PROVE  /\ u \in p.pending
             /\ from[u] \notin p.locals
             /\ Cardinality({v \in Of(p.pending, from[u]) : nonce[v] > nonce[u]})
                   < Cardinality(Of(p.pending, from[u])) - 1
  <2>1. PICK a \in spammers : u \in OverCap(Of(p.pending, a), Max(M))
    BY <1>7
  <2> DEFINE S == Of(p.pending, a)
             H == {v \in S : nonce[v] > nonce[u]}
  <2>2. u \in S /\ Cardinality(H) < Cardinality(S) - Max(M)
    BY <2>1 DEF OverCap, Highest
  <2>3. S \in SUBSET Txs /\ H \in SUBSET Txs
    BY <1>2, <1>3
  <2>4. from[u] = a /\ u \in p.pending
    BY <1>3, <2>2
  <2> HIDE DEF S, H
  <2>5. Cardinality(S) \in Nat /\ Cardinality(H) \in Nat
    BY <2>3, TxSets
  <2>6. Cardinality(H) < Cardinality(S) - 1
    BY <1>6, <2>2, <2>5
  <2> QED
    BY <2>4, <2>6 DEF S, H
<1>8. ASSUME NEW u \in drops, NEW t \in p.pending, from[t] = from[u], nonce[u] < nonce[t]
      PROVE  t \in drops
  <2>1. PICK a \in spammers : u \in OverCap(Of(p.pending, a), Max(M))
    BY <1>8
  <2> DEFINE S == Of(p.pending, a)
             H(x) == {v \in S : nonce[v] > nonce[x]}
  <2>2. u \in S /\ Cardinality(H(u)) < Cardinality(S) - Max(M)
    BY <2>1 DEF OverCap, Highest
  <2>3. t \in S /\ S \in SUBSET Txs /\ \A x : H(x) \in SUBSET S
    BY <1>2, <1>8, <2>2 DEF Of
  <2>4. nonce[t] \in Nat /\ nonce[u] \in Nat /\ \A v \in S : nonce[v] \in Nat
    BY <2>2, <2>3, TxFields
  <2>5. H(t) \in SUBSET H(u)
    BY <1>8, <2>4
  <2>6. t \in Highest(S, Cardinality(S) - Max(M)) <=> Cardinality(H(t)) < Cardinality(S) - Max(M)
    BY <2>3 DEF Highest
  <2> HIDE DEF S, H
  <2>7. H(u) \in SUBSET Txs /\ H(t) \in SUBSET Txs
    BY <2>3
  <2>8. /\ IsFiniteSet(H(u)) /\ Cardinality(H(u)) \in Nat /\ Cardinality(H(t)) \in Nat
        /\ Cardinality(S) \in Nat
    BY <2>3, <2>7, TxSets
  <2>9. Cardinality(H(t)) <= Cardinality(H(u))
    BY <2>5, <2>8, FS_Subset
  <2>10. t \in Highest(S, Cardinality(S) - Max(M))
    BY <1>6, <2>2, <2>6, <2>8, <2>9
  <2> QED
    BY <2>1, <2>10 DEF OverCap, S
<1> HIDE DEF drops
<1>9. drops \in SUBSET p.pending
  BY <1>7
<1>10. After(p.pending, drops) = {}
  BY <1>9, <1>8 DEF After
<1> QED
  BY <1>1, <1>7, <1>9, <1>10

LEMMA EqualizeKeeps ==
    ASSUME NEW p, Sound(p), NEW c \in Heads, FrontHeld(p, c)
    PROVE  LET q == Equalize(p)
           IN  /\ Sound(q) /\ Within(q, p) /\ Spares(q, p, c)
               /\ FrontHeld(q, c) /\ (Fronted(p, c) => Fronted(q, c))
<1> DEFINE q == Equalize(p)
<1>1. PICK drops \in SUBSET p.pending :
         /\ q = [p EXCEPT !.pending = @ \ drops, !.all = @ \ drops, !.nonces = Lowered(@, drops)]
         /\ \A u \in drops :
               /\ from[u] \notin p.locals
               /\ Cardinality({v \in Of(p.pending, from[u]) : nonce[v] > nonce[u]})
                     < Cardinality(Of(p.pending, from[u])) - 1
  BY EqualizeParts
<1> HIDE DEF q
<1>2. p.pending \in SUBSET Txs /\ drops \in SUBSET Txs /\ p.nonces \in [Accounts -> Nat]
  BY DEF Sound, Pools
<1>3. /\ Lowered(p.nonces, drops) \in [Accounts -> Nat]
      /\ \A a \in Accounts :
            /\ Lowered(p.nonces, drops)[a] <= p.nonces[a]
            /\ \A t \in drops : from[t] = a => Lowered(p.nonces, drops)[a] <= nonce[t]
  BY <1>2, LoweredNonces
<1>4. /\ q \in Pools
      /\ q.pending = p.pending \ drops /\ q.all = p.all \ drops /\ q.queue = p.queue
      /\ q.locals = p.locals /\ q.nonces = Lowered(p.nonces, drops)
  BY <1>1, <1>3 DEF Sound, Pools
<1>5. Sound(q)
  BY <1>4 DEF Sound, Unique
<1>6. Within(q, p) /\ Spares(q, p, c)
  BY <1>1, <1>4 DEF Within, Spares, Spared
<1>7. \A t \in p.pending : from[t] \in Accounts /\ nonce[t] \in Nat
  BY <1>2, TxFields
<1>8. \A a \in Accounts : StateNonce(c, a) \in Nat
  BY HeadFields
<1>9. FrontHeld(q, c)
  <2>1. SUFFICES ASSUME NEW a \in Accounts
                 PROVE  \/ q.nonces[a] <= StateNonce(c, a)
                        \/ \E u \in q.pending : AtFront(u, a, c) /\ cost[u] <= c.balance[a]
    BY DEF FrontHeld
  <2>2. CASE p.nonces[a] <= StateNonce(c, a)
    BY <1>2, <1>3, <1>4, <1>8, <2>2
  <2>3. CASE ~(p.nonces[a] <= StateNonce(c, a))
    <3>1. PICK u \in p.pending : AtFront(u, a, c) /\ cost[u] <= c.balance[a]
      BY <2>3 DEF FrontHeld
    <3>2. CASE u \in drops
      BY <1>3, <1>4, <3>1, <3>2 DEF AtFront
    <3>3. CASE u \notin drops
      BY <1>4, <3>1, <3>3
    <3> QED
      BY <3>2, <3>3
  <2> QED
    BY <2>2, <2>3
<1>10. ASSUME Fronted(p, c), NEW t \in q.pending
       PROVE  /\ nonce[t] >= StateNonce(c, from[t])
              /\ \E u \in q.pending : AtFront(u, from[t], c)
  <2>1. t \in p.pending
    BY <1>4
  <2>2. PICK u \in p.pending : AtFront(u, from[t], c)
    BY <1>10, <2>1 DEF Fronted
  <2>3. u \notin drops
    <3> DEFINE S == Of(p.pending, from[u])
               H == {v \in S : nonce[v] > nonce[u]}
    <3>1. \A v \in S : v \in p.pending /\ from[v] = from[u]
      BY DEF Of
    <3>2. \A v \in S : nonce[v] \in Nat /\ nonce[u] \in Nat /\ nonce[v] >= nonce[u]
      BY <1>7, <1>10, <2>2, <3>1 DEF Fronted, AtFront
    <3>3. \A v \in S : nonce[v] = nonce[u] => v = u
      BY <3>1 DEF Sound, Unique
    <3>4. H = S \ {u}
      BY <3>2, <3>3
    <3>5. u \in S /\ S \in SUBSET Txs
      BY <1>2 DEF Of
    <3> HIDE DEF S
    <3>6. IsFiniteSet(S) /\ Cardinality(S) \in Nat
      BY <3>5, TxSets
    <3>7. Cardinality(S \ {u}) = Cardinality(S) - 1
      BY <3>5, <3>6, FS_RemoveElement
    <3> HIDE DEF H
    <3>8. ~(Cardinality(H) < Cardinality(S) - 1)
      BY <3>4, <3>6, <3>7
    <3> QED
      BY <1>1, <3>8 DEF S, H
  <2> QED
    BY <1>4, <1>10, <2>1, <2>2, <2>3 DEF Fronted
<1>11. Fronted(p, c) => Fronted(q, c)
  BY <1>10 DEF Fronted
<1> QED
  BY <1>5, <1>6, <1>9, <1>11 DEF q

LEMMA EqualizeTidy ==
    ASSUME NEW p, Sound(p), NEW c \in Heads, Tidy(p, c)
    PROVE  Tidy(Equalize(p), c)
<1> DEFINE q == Equalize(p)
<1>1. PICK drops \in SUBSET p.pending :
         /\ q = [p EXCEPT !.pending = @ \ drops, !.all = @ \ drops, !.nonces = Lowered(@, drops)]
         /\ After(p.pending, drops) = {}
  BY EqualizeParts
<1> HIDE DEF q
<1>2. /\ q.pending = p.pending \ (drops \cup After(p.pending, drops))
      /\ q.nonces = Lowered(p.nonces, drops)
  BY <1>1 DEF Sound, Pools
<1>3. Tidy(q, c)
  BY <1>2, CutTidy
<1> QED
  BY <1>3 DEF q

Remote(p) == {t \in p.all : from[t] \notin p.locals}

\* PoolBound, of any pool.
Bounded(p) ==
    Cardinality(p.all) > GlobalSlots + GlobalQueue => Cardinality(Remote(p)) <= 1

\* What every operation keeps in the state of c.  While reset brings the pool
\* to another head, the transactions that are pending may still be those of the last.
Good(p, c, settled) ==
    Sound(p) /\ Bounded(p) /\ FrontHeld(p, c) /\ (settled => Fronted(p, c))

LEMMA WithinBounded ==
    ASSUME NEW p, Sound(p), NEW q, Sound(q), Within(q, p), Bounded(p)
    PROVE  Bounded(q)
<1>1. p.all \in SUBSET Txs /\ q.all \in SUBSET p.all
  BY DEF Sound, Pools, Within
<1>2. Remote(p) \in SUBSET Txs /\ Remote(q) \in SUBSET Remote(p)
  BY <1>1 DEF Remote, Within
<1>3. /\ IsFiniteSet(p.all) /\ Cardinality(p.all) \in Nat
      /\ IsFiniteSet(Remote(p)) /\ Cardinality(Remote(p)) \in Nat
      /\ Cardinality(q.all) \in Nat /\ Cardinality(Remote(q)) \in Nat
  BY <1>1, <1>2, TxSets
<1>4. Cardinality(q.all) <= Cardinality(p.all) /\ Cardinality(Remote(q)) <= Cardinality(Remote(p))
  <2>1. \A S, T : IsFiniteSet(S) /\ T \in SUBSET S => Cardinality(T) <= Cardinality(S)
    BY FS_Subset
  <2> QED
    BY <1>1, <1>2, <1>3, <2>1
<1>5. GlobalSlots + GlobalQueue \in Nat
  BY ConfigAssumption
<1> QED
  BY <1>3, <1>4, <1>5 DEF Bounded

LEMMA RemoveGood ==
    ASSUME NEW p, NEW c \in Heads, NEW settled \in BOOLEAN, Good(p, c, settled),
           NEW T \in SUBSET Txs
    PROVE  Good(RemoveTxs(p, T), c, settled)
<1>1. Sound(p) /\ Bounded(p) /\ FrontHeld(p, c) /\ (settled => Fronted(p, c))
  BY DEF Good
<1>2. Sound(RemoveTxs(p, T)) /\ Within(RemoveTxs(p, T), p)
  <2>1. Sound(RemoveTxs(p, T)) /\ Removed(RemoveTxs(p, T), p, T)
    BY <1>1, RemoveSound
  <2> QED
    BY <2>1 DEF Removed, Within
<1>3. Bounded(RemoveTxs(p, T))
  BY <1>1, <1>2, WithinBounded
<1> QED
  BY <1>1, <1>2, <1>3, RemoveFront DEF Good

\* What removeTx is asked to remove is never local.
LEMMA RemoveSpares ==
    ASSUME NEW p, Sound(p), NEW c, NEW T \in SUBSET Txs, \A t \in T : from[t] \notin p.locals
    PROVE  Spares(RemoveTxs(p, T), p, c)
<1>1. Removed(RemoveTxs(p, T), p, T)
  BY RemoveSound
<1> QED
  BY <1>1 DEF Removed, Spares, Spared

LEMMA PromoteGood ==
    ASSUME NEW p, NEW c \in Heads, NEW settled \in BOOLEAN, Good(p, c, settled),
           NEW accounts \in SUBSET Accounts, NEW ord
    PROVE  LET q == PromoteExecutables(p, accounts, c, ord)
           IN  Good(q, c, settled) /\ Within(q, p) /\ Spares(q, p, c)
<1> DEFINE r == PromoteReady(p, accounts, c)
           e == Equalize(r)
           l == LimitQueue(e, ord)
<1>1. Good(r, c, settled) /\ Within(r, p) /\ Spares(r, p, c)
  BY PromoteReadyKeeps, WithinBounded DEF Good
<1> HIDE DEF r
<1>2. Good(e, c, settled) /\ Within(e, r) /\ Spares(e, r, c)
  BY <1>1, EqualizeKeeps, WithinBounded DEF Good
<1> HIDE DEF e
<1>3. Good(l, c, settled) /\ Within(l, e) /\ Spares(l, e, c)
  <2> DEFINE exposed == {t \in e.queue : from[t] \notin e.locals}
             Before(t, u) == \/ ord[from[t]] < ord[from[u]]
                             \/ from[t] = from[u] /\ nonce[t] > nonce[u]
             surplus == Cardinality(e.queue) - GlobalQueue
             T == {u \in exposed : Cardinality({t \in exposed : Before(t, u)}) < surplus}
  <2>1. l = RemoveTxs(e, T)
    BY DEF LimitQueue
  <2>2. T \subseteq e.queue /\ \A t \in T : from[t] \notin e.locals
    OBVIOUS
  <2> HIDE DEF T, l
  <2>3. T \in SUBSET Txs /\ Sound(e)
    BY <1>2, <2>2 DEF Good, Sound, Pools
  <2>4. Removed(l, e, T)
    BY <2>1, <2>3, RemoveSound
  <2>5. Within(l, e)
    BY <2>4 DEF Removed, Within
  <2> QED
    BY <1>2, <2>1, <2>2, <2>3, <2>5, RemoveGood, RemoveSpares
<1> HIDE DEF l
<1>4. p \in Pools /\ r \in Pools /\ e \in Pools /\ l \in Pools
  BY <1>1, <1>2, <1>3 DEF Good, Sound
<1>5. Spares(e, p, c)
  BY <1>1, <1>2, <1>4, SparesTransitive
<1>6. Spares(l, p, c)
  BY <1>3, <1>4, <1>5, SparesTransitive
<1>7. Within(l, p)
  BY <1>1, <1>2, <1>3 DEF Within
<1> QED
  BY <1>3, <1>6, <1>7 DEF PromoteExecutables, r, e, l

LEMMA PromoteTidy ==
    ASSUME NEW p, NEW c \in Heads, NEW settled \in BOOLEAN, Good(p, c, settled), Tidy(p, c),
           NEW accounts \in SUBSET Accounts, NEW ord
    PROVE  Tidy(PromoteExecutables(p, accounts, c, ord), c)
<1> DEFINE r == PromoteReady(p, accounts, c)
           e == Equalize(r)
           l == LimitQueue(e, ord)
<1>1. Sound(r) /\ FrontHeld(r, c) /\ Tidy(r, c)
  BY PromoteReadyKeeps, PromoteReadyTidy DEF Good
<1> HIDE DEF r
<1>2. Sound(e) /\ Tidy(e, c)
  BY <1>1, EqualizeKeeps, EqualizeTidy
<1> HIDE DEF e
<1>3. Tidy(l, c)
  <2> DEFINE exposed == {t \in e.queue : from[t] \notin e.locals}
             Before(t, u) == \/ ord[from[t]] < ord[from[u]]
                             \/ from[t] = from[u] /\ nonce[t] > nonce[u]
             surplus == Cardinality(e.queue) - GlobalQueue
             T == {u \in exposed : Cardinality({t \in exposed : Before(t, u)}) < surplus}
  <2>1. l = RemoveTxs(e, T)
    BY DEF LimitQueue
  <2>2. T \in SUBSET e.queue
    OBVIOUS
  <2> HIDE DEF T, l
  <2>3. T \in SUBSET Txs
    BY <1>2, <2>2 DEF Sound, Pools
  <2> QED
    BY <1>2, <2>1, <2>3, RemoveTidy
<1> QED
  BY <1>3 DEF PromoteExecutables, r, e, l

\* From the nonce of c's state on, an account's pending transactions have no gap.
Gapless(p, c) ==
    \A t \in p.pending : \A n \in StateNonce(c, from[t]) .. nonce[t] : Has(p.pending, from[t], n)

\* demoteUnexecutables leaves accounts with a front they can pay, or with nothing.
LEMMA DemoteGood ==
    ASSUME NEW p, NEW c \in Heads, Good(p, c, FALSE)
    PROVE  LET q == DemoteUnexecutables(p, c)
           IN  /\ Good(q, c, TRUE)
               /\ Spares(q, p, c)
               /\ \A t \in q.pending : cost[t] <= c.balance[from[t]]
               /\ q.nonces = p.nonces
               /\ Gapless(p, c) => Gapless(q, c)
<1> DEFINE old      == TooOld(p.pending, c)
           poor     == Unpayable(p.pending, c)
           drops    == old \cup poor
           invalids == After(p.pending, poor \ old) \ drops
           kept     == p.pending \ (drops \cup invalids)
           gapped   == {t \in kept : ~\E u \in kept :
                           from[u] = from[t] /\ nonce[u] = StateNonce(c, from[t])}
           r        == [p EXCEPT !.pending = kept \ gapped, !.all = @ \ drops]
           back     == invalids \cup gapped
           q        == DemoteUnexecutables(p, c)
<1>1. q = EnqueueTxs(r, back)
  BY DEF DemoteUnexecutables
<1>2. /\ p \in Pools /\ p.pending \subseteq Txs /\ Sound(p) /\ Bounded(p) /\ FrontHeld(p, c)
      /\ p.all = p.pending \cup p.queue /\ p.pending \cap p.queue = {}
  BY DEF Good, Sound, Pools
<1>3. \A t \in p.pending : /\ t \in old <=> nonce[t] < StateNonce(c, from[t])
                           /\ t \in poor <=> cost[t] > c.balance[from[t]]
  BY DEF TooOld, Unpayable
<1>4. old \subseteq p.pending /\ poor \subseteq p.pending
  BY DEF TooOld, Unpayable
<1>5. /\ invalids \subseteq p.pending \ drops
      /\ \A t \in invalids : \E d \in poor \ old : from[d] = from[t] /\ nonce[d] < nonce[t]
  BY DEF After
<1>6. \A t \in p.pending :
         /\ nonce[t] \in Nat /\ cost[t] \in Nat /\ from[t] \in Accounts
         /\ StateNonce(c, from[t]) \in Nat /\ c.balance[from[t]] \in Nat
  BY <1>2, TxFields, HeadFields
<1> HIDE DEF old, poor, invalids
<1>7. \A t \in kept : t \in gapped <=> ~\E u \in kept : AtFront(u, from[t], c)
  BY DEF AtFront
<1>8. gapped \subseteq kept
  OBVIOUS
<1> HIDE DEF gapped
<1>9. /\ back \subseteq p.pending /\ back \cap drops = {}
      /\ kept \ gapped = p.pending \ (drops \cup back)
  BY <1>5, <1>8
<1>10. /\ r \in Pools
       /\ r.pending = p.pending \ (drops \cup back) /\ r.all = p.all \ drops /\ r.queue = p.queue
       /\ r.nonces = p.nonces /\ r.locals = p.locals
  BY <1>2, <1>9 DEF Pools
<1>11. At(r.queue, back) = {} /\ back \in SUBSET Txs
  BY <1>2, <1>9, <1>10 DEF At, Sound, Unique
<1> HIDE DEF r, back
<1>12. q = [r EXCEPT !.queue = @ \cup back, !.all = @ \cup back]
  BY <1>1, <1>10, <1>11, EnqueueNew
<1> HIDE DEF q
<1>13. /\ q \in Pools
       /\ q.pending = p.pending \ (drops \cup back) /\ q.queue = p.queue \cup back
       /\ q.all = (p.all \ drops) \cup back
       /\ q.nonces = p.nonces /\ q.locals = p.locals
  BY <1>10, <1>11, <1>12 DEF Pools
<1>14. q.pending = kept \ gapped
  BY <1>9, <1>13
<1>15. Sound(q) /\ Within(q, p) /\ Spares(q, p, c)
  <2>1. q.all = p.all \ drops
    BY <1>2, <1>9, <1>13
  <2>2. drops \cap p.queue = {}
    BY <1>2, <1>4
  <2>3. q.all = q.pending \cup q.queue /\ q.pending \cap q.queue = {}
    BY <1>2, <1>9, <1>13, <2>1, <2>2
  <2>4. Unique(q.all)
    BY <1>2, <2>1 DEF Sound, Unique
  <2>5. Spares(q, p, c)
    BY <1>3, <1>4, <1>13, <2>1 DEF Spares, Spared
  <2> QED
    BY <1>13, <2>1, <2>3, <2>4, <2>5 DEF Sound, Within
<1>16. ASSUME NEW u \in p.pending, AtFront(u, from[u], c), cost[u] <= c.balance[from[u]]
       PROVE  u \in q.pending
  <2>1. u \notin drops
    BY <1>3, <1>6, <1>16 DEF AtFront
  <2>2. u \notin invalids
    <3>1. SUFFICES ASSUME u \in invalids
                   PROVE  FALSE
      OBVIOUS
    <3>2. PICK d \in poor \ old : from[d] = from[u] /\ nonce[d] < nonce[u]
      BY <1>5, <3>1
    <3>3. d \in p.pending /\ ~(nonce[d] < StateNonce(c, from[d]))
      BY <1>3, <1>4, <3>2
    <3> QED
      BY <1>6, <1>16, <3>2, <3>3 DEF AtFront
  <2>3. u \in kept
    BY <2>1, <2>2
  <2>4. u \notin gapped
    BY <1>7, <1>16, <2>3
  <2> QED
    BY <1>14, <2>3, <2>4
<1>17. FrontHeld(q, c)
  <2>1. SUFFICES ASSUME NEW a \in Accounts, ~(p.nonces[a] <= StateNonce(c, a))
                 PROVE  \E u \in q.pending : AtFront(u, a, c) /\ cost[u] <= c.balance[a]
    BY <1>13 DEF FrontHeld
  <2>2. PICK u \in p.pending : AtFront(u, a, c) /\ cost[u] <= c.balance[a]
    BY <1>2, <2>1 DEF FrontHeld
  <2>3. from[u] = a
    BY <2>2 DEF AtFront
  <2> QED
    BY <1>16, <2>2, <2>3
<1>18. ASSUME NEW t \in q.pending
       PROVE  /\ nonce[t] >= StateNonce(c, from[t]) /\ cost[t] <= c.balance[from[t]]
              /\ \E u \in q.pending : AtFront(u, from[t], c)
  <2>1. t \in kept /\ t \notin gapped /\ t \in p.pending /\ t \notin old /\ t \notin poor
    BY <1>14
  <2>2. nonce[t] >= StateNonce(c, from[t]) /\ cost[t] <= c.balance[from[t]]
    BY <1>3, <1>6, <2>1
  <2>3. PICK u \in kept : AtFront(u, from[t], c)
    BY <1>7, <2>1
  <2>4. u \notin gapped
    BY <1>7, <2>3 DEF AtFront
  <2> QED
    BY <1>14, <2>2, <2>3, <2>4
<1>19. Bounded(q)
  BY <1>2, <1>15, WithinBounded
<1>20. ASSUME Gapless(p, c), NEW t \in q.pending, NEW n \in StateNonce(c, from[t]) .. nonce[t]
       PROVE  Has(q.pending, from[t], n)
  <2>1. t \in kept /\ t \notin gapped /\ t \in p.pending /\ t \notin drops /\ t \notin invalids
    BY <1>14
  <2>2. PICK v \in p.pending : from[v] = from[t] /\ nonce[v] = n
    BY <1>20, <2>1 DEF Gapless, Has
  <2>3. nonce[v] <= nonce[t] /\ nonce[v] >= StateNonce(c, from[v])
    BY <1>6, <1>20, <2>1, <2>2
  <2>4. \A d \in poor \ old : from[d] = from[t] => ~(nonce[d] < nonce[t])
    BY <2>1 DEF After, invalids
  <2>5. v \notin old
    BY <1>3, <1>6, <2>2, <2>3
  <2>6. v \notin poor
    <3>1. SUFFICES ASSUME v \in poor
                   PROVE  FALSE
      OBVIOUS
    <3>2. nonce[v] = nonce[t]
      BY <1>6, <2>1, <2>2, <2>3, <2>4, <2>5, <3>1
    <3>3. v = t
      BY <1>2, <2>1, <2>2, <3>2 DEF Sound, Unique
    <3> QED
      BY <2>1, <3>1, <3>3
  <2>7. v \notin invalids
    <3>1. SUFFICES ASSUME v \in invalids
                   PROVE  FALSE
      OBVIOUS
    <3>2. PICK d \in poor \ old : from[d] = from[v] /\ nonce[d] < nonce[v]
      BY <1>5, <3>1
    <3>3. nonce[d] \in Nat /\ nonce[v] \in Nat /\ nonce[t] \in Nat
      BY <1>4, <1>6, <2>1, <2>2, <3>2
    <3> QED
      BY <2>2, <2>3, <2>4, <3>2, <3>3
  <2>8. v \in kept
    BY <2>2, <2>5, <2>6, <2>7
  <2>9. v \notin gapped
    BY <1>7, <2>1, <2>2, <2>8
  <2> QED
    BY <1>14, <2>2, <2>8, <2>9 DEF Has
<1>21. Gapless(p, c) => Gapless(q, c)
  BY <1>20 DEF Gapless
<1> QED
  BY <1>13, <1>15, <1>17, <1>18, <1>19, <1>21 DEF Good, Fronted, q

-----------------------------------------------------------------------------
(* Adding.                                                                 *)

\* The cheapest n of S are n at least, unless they are all of S.
LEMMA CheapestEnough ==
    ASSUME NEW S \in SUBSET Txs, NEW n \in Int, NEW ord \in Orders
    PROVE  /\ Cheapest(S, n, ord) \in SUBSET S
           /\ Cheapest(S, n, ord) = S \/ Cardinality(Cheapest(S, n, ord)) >= n
<1> DEFINE Before(t, u) ==
               \/ price[t] < price[u]
               \/ price[t] = price[u] /\ nonce[t] > nonce[u]
               \/ price[t] = price[u] /\ nonce[t] = nonce[u] /\ ord[from[t]] < ord[from[u]]
           Ahead(u) == {t \in S : Before(t, u)}
           R == {r \in Txs \X Txs : Before(r[1], r[2])}
           C == {u \in S : Cardinality(Ahead(u)) < n}
           W == S \ C
<1>1. Cheapest(S, n, ord) = C
  BY DEF Cheapest
<1>2. \A t \in S : t \in Txs /\ price[t] \in Nat /\ nonce[t] \in Nat /\ ord[from[t]] \in Int
  <2>1. ord \in [Accounts -> 1 .. Cardinality(Accounts)]
    BY DEF Orders
  <2>2. Cardinality(Accounts) \in Nat
    BY TxsAssumption, FS_CardinalityType
  <2>3. \A a \in Accounts : ord[a] \in Int
    BY <2>1, <2>2
  <2> QED
    BY <2>3, TxFields
<1>3. \A t, u \in S : <<t, u>> \in R <=> Before(t, u)
  BY <1>2
<1>4. /\ \A x \in S : ~Before(x, x)
      /\ \A x, y, z \in S : Before(x, y) /\ Before(y, z) => Before(x, z)
  BY <1>2
<1> HIDE DEF R, Before
<1>5. /\ \A x \in S : <<x, x>> \notin R
      /\ \A x, y, z \in S : <<x, y>> \in R /\ <<y, z>> \in R => <<x, z>> \in R
  BY <1>3, <1>4
<1>6. C \in SUBSET S
  OBVIOUS
<1>7. CASE W = {}
  BY <1>1, <1>6, <1>7
<1>8. CASE W # {}
  <2>1. W \in SUBSET S /\ IsFiniteSet(W)
    <3>1. W \in SUBSET S /\ W \in SUBSET Txs
      OBVIOUS
    <3> HIDE DEF W
    <3> QED
      BY <3>1, TxSets
  <2>2. PICK w \in W : \A t \in W : <<t, w>> \notin R
    <3> HIDE DEF W
    <3>1. /\ \A x \in W : <<x, x>> \notin R
          /\ \A x, y, z \in W : <<x, y>> \in R /\ <<y, z>> \in R => <<x, z>> \in R
      BY <1>5, <2>1
    <3> QED
      BY <1>8, <2>1, <3>1, FirstOf
  <2>3. w \in S /\ ~(Cardinality(Ahead(w)) < n)
    BY <2>2
  <2>4. Ahead(w) \in SUBSET C
    BY <1>3, <2>2
  <2>5. C \in SUBSET Txs /\ Ahead(w) \in SUBSET Txs
    BY <1>6, <2>4
  <2> HIDE DEF C, Ahead
  <2>6. IsFiniteSet(C) /\ Cardinality(C) \in Nat /\ Cardinality(Ahead(w)) \in Nat
    BY <2>5, TxSets
  <2>7. Cardinality(Ahead(w)) <= Cardinality(C)
    BY <2>4, <2>6, FS_Subset
  <2>8. Cardinality(C) >= n
    BY <2>3, <2>6, <2>7
  <2> QED
    BY <1>1, <1>6, <2>8
<1> QED
  BY <1>7, <1>8

\* One transaction more keeps the bound in a pool that has room, or holds local
\* transactions only.
LEMMA OneMore ==
    ASSUME NEW p, Sound(p), NEW q, Sound(q), NEW tx \in Txs,
           q.all \subseteq p.all \cup {tx}, Remote(q) \subseteq Remote(p) \cup {tx},
           Cardinality(p.all) < GlobalSlots + GlobalQueue \/ Remote(p) = {}
    PROVE  Bounded(q)
<1>1. p.all \in SUBSET Txs /\ GlobalSlots + GlobalQueue \in Nat
  BY ConfigAssumption DEF Sound, Pools
<1>2. CASE Cardinality(p.all) < GlobalSlots + GlobalQueue
  <2>1. IsFiniteSet(p.all) /\ Cardinality(p.all) \in Nat
    BY <1>1, TxSets
  <2>2. /\ IsFiniteSet(p.all \cup {tx})
        /\ Cardinality(p.all \cup {tx}) \in {Cardinality(p.all), Cardinality(p.all) + 1}
    BY <2>1, FS_AddElement
  <2>3. Cardinality(q.all) <= Cardinality(p.all \cup {tx}) /\ IsFiniteSet(q.all)
    BY <2>2, FS_Subset
  <2>4. Cardinality(q.all) \in Nat
    BY <2>3, FS_CardinalityType
  <2> QED
    BY <1>1, <1>2, <2>1, <2>2, <2>3, <2>4 DEF Bounded
<1>3. CASE Remote(p) = {}
  <2>1. Remote(q) \in SUBSET {tx}
    BY <1>3
  <2>2. IsFiniteSet({tx}) /\ Cardinality({tx}) = 1
    BY FS_Singleton
  <2>3. Cardinality(Remote(q)) <= 1
    BY <2>1, <2>2, FS_Subset
  <2> QED
    BY <2>3 DEF Bounded
<1> QED
  BY <1>2, <1>3

\* The tail of add: tx is refused for one with its nonce, takes the place of a
\* pending one, or goes to the queue.
Outbid(p, tx) == \E o \in p.pending \cup p.queue :
    from[o] = from[tx] /\ nonce[o] = nonce[tx] /\ ~Better(tx, o)

Replaces(q, p, tx) ==
    LET old == At(p.pending, {tx})
    IN  /\ old # {} /\ \A o \in old : Better(tx, o)
        /\ q \in Pools
        /\ q.pending = (p.pending \ old) \cup {tx} /\ q.queue = p.queue
        /\ q.all = (p.all \ old) \cup {tx}
        /\ q.nonces = p.nonces /\ q.locals = p.locals

Queues(q, p, tx, local) ==
    LET old == At(p.queue, {tx})
    IN  /\ At(p.pending, {tx}) = {} /\ \A o \in old : Better(tx, o)
        /\ q \in Pools
        /\ q.pending = p.pending /\ q.queue = (p.queue \ old) \cup {tx}
        /\ q.all = (p.all \ old) \cup {tx}
        /\ q.nonces = p.nonces /\ p.locals \subseteq q.locals
        /\ local => from[tx] \in q.locals

LEMMA InsertParts ==
    ASSUME NEW p \in Pools, NEW tx \in Txs, NEW local \in BOOLEAN
    PROVE  LET q == Insert(p, tx, local).p
           IN  (q = p /\ Outbid(p, tx)) \/ Replaces(q, p, tx) \/ Queues(q, p, tx, local)
<1> DEFINE old    == At(p.pending, {tx})
           same   == At(p.queue, {tx})
           marked == [p EXCEPT !.locals = IF local THEN @ \cup {from[tx]} ELSE @]
           direct == [p EXCEPT !.pending = (@ \ old) \cup {tx}, !.all = (@ \ old) \cup {tx}]
           queued == EnqueueTxs(marked, {tx})
           q      == Insert(p, tx, local).p
           none   == Refused(p.pending \cup p.queue, {tx}) = {}
<1>1. /\ p.pending \in SUBSET Txs /\ p.queue \in SUBSET Txs /\ p.all \in SUBSET Txs
      /\ p.locals \in SUBSET Accounts /\ from[tx] \in Accounts
  BY TxFields DEF Pools
<1>2. \A r : JournalTx(r, tx) = r \/ JournalTx(r, tx) = [r EXCEPT !.journal = @ \cup {tx}]
  BY DEF JournalTx
<1>3. none => (\A o \in old : Better(tx, o)) /\ (\A o \in same : Better(tx, o))
  BY DEF Refused, At
<1>4. ~none => Outbid(p, tx)
  BY DEF Refused, At, Outbid
<1>5. none => Refused(p.queue, {tx}) = {}
  BY DEF Refused, At
<1> HIDE DEF old, same
<1>6. \/ q = p /\ ~none
      \/ none /\ old # {} /\ q = JournalTx(direct, tx)
      \/ none /\ old = {} /\ q = JournalTx(queued, tx)
  <2> HIDE DEF direct, queued
  <2>1. CASE ~none
    BY <2>1 DEF Insert, Result
  <2>2. CASE none /\ old # {}
    BY <2>2 DEF Insert, Result, direct, old
  <2>3. CASE none /\ old = {}
    BY <2>3 DEF Insert, Result, queued, marked, old
  <2> QED
    BY <2>1, <2>2, <2>3
<1> HIDE DEF none
<1>7. CASE q = p /\ ~none
  BY <1>4, <1>7
<1>8. CASE none /\ old # {} /\ q = JournalTx(direct, tx)
  <2>1. /\ direct \in Pools
        /\ direct.pending = (p.pending \ old) \cup {tx} /\ direct.queue = p.queue
        /\ direct.all = (p.all \ old) \cup {tx}
        /\ direct.nonces = p.nonces /\ direct.locals = p.locals
    BY <1>1 DEF Pools
  <2> HIDE DEF direct
  <2>2. /\ q \in Pools
        /\ q.pending = (p.pending \ old) \cup {tx} /\ q.queue = p.queue
        /\ q.all = (p.all \ old) \cup {tx}
        /\ q.nonces = p.nonces /\ q.locals = p.locals
    <3>1. CASE q = direct
      BY <2>1, <3>1
    <3>2. CASE q = [direct EXCEPT !.journal = @ \cup {tx}]
      BY <2>1, <3>2 DEF Pools
    <3> QED
      BY <1>2, <1>8, <3>1, <3>2
  <2> HIDE DEF q
  <2> QED
    BY <1>3, <1>8, <2>2 DEF Replaces, q, old
<1>9. CASE none /\ old = {} /\ q = JournalTx(queued, tx)
  <2>1. /\ marked \in Pools
        /\ marked.pending = p.pending /\ marked.queue = p.queue /\ marked.all = p.all
        /\ marked.nonces = p.nonces /\ p.locals \subseteq marked.locals
        /\ local => from[tx] \in marked.locals
    BY <1>1 DEF Pools
  <2>2. queued = [marked EXCEPT !.queue = (@ \ same) \cup {tx}, !.all = (@ \ same) \cup {tx}]
    <3>1. {tx} \ {} = {tx}
      OBVIOUS
    <3> HIDE DEF marked
    <3> QED
      BY <1>5, <1>9, <2>1, <3>1 DEF EnqueueTxs, same
  <2> HIDE DEF marked, queued
  <2>3. marked.queue \in SUBSET Txs /\ marked.all \in SUBSET Txs
    BY <1>1, <2>1
  <2>4. /\ queued \in Pools
        /\ queued.pending = p.pending /\ queued.queue = (p.queue \ same) \cup {tx}
        /\ queued.all = (p.all \ same) \cup {tx}
        /\ queued.nonces = p.nonces /\ queued.locals = marked.locals
    BY <2>1, <2>2, <2>3 DEF Pools
  <2>5. /\ q \in Pools
        /\ q.pending = p.pending /\ q.queue = (p.queue \ same) \cup {tx}
        /\ q.all = (p.all \ same) \cup {tx}
        /\ q.nonces = p.nonces /\ q.locals = marked.locals
    <3>1. CASE q = queued
      BY <2>4, <3>1
    <3>2. CASE q = [queued EXCEPT !.journal = @ \cup {tx}]
      BY <2>4, <3>2 DEF Pools
    <3> QED
      BY <1>2, <1>9, <3>1, <3>2
  <2> HIDE DEF q
  <2> QED
    BY <1>3, <1>9, <2>1, <2>5 DEF Queues, q, old, same
<1> QED
  BY <1>6, <1>7, <1>8, <1>9

\* In a pool that has room the tail of add keeps what every operation keeps.
LEMMA InsertGood ==
    ASSUME NEW p, NEW c \in Heads, NEW settled \in BOOLEAN, Good(p, c, settled),
           NEW tx \in Txs, tx \notin p.all, NEW local \in BOOLEAN,
           costAll[tx] <= c.balance[from[tx]],
           Cardinality(p.all) < GlobalSlots + GlobalQueue \/ Remote(p) = {}
    PROVE  LET q == Insert(p, tx, local).p
           IN  Good(q, c, settled) /\ Spares(q, p, c)
<1> DEFINE q == Insert(p, tx, local).p
<1>1. /\ p \in Pools /\ Sound(p) /\ Bounded(p) /\ FrontHeld(p, c) /\ (settled => Fronted(p, c))
      /\ p.all = p.pending \cup p.queue /\ p.pending \cap p.queue = {} /\ Unique(p.all)
  BY DEF Good, Sound
<1>2. cost[tx] <= c.balance[from[tx]]
  <2>1. c.balance[from[tx]] \in Nat
    BY TxFields, HeadFields
  <2> QED
    BY <2>1, TxFields
<1>3. (q = p /\ Outbid(p, tx)) \/ Replaces(q, p, tx) \/ Queues(q, p, tx, local)
  BY <1>1, InsertParts
<1> HIDE DEF q
<1>4. CASE q = p
  BY <1>4 DEF Spares, Spared, q
<1>5. CASE Replaces(q, p, tx)
  <2>1. PICK old : old = At(p.pending, {tx})
    OBVIOUS
  <2>2. /\ old # {} /\ (\A o \in old : Better(tx, o))
        /\ q \in Pools
        /\ q.pending = (p.pending \ old) \cup {tx} /\ q.queue = p.queue
        /\ q.all = (p.all \ old) \cup {tx}
        /\ q.nonces = p.nonces /\ q.locals = p.locals
    BY <1>5, <2>1 DEF Replaces
  <2>3. \A u : u \in old <=> u \in p.pending /\ from[u] = from[tx] /\ nonce[u] = nonce[tx]
    BY <2>1 DEF At
  <2>4. \A u \in p.all : from[u] = from[tx] /\ nonce[u] = nonce[tx] => u \in old
    BY <1>1, <2>2, <2>3 DEF Unique
  <2>5. Sound(q)
    <3>1. q.all = q.pending \cup q.queue /\ q.pending \cap q.queue = {}
      BY <1>1, <2>2, <2>3
    <3>2. Unique(q.all)
      BY <1>1, <2>2, <2>4 DEF Unique
    <3> QED
      BY <2>2, <3>1, <3>2 DEF Sound
  <2>6. \A u \in p.pending : \A a : AtFront(u, a, c) => u \in q.pending \/ AtFront(tx, a, c)
    BY <2>2, <2>3 DEF AtFront
  <2>7. FrontHeld(q, c)
    <3>1. SUFFICES ASSUME NEW a \in Accounts, ~(p.nonces[a] <= StateNonce(c, a))
                   PROVE  \E u \in q.pending : AtFront(u, a, c) /\ cost[u] <= c.balance[a]
      BY <2>2 DEF FrontHeld
    <3>2. PICK u \in p.pending : AtFront(u, a, c) /\ cost[u] <= c.balance[a]
      BY <1>1, <3>1 DEF FrontHeld
    <3>3. AtFront(tx, a, c) => cost[tx] <= c.balance[a]
      BY <1>2 DEF AtFront
    <3> QED
      BY <2>2, <2>6, <3>2, <3>3
  <2>8. ASSUME Fronted(p, c)
        PROVE  Fronted(q, c)
    <3>1. SUFFICES ASSUME NEW t \in q.pending
                   PROVE  /\ nonce[t] >= StateNonce(c, from[t])
                          /\ \E u \in q.pending : AtFront(u, from[t], c)
      BY DEF Fronted
    <3>2. PICK s \in p.pending : from[s] = from[t] /\ nonce[s] = nonce[t]
      BY <2>2, <2>3, <3>1
    <3>3. PICK u \in p.pending : AtFront(u, from[t], c)
      BY <2>8, <3>2 DEF Fronted
    <3>4. \E v \in q.pending : AtFront(v, from[t], c)
      BY <2>2, <2>6, <3>3
    <3>5. nonce[t] >= StateNonce(c, from[t])
      BY <2>8, <3>2 DEF Fronted
    <3> QED
      BY <3>4, <3>5
  <2>9. q.all \subseteq p.all \cup {tx} /\ Remote(q) \subseteq Remote(p) \cup {tx}
    BY <2>2 DEF Remote
  <2>10. Bounded(q)
    BY <1>1, <2>5, <2>9, OneMore
  <2>11. Spares(q, p, c)
    BY <1>2, <2>2, <2>3 DEF Spares, Spared
  <2> QED
    BY <1>1, <2>5, <2>7, <2>8, <2>10, <2>11 DEF Good, q
<1>6. CASE Queues(q, p, tx, local)
  <2>1. PICK old : old = At(p.queue, {tx})
    OBVIOUS
  <2>2. /\ At(p.pending, {tx}) = {} /\ (\A o \in old : Better(tx, o))
        /\ q \in Pools
        /\ q.pending = p.pending /\ q.queue = (p.queue \ old) \cup {tx}
        /\ q.all = (p.all \ old) \cup {tx}
        /\ q.nonces = p.nonces /\ p.locals \subseteq q.locals
    BY <1>6, <2>1 DEF Queues
  <2>3. \A u : u \in old <=> u \in p.queue /\ from[u] = from[tx] /\ nonce[u] = nonce[tx]
    BY <2>1 DEF At
  <2>4. \A u \in p.all : from[u] = from[tx] /\ nonce[u] = nonce[tx] => u \in old
    BY <1>1, <2>2, <2>3 DEF At
  <2>5. Sound(q)
    <3>1. q.all = q.pending \cup q.queue /\ q.pending \cap q.queue = {}
      BY <1>1, <2>2, <2>3
    <3>2. Unique(q.all)
      BY <1>1, <2>2, <2>4 DEF Unique
    <3> QED
      BY <2>2, <3>1, <3>2 DEF Sound
  <2>6. FrontHeld(q, c)
    BY <1>1, <2>2 DEF FrontHeld
  <2>7. Fronted(p, c) => Fronted(q, c)
    BY <2>2 DEF Fronted
  <2>8. q.all \subseteq p.all \cup {tx} /\ Remote(q) \subseteq Remote(p) \cup {tx}
    BY <2>2 DEF Remote
  <2>9. Bounded(q)
    BY <1>1, <2>5, <2>8, OneMore
  <2>10. Spares(q, p, c)
    BY <1>2, <2>2, <2>3 DEF Spares, Spared
  <2> QED
    BY <1>1, <2>5, <2>6, <2>7, <2>9, <2>10 DEF Good, q
<1> QED
  BY <1>3, <1>4, <1>5, <1>6

\* A replacement has the nonce of what it replaces.
LEMMA InsertTidy ==
    ASSUME NEW p \in Pools, NEW c, Tidy(p, c), NEW tx \in Txs, NEW local \in BOOLEAN
    PROVE  Tidy(Insert(p, tx, local).p, c)
<1> DEFINE q == Insert(p, tx, local).p
<1>1. q = p \/ Replaces(q, p, tx) \/ Queues(q, p, tx, local)
  BY InsertParts
<1> HIDE DEF q
<1>2. ASSUME Replaces(q, p, tx), NEW a, NEW n
      PROVE  Has(q.pending, a, n) <=> Has(p.pending, a, n)
  <2>1. PICK old : old = At(p.pending, {tx})
    OBVIOUS
  <2>2. /\ old # {} /\ q.pending = (p.pending \ old) \cup {tx} /\ old \subseteq p.pending
        /\ \A o \in old : from[o] = from[tx] /\ nonce[o] = nonce[tx]
    BY <1>2, <2>1 DEF Replaces, At
  <2> QED
    BY <2>2 DEF Has
<1>3. CASE Replaces(q, p, tx)
  <2>1. q.nonces = p.nonces
    BY <1>3 DEF Replaces
  <2> QED
    BY <1>2, <1>3, <2>1 DEF Tidy, q
<1>4. CASE Queues(q, p, tx, local)
  <2>1. q.pending = p.pending /\ q.nonces = p.nonces
    BY <1>4 DEF Queues
  <2> QED
    BY <2>1 DEF Tidy, q
<1> QED
  BY <1>1, <1>3, <1>4 DEF q

\* add: what it discards first is enough, or all there is to discard.
Makes(r, p, c, settled) ==
    /\ Good(r, c, settled) /\ Spares(r, p, c)
    /\ r.all \subseteq p.all /\ r.locals = p.locals
    /\ Tidy(p, c) => Tidy(r, c)
    /\ Cardinality(r.all) < GlobalSlots + GlobalQueue \/ Remote(r) = {}

\* add refuses tx, or makes room for it and goes on to its tail.
Adds(q, p, tx, local, c, limit, settled) ==
    \/ /\ q = p
       /\ tx \in p.all \/ ~Valid(p, tx, local, c, limit) \/ ~local
    \/ /\ tx \notin p.all /\ Valid(p, tx, local, c, limit)
       /\ \E r : Makes(r, p, c, settled) /\ q = Insert(r, tx, local).p

LEMMA AddParts ==
    ASSUME NEW p, NEW c \in Heads, NEW settled \in BOOLEAN, Good(p, c, settled),
           NEW tx \in Txs, NEW local \in BOOLEAN, NEW limit, NEW ord \in Orders
    PROVE  Adds(Add(p, tx, local, c, limit, ord).p, p, tx, local, c, limit, settled)
<1> DEFINE surplus == Cardinality(p.all) - (GlobalSlots + GlobalQueue - 1)
           C == Cheapest(Remote(p), surplus, ord)
           r == RemoveTxs(p, C)
           q == Add(p, tx, local, c, limit, ord).p
<1>1. /\ Sound(p) /\ p.all \in SUBSET Txs /\ Remote(p) \in SUBSET p.all
  BY DEF Good, Sound, Pools, Remote
<1>2. /\ IsFiniteSet(p.all) /\ Cardinality(p.all) \in Nat
      /\ GlobalSlots \in Nat /\ GlobalQueue \in Nat
  BY <1>1, TxSets, ConfigAssumption
<1>3. /\ C \in SUBSET Remote(p)
      /\ C = Remote(p) \/ Cardinality(C) >= surplus
  <2>1. Remote(p) \in SUBSET Txs /\ surplus \in Int
    BY <1>1, <1>2
  <2> HIDE DEF surplus
  <2> QED
    BY <2>1, CheapestEnough
<1>4. \/ /\ q = p
         /\ tx \in p.all \/ ~Valid(p, tx, local, c, limit) \/ ~local
      \/ /\ tx \notin p.all /\ Valid(p, tx, local, c, limit)
         /\ q = Insert(r, tx, local).p
  BY DEF Add, Result, Remote
<1> HIDE DEF C
<1>5. Good(r, c, settled) /\ Removed(r, p, C) /\ Spares(r, p, c)
  <2>1. C \in SUBSET Txs /\ \A t \in C : from[t] \notin p.locals
    BY <1>1, <1>3 DEF Remote
  <2> QED
    BY <1>1, <2>1, RemoveGood, RemoveSound, RemoveSpares
<1> HIDE DEF r
<1>6. r.all = p.all \ C /\ r.locals = p.locals
  BY <1>5 DEF Removed
<1>7. Cardinality(r.all) < GlobalSlots + GlobalQueue \/ Remote(r) = {}
  <2>1. CASE C = Remote(p)
    BY <1>6, <2>1 DEF Remote
  <2>2. CASE Cardinality(C) >= surplus
    <3>1. p.all \cap C = C /\ C \in SUBSET Txs
      BY <1>1, <1>3
    <3>2. Cardinality(C) \in Nat
      BY <3>1, TxSets
    <3>3. Cardinality(p.all \ C) = Cardinality(p.all) - Cardinality(C)
      BY <1>2, <3>1, FS_Difference
    <3> QED
      BY <1>2, <1>6, <2>2, <3>2, <3>3
  <2> QED
    BY <1>3, <2>1, <2>2
<1>8. Tidy(p, c) => Tidy(r, c)
  <2>1. C \in SUBSET Txs
    BY <1>1, <1>3
  <2> QED
    BY <1>1, <2>1, RemoveTidy DEF r
<1>9. Makes(r, p, c, settled)
  BY <1>5, <1>6, <1>7, <1>8 DEF Makes
<1> HIDE DEF q
<1> QED
  BY <1>4, <1>9 DEF Adds, q

LEMMA AddGood ==
    ASSUME NEW p, NEW c \in Heads, NEW settled \in BOOLEAN, Good(p, c, settled),
           NEW tx \in Txs, NEW local \in BOOLEAN, NEW limit, NEW ord \in Orders
    PROVE  LET q == Add(p, tx, local, c, limit, ord).p
           IN  Good(q, c, settled) /\ Spares(q, p, c) /\ (Tidy(p, c) => Tidy(q, c))
<1> DEFINE q == Add(p, tx, local, c, limit, ord).p
<1>1. \/ q = p
      \/ /\ tx \notin p.all /\ Valid(p, tx, local, c, limit)
         /\ \E r : Makes(r, p, c, settled) /\ q = Insert(r, tx, local).p
  BY AddParts DEF Adds
<1> HIDE DEF q
<1>2. CASE q = p
  BY <1>2 DEF Spares, Spared, q
<1>3. ASSUME tx \notin p.all, Valid(p, tx, local, c, limit),
             NEW r, Makes(r, p, c, settled), q = Insert(r, tx, local).p
      PROVE  Good(q, c, settled) /\ Spares(q, p, c) /\ (Tidy(p, c) => Tidy(q, c))
  <2>1. /\ Good(r, c, settled) /\ Spares(r, p, c) /\ tx \notin r.all
        /\ Tidy(p, c) => Tidy(r, c)
        /\ Cardinality(r.all) < GlobalSlots + GlobalQueue \/ Remote(r) = {}
    BY <1>3 DEF Makes
  <2>2. costAll[tx] <= c.balance[from[tx]]
    BY <1>3 DEF Valid
  <2>3. Good(q, c, settled) /\ Spares(q, r, c)
    BY <1>3, <2>1, <2>2, InsertGood
  <2>4. p \in Pools /\ q \in Pools /\ r \in Pools
    BY <2>1, <2>3 DEF Good, Sound
  <2>5. Tidy(p, c) => Tidy(q, c)
    BY <1>3, <2>1, <2>4, InsertTidy
  <2> QED
    BY <2>1, <2>3, <2>4, <2>5, SparesTransitive
<1> QED
  BY <1>1, <1>2, <1>3 DEF q

\* addTxsLocked adds one transaction after the other, and then promotes.
BatchStep(acc, tx, local, c, limit, ord) ==
    LET r == Add(acc.p, tx, local, c, limit, ord)
    IN  [p     |-> r.p,
         dirty |-> IF r.err \/ r.replace THEN acc.dirty ELSE acc.dirty \cup {from[tx]}]

Batch(added, p, txs, local, c, limit, ord) ==
    /\ added[0] = [p |-> p, dirty |-> {}]
    /\ \A n \in 1 .. Len(txs) :
          added[n] = BatchStep(added[n - 1], txs[n], local, c, limit, ord)
    /\ LET last == added[Len(txs)]
       IN  AddTxsLocked(p, txs, local, c, limit, ord) =
               IF last.dirty = {} THEN last.p
               ELSE PromoteExecutables(last.p, last.dirty, c, ord)

LEMMA BatchSteps ==
    ASSUME NEW p, NEW c, NEW txs, Len(txs) \in Nat, NEW local, NEW limit, NEW ord
    PROVE  \E added : Batch(added, p, txs, local, c, limit, ord)
<1> DEFINE Step(acc, tx) ==
               LET r == Add(acc.p, tx, local, c, limit, ord)
               IN  [p     |-> r.p,
                    dirty |-> IF r.err \/ r.replace THEN acc.dirty ELSE acc.dirty \cup {from[tx]}]
           base == [p |-> p, dirty |-> {}]
           added[n \in 0 .. Len(txs)] == IF n = 0 THEN base ELSE Step(added[n - 1], txs[n])
           last == added[Len(txs)]
           Eq(f, m) == f = [n \in 0 .. m |-> IF n = 0 THEN base ELSE Step(f[n - 1], txs[n])]
<1>1. AddTxsLocked(p, txs, local, c, limit, ord) =
         IF last.dirty = {} THEN last.p ELSE PromoteExecutables(last.p, last.dirty, c, ord)
  BY DEF AddTxsLocked
<1>2. \A acc, tx : Step(acc, tx) = BatchStep(acc, tx, local, c, limit, ord)
  BY DEF BatchStep
<1> HIDE DEF Step, base
<1>3. \A m \in 0 .. Len(txs) : \E f : Eq(f, m)
  <2> DEFINE Bad == {m \in 0 .. Len(txs) : ~\E f : Eq(f, m)}
  <2>1. SUFFICES ASSUME Bad # {}
                 PROVE  FALSE
    OBVIOUS
  <2>2. PICK m \in Bad : \A k \in Bad : m <= k
    <3>1. Bad \subseteq Nat
      OBVIOUS
    <3> HIDE DEF Bad
    <3> QED
      BY <2>1, <3>1, LeastNat
  <2>3. m \in Nat /\ m <= Len(txs) /\ ~\E f : Eq(f, m)
    BY <2>2
  <2>4. CASE m = 0
    <3>1. Eq([n \in 0 .. 0 |-> base], 0)
      OBVIOUS
    <3> QED
      BY <2>3, <2>4, <3>1
  <2>5. CASE m > 0
    <3>1. m - 1 \in 0 .. Len(txs) /\ m - 1 \notin Bad
      BY <2>2, <2>3, <2>5
    <3>2. PICK g : Eq(g, m - 1)
      BY <3>1
    <3>3. \A n \in 0 .. m - 1 : g[n] = IF n = 0 THEN base ELSE Step(g[n - 1], txs[n])
      BY <3>2
    <3> DEFINE f == [n \in 0 .. m |-> IF n < m THEN g[n] ELSE Step(g[m - 1], txs[m])]
    <3>4. \A n \in 0 .. m : f[n] = IF n = 0 THEN base ELSE Step(f[n - 1], txs[n])
      <4>1. TAKE n \in 0 .. m
      <4>2. CASE n = 0
        BY <2>3, <2>5, <3>3, <4>2
      <4>3. CASE n > 0 /\ n < m
        <5>1. n \in 0 .. m - 1 /\ n - 1 \in 0 .. m /\ n - 1 < m /\ n # 0
          BY <2>3, <4>3
        <5>2. f[n] = g[n] /\ f[n - 1] = g[n - 1]
          BY <4>3, <5>1
        <5> QED
          BY <3>3, <5>1, <5>2
      <4>4. CASE n = m
        <5>1. n \in 0 .. m /\ n - 1 \in 0 .. m /\ n - 1 < m /\ n # 0 /\ ~(n < m)
          BY <2>3, <2>5, <4>4
        <5>2. f[n] = Step(g[m - 1], txs[m]) /\ f[n - 1] = g[n - 1]
          BY <5>1
        <5> QED
          BY <4>4, <5>1, <5>2
      <4> QED
        BY <2>3, <4>2, <4>3, <4>4
    <3>5. Eq(f, m)
      <4>1. f = [n \in 0 .. m |-> f[n]]
        OBVIOUS
      <4> HIDE DEF f
      <4> QED
        BY <3>4, <4>1
    <3> QED
      BY <2>3, <3>5
  <2> QED
    BY <2>3, <2>4, <2>5
<1>4. Eq(added, Len(txs))
  <2>1. \E f : Eq(f, Len(txs))
    BY <1>3
  <2> QED
    BY <2>1
<1> HIDE DEF added
<1>5. added[0] = base /\ \A n \in 1 .. Len(txs) : added[n] = Step(added[n - 1], txs[n])
  BY <1>4
<1> QED
  BY <1>2, <1>1, <1>5 DEF Batch, base

LEMMA BatchGood ==
    ASSUME NEW p, NEW c \in Heads, NEW settled \in BOOLEAN, Good(p, c, settled),
           NEW txs, Len(txs) \in Nat, \A i \in 1 .. Len(txs) : txs[i] \in Txs,
           NEW local \in BOOLEAN, NEW limit, NEW ord \in Orders
    PROVE  LET q == AddTxsLocked(p, txs, local, c, limit, ord)
           IN  Good(q, c, settled) /\ Spares(q, p, c) /\ (Tidy(p, c) => Tidy(q, c))
<1> DEFINE Kept(acc) == /\ Good(acc.p, c, settled) /\ Spares(acc.p, p, c)
                        /\ Tidy(p, c) => Tidy(acc.p, c)
                        /\ acc.dirty \in SUBSET Accounts
           Step(acc, tx) == BatchStep(acc, tx, local, c, limit, ord)
<1>1. PICK added : Batch(added, p, txs, local, c, limit, ord)
  BY BatchSteps
<1> DEFINE last == added[Len(txs)]
<1>2. Kept([p |-> p, dirty |-> {}])
  BY DEF Spares, Spared
<1>3. ASSUME NEW acc, Kept(acc), NEW tx \in Txs
      PROVE  Kept(Step(acc, tx))
  <2> DEFINE q == Add(acc.p, tx, local, c, limit, ord).p
  <2>1. Good(q, c, settled) /\ Spares(q, acc.p, c) /\ (Tidy(acc.p, c) => Tidy(q, c))
    BY <1>3, AddGood
  <2>2. from[tx] \in Accounts
    BY TxFields
  <2>3. p \in Pools /\ acc.p \in Pools /\ q \in Pools
    BY <1>3, <2>1 DEF Good, Sound
  <2>4. Step(acc, tx).p = q /\ Step(acc, tx).dirty \in SUBSET Accounts
    BY <1>3, <2>2 DEF BatchStep
  <2> HIDE DEF q
  <2>5. Spares(q, p, c)
    BY <1>3, <2>1, <2>3, SparesTransitive
  <2> QED
    BY <1>3, <2>1, <2>4, <2>5
<1> HIDE DEF Kept
<1>4. \A m \in 0 .. Len(txs) : Kept(added[m])
  <2> DEFINE Bad == {m \in 0 .. Len(txs) : ~Kept(added[m])}
  <2>1. SUFFICES ASSUME Bad # {}
                 PROVE  FALSE
    OBVIOUS
  <2>2. PICK m \in Bad : \A k \in Bad : m <= k
    <3>1. Bad \subseteq Nat
      OBVIOUS
    <3> HIDE DEF Bad
    <3> QED
      BY <2>1, <3>1, LeastNat
  <2>3. m \in 0 .. Len(txs) /\ ~Kept(added[m])
    BY <2>2
  <2>4. m # 0
    BY <1>1, <1>2, <2>3 DEF Batch
  <2>5. m - 1 \in 0 .. Len(txs) /\ m - 1 \notin Bad /\ m \in 1 .. Len(txs)
    BY <2>2, <2>3, <2>4
  <2>6. Kept(added[m - 1])
    BY <2>5
  <2>7. Kept(Step(added[m - 1], txs[m]))
    BY <1>3, <2>5, <2>6
  <2> QED
    BY <1>1, <2>3, <2>5, <2>7 DEF Batch
<1>5. /\ Good(last.p, c, settled) /\ Spares(last.p, p, c) /\ last.dirty \in SUBSET Accounts
      /\ Tidy(p, c) => Tidy(last.p, c)
      /\ AddTxsLocked(p, txs, local, c, limit, ord) =
            IF last.dirty = {} THEN last.p ELSE PromoteExecutables(last.p, last.dirty, c, ord)
  <2>1. Len(txs) \in 0 .. Len(txs)
    OBVIOUS
  <2> QED
    BY <1>1, <1>4, <2>1 DEF Kept, Batch
<1> HIDE DEF last
<1> DEFINE e == PromoteExecutables(last.p, last.dirty, c, ord)
<1>6. Good(e, c, settled) /\ Spares(e, last.p, c) /\ (Tidy(last.p, c) => Tidy(e, c))
  BY <1>5, PromoteGood, PromoteTidy
<1>7. p \in Pools /\ last.p \in Pools /\ e \in Pools
  BY <1>5, <1>6 DEF Good, Sound
<1> HIDE DEF e
<1>8. Spares(e, p, c)
  BY <1>5, <1>6, <1>7, SparesTransitive
<1> QED
  BY <1>5, <1>6, <1>8 DEF e

-----------------------------------------------------------------------------
(* The steps.                                                              *)

\* reset: in the new state no front is held to begin with, demotion leaves
\* only lists with one, and the nonces then follow those lists.
LEMMA ResetGood ==
    ASSUME NEW p, Sound(p), Bounded(p), NEW c \in Heads,
           NEW txs, Len(txs) \in Nat, \A i \in 1 .. Len(txs) : txs[i] \in Txs, NEW ord \in Orders
    PROVE  LET q == Reset(p, c, txs, ord)
           IN  /\ Good(q, c, TRUE) /\ Spares(q, p, c)
               /\ Len(txs) = 0 /\ Gapless(p, c) => Tidy(q, c)
<1> DEFINE fresh   == [p EXCEPT !.nonces = [a \in Accounts |-> StateNonce(c, a)]]
           added   == AddTxsLocked(fresh, txs, FALSE, c, gasPrice, ord)
           demoted == DemoteUnexecutables(added, c)
           Following(a) == {nonce[t] + 1 : t \in Of(demoted.pending, a)}
           N       == [a \in Accounts |-> IF Following(a) = {} THEN demoted.nonces[a]
                                          ELSE Max(Following(a))]
           renumbered == [demoted EXCEPT !.nonces = N]
<1>1. Reset(p, c, txs, ord) = PromoteExecutables(renumbered, Accounts, c, ord)
  BY DEF Reset
<1>2. \A a \in Accounts : StateNonce(c, a) \in Nat
  BY HeadFields
<1>3. /\ Good(fresh, c, FALSE) /\ Spares(fresh, p, c)
      /\ fresh.pending = p.pending
      /\ \A a \in Accounts : fresh.nonces[a] = StateNonce(c, a)
  <2>1. /\ fresh \in Pools /\ fresh.pending = p.pending /\ fresh.queue = p.queue
        /\ fresh.all = p.all /\ fresh.locals = p.locals
        /\ fresh.nonces = [a \in Accounts |-> StateNonce(c, a)]
    BY <1>2 DEF Sound, Pools
  <2> HIDE DEF fresh
  <2>2. Sound(fresh)
    BY <2>1 DEF Sound
  <2>3. Remote(fresh) = Remote(p)
    BY <2>1 DEF Remote
  <2>4. Bounded(fresh)
    BY <2>1, <2>3 DEF Bounded
  <2>5. FrontHeld(fresh, c)
    BY <1>2, <2>1 DEF FrontHeld
  <2>6. Spares(fresh, p, c)
    BY <2>1 DEF Spares, Spared
  <2> QED
    BY <2>1, <2>2, <2>4, <2>5, <2>6 DEF Good
<1> HIDE DEF fresh
<1>4. Good(added, c, FALSE) /\ Spares(added, fresh, c)
  BY <1>3, BatchGood
<1>5. Len(txs) = 0 => added = fresh
  <2>1. PICK f : Batch(f, fresh, txs, FALSE, c, gasPrice, ord)
    BY BatchSteps
  <2>2. /\ f[0] = [p |-> fresh, dirty |-> {}]
        /\ added = IF f[Len(txs)].dirty = {} THEN f[Len(txs)].p
                   ELSE PromoteExecutables(f[Len(txs)].p, f[Len(txs)].dirty, c, ord)
    BY <2>1 DEF Batch
  <2> HIDE DEF added
  <2>3. f[0].p = fresh /\ f[0].dirty = {}
    BY <2>2
  <2> QED
    BY <2>2, <2>3
<1> HIDE DEF added
<1>6. /\ Good(demoted, c, TRUE) /\ Spares(demoted, added, c)
      /\ demoted.nonces = added.nonces
      /\ Gapless(added, c) => Gapless(demoted, c)
      /\ \A t \in demoted.pending : cost[t] <= c.balance[from[t]]
  BY <1>4, DemoteGood
<1> HIDE DEF demoted
<1>7. demoted.pending \in SUBSET Txs /\ demoted \in Pools /\ demoted.nonces \in [Accounts -> Nat]
  BY <1>6 DEF Good, Sound, Pools
<1>8. \A a \in Accounts : Following(a) # {} => \E t \in demoted.pending : from[t] = a
  BY DEF Of
<1>9. N \in [Accounts -> Nat]
  <2>1. \A a : Of(demoted.pending, a) \in SUBSET Txs
    BY <1>7 DEF Of
  <2>2. \A a \in Accounts : Following(a) # {} => Max(Following(a)) \in Nat
    BY <2>1, MaxFollowing
  <2> HIDE DEF Following
  <2> QED
    BY <1>7, <2>2
<1>10. \A a \in Accounts : N[a] = demoted.nonces[a] \/ \E t \in demoted.pending : from[t] = a
  <2> HIDE DEF Following
  <2> QED
    BY <1>8
<1>11. ASSUME Len(txs) = 0, Gapless(p, c), NEW a \in Accounts, NEW n \in Nat
       PROVE  Has(demoted.pending, a, n) <=> StateNonce(c, a) <= n /\ n < N[a]
  <2>1. Gapless(demoted, c) /\ demoted.nonces[a] = StateNonce(c, a)
    BY <1>3, <1>6, <1>5, <1>11 DEF Gapless
  <2>2. Fronted(demoted, c)
    BY <1>6 DEF Good
  <2> DEFINE F == Of(demoted.pending, a)
  <2>3. \A t : t \in F <=> t \in demoted.pending /\ from[t] = a
    BY DEF Of
  <2>4. N[a] = IF F = {} THEN demoted.nonces[a] ELSE Max({nonce[t] + 1 : t \in F})
    <3>1. Following(a) = {} <=> F = {}
      OBVIOUS
    <3> QED
      BY <3>1
  <2> HIDE DEF F, N
  <2>5. Has(demoted.pending, a, n) <=> \E t \in F : nonce[t] = n
    BY <2>3 DEF Has
  <2>6. CASE F = {}
    BY <1>2, <2>1, <2>4, <2>5, <2>6
  <2>7. CASE F # {}
    <3>1. F \in SUBSET Txs /\ N[a] = Max({nonce[t] + 1 : t \in F})
      BY <1>7, <2>3, <2>4, <2>7
    <3>2. \A t \in F : nonce[t] \in Nat /\ nonce[t] >= StateNonce(c, a)
      BY <2>2, <2>3, <3>1, TxFields DEF Fronted
    <3>3. PICK z \in F : N[a] = nonce[z] + 1
      BY <2>7, <3>1, MaxFollowing
    <3>4. \A t \in F : nonce[t] < N[a]
      BY <2>7, <3>1, MaxFollowing
    <3>5. \A m \in StateNonce(c, a) .. nonce[z] : Has(demoted.pending, a, m)
      BY <2>1, <2>3, <3>3 DEF Gapless
    <3>6. ASSUME StateNonce(c, a) <= n, n < N[a]
          PROVE  Has(demoted.pending, a, n)
      <4>1. n \in StateNonce(c, a) .. nonce[z]
        BY <1>2, <3>2, <3>3, <3>6
      <4> QED
        BY <3>5, <4>1
    <3> QED
      BY <2>5, <3>2, <3>4, <3>6
  <2> QED
    BY <2>6, <2>7
<1> HIDE DEF N
<1>12. /\ renumbered \in Pools /\ renumbered.pending = demoted.pending
       /\ renumbered.queue = demoted.queue /\ renumbered.all = demoted.all
       /\ renumbered.locals = demoted.locals /\ renumbered.nonces = N
  BY <1>7, <1>9 DEF Pools
<1> HIDE DEF renumbered
<1>13. Good(renumbered, c, TRUE)
  <2>1. Sound(renumbered)
    BY <1>6, <1>12 DEF Good, Sound
  <2>2. Remote(renumbered) = Remote(demoted)
    BY <1>12 DEF Remote
  <2>3. Bounded(renumbered)
    BY <1>6, <1>12, <2>2 DEF Good, Bounded
  <2>4. Fronted(demoted, c) /\ FrontHeld(demoted, c)
    BY <1>6 DEF Good
  <2>5. Fronted(renumbered, c)
    BY <1>12, <2>4 DEF Fronted
  <2>6. FrontHeld(renumbered, c)
    <3>1. SUFFICES ASSUME NEW a \in Accounts
                   PROVE  \/ N[a] <= StateNonce(c, a)
                          \/ \E u \in demoted.pending : AtFront(u, a, c) /\ cost[u] <= c.balance[a]
      BY <1>12 DEF FrontHeld
    <3>2. CASE N[a] = demoted.nonces[a]
      BY <2>4, <3>2 DEF FrontHeld
    <3>3. ASSUME NEW t \in demoted.pending, from[t] = a
          PROVE  \E u \in demoted.pending : AtFront(u, a, c) /\ cost[u] <= c.balance[a]
      <4>1. PICK u \in demoted.pending : AtFront(u, a, c)
        BY <2>4, <3>3 DEF Fronted
      <4>2. cost[u] <= c.balance[a]
        BY <1>6, <4>1 DEF AtFront
      <4> QED
        BY <4>1, <4>2
    <3> QED
      BY <1>10, <3>2, <3>3
  <2> QED
    BY <2>1, <2>3, <2>5, <2>6 DEF Good
<1>14. Spares(renumbered, demoted, c)
  BY <1>12 DEF Spares, Spared
<1> DEFINE q == PromoteExecutables(renumbered, Accounts, c, ord)
<1>15. Good(q, c, TRUE) /\ Spares(q, renumbered, c) /\ (Tidy(renumbered, c) => Tidy(q, c))
  BY <1>13, PromoteGood, PromoteTidy
<1> HIDE DEF q
<1>16. Len(txs) = 0 /\ Gapless(p, c) => Tidy(renumbered, c)
  BY <1>12, <1>11 DEF Tidy
<1>17. /\ p \in Pools /\ fresh \in Pools /\ added \in Pools /\ demoted \in Pools
       /\ renumbered \in Pools /\ q \in Pools
  BY <1>3, <1>4, <1>6, <1>13, <1>15 DEF Good, Sound
<1>18. Spares(added, p, c)
  BY <1>3, <1>4, <1>17, SparesTransitive
<1>19. Spares(demoted, p, c)
  BY <1>6, <1>17, <1>18, SparesTransitive
<1>20. Spares(renumbered, p, c)
  BY <1>14, <1>17, <1>19, SparesTransitive
<1>21. Spares(q, p, c)
  BY <1>15, <1>17, <1>20, SparesTransitive
<1> QED
  BY <1>1, <1>15, <1>21, <1>16 DEF q

\* A pool that starts has nothing in it.
LEMMA EmptyGood ==
    ASSUME NEW c \in Heads
    PROVE  Good(Empty({}, c), c, TRUE) /\ Tidy(Empty({}, c), c)
<1> DEFINE e == Empty({}, c)
<1>1. \A a \in Accounts : StateNonce(c, a) \in Nat
  BY HeadFields
<1>2. /\ e \in Pools /\ e.pending = {} /\ e.queue = {} /\ e.all = {}
      /\ e.nonces = [a \in Accounts |-> StateNonce(c, a)]
  BY <1>1 DEF Empty, Pools
<1> HIDE DEF e
<1>3. Sound(e)
  BY <1>2 DEF Sound, Unique
<1>4. Bounded(e)
  BY <1>2, FS_EmptySet, ConfigAssumption DEF Bounded
<1>5. FrontHeld(e, c) /\ Fronted(e, c)
  BY <1>1, <1>2 DEF FrontHeld, Fronted
<1>6. Tidy(e, c)
  <2>1. \A a \in Accounts : e.nonces[a] \in Nat /\ e.nonces[a] = StateNonce(c, a)
    BY <1>1, <1>2
  <2>2. \A a \in Accounts, n \in Nat : ~(StateNonce(c, a) <= n /\ n < e.nonces[a])
    BY <1>1, <2>1
  <2> QED
    BY <1>2, <2>2 DEF Tidy, Has
<1> QED
  BY <1>3, <1>4, <1>5, <1>6 DEF Good, e

\* Only the journal changes.
LEMMA JournalGood ==
    ASSUME NEW p, NEW c \in Heads, Good(p, c, TRUE)
    PROVE  Good([p EXCEPT !.journal = Local(p)], c, TRUE)
<1> DEFINE q == [p EXCEPT !.journal = Local(p)]
<1>1. Sound(p) /\ Bounded(p) /\ FrontHeld(p, c) /\ Fronted(p, c)
  BY DEF Good
<1>2. Local(p) \in SUBSET Txs
  BY <1>1 DEF Local, Sound, Pools
<1>3. /\ q \in Pools /\ q.pending = p.pending /\ q.queue = p.queue /\ q.all = p.all
      /\ q.nonces = p.nonces /\ q.locals = p.locals
  BY <1>1, <1>2 DEF Sound, Pools
<1> HIDE DEF q
<1>4. Sound(q)
  BY <1>1, <1>3 DEF Sound
<1>5. Remote(q) = Remote(p)
  BY <1>3 DEF Remote
<1>6. Bounded(q)
  BY <1>1, <1>3, <1>5 DEF Bounded
<1>7. FrontHeld(q, c)
  BY <1>1, <1>3 DEF FrontHeld
<1>8. Fronted(q, c)
  BY <1>1, <1>3 DEF Fronted
<1> QED
  BY <1>4, <1>6, <1>7, <1>8 DEF Good, q

\* A sequence of the elements of a set has them all.
LEMMA SeqsOfSet ==
    ASSUME NEW S \in SUBSET Txs, NEW s \in SetToSeqs(S)
    PROVE  /\ Len(s) \in Nat /\ \A i \in 1 .. Len(s) : s[i] \in S
           /\ \A t \in S : \E i \in 1 .. Len(s) : s[i] = t
<1> DEFINE n == Cardinality(S)
<1>1. /\ s \in [1 .. n -> S]
      /\ \A a, b \in 1 .. n : s[a] = s[b] => a = b
  BY DEF SetToSeqs
<1>2. IsFiniteSet(S) /\ n \in Nat
  BY TxSets
<1>3. s \in Seq(S) /\ Len(s) = n
  <2> HIDE DEF n
  <2> QED
    BY <1>1, <1>2
<1>4. Len(s) \in Nat /\ \A i \in 1 .. Len(s) : s[i] \in S
  BY <1>2, <1>3
<1>5. ASSUME NEW t \in S, \A i \in 1 .. n : s[i] # t
      PROVE  FALSE
  <2>1. s \in Injection(1 .. n, S \ {t})
    BY <1>1, <1>5 DEF Injection, IsInjective
  <2>2. /\ IsFiniteSet(S \ {t}) /\ Cardinality(S \ {t}) = n - 1
    BY <1>2, FS_RemoveElement
  <2>3. Cardinality(1 .. n) = n
    BY <1>2, FS_Interval
  <2>4. Cardinality(1 .. n) <= Cardinality(S \ {t})
    BY <2>1, <2>2, FS_Injection
  <2> QED
    BY <1>2, <2>2, <2>3, <2>4
<1> QED
  BY <1>3, <1>4, <1>5

-----------------------------------------------------------------------------
(* The journal, read into an empty pool in the state of c.                 *)

\* What is loaded is from the journal J, local and payable.
Loads(p, J, c) ==
    /\ p.all \subseteq J
    /\ \A u \in p.all : from[u] \in p.locals /\ costAll[u] <= c.balance[from[u]]

\* The transaction t is in p, or could not be, or p has one it does not outbid.
HeldBy(p, t, c) ==
    \/ t \in p.all
    \/ nonce[t] < StateNonce(c, from[t])
    \/ costAll[t] > c.balance[from[t]]
    \/ \E u \in p.all : /\ from[u] = from[t] /\ nonce[u] = nonce[t]
                         /\ cost[u] <= c.balance[from[t]]
                         /\ ~Better(t, u)

LEMMA HeldSpared ==
    ASSUME NEW c \in Heads, NEW p \in Pools, NEW q \in Pools, NEW J, Loads(p, J, c),
           Spares(q, p, c), NEW t \in Txs, HeldBy(p, t, c)
    PROVE  HeldBy(q, t, c)
<1>1. p.all \subseteq Txs /\ q.all \subseteq Txs
  BY DEF Pools
<1>2. \A u \in Txs : /\ cost[u] \in Nat /\ costAll[u] \in Nat /\ cost[u] <= costAll[u]
                     /\ c.balance[from[u]] \in Nat
  BY TxFields, HeadFields
<1>3. CASE t \in p.all
  <2>1. Spared(q, t, c)
    BY <1>3 DEF Loads, Spares
  <2>2. \A v \in q.all : Better(v, t) => ~Better(t, v)
    BY <1>1, BetterThan
  <2>3. cost[t] > c.balance[from[t]] => costAll[t] > c.balance[from[t]]
    BY <1>2
  <2> QED
    BY <2>1, <2>2, <2>3 DEF Spared, HeldBy
<1>4. ASSUME NEW u \in p.all, from[u] = from[t], nonce[u] = nonce[t],
             cost[u] <= c.balance[from[t]], ~Better(t, u)
      PROVE  HeldBy(q, t, c)
  <2>1. Spared(q, u, c)
    BY <1>4 DEF Loads, Spares
  <2>2. \A v \in q.all : Better(v, u) => ~Better(t, v)
    BY <1>1, <1>4, BetterThan
  <2>3. ~(cost[u] > c.balance[from[u]])
    <3>1. cost[u] \in Nat /\ c.balance[from[u]] \in Nat
      BY <1>1, <1>2
    <3> QED
      BY <1>4, <3>1
  <2> QED
    BY <1>4, <2>1, <2>2, <2>3 DEF Spared, HeldBy
<1> QED
  BY <1>3, <1>4 DEF HeldBy

\* A transaction of the file is loaded, cannot be, or finds its nonce taken.
LEMMA AddLoads ==
    ASSUME NEW p, NEW c \in Heads, NEW settled \in BOOLEAN, Good(p, c, settled),
           NEW J \in SUBSET Txs, Loads(p, J, c),
           NEW tx \in J, NEW local \in BOOLEAN, local, NEW limit, NEW ord \in Orders
    PROVE  LET q == Add(p, tx, local, c, limit, ord).p
           IN  Loads(q, J, c) /\ HeldBy(q, tx, c)
<1> DEFINE q == Add(p, tx, local, c, limit, ord).p
<1>1. \/ q = p /\ (tx \in p.all \/ ~Valid(p, tx, local, c, limit) \/ ~local)
      \/ /\ tx \notin p.all /\ Valid(p, tx, local, c, limit)
         /\ \E r : Makes(r, p, c, settled) /\ q = Insert(r, tx, local).p
  <2>1. Adds(q, p, tx, local, c, limit, settled)
    BY AddParts
  <2> HIDE DEF q
  <2> QED
    BY <2>1 DEF Adds
<1> HIDE DEF q
<1>2. /\ nonce[tx] \in Nat /\ costAll[tx] \in Nat
      /\ StateNonce(c, from[tx]) \in Nat /\ c.balance[from[tx]] \in Nat
  BY TxFields, HeadFields
<1>3. CASE q = p /\ (tx \in p.all \/ ~Valid(p, tx, local, c, limit))
  <2>1. HeldBy(q, tx, c)
    BY <1>2, <1>3 DEF Valid, HeldBy
  <2> QED
    BY <1>3, <2>1 DEF q
<1>4. ASSUME Valid(p, tx, local, c, limit), NEW r, Makes(r, p, c, settled), q = Insert(r, tx, local).p
      PROVE  Loads(q, J, c) /\ HeldBy(q, tx, c)
  <2>1. /\ r \in Pools /\ r.all = r.pending \cup r.queue
        /\ r.all \subseteq p.all /\ r.locals = p.locals
    BY <1>4 DEF Makes, Good, Sound
  <2>2. Loads(r, J, c)
    BY <2>1 DEF Loads
  <2>3. costAll[tx] <= c.balance[from[tx]]
    BY <1>4 DEF Valid
  <2>4. (q = r /\ Outbid(r, tx)) \/ Replaces(q, r, tx) \/ Queues(q, r, tx, local)
    BY <1>4, <2>1, InsertParts
  <2>5. CASE q = r /\ Outbid(r, tx)
    <3>1. PICK o \in r.all : from[o] = from[tx] /\ nonce[o] = nonce[tx] /\ ~Better(tx, o)
      BY <2>1, <2>5 DEF Outbid
    <3>2. costAll[o] <= c.balance[from[o]] /\ o \in Txs
      BY <2>2, <3>1 DEF Loads
    <3>3. cost[o] <= c.balance[from[tx]]
      <4>1. cost[o] \in Nat /\ costAll[o] \in Nat /\ cost[o] <= costAll[o]
        BY <3>2, TxFields
      <4> QED
        BY <1>2, <3>1, <3>2, <4>1
    <3> QED
      BY <2>2, <2>5, <3>1, <3>3 DEF HeldBy
  <2>6. CASE Replaces(q, r, tx)
    <3>1. /\ tx \in q.all /\ q.all \subseteq r.all \cup {tx} /\ q.locals = r.locals
          /\ At(r.pending, {tx}) # {}
      BY <2>6 DEF Replaces
    <3>2. from[tx] \in r.locals
      BY <2>1, <2>2, <3>1 DEF At, Loads
    <3> QED
      BY <2>2, <2>3, <3>1, <3>2 DEF Loads, HeldBy
  <2>7. CASE Queues(q, r, tx, local)
    <3>1. /\ tx \in q.all /\ q.all \subseteq r.all \cup {tx} /\ r.locals \subseteq q.locals
          /\ from[tx] \in q.locals
      BY <2>7 DEF Queues
    <3> QED
      BY <2>2, <2>3, <3>1 DEF Loads, HeldBy
  <2> QED
    BY <2>4, <2>5, <2>6, <2>7
<1> QED
  BY <1>1, <1>3, <1>4 DEF q

LEMMA BatchLoads ==
    ASSUME NEW c \in Heads, NEW settled \in BOOLEAN, NEW J \in SUBSET Txs,
           NEW txs, Len(txs) \in Nat, \A i \in 1 .. Len(txs) : txs[i] \in J,
           NEW local \in BOOLEAN, local, NEW limit, NEW ord \in Orders
    PROVE  LET q == AddTxsLocked(Empty({}, c), txs, local, c, limit, ord)
           IN  q.all \subseteq J /\ \A i \in 1 .. Len(txs) : HeldBy(q, txs[i], c)
<1> DEFINE Step(acc, tx) == BatchStep(acc, tx, local, c, limit, ord)
           Kept(acc, n) == /\ Good(acc.p, c, settled) /\ Loads(acc.p, J, c)
                           /\ acc.dirty \in SUBSET Accounts
                           /\ \A i \in 1 .. n : HeldBy(acc.p, txs[i], c)
           e == Empty({}, c)
<1>1. PICK added : Batch(added, e, txs, local, c, limit, ord)
  BY BatchSteps
<1> DEFINE last == added[Len(txs)]
<1>2. Kept([p |-> e, dirty |-> {}], 0)
  <2>1. Good(e, c, settled)
    BY EmptyGood DEF Good
  <2>2. e.all = {}
    BY DEF Empty
  <2> HIDE DEF e
  <2> QED
    BY <2>1, <2>2 DEF Loads
<1> HIDE DEF e
<1>3. ASSUME NEW acc, NEW n \in 1 .. Len(txs), Kept(acc, n - 1)
      PROVE  Kept(Step(acc, txs[n]), n)
  <2> DEFINE q == Add(acc.p, txs[n], local, c, limit, ord).p
  <2>0. txs[n] \in J /\ txs[n] \in Txs /\ from[txs[n]] \in Accounts
    BY TxFields
  <2>1. Good(q, c, settled) /\ Spares(q, acc.p, c)
    BY <1>3, <2>0, AddGood
  <2>2. Loads(q, J, c) /\ HeldBy(q, txs[n], c)
    BY <1>3, <2>0, AddLoads
  <2>3. acc.p \in Pools /\ q \in Pools
    BY <1>3, <2>1 DEF Good, Sound
  <2>4. Step(acc, txs[n]).p = q /\ Step(acc, txs[n]).dirty \in SUBSET Accounts
    BY <1>3, <2>0 DEF BatchStep
  <2> HIDE DEF q
  <2>5. ASSUME NEW i \in 1 .. n
        PROVE  HeldBy(q, txs[i], c)
    <3>1. CASE i = n
      BY <2>2, <3>1
    <3>2. CASE i # n
      <4>1. i \in 1 .. n - 1 /\ i \in 1 .. Len(txs)
        BY <3>2
      <4>2. HeldBy(acc.p, txs[i], c) /\ txs[i] \in Txs /\ Loads(acc.p, J, c)
        BY <1>3, <4>1
      <4> QED
        BY <2>1, <2>3, <4>2, HeldSpared
    <3> QED
      BY <3>1, <3>2
  <2> QED
    BY <2>1, <2>2, <2>4, <2>5
<1> HIDE DEF Kept
<1>4. \A m \in 0 .. Len(txs) : Kept(added[m], m)
  <2> DEFINE Bad == {m \in 0 .. Len(txs) : ~Kept(added[m], m)}
  <2>1. SUFFICES ASSUME Bad # {}
                 PROVE  FALSE
    OBVIOUS
  <2>2. PICK m \in Bad : \A k \in Bad : m <= k
    <3>1. Bad \subseteq Nat
      OBVIOUS
    <3> HIDE DEF Bad
    <3> QED
      BY <2>1, <3>1, LeastNat
  <2>3. m \in 0 .. Len(txs) /\ ~Kept(added[m], m)
    BY <2>2
  <2>4. m # 0
    BY <1>1, <1>2, <2>3 DEF Batch
  <2>5. m - 1 \in 0 .. Len(txs) /\ m - 1 \notin Bad /\ m \in 1 .. Len(txs)
    BY <2>2, <2>3, <2>4
  <2>6. Kept(added[m - 1], m - 1)
    BY <2>5
  <2>7. Kept(Step(added[m - 1], txs[m]), m)
    BY <1>3, <2>5, <2>6
  <2> QED
    BY <1>1, <2>3, <2>5, <2>7 DEF Batch
<1>5. /\ Good(last.p, c, settled) /\ Loads(last.p, J, c) /\ last.dirty \in SUBSET Accounts
      /\ \A i \in 1 .. Len(txs) : HeldBy(last.p, txs[i], c)
      /\ AddTxsLocked(e, txs, local, c, limit, ord) =
            IF last.dirty = {} THEN last.p ELSE PromoteExecutables(last.p, last.dirty, c, ord)
  <2>1. Len(txs) \in 0 .. Len(txs)
    OBVIOUS
  <2> QED
    BY <1>1, <1>4, <2>1 DEF Kept, Batch
<1> HIDE DEF last
<1> DEFINE q == PromoteExecutables(last.p, last.dirty, c, ord)
<1>6. Good(q, c, settled) /\ Within(q, last.p) /\ Spares(q, last.p, c)
  BY <1>5, PromoteGood
<1>7. last.p \in Pools /\ q \in Pools
  BY <1>5, <1>6 DEF Good, Sound
<1> HIDE DEF q
<1>8. \A i \in 1 .. Len(txs) : HeldBy(q, txs[i], c)
  <2>1. TAKE i \in 1 .. Len(txs)
  <2>2. txs[i] \in Txs
    OBVIOUS
  <2> QED
    BY <1>5, <1>6, <1>7, <2>2, HeldSpared
<1>9. q.all \subseteq J /\ last.p.all \subseteq J
  BY <1>5, <1>6 DEF Within, Loads
<1> QED
  BY <1>5, <1>8, <1>9 DEF q, e

\* The inductive invariant.
PoolInv ==
    /\ head \in Heads
    /\ current \in Heads
    /\ Good(pool, current, TRUE)

LEMMA InitPoolInv == Init => PoolInv
<1> SUFFICES ASSUME Init
             PROVE  PoolInv
  OBVIOUS
<1>1. Genesis \in Heads
  BY HeadsAssumption
<1>2. Good(Empty({}, Genesis), Genesis, TRUE)
  BY <1>1, EmptyGood
<1> QED
  BY <1>1, <1>2 DEF Init, PoolInv

\* What a head event reinjects is a sequence of transactions.
LEMMA Reinjected ==
    ASSUME NEW h \in Heads, NEW shallow \in BOOLEAN, NEW oneBlock \in BOOLEAN, NEW ord \in Orders,
           head \in Heads, ChainHead(h, shallow, oneBlock, ord)
    PROVE  \E txs : /\ Len(txs) \in Nat /\ \A i \in 1 .. Len(txs) : txs[i] \in Txs
                    /\ pool' = Reset(pool, h, txs, ord)
<1>1. PICK lost \in ByNonce(head.mined \ h.mined) :
         pool' = Reset(pool, h, IF ~shallow THEN <<>> ELSE IF oneBlock THEN lost ELSE Reverse(lost),
                       ord)
  BY DEF ChainHead
<1>2. head.mined \ h.mined \in SUBSET Txs
  BY HeadFields
<1>3. Len(lost) \in Nat /\ \A i \in 1 .. Len(lost) : lost[i] \in Txs
  BY <1>2, SeqsOfSet DEF ByNonce
<1>4. Len(Reverse(lost)) \in Nat /\ \A i \in 1 .. Len(Reverse(lost)) : Reverse(lost)[i] \in Txs
  <2>1. \A i \in 1 .. Len(lost) : (Len(lost) - i) + 1 \in 1 .. Len(lost)
    BY <1>3
  <2>2. Reverse(lost) = [i \in 1 .. Len(lost) |-> lost[(Len(lost) - i) + 1]]
    BY DEF Reverse
  <2>3. Reverse(lost) \in [1 .. Len(lost) -> Txs]
    BY <1>3, <2>1, <2>2
  <2>4. Reverse(lost) \in Seq(Txs)
    BY <1>3, <2>3
  <2> QED
    BY <2>4
<1>5. Len(<<>>) \in Nat /\ \A i \in 1 .. Len(<<>>) : <<>>[i] \in Txs
  OBVIOUS
<1> QED
  BY <1>1, <1>3, <1>4, <1>5

LEMMA NextPoolInv == PoolInv /\ [Next]_vars => PoolInv'
<1> SUFFICES ASSUME PoolInv, [Next]_vars
             PROVE  PoolInv'
  OBVIOUS
<1>1. /\ head \in Heads /\ current \in Heads /\ Good(pool, current, TRUE)
      /\ Sound(pool) /\ Bounded(pool)
      /\ pool.all \in SUBSET Txs /\ pool.queue \in SUBSET Txs /\ pool.journal \in SUBSET Txs
  BY DEF PoolInv, Good, Sound, Pools
<1>2. ASSUME NEW tx \in Txs, NEW local \in BOOLEAN, NEW ord \in Orders, AddTx(tx, local, ord)
      PROVE  PoolInv'
  <2>1. Len(<<tx>>) \in Nat /\ \A i \in 1 .. Len(<<tx>>) : <<tx>>[i] \in Txs
    OBVIOUS
  <2>2. Good(AddTxsLocked(pool, <<tx>>, local, current, gasPrice, ord), current, TRUE)
    BY <1>1, <2>1, BatchGood
  <2> QED
    BY <1>1, <1>2, <2>2 DEF AddTx, PoolInv
<1>3. ASSUME NEW limit \in Prices, SetGasPrice(limit)
      PROVE  PoolInv'
  <2>1. PICK T : T = {t \in pool.all : from[t] \notin pool.locals /\ price[t] < limit}
    OBVIOUS
  <2>2. T \in SUBSET Txs
    BY <1>1, <2>1
  <2>3. Good(RemoveTxs(pool, T), current, TRUE)
    BY <1>1, <2>2, RemoveGood
  <2> QED
    BY <1>1, <1>3, <2>1, <2>3 DEF SetGasPrice, PoolInv
<1>4. ASSUME NEW idle \in SUBSET Accounts, Evict(idle)
      PROVE  PoolInv'
  <2>1. PICK T : T = {t \in pool.queue : from[t] \in idle \ pool.locals}
    OBVIOUS
  <2>2. T \in SUBSET Txs
    BY <1>1, <2>1
  <2>3. Good(RemoveTxs(pool, T), current, TRUE)
    BY <1>1, <2>2, RemoveGood
  <2> QED
    BY <1>1, <1>4, <2>1, <2>3 DEF Evict, PoolInv
<1>5. ASSUME Rotate
      PROVE  PoolInv'
  BY <1>1, <1>5, JournalGood DEF Rotate, PoolInv
<1>6. ASSUME NEW h \in Heads, NEW shallow \in BOOLEAN, NEW oneBlock \in BOOLEAN,
             NEW ord \in Orders, ChainHead(h, shallow, oneBlock, ord)
      PROVE  PoolInv'
  <2>1. PICK txs : /\ Len(txs) \in Nat /\ \A i \in 1 .. Len(txs) : txs[i] \in Txs
                   /\ pool' = Reset(pool, h, txs, ord)
    BY <1>1, <1>6, Reinjected
  <2>2. Good(Reset(pool, h, txs, ord), h, TRUE)
    BY <1>1, <2>1, ResetGood
  <2> QED
    BY <1>6, <2>1, <2>2 DEF ChainHead, PoolInv
<1>7. ASSUME NEW h \in Heads, ChainHeadFails(h)
      PROVE  PoolInv'
  BY <1>1, <1>7 DEF ChainHeadFails, PoolInv
<1>8. ASSUME NEW ord \in Orders, Restart(ord)
      PROVE  PoolInv'
  <2> DEFINE Loaded(file) == AddTxsLocked(Empty({}, head), file, TRUE, head, PriceLimit, ord)
  <2>1. PICK file \in SetToSeqs(pool.journal) :
           pool' = [Loaded(file) EXCEPT !.journal = Local(Loaded(file))]
    BY <1>8 DEF Restart
  <2>2. Len(file) \in Nat /\ \A i \in 1 .. Len(file) : file[i] \in Txs
    BY <1>1, SeqsOfSet
  <2>3. Good(Empty({}, head), head, TRUE)
    BY <1>1, EmptyGood
  <2>4. Good(Loaded(file), head, TRUE)
    BY <1>1, <2>2, <2>3, BatchGood
  <2> HIDE DEF Loaded
  <2>5. Good(pool', head, TRUE)
    BY <1>1, <2>1, <2>4, JournalGood
  <2> QED
    BY <1>1, <1>8, <2>5 DEF Restart, PoolInv
<1>9. CASE UNCHANGED vars
  BY <1>1, <1>9 DEF vars, PoolInv
<1> QED
  BY <1>2, <1>3, <1>4, <1>5, <1>6, <1>7, <1>8, <1>9 DEF Next

LEMMA PoolInvHolds == Spec => []PoolInv
BY InitPoolInv, NextPoolInv, PTL DEF Spec

\* Whatever is added, replaced, demoted, evicted, reorganised or restarted, the
\* lookup of the pool is its two lists, which share no transaction and no nonce of
\* an account: removeTx, enqueueTx and promoteTx search the lists by nonce.
THEOREM PoolIsAccounted == Spec => []Accounted
<1>1. PoolInv => Accounted
  BY DEF PoolInv, Good, Sound, Unique, Accounted
<1> QED
  BY <1>1, PoolInvHolds, PTL

\* An account with pending transactions can execute one now, in every state of
\* the chain that reset has brought the pool to.
THEOREM FrontIsExecutable == Spec => []FrontExecutable
<1>1. PoolInv => FrontExecutable
  BY DEF PoolInv, Good, Fronted, AtFront, Of, FrontExecutable
<1> QED
  BY <1>1, PoolInvHolds, PTL

\* add makes room in a full pool: what is beyond the limits is local, but for
\* one transaction at most.
THEOREM PoolIsBounded == Spec => []PoolBound
<1>1. PoolInv => PoolBound
  BY DEF PoolInv, Good, Bounded, Remote, PoolBound
<1> QED
  BY <1>1, PoolInvHolds, PTL

\* A local transaction that was spared and is gone had one of LocalsKept's reasons.
LEMMA SparesLocals ==
    ASSUME NEW p, NEW q, NEW c \in Heads, Sound(p), Spares(q, p, c),
           NEW t \in (Local(p) \cap p.journal) \ q.all
    PROVE  \/ nonce[t] < StateNonce(c, from[t])
           \/ costAll[t] > c.balance[from[t]]
           \/ \E u \in At(q.all, {t}) : Better(u, t)
<1>1. t \in p.all /\ from[t] \in p.locals /\ t \in Txs
  BY DEF Local, Sound, Pools
<1>2. Spared(q, t, c)
  BY <1>1 DEF Spares
<1>3. cost[t] > c.balance[from[t]] => costAll[t] > c.balance[from[t]]
  BY <1>1, TxFields, HeadFields
<1> QED
  BY <1>2, <1>3 DEF Spared, At

\* No step drops a journaled transaction of a local account but for a reason:
\* the limits of promoteExecutables, the price threshold, the eviction and a full
\* pool leave it alone, reset may find it outdated or beyond the balance, add may
\* replace it by a better one, and the journal, read in whatever order, brings it
\* back unless it finds there one with its nonce that it does not outbid.
THEOREM LocalsStay == Spec => LocalsKept
<1> DEFINE Kept(t) == \/ nonce[t] < StateNonce(current', from[t])
                      \/ costAll[t] > current'.balance[from[t]]
                      \/ \E u \in At(pool'.all, {t}) :
                            Better(u, t) \/ (u \in pool.journal /\ ~Better(t, u))
<1>1. ASSUME PoolInv, [Next]_vars, NEW t \in (Local(pool) \cap pool.journal) \ pool'.all
      PROVE  Kept(t)
  <2>1. /\ head \in Heads /\ current \in Heads /\ Good(pool, current, TRUE)
        /\ Sound(pool) /\ Bounded(pool) /\ t \in Txs
        /\ pool.all \in SUBSET Txs /\ pool.queue \in SUBSET Txs /\ pool.journal \in SUBSET Txs
    BY <1>1 DEF PoolInv, Good, Sound, Pools
  <2>2. current' \in Heads
    BY <1>1, NextPoolInv DEF PoolInv
  <2>3. ASSUME Spares(pool', pool, current')
        PROVE  Kept(t)
    BY <1>1, <2>1, <2>2, <2>3, SparesLocals
  <2>4. ASSUME pool'.all = pool.all
        PROVE  Kept(t)
    BY <1>1, <2>1, <2>4 DEF Local, Sound
  <2>5. ASSUME NEW tx \in Txs, NEW local \in BOOLEAN, NEW ord \in Orders, AddTx(tx, local, ord)
        PROVE  Kept(t)
    <3>1. Len(<<tx>>) \in Nat /\ \A i \in 1 .. Len(<<tx>>) : <<tx>>[i] \in Txs
      OBVIOUS
    <3>2. Spares(AddTxsLocked(pool, <<tx>>, local, current, gasPrice, ord), pool, current)
      BY <2>1, <3>1, BatchGood
    <3> QED
      BY <2>3, <2>5, <3>2 DEF AddTx
  <2>6. ASSUME NEW limit \in Prices, SetGasPrice(limit)
        PROVE  Kept(t)
    <3>1. PICK T : T = {u \in pool.all : from[u] \notin pool.locals /\ price[u] < limit}
      OBVIOUS
    <3>2. T \in SUBSET Txs /\ \A u \in T : from[u] \notin pool.locals
      BY <2>1, <3>1
    <3>3. Spares(RemoveTxs(pool, T), pool, current)
      BY <2>1, <3>2, RemoveSpares
    <3> QED
      BY <2>3, <2>6, <3>1, <3>3 DEF SetGasPrice
  <2>7. ASSUME NEW idle \in SUBSET Accounts, Evict(idle)
        PROVE  Kept(t)
    <3>1. PICK T : T = {u \in pool.queue : from[u] \in idle \ pool.locals}
      OBVIOUS
    <3>2. T \in SUBSET Txs /\ \A u \in T : from[u] \notin pool.locals
      BY <2>1, <3>1
    <3>3. Spares(RemoveTxs(pool, T), pool, current)
      BY <2>1, <3>2, RemoveSpares
    <3> QED
      BY <2>3, <2>7, <3>1, <3>3 DEF Evict
  <2>8. ASSUME Rotate
        PROVE  Kept(t)
    <3>1. pool'.all = pool.all
      BY <2>1, <2>8 DEF Rotate, Sound, Pools
    <3> QED
      BY <2>4, <3>1
  <2>9. ASSUME NEW h \in Heads, NEW shallow \in BOOLEAN, NEW oneBlock \in BOOLEAN,
               NEW ord \in Orders, ChainHead(h, shallow, oneBlock, ord)
        PROVE  Kept(t)
    <3>1. PICK txs : /\ Len(txs) \in Nat /\ \A i \in 1 .. Len(txs) : txs[i] \in Txs
                     /\ pool' = Reset(pool, h, txs, ord)
      BY <2>1, <2>9, Reinjected
    <3>2. Spares(Reset(pool, h, txs, ord), pool, h)
      BY <2>1, <3>1, ResetGood
    <3> QED
      BY <2>3, <2>9, <3>1, <3>2 DEF ChainHead
  <2>10. ASSUME NEW h \in Heads, ChainHeadFails(h)
         PROVE  Kept(t)
    BY <2>4, <2>10 DEF ChainHeadFails
  <2>11. ASSUME NEW ord \in Orders, Restart(ord)
         PROVE  Kept(t)
    <3> DEFINE Loaded(file) == AddTxsLocked(Empty({}, head), file, TRUE, head, PriceLimit, ord)
    <3>1. PICK file \in SetToSeqs(pool.journal) :
             pool' = [Loaded(file) EXCEPT !.journal = Local(Loaded(file))]
      BY <2>11 DEF Restart
    <3>2. /\ Len(file) \in Nat /\ \A i \in 1 .. Len(file) : file[i] \in pool.journal
          /\ \A u \in pool.journal : \E i \in 1 .. Len(file) : file[i] = u
      BY <2>1, SeqsOfSet
    <3>3. /\ Loaded(file).all \subseteq pool.journal
          /\ \A i \in 1 .. Len(file) : HeldBy(Loaded(file), file[i], head)
      BY <2>1, <3>2, BatchLoads
    <3>4. Good(Loaded(file), head, TRUE)
      <4>1. Good(Empty({}, head), head, TRUE)
        BY <2>1, EmptyGood
      <4>2. \A i \in 1 .. Len(file) : file[i] \in Txs
        BY <2>1, <3>2
      <4> QED
        BY <2>1, <3>2, <4>1, <4>2, BatchGood
    <3> HIDE DEF Loaded
    <3>5. pool'.all = Loaded(file).all
      BY <3>1, <3>4 DEF Good, Sound, Pools
    <3>6. HeldBy(Loaded(file), t, head) /\ t \notin Loaded(file).all
      BY <1>1, <3>2, <3>3, <3>5
    <3>7. current' = head
      BY <2>11 DEF Restart
    <3> QED
      BY <3>3, <3>5, <3>6, <3>7 DEF HeldBy, At
  <2>12. CASE UNCHANGED vars
    BY <2>4, <2>12 DEF vars
  <2> QED
    BY <1>1, <2>5, <2>6, <2>7, <2>8, <2>9, <2>10, <2>11, <2>12 DEF Next
<1>2. PoolInv /\ [Next]_vars =>
         [\A t \in (Local(pool) \cap pool.journal) \ pool'.all : Kept(t)]_vars
  BY <1>1
<1> QED
  BY <1>2, PoolInvHolds, PTL DEF Spec, LocalsKept

\* Of a pool in order, Tidy says what PendingContinuous and NextNonce say.
LEMMA TidyMeans ==
    ASSUME NEW p, NEW c \in Heads, Good(p, c, TRUE)
    PROVE  Tidy(p, c) <=>
              /\ \A t \in p.pending : \A n \in StateNonce(c, from[t]) .. nonce[t] :
                    \E u \in Of(p.pending, from[t]) : nonce[u] = n
              /\ \A a \in Accounts : Of(p.pending, a) # {} =>
                    p.nonces[a] = 1 + Max({nonce[t] : t \in Of(p.pending, a)})
<1> DEFINE LastNonce(a) == Max({nonce[t] : t \in Of(p.pending, a)})
           Follow(a) == Of(p.pending, a) # {} => p.nonces[a] = 1 + LastNonce(a)
<1>1. /\ p.pending \in SUBSET Txs /\ p.nonces \in [Accounts -> Nat]
      /\ FrontHeld(p, c) /\ Fronted(p, c)
  BY DEF Good, Sound, Pools
<1>2. \A t \in p.pending : from[t] \in Accounts /\ nonce[t] \in Nat
  BY <1>1, TxFields
<1>3. \A a \in Accounts : StateNonce(c, a) \in Nat /\ p.nonces[a] \in Nat
  BY <1>1, HeadFields
<1>4. \A a, n : Has(p.pending, a, n) <=> \E u \in Of(p.pending, a) : nonce[u] = n
  BY DEF Has, Of
<1>5. ASSUME NEW a, Of(p.pending, a) # {}
      PROVE  /\ LastNonce(a) \in Nat /\ Has(p.pending, a, LastNonce(a))
             /\ \A t \in Of(p.pending, a) : nonce[t] <= LastNonce(a)
  <2> DEFINE F == Of(p.pending, a)
  <2>1. F \in SUBSET Txs /\ F # {} /\ \A t \in F : t \in p.pending /\ from[t] = a
    BY <1>1, <1>5 DEF Of
  <2>2. PICK S : S = {nonce[t] : t \in F}
    OBVIOUS
  <2> HIDE DEF F
  <2>3. PICK z \in F : \A u \in F : nonce[u] <= nonce[z]
    BY <2>1, LastTx
  <2>4. \A u \in F : nonce[u] \in Nat /\ nonce[u] \in S
    BY <2>1, <2>2, TxFields
  <2>5. \A y \in S : y \in Nat /\ nonce[z] >= y
    BY <2>2, <2>3, <2>4
  <2>6. \E x \in S : \A y \in S : x >= y
    BY <2>4, <2>5
  <2>7. Max(S) \in S /\ \A y \in S : Max(S) >= y
    BY <2>6 DEF Max
  <2>8. PICK m \in Nat : m = Max(S)
    BY <2>5, <2>7
  <2>9. \A t \in F : nonce[t] <= m
    <3>1. \A t \in F : m >= nonce[t]
      BY <2>4, <2>7, <2>8
    <3> QED
      BY <2>4, <3>1
  <2>10. \E t \in F : nonce[t] = m
    BY <2>2, <2>7, <2>8
  <2>11. LastNonce(a) = m
    BY <2>2, <2>8 DEF F
  <2> HIDE DEF LastNonce
  <2> QED
    BY <2>1, <2>9, <2>10, <2>11 DEF Has, F
<1> HIDE DEF LastNonce
<1>6. ASSUME Tidy(p, c)
      PROVE  Gapless(p, c) /\ \A a \in Accounts : Follow(a)
  <2>1. ASSUME NEW t \in p.pending, NEW n \in StateNonce(c, from[t]) .. nonce[t]
        PROVE  Has(p.pending, from[t], n)
    <3>1. from[t] \in Accounts /\ nonce[t] \in Nat /\ Has(p.pending, from[t], nonce[t])
      BY <1>2 DEF Has
    <3>2. nonce[t] < p.nonces[from[t]]
      BY <1>6, <3>1 DEF Tidy
    <3>3. n \in Nat /\ StateNonce(c, from[t]) <= n /\ n < p.nonces[from[t]]
      BY <1>3, <3>1, <3>2
    <3> QED
      BY <1>6, <3>1, <3>3 DEF Tidy
  <2>2. ASSUME NEW a \in Accounts, Of(p.pending, a) # {}
        PROVE  p.nonces[a] = 1 + LastNonce(a)
    <3>1. /\ LastNonce(a) \in Nat /\ Has(p.pending, a, LastNonce(a))
          /\ \A n \in Nat : Has(p.pending, a, n) => n <= LastNonce(a)
      BY <1>4, <1>5, <2>2
    <3>2. StateNonce(c, a) <= LastNonce(a) /\ LastNonce(a) < p.nonces[a]
      BY <1>6, <3>1 DEF Tidy
    <3>3. ~(LastNonce(a) + 1 < p.nonces[a])
      <4>1. SUFFICES ASSUME LastNonce(a) + 1 < p.nonces[a]
                     PROVE  FALSE
        OBVIOUS
      <4>2. LastNonce(a) + 1 \in Nat /\ StateNonce(c, a) <= LastNonce(a) + 1
        BY <1>3, <3>1, <3>2
      <4>3. Has(p.pending, a, LastNonce(a) + 1)
        BY <1>6, <4>1, <4>2 DEF Tidy
      <4>4. LastNonce(a) + 1 <= LastNonce(a)
        BY <3>1, <4>2, <4>3
      <4> QED
        BY <3>1, <4>4
    <3> QED
      BY <1>3, <3>1, <3>2, <3>3
  <2> QED
    BY <2>1, <2>2 DEF Gapless
<1>7. ASSUME Gapless(p, c), \A a \in Accounts : Follow(a)
      PROVE  Tidy(p, c)
  <2> SUFFICES ASSUME NEW a \in Accounts, NEW n \in Nat
               PROVE  Has(p.pending, a, n) <=> StateNonce(c, a) <= n /\ n < p.nonces[a]
    BY DEF Tidy
  <2>1. CASE Of(p.pending, a) = {}
    <3>1. ~Has(p.pending, a, n)
      BY <2>1 DEF Has, Of
    <3>2. p.nonces[a] <= StateNonce(c, a)
      BY <1>1, <2>1 DEF FrontHeld, AtFront, Of
    <3> QED
      BY <1>3, <3>1, <3>2
  <2>2. CASE Of(p.pending, a) # {}
    <3>1. /\ LastNonce(a) \in Nat /\ Has(p.pending, a, LastNonce(a)) /\ p.nonces[a] = 1 + LastNonce(a)
          /\ \A t \in Of(p.pending, a) : nonce[t] <= LastNonce(a)
      BY <1>5, <1>7, <2>2
    <3>2. PICK z \in p.pending : from[z] = a /\ nonce[z] = LastNonce(a)
      BY <3>1 DEF Has
    <3>3. ASSUME Has(p.pending, a, n)
          PROVE  StateNonce(c, a) <= n /\ n < p.nonces[a]
      <4>1. PICK t \in p.pending : from[t] = a /\ nonce[t] = n
        BY <3>3 DEF Has
      <4>2. nonce[t] >= StateNonce(c, a)
        BY <1>1, <4>1 DEF Fronted
      <4>3. nonce[t] <= LastNonce(a)
        BY <3>1, <4>1 DEF Of
      <4> QED
        BY <1>3, <3>1, <4>1, <4>2, <4>3
    <3>4. ASSUME StateNonce(c, a) <= n, n < p.nonces[a]
          PROVE  Has(p.pending, a, n)
      <4>1. n \in StateNonce(c, from[z]) .. nonce[z]
        BY <1>3, <3>1, <3>2, <3>4
      <4> QED
        BY <1>7, <3>2, <4>1 DEF Gapless
    <3> QED
      BY <3>3, <3>4
  <2> QED
    BY <2>1, <2>2
<1>8. Gapless(p, c) <=>
         \A t \in p.pending : \A n \in StateNonce(c, from[t]) .. nonce[t] :
            \E u \in Of(p.pending, from[t]) : nonce[u] = n
  BY <1>4 DEF Gapless
<1> QED
  BY <1>6, <1>7, <1>8 DEF LastNonce

\* A chain that grows has the nonces it had, and more.
LEMMA NoncesGrow ==
    ASSUME NEW c \in Heads, NEW h \in Heads, c.mined \subseteq h.mined, NEW a \in Accounts
    PROVE  StateNonce(c, a) <= StateNonce(h, a)
<1>1. Of(h.mined, a) \in SUBSET Txs /\ Of(c.mined, a) \in SUBSET Of(h.mined, a)
  BY HeadFields DEF Of
<1>2. IsFiniteSet(Of(h.mined, a))
  BY <1>1, TxSets
<1> QED
  BY <1>1, <1>2, FS_Subset DEF StateNonce

\* Then nothing comes back from blocks left behind.
LEMMA NothingReinjected ==
    ASSUME NEW h \in Heads, NEW shallow \in BOOLEAN, NEW oneBlock \in BOOLEAN, NEW ord,
           head.mined \subseteq h.mined, ChainHead(h, shallow, oneBlock, ord)
    PROVE  \E txs : Len(txs) = 0 /\ pool' = Reset(pool, h, txs, ord)
<1>1. shallow /\ oneBlock
  BY DEF ChainHead
<1>2. PICK lost \in ByNonce(head.mined \ h.mined) : pool' = Reset(pool, h, lost, ord)
  BY <1>1 DEF ChainHead
<1>3. head.mined \ h.mined = {}
  OBVIOUS
<1>4. Len(lost) = 0
  <2>1. lost \in SetToSeqs({})
    BY <1>2, <1>3 DEF ByNonce
  <2>2. {} \in SUBSET Txs
    OBVIOUS
  <2>3. Len(lost) \in Nat /\ \A i \in 1 .. Len(lost) : lost[i] \in {}
    BY <2>1, <2>2, SeqsOfSet
  <2> QED
    BY <2>3
<1> QED
  BY <1>2, <1>4

\* As long as the chain grows, no addition, replacement, eviction, change of the
\* price threshold, cut, new head or restart opens a gap in an account's pending
\* transactions, and the next nonce stays the one after the last of them: what
\* validateTxPoolInternals asks of a pool.
THEOREM PendingStaysOrderly == Spec => OrderlyUntilReorg
<1> DEFINE Grows == head.mined \subseteq head'.mined /\ current.mined \subseteq current'.mined
<1>1. ASSUME PoolInv, [Next]_vars, Grows, Tidy(pool, current)
      PROVE  Tidy(pool', current')
  <2>1. /\ head \in Heads /\ current \in Heads /\ Good(pool, current, TRUE)
        /\ Sound(pool) /\ Bounded(pool)
        /\ pool.all \in SUBSET Txs /\ pool.queue \in SUBSET Txs /\ pool.journal \in SUBSET Txs
    BY <1>1 DEF PoolInv, Good, Sound, Pools
  <2>2. ASSUME NEW p, NEW c, Tidy(p, c), p \in Pools, NEW J
        PROVE  Tidy([p EXCEPT !.journal = J], c)
    BY <2>2 DEF Tidy, Pools
  <2>3. ASSUME NEW tx \in Txs, NEW local \in BOOLEAN, NEW ord \in Orders, AddTx(tx, local, ord)
        PROVE  Tidy(pool', current')
    <3>1. Len(<<tx>>) \in Nat /\ \A i \in 1 .. Len(<<tx>>) : <<tx>>[i] \in Txs
      OBVIOUS
    <3>2. Tidy(AddTxsLocked(pool, <<tx>>, local, current, gasPrice, ord), current)
      BY <1>1, <2>1, <3>1, BatchGood
    <3> QED
      BY <2>3, <3>2 DEF AddTx
  <2>4. ASSUME NEW limit \in Prices, SetGasPrice(limit)
        PROVE  Tidy(pool', current')
    <3>1. PICK T : T = {u \in pool.all : from[u] \notin pool.locals /\ price[u] < limit}
      OBVIOUS
    <3>2. T \in SUBSET Txs
      BY <2>1, <3>1
    <3>3. Tidy(RemoveTxs(pool, T), current)
      BY <1>1, <2>1, <3>2, RemoveTidy
    <3> QED
      BY <2>4, <3>1, <3>3 DEF SetGasPrice
  <2>5. ASSUME NEW idle \in SUBSET Accounts, Evict(idle)
        PROVE  Tidy(pool', current')
    <3>1. PICK T : T = {u \in pool.queue : from[u] \in idle \ pool.locals}
      OBVIOUS
    <3>2. T \in SUBSET Txs
      BY <2>1, <3>1
    <3>3. Tidy(RemoveTxs(pool, T), current)
      BY <1>1, <2>1, <3>2, RemoveTidy
    <3> QED
      BY <2>5, <3>1, <3>3 DEF Evict
  <2>6. ASSUME Rotate
        PROVE  Tidy(pool', current')
    BY <1>1, <2>1, <2>2, <2>6 DEF Rotate, Sound
  <2>7. ASSUME NEW h \in Heads, NEW shallow \in BOOLEAN, NEW oneBlock \in BOOLEAN,
               NEW ord \in Orders, ChainHead(h, shallow, oneBlock, ord)
        PROVE  Tidy(pool', current')
    <3>1. head' = h /\ current' = h
      BY <2>7 DEF ChainHead
    <3>2. head.mined \subseteq h.mined /\ current.mined \subseteq h.mined
      BY <1>1, <3>1
    <3>3. PICK txs : Len(txs) = 0 /\ pool' = Reset(pool, h, txs, ord)
      BY <2>7, <3>2, NothingReinjected
    <3>4. Gapless(pool, h)
      <4>1. SUFFICES ASSUME NEW t \in pool.pending, NEW n \in StateNonce(h, from[t]) .. nonce[t]
                     PROVE  Has(pool.pending, from[t], n)
        BY DEF Gapless
      <4>2. t \in Txs /\ pool.nonces \in [Accounts -> Nat]
        BY <2>1 DEF Sound, Pools
      <4>3. /\ from[t] \in Accounts /\ nonce[t] \in Nat
            /\ StateNonce(current, from[t]) \in Nat /\ StateNonce(h, from[t]) \in Nat
            /\ pool.nonces[from[t]] \in Nat
        BY <2>1, <4>2, TxFields, HeadFields
      <4>4. StateNonce(current, from[t]) <= StateNonce(h, from[t])
        BY <2>1, <3>2, <4>3, NoncesGrow
      <4>5. nonce[t] < pool.nonces[from[t]]
        BY <1>1, <4>3 DEF Tidy, Has
      <4>6. n \in Nat /\ StateNonce(current, from[t]) <= n /\ n < pool.nonces[from[t]]
        BY <4>1, <4>3, <4>4, <4>5
      <4> QED
        BY <1>1, <4>3, <4>6 DEF Tidy
    <3>5. Len(txs) \in Nat /\ \A i \in 1 .. Len(txs) : txs[i] \in Txs
      BY <3>3
    <3>6. Tidy(Reset(pool, h, txs, ord), h)
      BY <2>1, <3>3, <3>4, <3>5, ResetGood
    <3> QED
      BY <3>1, <3>3, <3>6
  <2>8. ASSUME NEW h \in Heads, ChainHeadFails(h)
        PROVE  Tidy(pool', current')
    BY <1>1, <2>8 DEF ChainHeadFails
  <2>9. ASSUME NEW ord \in Orders, Restart(ord)
        PROVE  Tidy(pool', current')
    <3> DEFINE Loaded(file) == AddTxsLocked(Empty({}, head), file, TRUE, head, PriceLimit, ord)
    <3>1. PICK file \in SetToSeqs(pool.journal) :
             pool' = [Loaded(file) EXCEPT !.journal = Local(Loaded(file))]
      BY <2>9 DEF Restart
    <3>2. Len(file) \in Nat /\ \A i \in 1 .. Len(file) : file[i] \in Txs
      BY <2>1, SeqsOfSet
    <3>3. Good(Empty({}, head), head, TRUE) /\ Tidy(Empty({}, head), head)
      BY <2>1, EmptyGood
    <3>4. Good(Loaded(file), head, TRUE) /\ Tidy(Loaded(file), head)
      BY <2>1, <3>2, <3>3, BatchGood
    <3> HIDE DEF Loaded
    <3>5. Tidy(pool', head)
      BY <2>2, <3>1, <3>4 DEF Good, Sound
    <3> QED
      BY <2>9, <3>5 DEF Restart
  <2>10. CASE UNCHANGED vars
    BY <1>1, <2>10 DEF vars
  <2> QED
    BY <1>1, <2>3, <2>4, <2>5, <2>6, <2>7, <2>8, <2>9, <2>10 DEF Next
<1>2. PoolInv /\ [Next]_vars =>
         [Grows /\ PendingContinuous /\ NextNonce => PendingContinuous' /\ NextNonce']_vars
  <2> SUFFICES ASSUME PoolInv, [Next]_vars, Grows, PendingContinuous, NextNonce
               PROVE  PendingContinuous' /\ NextNonce'
    OBVIOUS
  <2>1. current \in Heads /\ Good(pool, current, TRUE)
    BY DEF PoolInv
  <2>2. current' \in Heads /\ Good(pool', current', TRUE)
    BY NextPoolInv DEF PoolInv
  <2>3. Tidy(pool, current)
    BY <2>1, TidyMeans DEF PendingContinuous, NextNonce
  <2>4. Tidy(pool', current')
    BY <1>1, <2>3
  <2> QED
    BY <2>2, <2>4, TidyMeans DEF PendingContinuous, NextNonce
<1> QED
  BY <1>2, PoolInvHolds, PTL DEF Spec, OrderlyUntilReorg
=============================================================================
