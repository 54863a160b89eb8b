------------------------------ MODULE Identity ------------------------------
(***************************************************************************)
(* The identity of a node (ca/ca.go) and the buckets it feeds              *)
(* (p2p/buckets.go).  The loop of Identity.Start takes each new block from *)
(* the chain, follows the election and the topology in its header, stores  *)
(* the topology under its number and hands the miners outside the topology *)
(* to the loop of Bucket.Start, which chooses whom to dial.  Each loop is  *)
(* stopped by a Stop that holds a lock the loop takes too.                 *)
(*                                                                         *)
(* The events go over unbuffered channels: a publisher waits for each      *)
(* subscriber.  Operators on mc, the deposits and the roles, which are not *)
(* in the repository, follow from their use here.                          *)
(***************************************************************************)
EXTENDS Integers, FiniteSets, Sequences, FiniteSetsExt

CONSTANTS
    Accounts, Self,         \* accounts, and the one of this node
    BucketOf,               \* [Accounts -> 0 .. 3], the account modulo 4
    Positions,              \* positions of the topology, and those of miners
    MinerPositions,
    ReelectionInterval,     \* 300 in the code
    VerifyNetChangeUpTime,  \* 40
    MinerNetChangeUpTime,   \* 30
    MaxLink,                \* 3
    Small,                  \* 64: buckets of at most so many nodes are not used
    Elects,                 \* header.Elect: partial functions from Accounts to roles
    NetTopologies,          \* header.NetTopology: [type, data]
    Deposits,               \* accounts with a deposit as miners
    MaxHeight, MaxCrashes   \* bounds

RoleNil == 0
RoleDefault == 1
RoleBucket == 2
RoleMiner == 3
RoleValidator == 4

ASSUME IdentityAssumption ==
    /\ Self \in Accounts
    /\ MinerNetChangeUpTime < VerifyNetChangeUpTime
    /\ VerifyNetChangeUpTime < ReelectionInterval

ASSUME BucketsAssumption ==
    /\ IsFiniteSet(Accounts)
    /\ IsFiniteSet(MinerPositions)
    /\ Deposits \subseteq SUBSET Accounts
    /\ MaxLink \in Nat

VARIABLES
    height, chain,      \* the chain: its height, the topology it has reached
    pc,                 \* the loop of Identity.Start
    ide,                \* the fields of Identity, and the deposits of this block
    ldb,                \* the heights stored, with whether the topology is the chain's
    complete,           \* the height of the first full topology since the start, or None
    lock,               \* Identity.Stop: "free", "held" or "stopped"
    bpc,                \* the loop of Bucket.Start
    message,            \* the last message to it
    bucket,             \* Bucket.role, Bucket.ids and the nodes dialled for the last message
    block,              \* Bucket.Stop: "free", "held" or "stopped"
    crashes             \* crashes so far

identity == <<pc, ide, ldb, complete, lock>>
buckets == <<bpc, message, bucket, block>>
identityVars == <<height, chain, identity, buckets, crashes>>

None == -1
Empty == <<>>
Over(f, g) == [x \in DOMAIN f \cup DOMAIN g |-> IF x \in DOMAIN g THEN g[x] ELSE f[x]]
ValuesOf(f) == {f[x] : x \in DOMAIN f}

newIde ==
    [currentHeight |-> None, duration |-> FALSE, currentRole |-> RoleNil, prvRole |-> RoleNil,
     nextRole |-> RoleNil, elect |-> Empty, nextElect |-> Empty, topology |-> Empty, miners |-> {}]
NewBucket == [role |-> RoleNil, ids |-> {}, dialled |-> {}]
NoMessage == [ms |-> {}, role |-> RoleNil]

IdentityInit ==
    /\ height = 0 /\ chain = Empty
    /\ pc = "off" /\ ide = newIde /\ ldb = Empty /\ complete = None /\ lock = "free"
    /\ bpc = "off" /\ message = NoMessage /\ bucket = NewBucket /\ block = "free"
    /\ crashes = 0

-----------------------------------------------------------------------------
(* The process.                                                            *)

Start ==
    /\ pc = "off"
    /\ pc' = "wait" /\ bpc' = "wait"
    /\ UNCHANGED <<height, chain, ide, ldb, complete, lock, message, bucket, block, crashes>>

\* The process ends at any point: only the database is left.
Crash ==
    /\ pc # "off"
    /\ crashes < MaxCrashes
    /\ crashes' = crashes + 1
    /\ pc' = "off" /\ ide' = newIde /\ complete' = None /\ lock' = "free"
    /\ bpc' = "off" /\ message' = NoMessage /\ bucket' = NewBucket /\ block' = "free"
    /\ UNCHANGED <<height, chain, ldb>>

-----------------------------------------------------------------------------
(* Identity.Start.                                                         *)

\* Mutant: a full topology does not replace what was there.
InitCurrentTopologyKeeps(t, tp) == Over(t, tp.data)

\* A full topology, a difference, or of another type.
InitCurrentTopology(t, tp) ==
    IF tp.type = 0 THEN tp.data ELSE IF tp.type = 1 THEN Over(t, tp.data) ELSE t

VerifierElected(n) == (n + VerifyNetChangeUpTime) % ReelectionInterval = 0
MinerElected(n) == (n + MinerNetChangeUpTime) % ReelectionInterval = 0
Formal(n) == n % ReelectionInterval = 0

\* The switch on the height.  The genesis block is a formal one: its own case is
\* never reached.
Elected(i, n, e) ==
    LET named == Self \in DOMAIN e
    IN  IF VerifierElected(n) \/ MinerElected(n)
        THEN    [i EXCEPT !.duration = TRUE, !.nextElect = Over(@, e),
                          !.nextRole = IF named THEN e[Self] ELSE @]
        ELSE IF Formal(n)
        THEN    [i EXCEPT !.duration = FALSE, !.elect = i.nextElect, !.nextElect = Empty,
                          !.prvRole = i.nextRole,
                          !.currentRole = IF named THEN e[Self] ELSE @,
                          !.nextRole = IF named THEN RoleNil ELSE @]
        ELSE i

\* What the loop makes of a block before it needs the lock.
Follow(i, n, e, tp, deposit) ==
    [Elected(i, n, e) EXCEPT
        !.currentHeight = n,
        !.topology = InitCurrentTopology(@, tp),
        !.currentRole = IF @ = RoleNil THEN RoleDefault ELSE @,
        !.miners = deposit]

\* A block of the chain: the loop takes it, up to the lock of GetHeight; a node
\* that is not running, or stopped, misses it.
NewBlock(e, tp, deposit) ==
    /\ height < MaxHeight
    /\ pc \in {"wait", "off", "stopped"}
    /\ height' = height + 1
    /\ chain' = IF tp.type = 0 THEN tp.data ELSE IF tp.type = 1 THEN Over(chain, tp.data) ELSE chain
    /\ IF pc = "wait"
       THEN /\ pc' = "height"
            /\ ide' = Follow(ide, height', e, tp, deposit)
            /\ complete' = IF complete = None /\ tp.type = 0 THEN height' ELSE complete
       ELSE UNCHANGED <<pc, ide, complete>>
    /\ UNCHANGED <<ldb, lock, buckets, crashes>>

\* getNodesInBuckets.
NodesInBuckets == ide.miners \ ValuesOf(ide.topology)

\* setToLevelDB, which needs the lock for GetHeight, and getNodesInBuckets.
SetToLevelDB ==
    /\ pc = "height"
    /\ lock = "free"
    /\ ldb' = Over(ldb, [h \in {ide.currentHeight} |-> ide.topology = chain])
    /\ ide' = [ide EXCEPT !.currentRole = IF Self \in NodesInBuckets THEN RoleBucket ELSE @]
    /\ pc' = "publish"
    /\ UNCHANGED <<height, chain, complete, lock, buckets, crashes>>

\* Mutant: stopped buckets stay subscribed.
PublishWaits ==
    /\ pc = "publish"
    /\ bpc = "wait"
    /\ message' = [ms |-> NodesInBuckets, role |-> ide.currentRole]
    /\ bpc' = "add"
    /\ pc' = "wait"
    /\ UNCHANGED <<height, chain, ide, ldb, complete, lock, bucket, block, crashes>>

\* The message to the buckets, which waits until their loop takes it; nobody
\* subscribes to the one to the linkers.
Publish ==
    /\ pc = "publish"
    /\ bpc \in {"wait", "stopped"}
    /\ IF bpc = "wait"
       THEN /\ message' = [ms |-> NodesInBuckets, role |-> ide.currentRole]
            /\ bpc' = "add"
       ELSE UNCHANGED <<message, bpc>>
    /\ pc' = "wait"
    /\ UNCHANGED <<height, chain, ide, ldb, complete, lock, bucket, block, crashes>>

\* Stop takes the lock, and gives it back when the loop has taken the message on quit.
StopIdentity ==
    /\ pc \notin {"off", "stopped"}
    /\ lock = "free"
    /\ lock' = "held"
    /\ UNCHANGED <<height, chain, pc, ide, ldb, complete, buckets, crashes>>

QuitIdentity ==
    /\ pc = "wait"
    /\ lock = "held"
    /\ lock' = "stopped"
    /\ pc' = "stopped"
    /\ UNCHANGED <<height, chain, ide, ldb, complete, buckets, crashes>>

-----------------------------------------------------------------------------
(* Bucket.Start.  The ring of buckets never turns, since the code compares *)
(* pointers: bucket 0 is the current one, 1 the next.                      *)

InBucket(ms, i) == {n \in ms : BucketOf[n] = i}
AtMost(S, num) == {d \in SUBSET S : Cardinality(d) <= num}
Least(a, b) == IF a < b THEN a ELSE b

\* randomInnerPeersByBucketNumber: the length is that of the next bucket, whatever
\* bucket the nodes are taken from; for 3 the code also has MaxLink's value.
RandomInnerPeers(ms, num, i) ==
    LET length == Cardinality(InBucket(ms, 1))
    IN  IF length = 0 THEN {{}}
        ELSE IF length <= MaxLink THEN {InBucket(ms, i)}
        ELSE AtMost(InBucket(ms, i), num)

\* inner.
Inner(ms, num, i) == IF num <= 0 THEN {{}} ELSE RandomInnerPeers(ms, num, i)

\* GetRoleGroup(RoleMiner), external: the miners of the topology.
MinerGroup == {ide.topology[p] : p \in DOMAIN ide.topology \cap MinerPositions}

\* outer, to the miners of the topology.
Outer(group, num) ==
    IF num <= 0 THEN {{}}
    ELSE IF Cardinality(group) <= MaxLink THEN {group}
    ELSE AtMost(group, num)

\* maintainOuter, with these peers.
MaintainOuter(group, peers) ==
    LET count == Cardinality(peers \cap group)
    IN  IF count < MaxLink THEN Outer(group, Least(MaxLink, Cardinality(group)) - count) ELSE {{}}

\* Mutant: a node outside the buckets dials as many as its own bucket holds.
LinkBucketPeerAll(ms, peers) == {InBucket(ms, 0)}

\* linkBucketPeer: counts in the own bucket, dials in the current one.
LinkBucketPeer(ms, peers) ==
    LET own == BucketOf[Self]
        count == Cardinality({n \in peers : BucketOf[n] = own})
    IN  IF count < MaxLink THEN Inner(ms, Least(MaxLink, Cardinality(InBucket(ms, own))) - count, 0)
        ELSE {{}}

\* maintainInner: the count compares values of different types and stays 0.
MaintainInner(ms) == Inner(ms, Least(MaxLink, Cardinality(InBucket(ms, 1))), 1)

\* The nodes dialled for a message.
Dials(h, peers) ==
    IF Cardinality(h.ms) <= Small THEN MaintainOuter(MinerGroup, peers)
    ELSE IF h.role # RoleBucket THEN LinkBucketPeer(h.ms, peers)
    ELSE MaintainInner(h.ms)

\* The handling of a message: bucketAdd takes the lock for every node.
Handle ==
    /\ bpc = "add"
    /\ message.role <= RoleBucket /\ message.ms # {} => block = "free"
    /\ IF message.role > RoleBucket THEN UNCHANGED bucket
       ELSE \E peers \in SUBSET (Accounts \ {Self}) : \E d \in Dials(message, peers) :
               bucket' = [role |-> message.role, ids |-> message.ms, dialled |-> d]
    /\ bpc' = "wait"
    /\ UNCHANGED <<height, chain, identity, message, block, crashes>>

StopBuckets ==
    /\ bpc \notin {"off", "stopped"}
    /\ block = "free"
    /\ block' = "held"
    /\ UNCHANGED <<height, chain, identity, bpc, message, bucket, crashes>>

QuitBuckets ==
    /\ bpc = "wait"
    /\ block = "held"
    /\ block' = "stopped"
    /\ bpc' = "stopped"
    /\ UNCHANGED <<height, chain, identity, message, bucket, crashes>>

-----------------------------------------------------------------------------
IdentityNext ==
    \/ Start
    \/ Crash
    \/ \E e \in Elects, tp \in NetTopologies, deposit \in Deposits : NewBlock(e, tp, deposit)
    \/ SetToLevelDB
    \/ Publish
    \/ StopIdentity
    \/ QuitIdentity
    \/ Handle
    \/ StopBuckets
    \/ QuitBuckets

\* The loops keep running; a loop that waits for both chooses quit in the end.
IdentitySpec ==
    /\ IdentityInit /\ [][IdentityNext]_identityVars
    /\ WF_identityVars(SetToLevelDB) /\ WF_identityVars(Publish) /\ WF_identityVars(Handle)
    /\ SF_identityVars(QuitIdentity) /\ SF_identityVars(QuitBuckets)

-----------------------------------------------------------------------------
\* InitCurrentTopology and setToLevelDB: from the first full topology after a
\* start, every block is stored with the topology of the chain, over crashes too.
LedgerRight ==
    complete # None =>
        \A h \in complete .. ide.currentHeight :
            (h \in DOMAIN ldb /\ ldb[h]) \/ (h = ide.currentHeight /\ pc = "height")

\* A loop waits for the lock that its own Stop holds.
IdentityLocked == pc = "height" /\ lock = "held"
BucketsLocked ==
    bpc = "add" /\ message.role <= RoleBucket /\ message.ms # {} /\ block = "held"

\* Stop of the identity and of the buckets: each ends, unless a loop had taken a
\* block or a message but not yet its lock when Stop took it.
StopsReturn ==
    /\ (lock = "held") ~> (lock # "held" \/ IdentityLocked \/ BucketsLocked)
    /\ (block = "held") ~> (block # "held" \/ BucketsLocked)

\* Buckets: for one message a node dials at most MaxLink nodes; only one outside
\* the buckets may dial more, all of bucket 0, when bucket 1 has MaxLink or fewer.
DialBound ==
    Cardinality(bucket.dialled) > MaxLink =>
        /\ bucket.role # RoleBucket
        /\ bucket.dialled = InBucket(bucket.ids, 0)
        /\ Cardinality(InBucket(bucket.ids, 1)) \in 1 .. MaxLink

\* "Only bottom nodes will into this buckets": a node that takes part in the
\* buckets has no place in the topology.
OnlyBottomNodes ==
    bpc = "add" /\ message.role = RoleBucket /\ pc = "wait" => Self \notin ValuesOf(ide.topology)
=============================================================================
