# A TLA+ verification of the MatrixAI node

The repository is a go-ethereum 1.8 node to which MatrixAI added a committee:
*verifiers* agree on the transactions of a block, *miners* write it, and the
membership of both changes every broadcast period.  This project models that
addition, and the one part of go-ethereum it changed from inside, the
transaction pool.  It does not model the rest of go-ethereum.

All paths below are relative to `src/`.

## 1. Inventory

| Component | State | Operations | Interacts with |
|---|---|---|---|
| Verifier, leading (`verify/leader.go`) | `sessionPM` (state, count, lists), `vrlist`, `nodeState`, role, `leaderWorkCh`, timers | `Notify`, `Start`, `Stop`, `ConfigNodelist`, `leaderNewProcess`, `timeout`, `leaderProcessMsg` | called by the scheduler; messages from followers |
| Verifier, following (`verify/leader.go`) | `leadNodeInfo`, `followerInvalidTxsList` | `followerProcessMsg`, `followerProcess`, `voteToTx` | messages to and from the leader |
| Vote count (`verify/leader.go`, `eth/handler.go`) | none | `DposTx` | used by leader and miner |
| Main node list (`verify/interface.go`, `miner/cache.go`) | the lists in headers; of each miner `broadcastInfoCh` and `broadcastCache`, in memory only | `readySendNodelist`, `GenerateMainNodeList`, `AddUDPMsg`, `update`, `writeCacheToHeader` | verifier to every miner over UDP; the chain |
| Scheduler (`scheduler/scheduler.go`) | two list buffers and topologies, `eleEffterIndex`, `nodetype`, three channels | `Start`, `startTask`, `Setblockinsernotify`, `Setmainnodelistnotify`, `offlineListmortgagedeal` | notified by the chain; starts and stops miner and verifier |
| Boot (`boot/`) | sequence numbers and answer channels | `NetSearch`, `Get_Block_Height`, `Get_Main_Node_List` | request and acknowledge over UDP |
| Transaction pool (`core/tx_pool.go`, `tx_list.go`, `tx_journal.go`) | `pending`, `queue`, `all`, the nonces handed out, local accounts, the journal file | `AddLocal`, `AddRemote`, `SetGasPrice`, `reset`, the eviction and journal ticks, `NewTxPool` | head events; transactions of users and peers |
| Flooding (`core/tx_pool.go`) | `SContainer`, `NContainer`, `mapNS`, the announcement channel, the list of batches, `num` | `setsTx`, `checkList`, `packageSNList`, `CheckTx`, `RecvFloodTx` | the pool announces; peers ask for numbers |
| Election (`election/election.go`) | request and answer channels, the primary lists of its caller | `NewEle`, `Listen`, `Post`, the sampling, `PrimarylistUpdate`, `ToPoUpdate` | requests and answers over `mc` |
| Identity (`ca/ca.go`) | roles, elections and topology of the current block, the store | `Start`, `Stop`, `setToLevelDB` | notified of blocks; feeds the buckets; asked by the pool |
| Peer buckets (`p2p/buckets.go`) | role, nodes outside the topology | `Start`, `Stop`, the choice of peers | messages of the identity; dials peers |
| Random seed (`random/`) | key pairs per period | vote, seed | broadcast transactions, election |
| Broadcast transactions (`broadcastTx/`) | none | event to transaction | transaction pool |
| UDP (`p2p/customize.go`) | sockets | send, receive | verifier, boot, main node list |

What is hard here:

- *Goroutines without locks.*  The leader's session is shared by its loop, by
  one goroutine per message, by its timers, and by the scheduler's calls.
  Counters are read, changed and written back without a mutex.
- *Timers that cannot be called back.*  A timer checks a flag and then sends.  A
  timer that has passed its check, or whose pointer was overwritten, fires in a
  later phase.
- *Counts in place of identities.*  The end of a phase is the equality of a
  count with another count, never a set of senders, and no message carries the
  session it is part of.
- *Unreliable UDP.*  Messages are lost, repeated and overtaken, and verifiers
  learn of blocks at different times.
- *Windows and offsets.*  Lists are made from a window of blocks that is
  computed with fixed offsets, take effect some blocks later, and are found
  again by arithmetic on the height.
- *Chains of blocking calls.*  The chain's inserter waits for the scheduler,
  which waits for the verifier, which waits for the leader's loop.  The pool
  announces with its lock held, and two `Stop`s hold the lock of their own loop.
- *State that outlives its process.*  The journal of local transactions and the
  store of topologies are read again after a crash.
- *Long legal histories.*  Replacements, demotions, evictions and reorganisations
  of the pool work on two lists, a lookup and a nonce that must keep agreeing.

What makes the components correct:

- leader: the loop is always woken, a session always ends, the caller is never
  blocked for ever, no nil pointer is followed, timers do not pile up;
- round: who decides was elected; a result rests on votes of its own session;
  while the network is fast each verifier that follows the leader has one vote and
  every block is decided;
- main node list: the windowed lists equal a replay of the chain; who was listed
  stays so until it asks for something else, also after stale lists; nobody is
  listed that did not ask;
- boot: an answer is not taken for one to another question, the search ends;
- scheduler: one role at a time; the right list in effect at each height, its
  exits paid once; nobody waits for ever;
- transaction pool: lists and lookup agree; an account with pending transactions
  can execute one; limits hold; local transactions survive limits and restarts;
- flooding: a number finds its transaction; whoever holds the lock gives it back;
  every batch is sent;
- election: who stood is in one list of the answer; every request is answered;
  substitutes are new to the topology;
- identity and buckets: what is stored is the chain's topology, over crashes;
  few peers are dialled; `Stop` returns.

`PROJECT.json` lists each hazard at the line where it bites, with the properties
that would catch it.

## 2. Modules

```
DposVote            the vote count, in machine words
  VerifierRound     all verifiers and the network between them
    MCVerifierRound
    VerifierRoundProofs
BlockDecision       what they promise together: one sequential decider,
                    implemented by VerifierRound
VerifierLeader      the goroutines inside one leading verifier
  MCVerifierLeader
  VerifierLeaderProofs
MainNodeList        leader -> miner -> header -> next period
  MCMainNodeList
  MainNodeListProofs
Scheduler           the scheduler's loop, its buffers and its channels
  MCScheduler
  SchedulerProofs
Boot                the search for the network at start-up
  MCBoot
  BootProofs
TxPool              the transaction pool, one action per operation
  MCTxPool
  TxPoolProofs
TxFlood             how the pool numbers and announces, one action per access
  MCTxFlood
  TxFloodProofs
Election            the elector's goroutines, its sampling, the substitutes
  MCElection
Identity            the identity's loop and the buckets it feeds
  MCIdentity
CommitteeProofs     theorems about Election and Identity
```

The verifier is modelled twice, at two grains.  `VerifierLeader` has one
verifier and every interleaving of its goroutines; answers come from an open
environment at any time.  `VerifierRound` has all the verifiers and the contents
of the messages; a handler there is one step.  What the first allows and the
second leaves out (a lost update of a counter inside one leader) changes *when*
a phase ends; the second has that as well, through timers that fire early, late
and in the wrong phase.

### VerifierLeader

State is that of `sessionPM`, the channel, and the program counters of
the goroutines.  `loopReg` and `hReg` hold what a goroutine has read and not yet
written back: `rxMsgCount++` is a read in one action (`StartHandler` or
`AppendAnswer`) and a write in the next (`CountAnswer`).  `pretimeout` is the timer that
the loop can still stop, `orphans` the sleeping timers it cannot, `blocked` the
timers past their check.  `Notify` chooses the role freely as far as the list
allows, in place of the arithmetic on the block number.  Messages that fail to decode
take the second branch of `StartHandler`.

### VerifierRound and DposVote

`Notify` is `waitForScheduler`; `Run` is one turn of `leaderNewProcess`;
`LeaderMsg2/4/6` and `FollowerMsg1/3/5` are the cases of the two message
switches; `SendReply` is the goroutine in which a follower answers, reading
`leadNodeInfo` only then.  Transactions are positions in a package.  The fields
`session`, `opened`, `answered` and `following` are history: the code has none of them,
no action reads them except to bound the run, and they serve the properties.
`Synchronous` restricts timing: a timer fires and a verifier learns of a block only when
no message is on its way, a verifier learns of a block only while no session is open, and nobody
gets two blocks ahead of another.  It says nothing of the order in which the
verifiers learn of one block.  The leader may be the first to: those that do not know of the
block yet drop its requests (`verify/leader.go:463`), and its timers take it on without
them, down to its own vote alone.

`BlockDecision` is the abstract specification: the next leader of the rotation
opens a session, the session is decided, then the next one opens.  It has no
messages, followers, votes or timers, and its two actions are fair.  `Decision` in
`VerifierRound` maps its `block` to the last block whose leader has learned of it (`Opened`)
and its `decided` to the sessions among the results.  `DecidesBlocksInOrder` is
what the abstract specification allows (`Safety`), `EveryBlockDecided` what it
requires (`Fairness`).

### MainNodeList

The chain is a sequence of blocks with their election transactions, any number in a block,
and, in broadcast blocks, the header's lists.  The leader sends its lists to every miner, a message
each; every miner has its own channel and its own cache, and any of them mines the next
block from what its cache holds.  `Restart` puts a miner's cache back to the boot list, as
`newBroadCastCache` does.  A block number in `of` says for which
block a list was made; it is history too.  The worker that consumes the cache
calls functions of packages that are not in the repository; `MineBlock` is what
`miner/cache.go` offers it.

### Scheduler

`TakeBlock` and `HandleBlock` are two steps because the loop reads the current
block after it has taken the notification.  `EffectDelay` and
`ElectionNetEffect` are the steps at remainder 4 and 6.  Topologies are named by
the list they were built from.  `TakeEffect` is all of the second step: the swap,
`startTask`, and, when the node has the account that deposits go to,
`offlineListmortgagedeal`, counted per list in `paid`.  What is paid comes from
`HACache` in `core/blockchain.go`, which is not modelled.  `calm` is history: it turns
false when a block is inserted before the one before has been handled.

### Boot

One node runs `NetSearch`; the boot nodes answer.  A request and the answer to it
are one message in `net`: what is late is late on either way.  Sequence numbers
are named by call and receiver, which is what makes them unique.  `needAck` is
the slice `Need_Ack`.  `Receive` is the goroutine of an answer up to the index it
finds, `Cut` the rest: `append(Need_Ack[:i], Need_Ack[i+1:]...)` on the slice as it is by then,
which panics (`crashed`) when the slice has become shorter, and which may be undone by another cut.
`queue` holds the goroutines blocked in `ChanHeight` and `ChanMainNode`, in order
of arrival, as Go serves them.  `isDefault` is the case in which the node is a
boot node itself.

### TxPool

Everything `pool.mu` guards is one record; an operation of the code is an operator
from pool to pool, named after it, and each exported call, tick or event is one
action, because each holds the lock throughout.  An account's list is the part of
`pending` or `queue` that comes from it; the loops over accounts become set
operations, with `ord` where the order of a map or of heartbeats decides the outcome.
A block is its effect: the transactions mined so far and the balances.
`head` and `current` differ after a reset that fails.  The journal file is the only
thing `Restart` keeps; it has its transactions in the order in which they came, or in
that of a Go map after a rotation, so `Restart` reads them in any order.

### TxFlood

The same pool seen from the flooding added to it, at the grain of its races: one
action per access under `pool.mu`, per read or write of the shared list and of
`num`.  `adding` is a call that holds `pool.mu` while it announces.
`num = atomic.AddUint32(&num, 1)` is an atomic addition and a plain store of
the result, so a store can come late (`TakeNumber`).  `crashed` is the nil
dereference in `sTxValIsNil`.  Batches are numbered in the order in which they are
closed, and `list` is the set of the numbers of those on the list.  `overlap` is history: two packers have run at once.

### Election

`listen` is the goroutine `Listen` with its sampling loop, `post` the goroutine
`Post` (`Take` and `PostAnswer`); `made` says which channels `NewEle` has made by now.  Weights are integers in
units of 1/320, and a draw is every candidate that some random number selects.  The code
rounds weights, differences and the random number to float32: `MayEnd` and `MayGoOn`
allow either outcome where the exact values are equal, and the random number may be 1.
`PrimarylistUpdate` and `ToPoUpdate` work on lists of their caller and share
nothing with the goroutines: a behaviour has one or the other.

### Identity

`NewBlock`, `SetToLevelDB`, `Publish` are the loop of `Identity.Start` up to each
point where it may wait; `Handle` is the loop of `Bucket.Start`.  `Crash` ends the
process anywhere and leaves the database.  The specification is `IdentitySpec`, the
nodes are `Accounts`: the names differ from those of `Election`, so that one module can extend both.  `ldb` records for each height whether the
stored topology is the chain's.

## 3. Runs

| Run | Module and cfg | Shows |
|---|---|---|
| leader_safety | MCVerifierLeader, VerifierLeaderSafety | the loop is woken, no nil pointer, timers are bounded by notifications and messages |
| leader_live | MCVerifierLeader, VerifierLeaderLive | every session ends; the scheduler is released |
| round_sync | MCVerifierRound, VerifierRoundSync | when rounds are faster than timers and do not overlap, whoever learns of a block first: votes of the session only, whoever follows the leader votes once and agrees, and `BlockDecision` is implemented, what it requires included |
| round_async | MCVerifierRound, VerifierRoundAsync | with faults and different heights: only the elected decide |
| node_list | MCMainNodeList, MainNodeList | two miners with caches of their own: lists equal a replay of the chain and list nobody who did not ask; an election once listed survives lost lists, restarts and stale headers, unless a header falls back behind it |
| node_list_exit | MCMainNodeList, MainNodeListExit | **violated**: one exit in two broadcast blocks |
| scheduler | MCScheduler, Scheduler | one role, the right list in effect and paid once, nobody waits for ever |
| boot | MCBoot, Boot | late answers are bounded and at most one call old; the search ends |
| tx_pool | MCTxPool, TxPool | lists and lookup agree, the front is executable, limits hold, locals survive restarts |
| tx_flood | MCTxFlood, TxFlood | numbers find transactions, the lock is given back, batches drain unless packers overlap, one crashes or `RecvFloodTx` keeps the lock |
| election | MCElection, Election | who is elected, kept, lost and never drawn; every request answered unless a channel was used too early |
| identity | MCIdentity, Identity | stored topologies are the chain's, few peers are dialled, `Stop` returns unless its loop waits for its lock |

Every property of a passing run has a mutant: a changed form of one definition
(a wrong bound, a missing reset, a dropped test) under which TLC finds the
property violated.

### Bounds, and why they are enough

- *Leader.*  Two handlers at once are what a lost update or a double TIMEIN
  needs; the third message makes one of them late.  Two notifications give a
  second session, with timers and counts left over from the first.  Two calls
  let Stop cut a session short after Start.  The liveness run has one handler and
  a list of two verifiers: its question is about the chain of wakeups, not
  about counting.
- *Round.*  Three verifiers and four blocks give each its turn and the first a second
  one, so that votes left over would show (`round_sync`).  With faults, two verifiers
  over two blocks with one loss, one repetition and one stale timer each
  (`round_async`): each verifier is the leader of one block and a follower of the other.
- *Node list.*  An interval of 3 gives three broadcast periods in nine blocks.  One node is
  enough for these properties: the merge looks at each node by itself, and what
  becomes of one does not depend on others.  Two miners are what a header needs to carry an
  older list than the one before it.  The two events (`MaxEvents`) are an election and an exit, in
  any order and place, one block included, or one of them and a fault: a lost or a repeated
  list or a restart.  Once there are two transactions the lists reach one
  of the miners only (`OneInformed`), while the other still mines; what a second informed
  miner adds is covered with one transaction.  The offsets of the window are those of the code, whatever the interval.
- *Scheduler.*  Interval, delay and effect time are 5, 2 and 3 in place of the code's
  10, 4 and 6: the same order with fewer blocks in which nothing happens.  Starts at
  4, 8 and 11 are before the first broadcast block, at an effect time, and
  between a broadcast block and its first step; the chain goes to 14, past the swap
  of the second broadcast block.  `MCRoleAt` gives the node another role in each period.
- *Boot.*  Three boot nodes as in `params.MainnetBootnodes`, heights 0 and 1: the
  code only compares heights with zero and with its own.  One fault is enough to
  get a call out of step: from then on each call works on the answers of the one
  before.  One race reaches each outcome of a collision.  Four calls of each kind are what
  the longest search needs under these faults; `SearchEnds` would fail with fewer.
- *Pool.*  Two accounts, one of them local, with up to three nonces and, for one nonce, a
  transaction that outbids another and one that does not; two slots and one place in the queue, so that every limit is reached by
  some transaction; heads that mine, replace, take back and impoverish.  The state
  space is finite without further bounds.
- *Flooding.*  Two transactions in one batch or two, a limit of two, two numbers: one
  batch ended by the ticker and one by the limit, and two packers at once.  One of the two
  can be demoted and removed at any moment.
- *Election.*  Places for two masters, one backup, two miners, and lists of none
  to four: shorter than, equal to and longer than each threshold.  Four samples
  allow too few, just enough and repeated draws.  Two requests fill the channels of capacity 1.
- *Identity.*  A period of three blocks has both elections and the formal block.
  One crash separates two lives of the process.  `MaxLink` and the smallest size of
  buckets in use are 1 instead of 3 and 64: with three or four nodes both sides of each test are met.

`CHECK_DEADLOCK FALSE` is set except for `tx_pool`: the environments are bounded, and
when they are spent the system rests, as a node does when no block comes.

### Fairness

- Goroutines that can run do run (weak fairness on the loop, the handlers, the
  timers' wake-up, `GenNetwork`).
- Senders blocked on a channel are queued first come first served in Go's
  runtime, so each send is strongly fair although the buffer is full now and then.
- `select` picks at random among ready channels; one that is ready again and
  again is picked in the end: strong fairness on `TakeBlock` and
  `TakeMainNodeList`.
- `NotifyVerifier` of the scheduler is weakly fair.  That is what
  `SchedulerReleased` of `leader_live` shows of the verifier.
- In `boot`, the boot nodes answer what is not lost.  The bounds on
  faults and races are part of the assumption of `SearchEnds`: a search
  whose calls collide for ever need not end.
- In `round_sync`, messages that are not lost are delivered and blocks arrive.
  The environment of `VerifierLeader` has no fairness at all: no answer ever
  needs to come.
- In `tx_flood`, a packer is strongly fair: it competes for `pool.mu`, and Go's
  mutex does not starve a waiter.  `checkList` and a call that holds `pool.mu` are weakly
  fair.  Nobody is obliged to add, remove or send anything.
- In `election` and `identity` the loops run; a `select` with two ready cases takes each
  in the end (strong fairness on `Take`, `Publish` of `Post`, and the two `Quit`s).

## 4. Proofs

TLAPS checks every theorem below, for every value of the constants.  Nothing is assumed but
the constants' `ASSUME`s, and three hypotheses that are named where they are used.  The `ASSUME`s
say that bounds are numbers, that sets of nodes, accounts and transactions are finite, that intervals are in
the order of the code's own, that a transaction's `CostALL()` is no less than its `Cost()`, that the
election has places and its requests name no node twice, and that the pool's
`PriceBump` and `AccountSlots` are at least 1.  `sanitize` requires this of `PriceBump` and not of
`AccountSlots`, which is 16 by default; `GlobalSlots` may be 0, as in a test of the pool.  In each module the steps `Init => Inv` and
`Inv /\ [Next]_vars => Inv'` are lemmas with one step per action; a theorem follows with PTL.

**VerifierLeaderProofs** (any handlers, lists and bounds): `TypeCorrect`, `LoopIsAlwaysWoken`
(`NoLostWakeup`), `PretimeoutIsSet` (`NoNilDeref`), `TimersDoNotPileUp` (`TimersBounded`).
None of them is inductive.  `TypeOK` alone does not exclude a TIMEIN at `sessionDpos`, after
which `sessionState++` would leave the type.  The invariant is the conjunction of `TypeOK` with

- `LoopInv`, which says which session states go with each place in the loop (at
  "recv" the session is idle, just opened, or waits for answers), so that
  `sessionState++` starts from such a state;
- `WakeInv`, the wakeup that is due at each place, including the interval in
  which Stop or waitForScheduler has changed the state under the loop;
- `FirstRoundInv`, what is true until the loop has been round once: no
  answer has been kept, so a late vote cannot meet an expected count of zero.

`TimersBounded` needs a fourth, `TokenInv`: every timer, and everything that may still lead to
one (a status in the channel, a handler, the place of the loop), is paid for by a notification or
a message of its own.

**VerifierRoundProofs** (any verifiers, wealth, blocks, faults).  `TypeCorrect`, and
`ElectedDecide` (`OnlyElectedDecide`): who takes itself for the leader, or has a timer armed
or stale that may still open one, was elected for a block it has seen (`ElectedInv`).
Under `SynchronousNetwork` (the messages are faster than the timers, none is lost or repeated, rounds
do not overlap and nobody gets two blocks ahead: the setting of `round_sync`; the order in which verifiers
learn of a block is free), `FollowersVote` (`FollowersVoteOnce`) and
`VotesAreOfTheSession` (`VotesOfThisSession`).  The invariant `RoundInv` accounts for the
followers of an open session one by one: each either owes something (a request, a reply goroutine or
an answer, exactly one) or is done, and what the leader has counted, listed and been voted is
what the done ones sent.  A request to a verifier that follows another leader is on its way to be
dropped and counts for nothing (`Ignored`).  That is what a count without identities and a message without a session
rest on.

`DecidesInOrder` (`DecidesBlocksInOrder`) is the refinement: under `SynchronousNetwork` every step of the
round is a step of `BlockDecision` or a stutter.  `OrderInv` adds to the above that everyone has learned of the same
block or of one more, and which of the two is the last to be opened; that a verifier has opened as many sessions as it led blocks,
which is what makes two sessions of one leader differ; and that the sessions decided are those of all
blocks up to the open one, or of all before it.  The decision itself has to pass `DposTx`.  The loop of
`DposTx` is a recursive function, and `UnanimityPasses` shows from the least vote at which it would fail
that unanimous votes pass, under the theorem's second hypothesis: `WealthFits`, every verifier has some
wealth, and four times their number times the largest is less than `2^64`.  It is the point where the
arithmetic of `verify/leader.go:536` would wrap around, and a unanimous vote could be lost.

**MainNodeListProofs** (any miners, nodes, interval above two, chains, faults and restarts).
`MembersAsked` (`MembersElectedThemselves`), `ListsAreRight` (`ListsFollowChain`), `ElectionsLast`
(`ElectionsSurvive`).  `MadeInv` says that every list in a header, in a miner's cache, in its
channel or on its way is the boot list or was made by a leader two blocks before the block it names, from the
chain as it was then.  That lists keep what the theorems say is then a fact about
broadcast blocks, and is proved from the first block at which it would fail: its list was made by
merging a window with the list of an earlier broadcast block, and a transaction that decides a
node's role is either in the window or was decided before it.

**SchedulerProofs** (any interval, delays, heights and roles).  `TypeCorrect`;
`OneRole` (`WorkOfOneRole`), through the lemma that `StartTask` takes any state with the work of
one role to another; `PaidOnce` (`ExitsPaidOnce`) and `RightList` (`ListInEffect`).  While blocks
are handled one at a time (`calm`), `CalmInv` ties the height, the loop's place and the two
buffers together, and `PaidInv` says that what has been paid took effect and that a buffer about to
take effect is new.  `RightList` has the hypothesis `SyncOutsideWindow`: no start height is in
the window between the two steps of an election.  Without it the property is false (finding 4).

**BootProofs** (any three boot nodes, heights, numbers of calls and faults).
`LateAnswersAreFew` (`LateAnswersBounded`) and `AnswersAreOneCallLate` (`OneCallLate`).
`CalmInv` holds until two goroutines meet in `Need_Ack`: a number of an old call is never in it,
the blocked goroutines and the answers still due are no more than two beyond the waits that are
left (`RoomInv`), and those of the call before are first in line and no more than those waits
(`AgeInv`).  A call that has done its waits has therefore left nothing older than itself.

**TxPoolProofs** (any transactions, accounts, chains, prices and limits).  `PoolIsAccounted`
(`Accounted`), `FrontIsExecutable` (`FrontExecutable`), `PoolIsBounded` (`PoolBound`), and the action
properties `LocalsStay` (`LocalsKept`) and `PendingStaysOrderly` (`OrderlyUntilReorg`).  `Good` is what each operator of the model
keeps, and there is a lemma for each:

- `Sound`: types, the lookup is the two disjoint lists, nonces are unique;
- `Bounded`: the limit, with a pool made room in by `Cheapest`, whose result is either
  large enough or everything there is;
- `FrontHeld`: a nonce beyond the state's has been handed out only behind a transaction at the
  state's nonce that can be paid.  `FrontExecutable` is not inductive without it:
  `promoteExecutables` promotes what follows the nonce handed out, whatever is pending;
- `Fronted`: `FrontExecutable`, with no outdated transaction pending.

`Spares` is a relation between two pools, and transitive: each local transaction is still there, is
outdated, cannot be paid, or has been outbid.  Every operator spares what it is given.  A
restart does not start from the old pool, and has its own invariant of the batch (`Loads`,
`HeldBy`).

`Tidy` says that the nonces of an account's pending transactions are exactly those from the state's to
the next one to hand out, without it.  Of a pool that is `Good` it is the same as `PendingContinuous` with
`NextNonce` (`TidyMeans`), which say nothing of the next nonce of an account that has nothing pending;
that is `FrontHeld`'s part.  Whatever takes transactions away also takes, or puts back in the queue, what
follows them and lowers the nonce to the first of them (`CutTidy`, for `removeTx` and for the equalizing of
allowances).  A run that is ready starts exactly at the next nonce, since a lower one that is
not outdated is pending already (`PromoteReadyTidy`).  A new head on a chain that has grown reinjects nothing, and demotion keeps
what was `Gapless` from the new state's nonce on.  After a reorganisation the property may fail: the
theorem, like the run, speaks of steps in which the chain grows.

A batch is a recursive function, and what holds of it is proved from the least
length at which it would fail, which needs no induction theorem.

**TxFloodProofs** (any finite set of transactions, any limits).  `NumbersAreFound` (`NumbersFind`).  `Counted` says that the last number is the
number of transactions that have one, or one more for the packer about to give it, and
`FoundRight` and `FoundAll` relate `mapNS`, `NContainer` and the packer between its two writes.

**CommitteeProofs** (any nodes, weights, deposits, places, requests and buckets).

*Election.*  `MinersAreComplete` (`MinersComplete`), `ValidatorsAreAccounted`
(`ValidatorsAccounted`).  They speak of answers already
published, which were computed many steps earlier by a sampling loop that draws one candidate at a time.
The invariant `ElectorInv` carries them back to it: `SampleOk` says what the loop has drawn at each of
its steps (only candidates of the request, too few of them to end the loop, no first list until `M` are
drawn and one of `M` from then on), and `AnswerOk` what every answer that waits in a channel or in `Post` says.  `InOrder` (the sort by place in the request)
is a recursive function; that it returns the drawn candidates, each once and in order, is
proved from the least index at which it would fail.  Which candidates can be drawn plays no
part: the theorems hold for any draws, however the arithmetic rounds.  The proofs rest on `ElectionAssumption`:
the numbers of places are positive and no request names a node twice.  `SubstitutesAreFresh`
(`SubstitutesFresh`) is about the lists of the caller; `OwnerInv` types them and says that what has
been substituted was fresh when it was, which `PrimarylistUpdate` keeps because it adds to the lists only.

*Identity.*  `LedgerIsRight` (`LedgerRight`): from the first
full topology on, a running loop has the chain's topology at the height it works on, and a
process that is off has seen none (`LedgerInv`).  `DialsAreBounded` (`DialBound`): what has been dialled
for a message is within the limit of each way of choosing peers (`DialInv`, from `BucketsAssumption`).

Only model-checked:

- liveness (`SessionEnds`, `SchedulerReleased`, `InserterReleased`, `SyncTakesEffect`,
  `SearchEnds`, `AdderReleased`, `Drains`, `Answered`, `StopsReturn`, and `EveryBlockDecided`, the
  fairness of the refinement): fairness and `ENABLED` are out of the prover's reach;
- `LastNeedsWeight`: it depends on the size of rounding errors.  For the few candidates
  of the run these are smaller than the distance of two weights; for any list and any weights
  they are not, and the statement would not be true of the code.

## 5. Findings

One disagreement between the code and its own comments has a run of its own:

1. `verify/interface.go:96` (run `node_list_exit`): the windows of two periods overlap by
   two blocks; an exit in the overlap is listed, and its deposit paid back, twice.

The modules also define properties that the code's comments or tests state and the code
does not have.  Each is violated as soon as it is added to the invariants of the
configuration named:

2. `FinishFollowsAnswers` (VerifierLeaderSafety.cfg; `verify/leader.go:427`, "finish" at :43):
   the last answer and the timer both end a state.  The TIMEIN that lost the race
   is taken in the next waiting state, which has no answer yet.
3. `AloneIfNobodyAlive` (VerifierRoundAsync.cfg; `verify/leader.go:259`, "no followers alive"):
   a phase in which nobody answers within its second counts as a dead network; the
   leader's own vote then passes alone.  No message has to be lost or late: a leader that learns
   of its block before the others is not followed by any of them yet (`FollowersVoteOnce` counts those
   that do follow).
4. `ListInEffect` with a start height of remainder `blockEffectDelay`, or between it
   and `electionNetEffterTime` (Scheduler.cfg, StartHeights = {7}; `scheduler/scheduler.go:295`,
   comment at :143): the node swaps to a buffer that nobody filled.
5. `ThreeNodesAllZero` (Boot.cfg; `boot/boot.go:308`, comment at :483): a late answer is
   counted by the next call, beside the new answer of the same node; a boot node may
   so start a new chain although another has one.
6. `NextNonce` (TxPool.cfg; `core/tx_pool_test.go:103`, `validateTxPoolInternals`):
   after a reorganisation whose returned transactions are partly refused, pending has a gap.
   The same happens in go-ethereum.
7. `MastersFilled` (Election.cfg; `election/election.go:452`): the loop that makes up missing
   masters never runs (`Ele.M-Ele.J < i` from 0), and the slice after it drops one, or panics.
8. `VotesOfThisSession` (VerifierRoundAsync.cfg; `verify/leader.go:680`, where the votes of the last
   session are cleared): no reply carries its session, and one to an earlier session that is late is
   counted in the next session of the same leader.
9. `OnlyBottomNodes` (Identity.cfg; `p2p/buckets.go:94`): a node that was once outside the
   topology keeps `RoleBucket` when it enters it.

Met while modelling, and part of the models as the code has it, each named in the
property that leaves room for it:

- *Main node list.*  With several miners and a lost list or a restart, a header can carry an older
  list than the broadcast block before it.  The next list is made from that header, so an election
  that was only in lists since then is lost (the last condition of `ElectionsSurvive`).
- *Scheduler.*  Two fast blocks are handled as the later one twice: the buffers are swapped
  twice and an old list's exits are paid again (`calm`).  `HACache` is lost at a restart, never
  cleared, and updated after the notification.  `big.NewInt(0) != amounts` compares pointers.
- *Pool.*  `add` discards others before it finds out that the new transaction is refused.  A local
  transaction that replaces a pending one marks no local account.  `validateTx` checks
  `CostALL()`, `Filter` only `Cost()`.  An account that was never promoted has no heartbeat and is
  evicted at the first tick.  The journal keeps transactions that have left the pool until it is rotated;
  at a restart one of them may come back in the place of the one that has its nonce by now, if that one
  does not outbid it (`core/tx_journal.go:59`; the last case of `LocalsKept`, which the attempt to
  prove the property without it brought out).
- *Flooding.*  `RecvFloodTx` calls `addTx` with the read lock held: from then on nobody else
  gets the lock (`recv = "add"`, an escape of `Drains`).  A transaction removed between its announcement and
  its number is a nil dereference (`crashed`); one removed between `setTxNum` and `setnTx` stays
  in `NContainer`; one removed from pending stays in `SContainer`.  Packers that overlap mix up
  numbers (`overlap`).  `SContainer` is keyed by pointers, so a peer's signature finds nothing.
- *Election.*  `NewEle` makes the answer channels after it starts the goroutines that use them
  (`Disabled`).  The last candidate of a list is never drawn when it is lighter than the one
  before it (`LastNeedsWeight`).  `ToPoUpdate` fills places in the order of a Go map, and gives an
  account outside the topology position 0.
- *Identity.*  `Stop` waits for a loop that waits for the lock `Stop` holds
  (`IdentityLocked`, `BucketsLocked`).  The case for block 0 is never reached.  The ring of buckets
  never turns, `selfBucket` matches no case and the inner count stays 0, since all three
  compare pointers or values of different types.  A node may dial itself.

## 6. Not modelled

- go-ethereum outside the pool: chain, wire protocol, EVM, accounts, RPC.  Only the pool sees
  reorganisations; blocks are final in the other models.
- Of the pool: the broadcast transactions in `Special` and the database they go to
  (`insertdb`, whose per-key map is overwritten by each sender; `GetAllSpecialTxs` writes to a nil
  map), `AddErrorTx` and `BlockTiming` (nothing calls `AddErrorTx`), statistics, subscriptions.
- The amounts of a payback and the cache they come from.
- `boot/handlemessage.go`: methods of a type that the repository does not
  define; `main` calls `NetSearch` of `boot.go`.
- `random/`: cryptography over events of packages that are missing, sequential.
- `broadcastTx/`, `core/verify.go`: no state of their own.
- Packages and functions that the code uses and the repository does not hold (`mc`,
  `depoistInfo`, `manhash`, `ca.Ide.Get`, `GetRoleGroup`, `GetElectType`): modelled from their use.
- Socket I/O and encodings in `p2p/customize.go`: their unreliability is the
  network of `VerifierRound` and `MainNodeList`.

Simplifications inside the modules, none of which a property depends on unless it says so:

- `MakeDPOS` writes `sessionIdle` once, the code twice (`verify/leader.go:213`, `:233`): a session opened
  between the two writes, which the second would end, is left out.  `AppendAnswer` appends to the list
  and reads `rxMsgCount` (`:393`) in one step.
- `SortedVerifiers` breaks a tie of equal wealth by `CHOOSE`; the code's sort is not stable.
- `Strike` of `Boot` looks for the number and cuts it out of `Need_Ack` in one step when the
  call itself does it; only the goroutines of answers have two.
- `RemoveTxs` of `TxPool` removes a transaction itself, the code whatever has its nonce in the list: the same
  as long as `Accounted` holds, which the run checks.  `ChainHead` takes the
  transactions of a reorganisation back as one block or as one block each.
- `TakeNumber` leaves out `nodeNum<<25`: it comes from `idList`, which nothing fills (`ca/ca.go:113`), and is
  the same for all numbers of a node.  `SetTxNum` is `getTxbyS` and `setTxNum`, which take the lock in turn.
- `Percent` of `Election`, the votes of an elected node, is in exact arithmetic.
- `SetToLevelDB` stores every block; the code ignores an error of `ldb.Put` (`ca/ca.go:390`), after which
  `LedgerRight` would not hold of that height.  `StopIdentity` is called at most once in a life of the
  process: a second call would send on a closed channel.
- An error of `offlineListmortgagedeal` is only logged by the code, and not modelled: `ExitsPaidOnce` counts
  attempts.

## 7. Plan

All components that carry state of their own are modelled as far as the repository
holds their code, and every invariant and action property that a passing run checks, except
`LastNeedsWeight`, is stated by a theorem.
What is left is liveness, which stays with TLC, and the go-ethereum code that the components rest on.
