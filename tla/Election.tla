------------------------------ MODULE Election ------------------------------
(***************************************************************************)
(* The elector (election/election.go): NewEle starts the goroutines Listen *)
(* and Post, Listen turns each request for an election into an answer by   *)
(* weighted sampling, Post publishes the answers; and the two functions by *)
(* which an owner of primary lists keeps them and fills a topology.        *)
(*                                                                         *)
(* Weights are exact, in units of 1/320; the code rounds them to float32.  *)
(* A draw of the random generator is any value: all that counts is which   *)
(* of the candidates it selects.                                           *)
(***************************************************************************)
EXTENDS Integers, FiniteSets, Sequences, SequencesExt, FiniteSetsExt

CONSTANTS
    Nodes,          \* candidates
    Deposit,        \* [Nodes -> deposit in millions, or Nil]
    OnlineTime,     \* [Nodes -> time online, or Nil]
    Requests,       \* requests, [kind, list], lists without repetition
    M, P, N,        \* masters and backups of the validators, masters of the miners
    MaxSample,      \* samples of one election
    Cap,            \* capacity of the channels
    MaxRequests,    \* bound: requests made
    Topology,       \* the accounts by position
    Offline,        \* lists of accounts that go offline
    MaxOnline       \* bound: calls of PrimarylistUpdate

Nil == -1
Kinds == {"miner", "validator"}
Lists == {q.list : q \in Requests}

ASSUME ElectionAssumption ==
    /\ M \in Nat \ {0} /\ P \in Nat \ {0} /\ N \in Nat \ {0} /\ MaxSample \in Nat \ {0}
    /\ \A q \in Requests : q.kind \in Kinds /\ q.list \in Seq(Nodes) /\ IsInjective(q.list)
    /\ \A offline \in Offline : offline \in Seq(Nodes)

VARIABLES
    made,       \* the kinds whose answer channel NewEle has made
    requests,   \* [Kinds -> requests in the channel]
    asked,      \* requests made so far
    listen,     \* the goroutine Listen
    answers,    \* [Kinds -> answers in the channel]
    post,       \* the goroutine Post: the channels its select waits on
    posted,     \* the answers published, in order
    primary,    \* <<Q0, Q1, Q2>>
    online,     \* calls of PrimarylistUpdate so far
    change      \* the result of the last ToPoUpdate

elector == <<made, requests, asked, listen, answers, post, posted>>
owner == <<primary, online, change>>
vars == <<elector, owner>>

-----------------------------------------------------------------------------
(* CalcAllValueFunction and Normalize.                                     *)

Or(x, d) == IF x = Nil THEN d ELSE x

LastTime(t) ==
    IF t <= 64 THEN 1 ELSE IF t <= 128 THEN 2 ELSE IF t <= 256 THEN 4 ELSE IF t <= 512 THEN 8 ELSE 16

\* 0.2 for the transactions per second, and a quarter of the weight of the stake.
StakeAndTps(stk) ==
    IF stk >= 40000 THEN 106 ELSE IF stk >= 20000 THEN 59 ELSE IF stk >= 10000 THEN 36 ELSE 16

Weight == [n \in Nodes |-> LastTime(Or(OnlineTime[n], 300)) * StakeAndTps(Or(Deposit[n], 0))]

\* The weights of the first i candidates together.
UpTo(list) ==
    LET sum[i \in 0 .. Len(list)] == IF i = 0 THEN 0 ELSE sum[i - 1] + Weight[list[i]]
    IN  sum
Total(list) == UpTo(list)[Len(list)]

\* int(100 * item.Value), in exact arithmetic.
Percent(list, n) == (100 * Weight[n]) \div Total(list)

-----------------------------------------------------------------------------
(* Sampling.                                                               *)

\* Mutant: the comparison comes before the subtraction.
LeftBefore(list, r, i) == r - UpTo(list)[i - 1]

\* Sample1NodesInValNodes: what is left of the random number at candidate i.
Left(list, r, i) == r - UpTo(list)[i]

\* The values, the differences and the random number, which is below 1, are rounded to
\* float32: rand01 may be 1, and where both sides are equal the comparison may have
\* either outcome.  The errors are smaller than the distance of two weights as long as
\* a list has not hundreds of candidates.
MayEnd(list, r, i)  == Left(list, r, i) <= Weight[list[i]]
MayGoOn(list, r, i) == Left(list, r, i) >= Weight[list[i]]

Sample1NodesInValNodes(list, r) ==
    {list[i] : i \in {j \in DOMAIN list : /\ MayEnd(list, r, j)
                                         /\ \A k \in 1 .. j - 1 : MayGoOn(list, r, k)}}

\* What can be drawn: a comparison changes at one of these random numbers only.  The
\* first candidate, which the code also takes when the loop runs out, always can.
Draws ==
    [list \in Lists |->
        UNION {Sample1NodesInValNodes(list, r) :
                 r \in ({0} \cup {UpTo(list)[i] + Weight[list[i]] : i \in DOMAIN list}
                            \cup {UpTo(list)[i] : i \in DOMAIN list})
                        \cap 0 .. Total(list)}]

\* sortfunc: the candidates that have a stock, with it, in the order of the list.
InOrder(list, stock) ==
    LET sorted[i \in 0 .. Len(list)] ==
            IF i = 0 THEN <<>>
            ELSE IF list[i] \in DOMAIN stock
                 THEN Append(sorted[i - 1], [node |-> list[i], stock |-> stock[list[i]]])
                 ELSE sorted[i - 1]
    IN  sorted[Len(list)]

\* CalcRemainingNodesVotes.
One(S) == [n \in S |-> 1]

NodesOf(entries) == {entries[i].node : i \in DOMAIN entries}

Answer(q, masters, backups, candidates) ==
    [request |-> q, masters |-> masters, backups |-> backups, candidates |-> candidates]
AllElected(q) == Answer(q, InOrder(q.list, [n \in ToSet(q.list) |-> Percent(q.list, n)]), <<>>, <<>>)
Panic == [panic |-> TRUE]

\* PricipalValNodes[1:] of ValNodesSelected, for each list that is too short: the
\* loop before it never runs.
Dropped(masters, backups, rest) ==
    (IF Len(masters) < M /\ rest # <<>> THEN 1 ELSE 0)
        + (IF Len(backups) < P /\ rest # <<>> THEN 1 ELSE 0)

\* Mutant: the backups are all that were drawn.
ValidatorAnswerTwice(q, dict, first) ==
    LET chosen == IF Cardinality(DOMAIN dict) <= M THEN DOMAIN dict ELSE first
    IN  Answer(q, InOrder(q.list, [n \in chosen |-> dict[n]]), InOrder(q.list, dict),
               InOrder(q.list, One(ToSet(q.list) \ DOMAIN dict)))

\* SampleMPlusPNodes after its loop, and ValNodesSelected.  dict counts the
\* samples, first is FirstMMinusJNodes.
ValidatorAnswer(q, dict, first) ==
    LET drawn == DOMAIN dict
        chosen == IF Cardinality(drawn) <= M THEN drawn ELSE first
        masters == InOrder(q.list, [n \in chosen |-> dict[n]])
        backups == InOrder(q.list, [n \in drawn \ chosen |-> dict[n]])
        rest == InOrder(q.list, One(ToSet(q.list) \ drawn))
        d == Dropped(masters, backups, rest)
    IN  IF d > Len(masters) THEN Panic
        ELSE Answer(q, SubSeq(masters, d + 1, Len(masters)), backups, rest)

\* Mutant: the masters are not made up from the backups.
MinerAnswerUnfilled(q, dict) ==
    Answer(q, InOrder(q.list, dict), InOrder(q.list, One(ToSet(q.list) \ DOMAIN dict)), <<>>)

\* SampleMinerNodes after its loop, and MinerNodesSelected: backups make up the N.
\* One that becomes a master keeps int(item.Value), which is 0.
MinerAnswer(q, dict) ==
    LET rest == InOrder(q.list, [n \in ToSet(q.list) \ DOMAIN dict |-> 0])
        fill == NodesOf(SubSeq(rest, 1, N - Cardinality(DOMAIN dict)))
        masters == [n \in DOMAIN dict \cup fill |-> IF n \in fill THEN 0 ELSE dict[n]]
    IN  Answer(q, InOrder(q.list, masters),
               InOrder(q.list, One(ToSet(q.list) \ DOMAIN masters)), <<>>)

-----------------------------------------------------------------------------
Idle == [pc |-> "idle"]
Send(a) == IF a = Panic THEN [pc |-> "panic"] ELSE [pc |-> "send", answer |-> a]

\* The elector and the owner of the lists share nothing: a behaviour of the model
\* is one of the elector or one of the owner.
Apart == online = 0 /\ change = <<>>
Runs == listen.pc # "panic" /\ Apart
Unused == asked = 0 /\ made = {} /\ post = {"select"}

Init ==
    /\ made = {}
    /\ requests = [k \in Kinds |-> <<>>]
    /\ asked = 0
    /\ listen = Idle
    /\ answers = [k \in Kinds |-> <<>>]
    /\ post = {"select"}
    /\ posted = <<>>
    /\ primary = << <<>>, <<>>, <<>> >>
    /\ online = 0
    /\ change = <<>>

\* NewEle starts Listen and Post before it makes the channels of the answers.
NewEle ==
    /\ Runs
    /\ made # Kinds
    /\ made' = IF made = {} THEN {"miner"} ELSE Kinds
    /\ UNCHANGED <<requests, asked, listen, answers, post, posted, owner>>

Request(q) ==
    /\ Runs
    /\ asked < MaxRequests
    /\ Len(requests[q.kind]) < Cap
    /\ asked' = asked + 1
    /\ requests' = [requests EXCEPT ![q.kind] = Append(@, q)]
    /\ UNCHANGED <<made, listen, answers, post, posted, owner>>

Masters(k) == IF k = "miner" THEN N ELSE M

\* Mutant: a request without candidates is not answered.
TakeSkipsEmpty(k) ==
    /\ listen = Idle
    /\ requests[k] # <<>>
    /\ LET q == Head(requests[k])
       IN  listen' = IF q.list = <<>> THEN Idle
                     ELSE IF Len(q.list) <= Masters(k) THEN Send(AllElected(q))
                     ELSE [pc |-> "sample", request |-> q, dict |-> <<>>, first |-> {}, i |-> 0]
    /\ requests' = [requests EXCEPT ![k] = Tail(@)]
    /\ UNCHANGED <<made, asked, answers, post, posted, owner>>

\* Listen takes a request: a short list is elected as a whole.
Take(k) ==
    /\ listen = Idle
    /\ requests[k] # <<>>
    /\ LET q == Head(requests[k])
       IN  listen' = IF Len(q.list) <= Masters(k) THEN Send(AllElected(q))
                     ELSE [pc |-> "sample", request |-> q, dict |-> <<>>, first |-> {}, i |-> 0]
    /\ requests' = [requests EXCEPT ![k] = Tail(@)]
    /\ UNCHANGED <<made, asked, answers, post, posted, owner>>

\* One turn of the sampling loop.
Sample ==
    /\ listen.pc = "sample"
    /\ \E n \in Draws[listen.request.list] :
          LET q == listen.request
              drawn == DOMAIN listen.dict \cup {n}
              dict == [m \in drawn |-> (IF m \in DOMAIN listen.dict THEN listen.dict[m] ELSE 0)
                                           + (IF m = n THEN 1 ELSE 0)]
              goal == IF q.kind = "miner" THEN N ELSE M + P
              first == IF Cardinality(drawn) = M /\ listen.first = {} THEN drawn ELSE listen.first
              ends == Cardinality(drawn) = goal \/ listen.i + 1 = MaxSample
          IN  listen' = IF ~ends THEN [listen EXCEPT !.dict = dict, !.first = first, !.i = @ + 1]
                        ELSE Send(IF q.kind = "miner" THEN MinerAnswer(q, dict)
                                  ELSE ValidatorAnswer(q, dict, first))
    /\ UNCHANGED <<made, requests, asked, answers, post, posted, owner>>

\* The send: on a channel that is still nil, it never ends.
Reply ==
    /\ listen.pc = "send"
    /\ LET k == listen.answer.request.kind
       IN  IF k \in made
           THEN /\ Len(answers[k]) < Cap
                /\ answers' = [answers EXCEPT ![k] = Append(@, listen.answer)]
                /\ listen' = Idle
           ELSE listen' = [pc |-> "nil"] /\ UNCHANGED answers
    /\ UNCHANGED <<made, requests, asked, post, posted, owner>>

\* Post enters its select with the channels that are made by then.
Select ==
    /\ Runs
    /\ post = {"select"}
    /\ post' = made
    /\ UNCHANGED <<made, requests, asked, listen, answers, posted, owner>>

PostAnswer(k) ==
    /\ Runs
    /\ k \in post
    /\ answers[k] # <<>>
    /\ posted' = Append(posted, Head(answers[k]))
    /\ answers' = [answers EXCEPT ![k] = Tail(@)]
    /\ post' = {"select"}
    /\ UNCHANGED <<made, requests, asked, listen, owner>>

-----------------------------------------------------------------------------
(* What the owner of the primary lists calls.                              *)

\* PrimarylistUpdate(Q0, Q1, Q2, node, flag).
PrimarylistUpdate(node, flag) ==
    /\ Unused
    /\ online < MaxOnline
    /\ online' = online + 1
    /\ primary' = [primary EXCEPT ![flag + 1] = IF flag = 0 THEN <<node>> \o @ ELSE Append(@, node)]
    /\ UNCHANGED <<elector, change>>

\* Mutant: those of Q1 that are in the topology stay substitutes.
FreshExceptQ1(i) == ToSet(primary[i]) \ (IF i = 2 THEN {} ELSE ToSet(Topology))

\* What is left of Q0map, Q1map or Q2map.
Fresh(i) == ToSet(primary[i]) \ ToSet(Topology)

\* The order of a map's elements is any order.
Substitutes ==
    {a \o b \o c : a \in SetToSeqs(Fresh(1)), b \in SetToSeqs(Fresh(2)), c \in SetToSeqs(Fresh(3))}

\* The position of an account, 0 for one that is not in the topology.
Position(b) ==
    IF b \in ToSet(Topology) THEN (CHOOSE i \in DOMAIN Topology : Topology[i] = b) - 1 ELSE 0

ToPoUpdate(offline) ==
    /\ Unused
    /\ \E substitute \in Substitutes :
          change' = [i \in 1 .. Min({Len(offline), Len(substitute)}) |->
                        [A |-> substitute[i], B |-> offline[i], position |-> Position(offline[i])]]
    /\ UNCHANGED <<elector, primary, online>>

-----------------------------------------------------------------------------
Next ==
    \/ NewEle
    \/ \E q \in Requests : Request(q)
    \/ \E k \in Kinds : Take(k) \/ PostAnswer(k)
    \/ Sample
    \/ Reply
    \/ Select
    \/ \E node \in Nodes, flag \in 0 .. 2 : PrimarylistUpdate(node, flag)
    \/ \E offline \in Offline : ToPoUpdate(offline)

\* The goroutines and NewEle keep running.
Spec ==
    /\ Init /\ [][Next]_vars
    /\ WF_vars(NewEle) /\ WF_vars(Sample) /\ WF_vars(Reply) /\ WF_vars(Select)
    /\ \A k \in Kinds : SF_vars(Take(k)) /\ SF_vars(PostAnswer(k))

-----------------------------------------------------------------------------
Published(k) == {a \in ToSet(posted) : a.request.kind = k}

\* x stands before y in the list.
Before(list, x, y) ==
    \E k \in DOMAIN list : x = list[k] /\ \E l \in k + 1 .. Len(list) : y = list[l]

\* The lists of an answer are in the order of the request's list, whatever order
\* the maps were read in: nodes that draw the same numbers answer the same.
Ordered(entries, list) ==
    \A i, j \in DOMAIN entries : i < j => Before(list, entries[i].node, entries[j].node)

\* SampleMinerNodes: every miner that stood is in one list of the answer, and as
\* many as there are places are masters, however few were drawn.
MinerComplete(a) ==
    /\ NodesOf(a.masters) \cap NodesOf(a.backups) = {}
    /\ NodesOf(a.masters) \cup NodesOf(a.backups) = ToSet(a.request.list)
    /\ Len(a.masters) = Min({N, Len(a.request.list)})
    /\ Ordered(a.masters, a.request.list) /\ Ordered(a.backups, a.request.list)
MinersComplete == \A a \in Published("miner") : MinerComplete(a)

\* ValNodesSelected: no validator is in two lists of the answer.  At most two are
\* in none, and those only when too few were drawn to fill the masters and the
\* backups; a candidate that was never drawn is not among them.
ValidatorAccounted(a) ==
    LET lost == ToSet(a.request.list) \ (NodesOf(a.masters) \cup NodesOf(a.backups)
                                            \cup NodesOf(a.candidates))
    IN  /\ NodesOf(a.masters) \cap NodesOf(a.backups) = {}
        /\ (NodesOf(a.masters) \cup NodesOf(a.backups)) \cap NodesOf(a.candidates) = {}
        /\ Cardinality(lost) <= 2
        /\ lost # {} => Len(a.backups) < P /\ a.candidates # <<>>
        /\ \A b \in {a.masters, a.backups, a.candidates} : Ordered(b, a.request.list)
ValidatorsAccounted == \A a \in Published("validator") : ValidatorAccounted(a)

\* Sample1NodesInValNodes subtracts a value and then compares with the same one: the
\* last candidate of a list is not drawn when it weighs less than the one before it,
\* however often and with whatever random numbers.
LastNeedsWeight ==
    listen.pc = "sample" =>
        LET list == listen.request.list
        IN  Last(list) \in DOMAIN listen.dict =>
                Weight[Last(list)] >= Weight[list[Len(list) - 1]]

\* Post or Listen has used a channel of the answers before NewEle made it, or
\* ValNodesSelected has cut an empty slice.
Disabled == post \notin {{"select"}, Kinds} \/ listen.pc \in {"nil", "panic"}

\* Every request is answered in the end, unless the elector is disabled for ever.
Answered == <>[](Len(posted) = asked \/ Disabled)

\* ToPoUpdate: a substitute is no node of the topology, and it fills two places
\* only if it is in two of the primary lists.
SubstitutesFresh ==
    /\ \A i \in DOMAIN change : change[i].A \notin ToSet(Topology)
    /\ \A i, j \in DOMAIN change : i # j /\ change[i].A = change[j].A =>
          \E m, n \in 1 .. 3 : m # n /\ change[i].A \in ToSet(primary[m]) \cap ToSet(primary[n])

\* ValNodesSelected, "use the remaining nodes to make up M-J": with enough
\* candidates there are M masters.
MastersFilled ==
    \A a \in Published("validator") : Len(a.request.list) >= M => Len(a.masters) = M
=============================================================================
