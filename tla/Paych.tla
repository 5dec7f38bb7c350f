------------------------------- MODULE Paych -------------------------------
(***************************************************************************)
(* The payment channel manager (paychmgr): callers ask for funds in the    *)
(* channel between two addresses, the requests that wait are merged, filled*)
(* from the funds of the channel that nobody reserved or by one message,   *)
(* and the store says what the channel holds and what message is out.      *)
(*                                                                         *)
(*  - One channelAccessor is modelled, that is one pair of addresses: pairs*)
(*    share the store, whose records they do not share.                    *)
(*  - processQueue holds ca.lk from start to end (job), but contexts end,  *)
(*    the chain moves and the node may stop meanwhile.  What takes ca.lk   *)
(*    waits until job.pc is "unlocked".                                    *)
(*  - A channel is known by its create message, which stands for the uuid  *)
(*    of the store and for the address on chain.  Cid 0 is nil.            *)
(*  - A request that was answered has its result in the promise.           *)
(*  - The chain and the message pool are external: a message that was      *)
(*    pushed is executed some time later, in any order.                    *)
(*  - What may go wrong is chosen with the behaviour, faults; the node     *)
(*    stops at most once.                                                  *)
(***************************************************************************)
EXTENDS Integers, Sequences, FiniteSets, FiniteSetsExt, Functions, Folds

CONSTANTS
    Requests,   \* the GetPaych calls of a behaviour
    Scenarios   \* what the calls may ask for, with what may go wrong meanwhile

\* "push", "wait": the API call fails; "exec": a message fails on chain;
\* "race": a context ends between filterQueue and sum; "settle": either side
\* settles; "state": the state of a channel cannot be read; "crash": the node
\* stops, while no message is pushed and not recorded and no result applied and
\* not saved; "midcrash": or anywhere.
FaultKinds == {"push", "wait", "exec", "race", "settle", "state", "crash", "midcrash"}

\* The fundsReqs that GetPaych lets through.
FundsReq == {q \in [amt : Nat, reserve : BOOLEAN, offChain : BOOLEAN] : q.offChain => q.reserve}

PaychConstants ==
    \A s \in Scenarios :
        /\ DOMAIN s.want \subseteq Requests
        /\ \A r \in DOMAIN s.want : s.want[r] \in FundsReq
        /\ s.faults \subseteq FaultKinds

VARIABLES
    want,       \* what each request asks for, if it is made at all
    st,         \* what its caller knows
    ctxDone,    \* the requests whose context is done
    got,        \* the cid, or 0, that an answered request was given
    from,       \* the channel, or 0, that an answered request was given
    ready,      \* what its GetPaychWaitReady call knows
    queue,      \* fundsReqQueue; its order is lost in the sort
    procs,      \* whether a processQueue goroutine is about to run
    job,        \* processQueue, while it holds ca.lk
    chans,      \* the ChannelInfos of the store
    info,       \* the MsgInfos of the store
    wait,       \* the goroutine that waits for each message
    msgs,       \* the messages pushed, the cid being the index
    balance,    \* of each channel on chain
    settled,    \* the channels whose SettlingAt is set on chain
    crashed,    \* the node has stopped and started again
    faults      \* what may go wrong, see FaultKinds

callers == <<want, st, ctxDone, got, from, ready>>
chain == <<msgs, balance, settled>>
vars == <<callers, queue, procs, job, chans, info, wait, chain, crashed, faults>>

Unlocked == [pc |-> "unlocked", merged |-> <<>>, amt |-> 0, avail |-> 0, chan |-> 0, taken |-> 0,
             msg |-> 0]

NewInfo == [received |-> FALSE, err |-> FALSE]

isActive(r) == r \notin ctxDone

Amt(S) == MapThenSumSet(LAMBDA r : want[r].amt, S)

Init ==
    /\ \E s \in Scenarios : want = s.want /\ faults = s.faults
    /\ st = [r \in Requests |-> "new"]
    /\ ctxDone = {}
    /\ got = [r \in Requests |-> 0] /\ from = [r \in Requests |-> 0]
    /\ ready = [r \in Requests |-> "no"]
    /\ queue = {} /\ procs = FALSE /\ job = Unlocked
    /\ chans = <<>> /\ info = <<>> /\ wait = <<>>
    /\ msgs = <<>> /\ balance = <<>> /\ settled = {}
    /\ crashed = FALSE

-----------------------------------------------------------------------------
\* getPaych: newFundsReq, enqueue
GetPaych(r) ==
    /\ job.pc = "unlocked"
    /\ st[r] = "new" /\ r \in DOMAIN want
    /\ st' = [st EXCEPT ![r] = "waiting"]
    /\ queue' = queue \cup {r}
    /\ procs' = TRUE
    /\ UNCHANGED <<want, ctxDone, got, from, ready, job, chans, info, wait, chain, crashed>>

\* The context of a request ends; getPaych returns ctx.Err() if it still waits.
Cancel(r) ==
    /\ r \in queue /\ isActive(r)
    /\ job.pc = "filtered" => "race" \in faults
    /\ ctxDone' = ctxDone \cup {r}
    /\ st' = [st EXCEPT ![r] = IF @ = "waiting" THEN "failed" ELSE @]
    /\ UNCHANGED <<want, got, from, ready, queue, procs, job, chans, info, wait, chain, crashed>>

\* fundsReq.onComplete for the requests of S whose context is not done.  The
\* caller reads the first result only.
onComplete(S, res, c, m) ==
    LET told == {r \in S : isActive(r) /\ st[r] = "waiting"} IN
    /\ st' = [r \in Requests |-> IF r \in told THEN res ELSE st[r]]
    /\ got' = [r \in Requests |-> IF r \in told THEN m ELSE got[r]]
    /\ from' = [r \in Requests |-> IF r \in told THEN c ELSE from[r]]

-----------------------------------------------------------------------------
\* OutboundActiveByFromTo
Active(c) == ~ chans[c].settling /\ (chans[c].open => c \notin settled)

ActiveChans == {c \in DOMAIN chans : Active(c)}

\* OutboundActiveByFromTo finds none: an open channel whose state cannot be read
\* (store.go:390-397) is passed over like one that is settled.
NoneFound == ActiveChans = {} \/ ("state" \in faults /\ \A c \in ActiveChans : chans[c].open)

\* Mutant: a message that adds funds is not waited for.
IdleOpen(c) == chans[c].createMsg = 0

\* No message for the channel is out.
Idle(c) == chans[c].createMsg = 0 /\ chans[c].addFundsMsg = 0

\* processQueue, from its goroutine or for AvailableFunds: filterQueue.  A call
\* of AvailableFunds that finds nothing to pay for, or a message out, changes
\* nothing and is left out.
ProcessQueue ==
    /\ job.pc = "unlocked"
    /\ queue # {}
    /\ \/ procs
       \/ (\E c \in ActiveChans : Idle(c)) /\ Amt({r \in queue : isActive(r)}) > 0
    /\ LET left == {r \in queue : isActive(r)} IN
       /\ queue' = left
       /\ job' = IF left = {} THEN Unlocked ELSE [Unlocked EXCEPT !.pc = "filtered"]
    /\ procs' = FALSE
    /\ UNCHANGED <<callers, chans, info, wait, chain, crashed>>

\* The order of newMergedFundsReq: off-chain first, reserving before the others,
\* then by amount.
Before(q, p) ==
    \/ q.offChain /\ ~ p.offChain
    \/ q.offChain = p.offChain /\ q.reserve /\ ~ p.reserve
    \/ q.offChain = p.offChain /\ q.reserve = p.reserve /\ q.amt <= p.amt

Sorted(S) == {s \in Bijection(1..Cardinality(S), S) : \A i \in 1..Len(s)-1 : Before(want[s[i]], want[s[i+1]])}

\* newMergedFundsReq and sum.  A sum of zero leaves the queue as it is.
MergeQueue ==
    /\ job.pc = "filtered"
    /\ LET live == {r \in queue : isActive(r)}
           sum == Amt(live)
       IN \E order \in Sorted(queue) :
          job' = IF sum = 0 THEN Unlocked
                 ELSE [Unlocked EXCEPT !.pc = "merged", !.merged = order, !.amt = sum,
                                       !.avail = Amt({r \in live : ~ want[r].reserve})]
    /\ UNCHANGED <<callers, queue, procs, chans, info, wait, chain, crashed>>

-----------------------------------------------------------------------------
\* m.reqs[next:], when next is the place after the last request of S
After(s, S) == SubSeq(s, 1 + Max({0} \cup {i \in DOMAIN s : s[i] \in S}), Len(s))

\* processTask without a channel: failOffChainNoChannel.  What it takes off the
\* amount are all off-chain requests of the merge, active or not.
NoChannel ==
    /\ job.pc = "merged" /\ NoneFound
    /\ LET off == {r \in Range(job.merged) : want[r].offChain}
           left == After(job.merged, {r \in off : isActive(r)})
       IN /\ onComplete(off, "failed", 0, 0)
          /\ IF left = <<>>
             THEN job' = Unlocked /\ queue' = {}
             ELSE /\ job' = [job EXCEPT !.pc = "create", !.merged = left, !.amt = @ - Amt(off)]
                  /\ UNCHANGED queue
    /\ UNCHANGED <<want, ctxDone, ready, procs, chans, info, wait, chain, crashed>>

\* processTask while a message for the channel is out: it waits.
MessageOut ==
    /\ job.pc = "merged"
    /\ \E c \in ActiveChans : ~ Idle(c)
    /\ job' = Unlocked
    /\ UNCHANGED <<callers, queue, procs, chans, info, wait, chain, crashed>>

\* completeAvailable: reserve at most what is needed
TakeAvailable ==
    /\ job.pc = "merged"
    /\ \E c \in ActiveChans :
          /\ Idle(c)
          /\ LET taken == Min({chans[c].avail, job.amt - job.avail}) IN
             /\ chans' = [chans EXCEPT ![c].avail = @ - taken]
             /\ job' = [job EXCEPT !.pc = "taken", !.chan = c, !.taken = taken]
    /\ UNCHANGED <<callers, queue, procs, info, wait, chain, crashed>>

\* Mutant: each request is compared with all that was taken.
FillOneAlone(acc, r) ==
    IF acc.stop \/ ~ want[r].reserve THEN [acc EXCEPT !.stop = TRUE]
    ELSE IF ~ isActive(r) THEN acc
    ELSE IF want[r].amt <= job.taken
         THEN [acc EXCEPT !.used = @ + want[r].amt, !.filled = @ \cup {r}]
    ELSE IF want[r].offChain THEN [acc EXCEPT !.failed = @ \cup {r}]
    ELSE [acc EXCEPT !.stop = TRUE]

\* The loop of completeAmount for one request.
FillOne(acc, r) ==
    IF acc.stop \/ ~ want[r].reserve THEN [acc EXCEPT !.stop = TRUE]
    ELSE IF ~ isActive(r) THEN acc
    ELSE IF acc.used + want[r].amt <= job.taken
         THEN [acc EXCEPT !.used = @ + want[r].amt, !.filled = @ \cup {r}]
    ELSE IF want[r].offChain THEN [acc EXCEPT !.failed = @ \cup {r}]
    ELSE [acc EXCEPT !.stop = TRUE]

\* The loop, over the requests of the merge in their order.
Filled ==
    MapThenFoldSet(LAMBDA r, acc : FillOne(acc, r),
                   [used |-> 0, filled |-> {}, failed |-> {}, stop |-> FALSE],
                   LAMBDA i : job.merged[i], Max, DOMAIN job.merged)

\* completeAmount, and the end of completeAvailable, which returns what was not
\* used; processTask goes on to addFunds if something is left to pay for.
CompleteAmount ==
    /\ job.pc = "taken"
    /\ LET done == Filled
           left == After(job.merged, done.filled \cup done.failed)
           amt == job.amt - done.used - Amt(done.failed)
       IN /\ \* the results of the two sets
             LET told == {r \in done.filled \cup done.failed : st[r] = "waiting"} IN
             /\ st' = [r \in Requests |-> IF r \notin told THEN st[r]
                                          ELSE IF r \in done.filled THEN "ok" ELSE "failed"]
             /\ from' = [r \in Requests |-> IF r \in told THEN job.chan ELSE from[r]]
          /\ chans' = [chans EXCEPT ![job.chan].avail = @ + job.taken - done.used]
          /\ \/ left = <<>> /\ job' = Unlocked /\ queue' = {}
             \/ left # <<>> /\ amt <= 0 /\ job' = Unlocked /\ UNCHANGED queue
             \/ /\ left # <<>> /\ amt > 0
                /\ job' = [job EXCEPT !.pc = "addFunds", !.merged = left, !.amt = amt]
                /\ UNCHANGED queue
    /\ UNCHANGED <<want, ctxDone, got, ready, procs, info, wait, chain, crashed>>

-----------------------------------------------------------------------------
\* MpoolPushMessage of createPaych and addFunds.
Push ==
    /\ job.pc \in {"create", "addFunds"}
    /\ job.amt >= 0
    /\ LET m == Len(msgs) + 1
           to == IF job.pc = "create" THEN m ELSE job.chan
       IN /\ msgs' = Append(msgs, [to |-> to, amt |-> job.amt, st |-> "sent"])
          /\ balance' = Append(balance, 0)
          /\ info' = Append(info, NewInfo)
          /\ wait' = Append(wait, "none")
          /\ job' = [job EXCEPT !.pc = IF @ = "create" THEN "created" ELSE "added", !.chan = to,
                                !.msg = m]
    /\ UNCHANGED <<callers, queue, procs, chans, settled, crashed>>

\* It fails: the API call does, the amount is negative, or the context of the
\* merge is done, because those of all its requests are.
PushFails ==
    /\ job.pc \in {"create", "addFunds"}
    /\ \/ "push" \in faults
       \/ job.amt < 0
       \/ \A r \in Range(job.merged) : ~ isActive(r)
    /\ onComplete(Range(job.merged), "failed", 0, 0)
    /\ queue' = {} /\ job' = Unlocked
    /\ UNCHANGED <<want, ctxDone, ready, procs, chans, info, wait, chain, crashed>>

\* The channel record of CreateChannel
NewChannel(m, amt, avail) ==
    [open |-> FALSE, amt |-> 0, avail |-> 0, pend |-> amt, pendAvail |-> avail, createMsg |-> m,
     addFundsMsg |-> 0, settling |-> FALSE]

\* createPaych after the push: CreateChannel, and processQueue to its end
CreateChannel ==
    /\ job.pc = "created"
    /\ chans' = [c \in DOMAIN chans \cup {job.msg} |->
                    IF c = job.msg THEN NewChannel(job.msg, job.amt, job.avail) ELSE chans[c]]
    /\ wait' = [wait EXCEPT ![job.msg] = "waiting"]
    /\ onComplete(Range(job.merged), "ok", 0, job.msg)
    /\ queue' = {} /\ job' = Unlocked
    /\ UNCHANGED <<want, ctxDone, ready, procs, info, chain, crashed>>

\* addFunds after the push, and processQueue to its end
AddFunds ==
    /\ job.pc = "added"
    /\ chans' = [chans EXCEPT ![job.chan] = [@ EXCEPT !.pend = job.amt, !.pendAvail = job.avail,
                                                      !.addFundsMsg = job.msg]]
    /\ wait' = [wait EXCEPT ![job.msg] = "waiting"]
    /\ onComplete(Range(job.merged), "ok", job.chan, job.msg)
    /\ queue' = {} /\ job' = Unlocked
    /\ UNCHANGED <<want, ctxDone, ready, procs, info, chain, crashed>>

-----------------------------------------------------------------------------
\* The chain executes a message: a create message opens the channel with its
\* value, another one adds to it.
Execute(m) ==
    /\ msgs[m].st = "sent"
    /\ \/ /\ msgs' = [msgs EXCEPT ![m].st = "ok"]
          /\ balance' = [balance EXCEPT ![msgs[m].to] =
                            IF msgs[m].to = m THEN msgs[m].amt ELSE @ + msgs[m].amt]
       \/ /\ "exec" \in faults
          /\ msgs' = [msgs EXCEPT ![m].st = "failed"]
          /\ UNCHANGED balance
    /\ UNCHANGED <<callers, queue, procs, job, chans, info, wait, settled, crashed>>

Executed(m) == msgs[m].st # "sent"

\* waitPaychCreateMsg, when StateWaitMsg returned
WaitPaychCreateMsg(m) ==
    /\ job.pc = "unlocked"
    /\ wait[m] = "waiting" /\ msgs[m].to = m /\ Executed(m)
    /\ \/ /\ msgs[m].st = "failed"
          /\ chans' = [c \in DOMAIN chans \ {m} |-> chans[c]]
          /\ wait' = [wait EXCEPT ![m] = "err"]
       \/ /\ msgs[m].st = "ok"
          /\ chans' = [chans EXCEPT ![m] =
                          [@ EXCEPT !.open = TRUE, !.amt = chans[m].pend,
                                    !.avail = chans[m].pendAvail, !.pend = 0, !.pendAvail = 0,
                                    !.createMsg = 0]]
          /\ wait' = [wait EXCEPT ![m] = "ok"]
    /\ UNCHANGED <<callers, queue, procs, job, info, chain, crashed>>

\* The record of waitAddFundsMsg for a message that succeeded, or did not
FundsAdded(ch, ok) ==
    [ch EXCEPT !.amt = IF ok THEN @ + ch.pend ELSE @,
               !.avail = IF ok THEN @ + ch.pendAvail ELSE @,
               !.pend = 0, !.pendAvail = 0, !.addFundsMsg = 0]

\* waitAddFundsMsg, when StateWaitMsg returned
WaitAddFundsMsg(m) ==
    /\ job.pc = "unlocked"
    /\ wait[m] = "waiting" /\ msgs[m].to # m /\ Executed(m)
    /\ LET ok == msgs[m].st = "ok" IN
       /\ chans' = [chans EXCEPT ![msgs[m].to] = FundsAdded(@, ok)]
       /\ wait' = [wait EXCEPT ![m] = IF ok THEN "ok" ELSE "err"]
    /\ UNCHANGED <<callers, queue, procs, job, info, chain, crashed>>

\* StateWaitMsg fails: both goroutines go on without changing the channel.
WaitFails(m) ==
    /\ "wait" \in faults
    /\ wait[m] = "waiting"
    /\ wait' = [wait EXCEPT ![m] = "err"]
    /\ UNCHANGED <<callers, queue, procs, job, chans, info, chain, crashed>>

\* Mutant: the queue does not go on.
MsgWaitCompleteOnly(m) ==
    /\ job.pc = "unlocked"
    /\ wait[m] \in {"ok", "err"}
    /\ info' = [info EXCEPT ![m] = [received |-> TRUE, err |-> @.err \/ wait[m] = "err"]]
    /\ ready' = [r \in Requests |-> IF ready[r] = "listening" /\ got[r] = m
                                    THEN IF wait[m] = "ok" THEN "ready" ELSE "failed"
                                    ELSE ready[r]]
    /\ wait' = [wait EXCEPT ![m] = "none"]
    /\ UNCHANGED <<want, st, ctxDone, got, from, queue, procs, job, chans, chain, crashed>>

\* msgWaitComplete: the result is saved, listeners are told, the queue goes on.
MsgWaitComplete(m) ==
    /\ job.pc = "unlocked"
    /\ wait[m] \in {"ok", "err"}
    /\ info' = [info EXCEPT ![m] = [received |-> TRUE, err |-> @.err \/ wait[m] = "err"]]
    /\ ready' = [r \in Requests |-> IF ready[r] = "listening" /\ got[r] = m
                                    THEN IF wait[m] = "ok" THEN "ready" ELSE "failed"
                                    ELSE ready[r]]
    /\ procs' = (procs \/ queue # {})
    /\ wait' = [wait EXCEPT ![m] = "none"]
    /\ UNCHANGED <<want, st, ctxDone, got, from, queue, job, chans, chain, crashed>>

\* GetPaychWaitReady by a caller that was given a cid
GetPaychWaitReady(r) ==
    /\ job.pc = "unlocked"
    /\ st[r] = "ok" /\ got[r] # 0 /\ ready[r] = "no"
    /\ ready' = [ready EXCEPT ![r] =
                    IF msgs[got[r]].to \notin DOMAIN chans \/ info[got[r]].err THEN "failed"
                    ELSE IF info[got[r]].received THEN "ready" ELSE "listening"]
    /\ UNCHANGED <<want, st, ctxDone, got, from, queue, procs, job, chans, info, wait, chain,
                   crashed>>

-----------------------------------------------------------------------------
\* settle
Settle(c) ==
    /\ "settle" \in faults
    /\ job.pc = "unlocked"
    /\ chans[c].open /\ ~ chans[c].settling
    /\ chans' = [chans EXCEPT ![c].settling = TRUE]
    /\ UNCHANGED <<callers, queue, procs, job, info, wait, chain, crashed>>

\* The other side settles the channel on chain.
TargetSettles(c) ==
    /\ "settle" \in faults
    /\ msgs[c].to = c /\ msgs[c].st = "ok" /\ c \notin settled
    /\ settled' = settled \cup {c}
    /\ UNCHANGED <<callers, queue, procs, job, chans, info, wait, msgs, balance, crashed>>

\* The node stops and starts again: restartPending
Restart ==
    /\ ~ crashed
    /\ \/ "midcrash" \in faults
       \/ /\ "crash" \in faults
          /\ job.pc \notin {"created", "added"}
          /\ \A m \in DOMAIN wait : wait[m] \notin {"ok", "err"}
    /\ crashed' = TRUE
    /\ st' = [r \in Requests |-> IF st[r] = "waiting" THEN "failed" ELSE st[r]]
    /\ ready' = [r \in Requests |-> IF ready[r] = "listening" THEN "no" ELSE ready[r]]
    /\ queue' = {} /\ procs' = FALSE /\ job' = Unlocked
    /\ wait' = [m \in DOMAIN wait |->
                   IF \E c \in DOMAIN chans : m \in {chans[c].createMsg, chans[c].addFundsMsg}
                   THEN "waiting" ELSE "none"]
    /\ UNCHANGED <<want, ctxDone, got, from, chans, info, chain>>

-----------------------------------------------------------------------------
JobStep ==
    \/ ProcessQueue \/ MergeQueue \/ NoChannel \/ MessageOut \/ TakeAvailable \/ CompleteAmount
    \/ Push \/ PushFails \/ CreateChannel \/ AddFunds

WaitStep(m) ==
    \/ WaitPaychCreateMsg(m) \/ WaitAddFundsMsg(m) \/ MsgWaitComplete(m)

Step ==
    \/ JobStep
    \/ \E r \in Requests : GetPaych(r) \/ Cancel(r) \/ GetPaychWaitReady(r)
    \/ \E m \in DOMAIN msgs : WaitStep(m) \/ WaitFails(m) \/ Execute(m) \/ TargetSettles(m)
    \/ \E c \in DOMAIN chans : Settle(c)
    \/ Restart

Next == Step /\ UNCHANGED faults

Spec == Init /\ [][Next]_vars

\* Goroutines run, and the chain executes what was pushed.  Nobody has to call
\* AvailableFunds.
JobRuns == (job.pc = "unlocked" => procs) /\ JobStep

MsgRuns(m) == m \in DOMAIN msgs /\ (WaitStep(m) \/ Execute(m))

FairSpec ==
    /\ Spec
    /\ WF_vars(JobRuns /\ UNCHANGED faults)
    /\ \A m \in 1..Cardinality(Requests) : WF_vars(MsgRuns(m) /\ UNCHANGED faults)

-----------------------------------------------------------------------------
ChannelType ==
    [open : BOOLEAN, amt : Nat, avail : Int, pend : Nat, pendAvail : Nat, createMsg : Nat,
     addFundsMsg : Nat, settling : BOOLEAN]

TypeOK ==
    /\ \A r \in DOMAIN want : r \in Requests /\ want[r] \in FundsReq
    /\ st \in [Requests -> {"new", "waiting", "ok", "failed"}]
    /\ ctxDone \subseteq Requests /\ queue \subseteq Requests
    /\ got \in [Requests -> Nat] /\ from \in [Requests -> Nat]
    /\ ready \in [Requests -> {"no", "listening", "ready", "failed"}]
    /\ procs \in BOOLEAN
    /\ msgs \in Seq([to : Nat, amt : Nat, st : {"sent", "ok", "failed"}])
    /\ DOMAIN chans \subseteq DOMAIN msgs
    /\ \A c \in DOMAIN chans : chans[c] \in ChannelType
    /\ Len(msgs) <= Cardinality(Requests)

\* No message is lost because the node stops between its push and its record.
Recorded == "midcrash" \notin faults

\* The chain has executed the message that channel c waits for.
Landed(c) ==
    LET m == IF chans[c].open THEN chans[c].addFundsMsg ELSE chans[c].createMsg
    IN  m # 0 /\ msgs[m].st = "ok"

\* What the store says of a channel is what the chain says of it, but for the
\* message that is out: "It should reflect the channel's Balance on chain as
\* long as all operations occur on the same datastore" (store.go:71).
BalanceMatches ==
    \A c \in DOMAIN chans :
        ~ (job.pc = "added" /\ job.chan = c) =>
        balance[c] = IF ~ Landed(c) THEN chans[c].amt
                     ELSE IF chans[c].open THEN chans[c].amt + chans[c].pend
                     ELSE chans[c].pend

\* The channel of message m records it.
IsRecorded(m) ==
    /\ msgs[m].to \in DOMAIN chans
    /\ m \in {chans[msgs[m].to].createMsg, chans[msgs[m].to].addFundsMsg}

\* A message that is not executed yet is the one its channel records, so that
\* there is one for each channel and a restart waits for it again.
InFlightRecorded ==
    \A m \in DOMAIN msgs : msgs[m].st = "sent" => job.msg = m \/ IsRecorded(m)

\* The store knows what the chain holds and what it is still going to do, after
\* any sequence of merged requests, failed messages and restarts, as long as
\* the node does not stop between a push and its record.
StoreMatchesChain == Recorded => BalanceMatches /\ InFlightRecorded

\* The reservations that were granted from channel c: those filled from what
\* was available, and those paid for by a message whose result is applied.
Granted(c) ==
    {r \in Requests :
        /\ st[r] = "ok" /\ want[r].reserve
        /\ IF got[r] = 0 THEN from[r] = c
           ELSE /\ msgs[got[r]].to = c /\ msgs[got[r]].st = "ok"
                /\ got[r] \notin {chans[c].createMsg, chans[c].addFundsMsg}}

\* What callers were told is reserved for them in a channel is on chain and not
\* available to anybody else: getPaych "reserves (or adds as available) the
\* given amount of funds" (simple.go:244).
AmountReserved ==
    \A c \in DOMAIN chans :
        /\ chans[c].avail >= 0
        /\ Amt(Granted(c)) + chans[c].avail <= chans[c].amt
        /\ chans[c].amt <= balance[c]

\* This holds whatever requests were merged, cancelled or failed on the way,
\* and wherever the node stops, if no context ends while requests are merged
\* (README, known departures).
ReservedBacked == "race" \notin faults => AmountReserved

\* Every GetPaych call that asks for something, and every GetPaychWaitReady
\* call, returns.  (Finitely many calls are made: none is left waiting for good
\* if time and again nobody waits.)
CallsReturn ==
    "wait" \notin faults => []<> \A r \in Requests :
        /\ st[r] = "waiting" => want[r].amt = 0
        /\ Recorded => ready[r] # "listening"
=============================================================================
