---------------------------- MODULE FundManager ----------------------------
(***************************************************************************)
(* The fund manager of the storage market (chain/market/fundmanager.go):   *)
(* it keeps enough escrow for the deals that are being made, and batches   *)
(* the requests of one address into messages of which at most one is meant *)
(* to be in flight.                                                        *)
(*                                                                         *)
(*  - One fundedAddress is modelled: addresses share nothing but the map   *)
(*    that finds them, and have escrow balances of their own.              *)
(*  - process() holds a.lk from start to end, but the chain moves, contexts*)
(*    end and the node may crash meanwhile: its API calls, the hand-over   *)
(*    of results and the save are steps of their own (pc).  Everything     *)
(*    else that takes a.lk waits until pc is "unlocked".                   *)
(*  - Complete hands a result to a caller that waits in a select, so it    *)
(*    does not block; when the context of the caller is done, both selects *)
(*    take that arm, because nobody can be queued on Result any more.      *)
(*  - A reservation that was granted may be spent (its deal is published,  *)
(*    which locks the escrow), and is released at most once.               *)
(*  - The chain and the message pool are external: a pushed message is     *)
(*    executed some time later, in any order.                              *)
(*  - What may go wrong is chosen with the behaviour, faults.              *)
(***************************************************************************)
EXTENDS Integers, Sequences, FiniteSets, FiniteSetsExt, Functions, Folds

CONSTANTS
    Reqs,       \* the Reserve and Withdraw calls of a behaviour
    Requests,   \* what a call may ask for
    Wallets,    \* the wallets that send the messages
    NoWallet,   \* address.Undef
    MaxAvail,   \* bound: the escrow balance to start with
    Regimes     \* the sets of faults that occur together

\* "push", "avail", "wait": the API call fails; "exec": a message fails on
\* chain; "crash": the node stops while nobody holds a.lk, "midcrash": or in
\* the middle of process(); "save": the datastore refuses a Put.
FaultKinds == {"push", "avail", "wait", "exec", "crash", "midcrash", "save"}

ASSUME FundManagerAssumption ==
    /\ IsFiniteSet(Reqs) /\ MaxAvail \in Nat
    /\ Requests \subseteq [kind : {"reserve", "withdraw"}, wallet : Wallets, amt : Nat \ {0}]
    /\ NoWallet \notin Wallets
    /\ Regimes \subseteq SUBSET FaultKinds

VARIABLES
    reservations, releases, withdrawals,    \* the request queues
    amtReserved, msgCid,    \* FundedAddressState; cid 0 is nil
    store,      \* the FundedAddressState in the datastore
    procs,      \* whether process() goroutines are about to run; how many is left open
    waitFor,    \* the cid the goroutine of startWaitForResults waits for
    pc,         \* where process() is
    plan,       \* its local variables
    req,        \* what each call asks for
    st,         \* what each caller knows
    rel,        \* what the caller that releases a reservation knows
    got,        \* the cid each caller was given
    completed,  \* withdrawals whose completed channel is closed, not filtered out yet
    cancelled,  \* calls whose context is done
    spent,      \* reservations whose deal is on chain
    avail,      \* escrow - locked of the address
    msgs,       \* the messages pushed, the cid being the index
    panicked,   \* a completed channel was closed twice
    faults      \* what may go wrong, see FaultKinds

queues == <<reservations, releases, withdrawals>>
callers == <<req, st, rel, got>>
chain == <<avail, msgs, spent>>
vars == <<queues, amtReserved, msgCid, store, procs, waitFor, pc, plan, callers,
          completed, cancelled, chain, panicked, faults>>

PC == {"unlocked", "addFunds", "completeRes", "applyRes", "withdrawals",
       "withdrawFunds", "completeWd", "applyWd", "end"}

Amt(S) == MapThenSumSet(LAMBDA q : req[q].amt, S)

NoPlan == [cancel |-> {}, add |-> {}, wallet |-> NoWallet, reserved |-> 0, amt |-> 0,
           err |-> FALSE, cid |-> 0]

-----------------------------------------------------------------------------
Init ==
    /\ reservations = <<>> /\ releases = <<>> /\ withdrawals = <<>>
    /\ amtReserved = 0 /\ msgCid = 0
    /\ store = [reserved |-> 0, msg |-> 0]
    /\ procs = FALSE /\ waitFor = 0
    /\ pc = "unlocked" /\ plan = NoPlan
    /\ req \in [Reqs -> Requests]
    /\ st = [q \in Reqs |-> "new"]
    /\ rel = [q \in Reqs |-> "new"]
    /\ got = [q \in Reqs |-> 0]
    /\ completed = {} /\ cancelled = {}
    /\ avail \in 0..MaxAvail /\ msgs = <<>> /\ spent = {}
    /\ panicked = FALSE
    /\ faults \in Regimes

-----------------------------------------------------------------------------
\* requestAndWait for Reserve and Withdraw
RequestAndWait(q) ==
    /\ pc = "unlocked"
    /\ st[q] = "new"
    /\ \/ /\ req[q].kind = "reserve"
          /\ reservations' = Append(reservations, q)
          /\ UNCHANGED <<releases, withdrawals>>
       \/ /\ req[q].kind = "withdraw"
          /\ withdrawals' = Append(withdrawals, q)
          /\ UNCHANGED <<reservations, releases>>
    /\ st' = [st EXCEPT ![q] = "waiting"]
    /\ procs' = TRUE
    /\ UNCHANGED <<amtReserved, msgCid, store, waitFor, pc, plan, req, rel, got,
                   completed, cancelled, chain, panicked>>

\* Release: requestAndWait for a granted reservation, with a context that is
\* never done.
RequestRelease(q) ==
    /\ pc = "unlocked"
    /\ req[q].kind = "reserve" /\ st[q] = "ok" /\ rel[q] = "new"
    /\ releases' = Append(releases, q)
    /\ rel' = [rel EXCEPT ![q] = "waiting"]
    /\ procs' = TRUE
    /\ UNCHANGED <<reservations, withdrawals, amtReserved, msgCid, store, waitFor, pc, plan,
                   req, st, got, completed, cancelled, chain, panicked>>

\* A caller's context ends before Complete reaches it: requestAndWait returns
\* ctx.Err(), the request stays in its queue.
Cancel(q) ==
    /\ st[q] = "waiting"
    /\ st' = [st EXCEPT ![q] = "failed"]
    /\ cancelled' = cancelled \cup {q}
    /\ UNCHANGED <<queues, amtReserved, msgCid, store, procs, waitFor, pc, plan,
                   req, rel, got, completed, chain, panicked>>

-----------------------------------------------------------------------------
\* fundRequest.Amount
Amount(q) == IF q \in cancelled THEN 0 ELSE req[q].amt

\* fundRequest.Complete of the requests in S: callers still waiting get the
\* outcome and the cid.
CompleteAll(S, outcome, cid) ==
    /\ st' = [q \in Reqs |-> IF q \in S /\ st[q] = "waiting" THEN outcome[q] ELSE st[q]]
    /\ got' = [q \in Reqs |-> IF q \in S /\ st[q] = "waiting" THEN cid[q] ELSE got[q]]

\* The loop of splitReservations over the reservations: acc.rel is what is left of
\* the released amount.
splitStep(acc, q) ==
    IF Amount(q) <= acc.rel
    THEN [acc EXCEPT !.rel = @ - Amount(q), !.cancel = @ \cup {q}]
    ELSE IF acc.wallet \in {NoWallet, req[q].wallet}
    THEN [acc EXCEPT !.wallet = req[q].wallet, !.addAmt = @ + Amount(q) - acc.rel,
                     !.rel = 0, !.add = @ \cup {q}]
    ELSE acc

NothingSplit == [cancel |-> {}, add |-> {}, wallet |-> NoWallet, addAmt |-> 0,
                 rel |-> Amt(Range(releases))]

splitReservations ==
    LET upTo[k \in 0..Len(reservations)] ==
          IF k = 0 THEN NothingSplit ELSE splitStep(upTo[k - 1], reservations[k])
    IN  upTo[Len(reservations)]

\* processReservations, lines 386-390
newReserved(delta) == IF amtReserved + delta < 0 THEN 0 ELSE amtReserved + delta

\* Mutant: a message in flight does not keep process() from going on.
canProcessAnyway ==
    Len(reservations) + Len(releases) + Len(withdrawals) > 0

\* process, lines 257-267: its two early returns
canProcess ==
    /\ msgCid = 0
    /\ Len(reservations) + Len(releases) + Len(withdrawals) > 0

ProcessReturns ==
    /\ pc = "unlocked" /\ procs
    /\ ~ canProcess
    /\ procs' \in BOOLEAN
    /\ UNCHANGED <<queues, amtReserved, msgCid, store, waitFor, pc, plan, callers,
                   completed, cancelled, chain, panicked>>

\* process up to the AddFunds call of processReservations
ProcessReservations ==
    /\ pc = "unlocked" /\ procs
    /\ canProcess
    /\ Len(reservations) + Len(releases) > 0
    /\ procs' \in BOOLEAN
    /\ LET s == splitReservations
           reserved == newReserved(s.addAmt - s.rel)
           p == [NoPlan EXCEPT !.cancel = s.cancel, !.add = s.add,
                               !.wallet = s.wallet, !.reserved = reserved]
       IN  IF s.add # {} /\ reserved > 0
           THEN \/ /\ plan' = [p EXCEPT !.amt = reserved - avail]
                   /\ pc' = "addFunds"
                \/ /\ "avail" \in faults
                   /\ plan' = [p EXCEPT !.err = TRUE]
                   /\ pc' = "completeRes"
           ELSE plan' = p /\ pc' = "addFunds"
    /\ UNCHANGED <<queues, amtReserved, msgCid, store, waitFor, callers,
                   completed, cancelled, chain, panicked>>

ProcessNoReservations ==
    /\ pc = "unlocked" /\ procs
    /\ canProcess
    /\ Len(reservations) + Len(releases) = 0
    /\ procs' \in BOOLEAN
    /\ pc' = "withdrawals"
    /\ UNCHANGED <<queues, amtReserved, msgCid, store, waitFor, plan, callers,
                   completed, cancelled, chain, panicked>>

\* MpoolPushMessage: the message enters the message pool.
Push(kind, wallet, amt) ==
    msgs' = Append(msgs, [kind |-> kind, wallet |-> wallet, amt |-> amt, done |-> FALSE])

\* processReservations, lines 410-414: nothing to add
NothingToAdd == plan.amt <= 0

\* processReservations from line 410 to its end
AddFunds ==
    /\ pc = "addFunds"
    /\ \/ /\ NothingToAdd
          /\ plan' = [plan EXCEPT !.cancel = @ \cup plan.add, !.add = {}]
          /\ UNCHANGED msgs
       \/ /\ ~ NothingToAdd
          /\ Push("add", plan.wallet, plan.amt)
          /\ plan' = [plan EXCEPT !.cid = Len(msgs')]
       \/ /\ ~ NothingToAdd /\ "push" \in faults
          /\ plan' = [plan EXCEPT !.err = TRUE]
          /\ UNCHANGED msgs
    /\ pc' = "completeRes"
    /\ UNCHANGED <<queues, amtReserved, msgCid, store, procs, waitFor, callers,
                   completed, cancelled, avail, spent, panicked>>

\* The deferred function of processReservations
CompleteReservations ==
    /\ pc = "completeRes"
    /\ IF plan.err
       THEN CompleteAll(Range(reservations), [q \in Reqs |-> "failed"], [q \in Reqs |-> 0])
       ELSE CompleteAll(plan.cancel \cup plan.add, [q \in Reqs |-> "ok"],
                        [q \in Reqs |-> IF q \in plan.add THEN plan.cid ELSE 0])
    /\ rel' = [q \in Reqs |-> IF q \notin Range(releases) THEN rel[q]
                              ELSE IF plan.err THEN "failed" ELSE "ok"]
    /\ pc' = "applyRes"
    /\ UNCHANGED <<queues, amtReserved, msgCid, store, procs, waitFor, plan, req,
                   completed, cancelled, chain, panicked>>

\* saveState: a failing Put is only logged.
saveState ==
    \/ store' = [reserved |-> amtReserved', msg |-> msgCid']
    \/ "save" \in faults /\ UNCHANGED store

\* Mutant: the nil amount that processWithdrawals passes is taken for zero.
applyStateChangeNil(cid, reserved) ==
    /\ msgCid' = cid
    /\ amtReserved' = IF reserved = -1 THEN 0 ELSE reserved
    /\ saveState

\* applyStateChange; -1 stands for types.EmptyInt, which leaves the amount.
applyStateChange(cid, reserved) ==
    /\ msgCid' = cid
    /\ amtReserved' = IF reserved = -1 THEN amtReserved ELSE reserved
    /\ saveState

filterOut(queue, done) ==
    LET kept[k \in 0..Len(queue)] ==
          IF k = 0 THEN <<>>
          ELSE IF queue[k] \in done THEN kept[k - 1] ELSE Append(kept[k - 1], queue[k])
    IN  kept[Len(queue)]

\* Mutant: what is left in the queues is not looked at again.
ProcessEndsForGood ==
    /\ waitFor' = IF msgCid' # 0 THEN msgCid' ELSE waitFor
    /\ procs' = procs
    /\ pc' = "unlocked"
    /\ plan' = NoPlan

\* process from line 289 to its end: startWaitForResults, go a.process()
ProcessEnds ==
    /\ waitFor' = IF msgCid' # 0 THEN msgCid' ELSE waitFor
    /\ procs' = TRUE
    /\ pc' = "unlocked"
    /\ plan' = NoPlan

\* process from line 272: the result of processReservations is applied, and
\* withdrawals have their turn.
ApplyReservations ==
    /\ pc = "applyRes"
    /\ IF plan.err THEN UNCHANGED <<msgCid, amtReserved, store>>
                   ELSE applyStateChange(plan.cid, plan.reserved)
    /\ reservations' = IF plan.err THEN <<>>
                       ELSE filterOut(reservations, plan.cancel \cup plan.add)
    /\ releases' = <<>>
    /\ \/ /\ withdrawals # <<>> /\ msgCid' = 0 /\ reservations' = <<>>
          /\ pc' = "withdrawals" /\ plan' = NoPlan
          /\ UNCHANGED <<procs, waitFor>>
       \/ /\ withdrawals = <<>> \/ msgCid' # 0 \/ reservations' # <<>>
          /\ ProcessEnds
    /\ UNCHANGED <<withdrawals, callers, completed, cancelled, chain, panicked>>

-----------------------------------------------------------------------------
\* Mutant: what is reserved may be withdrawn.
netAvailAll == avail

\* processWithdrawals, line 500
netAvail == avail - amtReserved

\* The loop of processWithdrawals over the withdrawals: a request
\* without amount or beyond what is available is completed at once, one from
\* another wallet than the batch waits for the next round.
withdrawStep(acc, q) ==
    IF Amount(q) = 0
    THEN [acc EXCEPT !.zero = @ \cup {q}]
    ELSE IF acc.amt + Amount(q) > netAvail
    THEN [acc EXCEPT !.refused = @ \cup {q}]
    ELSE IF acc.wallet \in {NoWallet, req[q].wallet}
    THEN [acc EXCEPT !.wallet = req[q].wallet, !.amt = @ + Amount(q), !.add = @ \cup {q}]
    ELSE acc

NothingFit == [zero |-> {}, refused |-> {}, add |-> {}, wallet |-> NoWallet, amt |-> 0]

fitWithdrawals ==
    LET upTo[k \in 0..Len(withdrawals)] ==
          IF k = 0 THEN NothingFit ELSE withdrawStep(upTo[k - 1], withdrawals[k])
    IN  upTo[Len(withdrawals)]

\* processWithdrawals up to the WithdrawFunds call
ProcessWithdrawals ==
    /\ pc = "withdrawals"
    /\ \/ LET f == fitWithdrawals IN
          /\ CompleteAll(f.zero \cup f.refused,
                         [q \in Reqs |-> IF q \in f.zero THEN "ok" ELSE "failed"], [q \in Reqs |-> 0])
          /\ completed' = f.zero \cup f.refused
          /\ plan' = [NoPlan EXCEPT !.add = f.add, !.wallet = f.wallet, !.amt = f.amt]
          /\ pc' = IF f.amt = 0 THEN "applyWd" ELSE "withdrawFunds"
       \/ /\ "avail" \in faults
          /\ CompleteAll(Range(withdrawals), [q \in Reqs |-> "failed"], [q \in Reqs |-> 0])
          /\ completed' = Range(withdrawals)
          /\ plan' = [NoPlan EXCEPT !.err = TRUE]
          /\ pc' = "applyWd"
    /\ UNCHANGED <<queues, amtReserved, msgCid, store, procs, waitFor, req, rel,
                   cancelled, chain, panicked>>

\* The node stops and starts again: the queues are lost, Start loads the stored
\* state and waits for the message it names.  A release that was not answered
\* is made again.
Restart ==
    /\ reservations' = <<>> /\ releases' = <<>> /\ withdrawals' = <<>>
    /\ amtReserved' = store.reserved /\ msgCid' = store.msg
    /\ waitFor' = store.msg
    /\ procs' = FALSE /\ pc' = "unlocked" /\ plan' = NoPlan /\ completed' = {}
    /\ st' = [q \in Reqs |-> IF st[q] = "waiting" THEN "failed" ELSE st[q]]
    /\ rel' = [q \in Reqs |-> IF rel[q] = "waiting" THEN "new" ELSE rel[q]]
    /\ UNCHANGED <<store, req, got, cancelled, chain>>

Crash ==
    /\ \/ "crash" \in faults /\ pc = "unlocked"
       \/ "midcrash" \in faults /\ pc # "unlocked"
    /\ Restart
    /\ UNCHANGED panicked

\* The WithdrawFunds call of processWithdrawals
WithdrawFunds ==
    /\ pc = "withdrawFunds"
    /\ Push("withdraw", plan.wallet, plan.amt)
    /\ plan' = [plan EXCEPT !.cid = Len(msgs')]
    /\ pc' = "completeWd"
    /\ UNCHANGED <<queues, amtReserved, msgCid, store, procs, waitFor, callers,
                   completed, cancelled, avail, spent, panicked>>

\* It fails, and the deferred function completes every withdrawal, the ones
\* already completed included: Complete closes a closed channel and panics.
WithdrawFundsFails ==
    /\ pc = "withdrawFunds"
    /\ "push" \in faults
    /\ \/ /\ completed = {}
          /\ CompleteAll(Range(withdrawals), [q \in Reqs |-> "failed"], [q \in Reqs |-> 0])
          /\ completed' = Range(withdrawals)
          /\ plan' = [plan EXCEPT !.err = TRUE]
          /\ pc' = "applyWd"
          /\ UNCHANGED <<queues, amtReserved, msgCid, store, procs, waitFor, req, rel,
                         cancelled, chain, panicked>>
       \/ /\ completed # {}
          /\ panicked' = TRUE
          /\ Restart

CompleteWithdrawals ==
    /\ pc = "completeWd"
    /\ CompleteAll(plan.add, [q \in Reqs |-> "ok"], [q \in Reqs |-> plan.cid])
    /\ completed' = completed \cup plan.add
    /\ pc' = "applyWd"
    /\ UNCHANGED <<queues, amtReserved, msgCid, store, procs, waitFor, plan, req, rel,
                   cancelled, chain, panicked>>

\* process from line 283
ApplyWithdrawals ==
    /\ pc = "applyWd"
    /\ IF plan.err \/ plan.cid = 0 THEN UNCHANGED <<msgCid, amtReserved, store>>
                                   ELSE applyStateChange(plan.cid, -1)
    /\ withdrawals' = filterOut(withdrawals, completed)
    /\ completed' = {}
    /\ ProcessEnds
    /\ UNCHANGED <<reservations, releases, callers, cancelled, chain, panicked>>

\* The goroutine of startWaitForResults, once StateWaitMsg returned: it clears
\* the wait state whatever the result, and processes the queues.
WaitDone ==
    /\ pc = "unlocked" /\ waitFor # 0
    /\ msgs[waitFor].done \/ "wait" \in faults
    /\ msgCid' = 0 /\ UNCHANGED amtReserved
    /\ saveState
    /\ waitFor' = 0
    /\ procs' = TRUE
    /\ UNCHANGED <<queues, pc, plan, callers, completed, cancelled, chain, panicked>>

-----------------------------------------------------------------------------
\* A message is executed: the market actor adds to the escrow, or pays out
\* at most what is there; a message that fails changes nothing.
Execute(i) ==
    /\ ~ msgs[i].done
    /\ msgs' = [msgs EXCEPT ![i].done = TRUE]
    /\ \/ msgs[i].kind = "add" /\ avail' = avail + msgs[i].amt
       \/ msgs[i].kind = "withdraw" /\ avail' = avail - Min({msgs[i].amt, avail})
       \/ "exec" \in faults /\ avail' = avail
    /\ UNCHANGED <<queues, amtReserved, msgCid, store, procs, waitFor, pc, plan, callers,
                   completed, cancelled, spent, panicked>>

\* The deal of a granted reservation is published: its funds become locked.
Spend(q) ==
    /\ req[q].kind = "reserve" /\ st[q] = "ok" /\ rel[q] = "new" /\ q \notin spent
    /\ avail >= req[q].amt
    /\ avail' = avail - req[q].amt
    /\ spent' = spent \cup {q}
    /\ UNCHANGED <<queues, amtReserved, msgCid, store, procs, waitFor, pc, plan, callers,
                   completed, cancelled, msgs, panicked>>

ProcessStep ==
    \/ ProcessReturns \/ ProcessReservations \/ ProcessNoReservations
    \/ AddFunds \/ CompleteReservations \/ ApplyReservations
    \/ ProcessWithdrawals \/ WithdrawFunds \/ WithdrawFundsFails
    \/ CompleteWithdrawals \/ ApplyWithdrawals \/ WaitDone

Step ==
    \/ ProcessStep
    \/ Crash
    \/ \E q \in Reqs : RequestAndWait(q) \/ RequestRelease(q) \/ Cancel(q) \/ Spend(q)
    \/ \E i \in DOMAIN msgs : Execute(i)

Next == Step /\ UNCHANGED faults

Spec == Init /\ [][Next]_vars

\* Goroutines are scheduled, and the chain takes up the messages of the pool.
FairSpec ==
    /\ Spec
    /\ WF_vars(ProcessStep /\ UNCHANGED faults)
    /\ \A i \in 1..Cardinality(Reqs) : WF_vars(i \in DOMAIN msgs /\ Execute(i) /\ UNCHANGED faults)

-----------------------------------------------------------------------------
MessageType == [kind : {"add", "withdraw"}, wallet : Wallets, amt : Nat \ {0}, done : BOOLEAN]

TypeOK ==
    /\ \A Q \in {reservations, releases, withdrawals} : Range(Q) \subseteq Reqs
    /\ amtReserved \in Nat /\ store.reserved \in Nat
    /\ {msgCid, store.msg, waitFor, plan.cid} \subseteq 0..Len(msgs)
    /\ procs \in BOOLEAN /\ pc \in PC
    /\ req \in [Reqs -> Requests]
    /\ st \in [Reqs -> {"new", "waiting", "ok", "failed"}]
    /\ rel \in [Reqs -> {"new", "waiting", "ok", "failed"}]
    /\ got \in [Reqs -> 0..Len(msgs)]
    /\ completed \subseteq Reqs /\ cancelled \subseteq Reqs /\ spent \subseteq Reqs
    /\ avail \in Nat
    /\ \A i \in DOMAIN msgs : msgs[i] \in MessageType

\* The store takes what it is given, a stop does not fall into process(), and
\* StateWaitMsg fails for no message that is still pending.
Recorded == faults \cap {"wait", "midcrash", "save"} = {}

\* Only one message of the address is in flight at a time ("If there is an
\* in-progress on-chain message, don't submit any more messages on chain until
\* it completes", fundmanager.go:183).
OneMessage ==
    Recorded => \A i, j \in DOMAIN msgs : ~ msgs[i].done /\ ~ msgs[j].done => i = j

\* Reservations that were granted and not released yet.
Outstanding == {q \in Reqs : req[q].kind = "reserve" /\ st[q] = "ok" /\ rel[q] # "ok"}

\* What callers were told is reserved for them is reserved, whatever batches
\* their requests and releases went into, and after a restart.
ReservationsHeld == Recorded /\ pc = "unlocked" => Amt(Outstanding) <= amtReserved

\* A withdrawal leaves in escrow what is reserved and not yet locked by a deal
\* ("the amount that must be kept in the address (cannot be withdrawn)",
\* fundmanager.go:145), although it executes long after netAvail was computed.
ReservedKept ==
    [][\A i \in DOMAIN msgs :
          /\ Recorded /\ ~ msgs[i].done /\ msgs'[i].done
          /\ msgs[i].kind = "withdraw" /\ avail' # avail
          => avail' + Amt(spent \cap Outstanding) >= amtReserved]_vars

\* A message pays for requests of its own wallet only, and a withdrawal pays
\* at least what the callers that were given its cid asked for.
BatchesMatch ==
    Recorded => \A i \in DOMAIN msgs :
        LET told == {q \in Reqs : got[q] = i} IN
        /\ \A q \in told : req[q].wallet = msgs[i].wallet
        /\ msgs[i].kind = "withdraw" => Amt(told) <= msgs[i].amt

\* A request is completed once.  Complete would panic the second time.
CompletedOnce == ~ panicked

\* Reserve "returns the cid of the message that was submitted on chain, or
\* cid.Undef if the required funds were already available" (line 118): when no
\* message is sent for a batch, the amount reserved is in escrow, what deals
\* have locked already apart.
UndefMeansAvailable ==
    [][\A q \in Reqs :
          /\ plan.cid = 0
          /\ req[q].kind = "reserve" /\ st[q] = "waiting" /\ st'[q] = "ok" /\ got'[q] = 0
          => avail + Amt(spent \cap Outstanding') >= plan.reserved]_vars

\* Every Reserve, Release and Withdraw call returns.  (Finitely many calls are
\* made: none is left waiting for good if time and again nobody waits.)
EveryRequestReturns == []<> \A q \in Reqs : "waiting" \notin {st[q], rel[q]}
=============================================================================
