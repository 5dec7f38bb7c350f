# Lotus: a TLA+ verification of its concurrent components

The repository (`src/`) is Lotus, an implementation of the Filecoin node and of
its storage miner, in a fork that changes the miner's scheduler and sealing
pipeline. It is a set of long-running Go components that share little state and
interact through method calls, channels, the chain and a datastore. What is hard
about them is not an algorithm but the order of events: results that come late
or twice, heads that are reverted, processes that stop between a push and a
save, goroutines that wait for each other. That is what these modules model.

1. [The system](#1-the-system): inventory
2. [Modules](#2-modules): what stands for what
3. [Runs](#3-runs): properties, bounds, fairness
4. [Proofs](#4-proofs)
5. [Known departures](#5-known-departures): where code and stated intent differ
6. [Limits and what is not modelled](#6-limits-and-what-is-not-modelled)

To check: `tlc -config X.cfg MCx` for a run (the table of section 3 names both),
`tlapm XProofs.tla` for proofs.

## 1. The system

| part | source | state it owns | operations | what is hard |
|---|---|---|---|---|
| sector locks | storage/paths/index_locks*.go | lock objects per sector, reference counts, reader counts, write bits | StorageLock, StorageTryLock, release on ctx.Done | object leaves the map while others look it up; wake-ups; contexts |
| fund manager | chain/market/fundmanager.go | queues of requests, amount reserved, message in flight, stored copy | Reserve, Release, Withdraw, process, Start | batching, cancelled callers, stop between push and save, stale balances |
| payment channels | paychmgr/ | channel records, queue of fund requests, waiting goroutines | getPaych, processQueue, createPaych, addFunds, waits, settle, restartPending | merged requests, contexts that end, failed messages, stops |
| message signer | chain/messagesigner | next nonce | SignMessage | stop between push and save |
| message pool | chain/messagepool | pending sets by nonce, funds, local messages | Push, PushUntrusted, Add, Remove, HeadChange, Prune, Clear | replace-by-fee, gaps, reorgs, pruning in between |
| chain events | chain/events | ring of tipsets, handlers per height, queued events | ChainAt, StateChanged, Called, head changes | reverts while a handler is registered or called, lost subscriptions |
| sync manager | chain/sync_manager.go | heads of peers, workers, pending and deferred buckets, recent syncs | SetPeerHead, handlePeerHead, handleWorkerStatus, handleInitialSyncDone | heads in any order, failing syncs, follow-up work |
| window PoSt change handler | storage/wdpost/wdpost_changehandler.go | current proof, cache of proofs, state per window | update, prover and submitter loops, goroutines | reorgs, aborted work that answers later, window boundaries |
| sealing scheduler | storage/sealer/sched*.go | queue, open windows, per-worker windows and resources | Schedule, runSched, trySched, handleWorker, disable | windows in flight to a worker that goes, resource accounts |
| PoSt scheduler | storage/sealer/sched_post.go | workers, resources per handle | Schedule, MaybeAddWorker, watch | wake-ups, workers that register twice |
| call tracking | storage/sealer/manager_calltracker.go | work records on disk, results, waiters | getWork, startWork, waitWork, waitSimpleCall, returnResult, setupWorkTracker | early, duplicate and late results, restarts |
| sealing state machine | storage/pipeline/fsm.go, fsm_events.go, states_*.go | SectorInfo, event queue | one planner and one handler per state | about 50 states, retries, messages of unknown fate, reorgs, operator commands |
| deal input | storage/pipeline/input.go | open sectors, assigned pieces, timers | SectorAddPieceToAny, updateInput, maybeStartSealing, handleAddPiece | timers against pieces |
| batchers | storage/pipeline/*_batch.go | registered sectors, waiting callers, timer | AddPreCommit, AddCommit, AddTermination, Flush, run | partial failures, callers that left, cutoffs |
| storage index, split store, chain store, VM, block mining, markets, API, tools | see PROJECT.json | | | not modelled |

Interactions. A sector (sealing state machine) asks the storage manager for
sealing steps; the manager schedules them (sealing scheduler), follows the call
(call tracking) and locks the sector's files (sector locks). The machine sends
its messages through the batchers, and waits for the chain by StateWaitMsg and
by ChainAt callbacks (chain events). Every message is given its nonce by the
message signer and goes to the message pool. Deal input hands the machine pieces.
Window PoSt is driven by head changes and uses the PoSt scheduler. The fund
manager keeps the market escrow of the wallet that publishes deals, the payment
channel manager the channels that retrievals are paid from. The sync manager
feeds the chain everybody looks at. `MessageSigner` is composed with
`MessagePool`, and `SealingFSM` with deal input and its timers; every other module
replaces its neighbours by everything they may answer.

## 2. Modules

| module | models | abstract / proofs | model |
|---|---|---|---|
| `IndexLocks` | sector locks | implements `SectorLocks`; `IndexLocksProofs` | `MCIndexLocks` |
| `FundManager` | fund manager of one address | `FundManagerProofs`, `FundsHeldProofs` | `MCClientFunds` |
| `Paych` | payment channels between two addresses | `PaychProofs` | `MCClientFunds`, `MCPaych` |
| `WdPost` | change handler | `WdPostProofs` | `MCSectors` |
| `SealingPlanners` | planners and event effects, pure | | (through `SealingFSM`) |
| `SealingFSM` | loop, handlers, deal input, chain, commands, restarts | | `MCSectors`, `MCSealingFSM` |
| `SyncManager` | sync manager | | `MCSyncManager` |
| `SealerSched` | sealing scheduler and workers | | `MCSealerSched` |
| `PostSched` | PoSt scheduler | `ManagerProofs` | `MCManager` |
| `CallTracker` | call tracking | `ManagerProofs` | `MCManager` |
| `ChainEvents` | observer, tipset cache, height and called events | | `MCChainEvents` |
| `Batchers` | the three batchers | `BatchersProofs` | `MCBatchers` |
| `MessagePool` | pending sets, head changes, pruning, local messages | | (through `MessageSigner`) |
| `MessageSigner` | signer above the pool | | `MCMessageSigner` |

`MCManager`, `MCClientFunds` and `MCSectors` each hold two components that share
no state. A variable `part`, chosen at the start, says which of the two moves, so
the states are the sum and not the product of the two; a property of the part that
stands still holds trivially there and is checked in the other half.

Definitions keep the names of the Go functions. A definition whose comment starts
with "Mutant:" is a deliberately wrong variant of the definition after it. It is
not part of the model: replacing the definition by it makes the named property
fail, which shows the property speaks of that code. Each property of a run has one.

**IndexLocks.** `locks` is the map, `Objs` the sectorLock objects, `r`, `w`,
`refs` their fields, `obj` the pointer a call keeps. lockWith is split at its
critical sections: `lockWithRef` (under i.lk), `tryLock` (under cond.L), a wake-up
and `Release`, the goroutine started at the end. `Release` holds i.lk and takes
cond.L inside; nothing takes them in the other order, so it is one action.

**SectorLocks** is what callers of the locks are promised: a call is granted when
no granted call conflicts, keeps its lock until its context ends, and is refused
only when nothing was asked for, a StorageTryLock met a conflict, or the context of
a StorageLock ended. `IndexLocks` names the mapping: status is read off `pc`.

**FundManager.** process() holds a.lk from start to end, but the world moves
meanwhile. `pc` walks through it: compute, push, tell the callers, apply and
save. `plan` holds its local variables. `store` is the datastore, `Restart`
loads it. `Execute` runs a message on chain, in any order. `spent` marks
reservations whose deal was published, which moves the escrow from available to
locked. The address is one: addresses share only the map that finds them.

**Paych.** processQueue holds ca.lk from start to end, but contexts end, the chain
moves and the node may stop meanwhile: `job` walks through it (filtered, merged,
create or taken, addFunds, pushed). What takes ca.lk waits until it is unlocked.
`chans` are the ChannelInfos, `wait` the goroutine behind each message, `queue` the
fundsReqQueue, whose order the sort of newMergedFundsReq replaces. A channel is
known by its create message. `want` and `faults` are chosen with the behaviour.

**WdPost.** Windows are numbered and follow each other. `HeadChange` picks the
part of the chain that is reverted and the new height; `updating` says which of
the two loops still has to be told. `gens` and `subs` are the goroutines that
prove and submit; "ok" and "error" are results that no loop has read yet. A
submission ends when its message is in the pool, not when the chain has it: `pushed`
holds the messages, each with the epoch of its commit randomness (`CommitEpochs`) and
whether the chain still has the ticket of that epoch. The randomness is read on the
tipset the submission was started with, so `behind`, and `low` of a submission, keep
the lowest height reverted since that tipset. `missed` records that a revert was not
notified (ChainNotify was interrupted, wdpost_sched.go:178).

**SyncManager.** The scheduler is one goroutine, so each handler is one action.
A bucket is a sequence of tipsets, a bucket set a sequence of buckets. The order
in which Go iterates the map of workers is a choice.

**SealerSched.** `RunSched` is one iteration of the scheduler's loop, trySched1
and the drains included. A worker goroutine moves through `pc` (ask for windows,
check the session, wait, process windows); a request through `state` (queued,
window, preparing, waiting, active or ready, answered). A task uses one unit of
its class. `overflow` records a window that did not fit into its channel,
`crashed` an index out of range in a slice of the scheduler.

**PostSched.** `handles` numbers the registrations of a worker: every
registration makes a handle with resources of its own.

**CallTracker.** `work` is on disk, the maps are in memory and lost in a
restart. `calls` is the worker's side: a call runs, finishes, and its result is
delivered, possibly again. Callers walk through Manager methods by `pc`; the context
of one that waits may end (`Cancelled`): waitCall then removes its channel, waitWork
leaves the maps as they are.

**SealingPlanners and SealingFSM.** `SealingPlanners` holds the table
`fsmPlanners`, the planners that are Go functions (`planCommitting`,
`finalRemoved`), the effects of events (`applyEvent`) and the walk of `planOne`
and `plan` over the queue. `SealingFSM` adds `Plan` (take the
queue), `Handle` (the handler of the state, a case per state), the input of
pieces, ChainAt callbacks, message execution, reorgs (`PreCommitMoves`), expiry
(`PreCommitExpires`, `TicketAges`, `DealChanges`), faults, operator commands and
`Restart`. A handler is atomic: it reads the chain, pushes at most one message
and sends at most one event. The exception is handleTerminating, which reads the
newest chain twice: `TerminatingNoSector` is its first read, `reads` says that the
second is still to come, and the chain moves in between. A deal lookup that fails is
not an API error to the callers of checkPieces but an invalid deal (`LookupFails`).
Loss between push and store is `Restart` while the event waits in `pending`. `past`
remembers what the exceptions of the properties are about: the kinds of lost
messages, the event that GetTicket refuses, the torn reads. Tickets, seeds and deal ids are
small numbers that tell old from new.

**ChainEvents.** `loop` is the one goroutine that turns head changes into reverts
and applies and tells the cache, the height events and the called events in turn;
ChainAt, StateChanged and Called run beside it, split where they let go of the
lock. `cache` is the ring buffer with its head, length and lookup by key. The tree
of tipsets is a constant; the node moves along it, closes the subscription, or
fails a call.

**Batchers.** The three batchers are one design with different details; `kind` says
which one a behaviour is about. Epochs pass only while the loop waits: it is quicker
than an epoch. `left` counts the epochs to the cutoff of a sector. A message is
counted per sector in it, `sent`. Fees and balances are a choice between sending one
by one, sending a batch and failing.

**MessagePool and MessageSigner.** `pool.pend` has the msgSet of every sender with
its next nonce and required funds. HeadChange holds curTsLk but takes lk for each
message, so it is a sequence of actions with Prune and Clear in between. `localMsgs`
is the datastore, reloaded by `Restart`. SignMessage is `SignStart`, `SignPush` (or
`SignRefused`), `SignPublish` and `SaveNonce`; its lock makes calls follow one another,
not the pool underneath.

External to the repository's modelled code, and given by how it is used: message
execution and the chain's record of a sector, the event loop of the state machine
library (go-statemachine), condition variables and contexts of Go. They are
marked external in PROJECT.json.

## 3. Runs

Deadlock checking is off where a system comes to a legitimate end (all requests of
the instance answered, the component stopped, or a bound reached); the liveness
properties say that it is a good one.

| run | model, configuration | checks | shows |
|---|---|---|---|
| `index_locks` | MCIndexLocks, MCIndexLocks.cfg | NoLostWakeup, ImplementsSectorLocks, EveryCallReturns | the map of reference-counted locks implements plain sector locks; no lost wake-up; every call returns |
| `client_funds` | MCClientFunds, MCClientFunds.cfg | OneMessage, ReservationsHeld, ReservedKept, EveryRequestReturns (market); StoreMatchesChain, ReservedBacked, CallsReturn (channels) | one message in flight; what was granted stays reserved and withdrawals leave it; the channel store agrees with the chain, and what callers were told is reserved is there; every call returns |
| `paych_race` | MCPaych, MCPaychRace.cfg | AmountReserved (violated) | a context that ends while requests are merged makes the create message too small, against paychmgr/simple.go:244 |
| `sectors` | MCSectors, MCSectors.cfg | CompleteIsValid, CurrentIsLive, OneSubmission, NoMissedSubmit (window proofs); NeverStranded, SealedIsProven, RemovalSafe, ReplicaMatchesChain, OneLiveMessage (pipeline) | the state per window agrees with the goroutines and the chain across reorgs; a sector never stops in the middle, and local state and chain agree |
| `sealing_settles` | MCSealingFSM, MCSealingFSMSettles.cfg | Settles | retries end, but for the listed loops |
| `batchers` | MCBatchers, MCBatchers.cfg | WaitingIsTodo, AnswersMatch, CutoffKept, EveryCallAnswered | callers are answered, once and truthfully, whatever part of a batch fails; no sector waits past its cutoff |
| `chain_events` | MCChainEvents, MCChainEvents.cfg | CacheMatchesChain, HeightsMatchChain, EventsMatchChain, CatchesUp | cache, height handlers and queued events match the chain between two changes; observers catch up after a lost subscription |
| `message_signer` | MCMessageSigner, MCMessageSigner.cfg | NonceIsNext, PoolCounts, LocalKept, NonceNotReused | the next nonce is the first free one; local messages stay until applied; no nonce is given to two messages |
| `sync_manager` | MCSyncManager, MCSyncManager.cfg | PendAnchored, SyncingEnds | pending work is attached to a worker, and ends |
| `sync_manager_deferred` | MCSyncManager, MCSyncManagerDeferred.cfg | DeferredProcessed (violated) | a deferred tipset is dropped when the only worker ends, against the comment at chain/sync_manager.go:413 |
| `sealer_sched` | MCSealerSched, MCSealerSched.cfg | ResourcesInUse, InOnePlace, HandedOverAnswered | accounts of resources right while workers restart and requests are removed; no request lost or doubled when a worker is disabled; handed-over work is answered |
| `storage_manager` | MCManager, MCManager.cfg | NoLostWakeup (PoSt); StartedHasOwner, WaitingEnds (calls) | nobody sleeps next to a free worker; no orphaned record blocks a work; waiting ends |

Bounds, and why they are enough for the cases the properties are about:

- `index_locks`: one sector (sectors share no object), three calls (a holder and
  two that compete), three objects, so that a lock can leave the map and come
  back twice; five requests as the storage manager makes them.
- `client_funds`, market: two requests of two wallets with amounts 1 and 2 and a
  balance up to 2: batches that fit, that do not, that are split by wallet. Two
  fault regimes: pushes and executions that fail and stops between calls of
  process(); or every API call failing and stops anywhere. Requests that only swap
  the two calls are left out.
- `client_funds`, channels: six scenarios of two or three requests, each with the
  faults that matter to it: requests that add available funds, that reserve, and
  that may only use what is there; failed messages, refused pushes, a wait that
  fails, settling by either side, a channel state that cannot be read, contexts that end
  during a merge, and a stop at safe places or anywhere. Three messages are the most
  three requests can cause.
- `paych_race`: two requests and a context that ends between filterQueue and sum.
- `sectors`, window proofs: windows of two epochs, heights to 4, three head changes.
  That is three windows, the first one with nothing to prove: advance, revert over
  a boundary and advance again; interrupted notifications, failing queries of the
  deadline and of the network version.
- `sectors`, pipeline: MarkForUpdate and Terminate, and any two of all thirteen kinds of
  fault in one behaviour (MaxFails 2) with one piece, any one with two (FaultsLeft), so
  that a piece comes while another is being added or after the sector was packed;
  `sealing_settles`: one piece and any one fault.
  MaxQueue bounds only the events that ReleaseSectorKeyFailed piles up.
- `batchers`: three sectors, two of which share a partition, three callers of which
  two may register the same sector, batches of at most two, cutoffs before and after
  the longest wait, one failure of any kind.
- `chain_events`: seven tipsets with a fork and a null round, a cache of
  two heights, so that it wraps; three moves of the head, one failure,
  one call at a time. Calls meet only through the lock that the loop takes too.
- `message_signer`: two signed messages and one of a remote sender, nonces 0 and 1,
  two changes of the head, a pool that prunes above two messages, one fault, and a
  balance that covers any one message and not every two, so that a restart may refuse
  a stored message.
- `sync_manager`: nine announcements of six tipsets: a chain, a fork, and a head
  without known ancestors; three workers, two recent syncs, so that the limits
  bind.
- `sealer_sched`: three scenarios on one worker with two windows and one unit per
  class: two P1 tasks with failing session checks; a task that is prepared and one
  that is ready, with restarts and removal; two that compete with a ready one.
- `storage_manager`: two window proofs and one winning proof, two workers with room
  for one proof, each registering at most twice; two callers of one work, or one and
  a simple call, two calls, one restart, a call that fails, one that is aborted, and a
  context that ends.

A module's TypeOK is checked where its proofs need it, by the proofs; the other
type invariants are stated in their modules and left out of the configurations.
PreparedFirst, WindowsCounted (`SealerSched`), SubmissionsInWindow (`WdPost`),
BatchesMatch (`FundManager`) and SentOnce (`Batchers`) also hold on these instances
and are weaker than, or beside, the properties that the runs check.

Fairness. Goroutines that can run do run, and messages and timers that are due
come: weak fairness on the steps of the code.

- `IndexLocks`: also that a holder's context ends. Every caller in the repository
  cancels the context it locks with.
- `FundManager`, `Paych`: steps of process() and processQueue, of the goroutines that
  wait for messages, and execution of pushed messages. No fairness on new calls,
  AvailableFunds, faults or restarts.
- `SyncManager`: a worker that runs ends at some time (doSync has a result).
- `SealerSched`: strong fairness where a Go select chooses among ready channels
  (WindowArrives, TaskDone) and where a waiting task competes for resources
  (Wake): Go's select is random among ready cases, so a case that is ready again
  and again is taken.
- `CallTracker`: callers and worker calls go on. Restarts and failures need not
  happen.
- `SealingFSM`: Plan, Handle, message execution, callbacks, timers, and the
  expiry of a precommit the chain has had for too long. No fairness on pieces,
  commands or faults.
- `ChainEvents`: the observer's loop, with its retry of a closed subscription, and
  the callers. No fairness on the node.
- `Batchers`: the loop, and that epochs pass.

What the properties except is named in them: `~ missed` and `VersionUnknown` (WdPost),
`crashes > 0` (CallTracker), `overflow`, restarts and removals (SealerSched), `past` and
`KnownLoop` (SealingFSM), `Recorded`, "race" and "wait" (Paych), `gone` and
`dropped` (Batchers), `unsigned`, `forgotten` and `cleared` (message pool). Each
exception is a departure of section 5.

## 4. Proofs

All theorems hold for every value of the constants that satisfies the named
assumption of the module.

**IndexLocksProofs** (any sectors, file types, requests and objects, any finite
set of calls). TypesHold, LocksExclude (MutualExclusion), LocksStayMapped
(ReferencedIsMapped), WakeupsReach (NoLostWakeup). MutualExclusion alone is not
inductive: canLock looks at counters and bits, not at holders, and two holders
are compared by sector, not by object. `IInv` adds

- ObjInv: an active call has an allocated object, and no object serves two sectors;
- CountInv: refs counts exactly the calls that refer to an object, r its readers,
  and a write bit is set exactly when some holder writes that type;
- ExclusiveObj: holders of one object do not conflict.

From ReferencedIsMapped two holders of one sector hold one object, so
ExclusiveObj gives MutualExclusion. Release is the long case: it clears write bits
that are not counted, which is right because ExclusiveObj says no other holder
shares them, and it removes the object from the map only when CountInv says that
nobody refers to it.

LocksRefine (ImplementsSectorLocks): the initial states map to initial states and
every step maps to a step of `SectorLocks` or to a stutter. Its heart is
CanLockExact: under IInv, canLock on the object's counters says exactly that no
granted call of that sector conflicts. A second invariant, OnlyBlockingWait (only
StorageLock calls wait), is needed for the refusals.

**FundManagerProofs** and **FundsHeldProofs** (any finite set of requests, any
wallets, amounts and balances). Three results, all under `Recorded`: the store takes
what it is given, the node does not stop inside process(), and StateWaitMsg does not
fail for a message that is still pending.

- OneMessageInFlight: Spec => []OneMessage. `FlightInv`: the message in flight is the
  one the state, the store and the waiter name, or the one process() has just pushed,
  while the state names none. The hypothesis is needed: TLC finds OneMessage violated
  with "wait", with "midcrash", and with "save" together with "crash" (section 5).
- ReservedAmountsHeld: Spec => []ReservationsHeld. Callers are told before the amount
  is recorded, so `FundsInv` follows the amounts through process(): `Covered` compares
  what was granted with the amount reserved, and, between the telling and the saving,
  with the amount planned; `QueuesSorted` says that only granted reservations are
  released and that a withdrawal is never answered as a reservation.
- ReservedAmountsKept: Spec => ReservedKept, an action property. `WithdrawalsFitting`
  says of the withdrawal that is planned or in flight that the escrow covers it and
  what is reserved, less what deals have locked; it rests on OneMessage, without which
  two withdrawals could take the same funds.

The loops of splitReservations, processWithdrawals and filterOutProcessedReqs are
recursive functions over positions. `InductionTo` (every number up to n has a property
that zero has and that carries over) is proved from the well-foundedness of the natural
numbers, for sets instead of operators, and `LoopRuns` from it: such a function exists
and does what each step says. The loop lemmas then state, for every k, what the first k
steps have computed. Sums of amounts over sets of requests are the cardinality of a
set of units (`Units`), which makes a sum over a union, a difference or a smaller set a
fact about finite sets.

**PaychProofs** (any requests, amounts and faults, no assumption on constants).
StoreKnowsChain: Spec => []StoreMatchesChain, which claims nothing where the node
may stop between a push and its record. The invariant `StoreInv` says which message
each record, each waiting goroutine and the running processQueue stand for:
a channel that is not open records its create message and expects what that message
carries; an open one records at most one message to itself; a goroutine waits only
for a recorded message; and while processQueue has a message that is not recorded
yet, the channel records none, and what the chain holds for it depends on that
message alone. BalanceMatches is not inductive without the last part: the chain may
execute a message before the store knows it. Amounts are sums over sets of requests,
which the provers cannot type; no step needs it, as store and chain change by the
same amounts.

**ManagerProofs**, call tracking (any work, callers and demands). StartedIsOwned: Spec =>
[]StartedHasOwner, through lost calls and answers, repeated deliveries, aborts,
contexts that end and restarts. `TrackInv` adds the types and AwaitsWork (a caller that
waits for work names a work). A step of a caller is summarised by `Moves`; OwnersStay says that a
caller may move on without leaving the work it started without an owner.

**ManagerProofs**, PoSt scheduler (any workers, any finite set of requests, any room).
NoLostWakeupHolds, RoomKeptHolds (no handle is overbooked), TypeCorrect and
PrimaryWaits, an action property (a window proof is turned away only when there is
no worker). `IInv` is TypeOK, NoLostWakeup and RoomKept; the lemmas on `active`
reduce the resources of a handle to the cardinality of the set of requests that use
it.

**WdPostProofs** (windows of any length, any heights, confidences and number of head
changes, any faults). ProverNeverWaitsForTheDead (CurrentIsLive),
OneSubmissionPerWindow (OneSubmission), CompleteStaysValid (CompleteIsValid) and
NoSubmissionMissed (NoMissedSubmit). `HandlerInv` has the types and

- Margin: a proof exists only for a window whose challenge is known, so that the
  arithmetic on windows at the end of the chain stays in range;
- SubmissionInv: OneSubmission without cardinalities, which is also what makes a late
  result of an aborted submission harmless: it is not under way;
- ValidInv: a window that is Complete, or has a successful result nobody has read, has
  a message the chain accepts, or the revert that made it worthless is in the head
  change the submitter is still being told of. CompleteIsValid alone is not inductive:
  the result may be read after the revert, and the message may be made after a revert
  that the submission's tipset does not know. ValidInv therefore also says that such
  reverts are handed over in full (Told) and that a submission which is not aborted has
  seen no revert to before its window (InTime). Its arithmetic is that the challenge is
  earlier than the opening: a revert that changes the ticket of the challenge takes the
  chain back before the window, which is the condition of the reset
  (wdpost_changehandler.go:432).

**BatchersProofs** (any finite sets of sectors and callers, any configuration and
faults, each of the three batchers). NobodyForgotten (WaitingIsTodo), AnswersTrue
(AnswersMatch) and CutoffsKept, an action property (CutoffKept). `BatcherInv` has the
types and WaitersUnsent (no message since a caller registered holds the sector it
waits for), from which an answer is true, and TimerInTime (the timer fires
before a registered sector is short of time, or the loop is about to look anyway).

Some leaves name a prover or a time limit (SMT, Zenon, `USE SMTT(20), ZenonT(20)`):
the one that decides them, not an assumption.

Only model-checked:

- all liveness properties: the prover does not reason about fairness;
- SyncManager, whose bucket operations are recursive operators, and SealingFSM with
  SealingPlanners, whose plan walks over the event queue and whose invariants
  range over about fifty states, each with its handler;
- SealerSched, ChainEvents, MessagePool and MessageSigner, which are built on folds,
  sorted sequences and lines of tipsets from the sequence library: what those compute
  is defined by recursive operators;
- ReservedBacked of the payment channels.

## 5. Known departures

Where the code does not do what its comments, its tests or its evident intent say.
Those with a property in parentheses are stated in the module under that name and
TLC finds a counterexample; the rest come from translating the code. DeferredProcessed
and AmountReserved are kept as runs.

Sector locks (storage/paths/index_locks.go)
- A StorageLock or StorageTryLock call that fails returns before it starts the
  goroutine that gives its reference back: the lock object of that sector then
  stays in the map. No property depends on it.

Fund manager (chain/market/fundmanager.go)
- A failing WithdrawFunds after a refused withdrawal completes a request twice
  (528, 485); the second close of the channel (644) panics (CompletedOnce).
- A stop after the push and before the save (271-273), a StateWaitMsg error (582),
  or a refused save (328) followed by a restart lead to two messages in flight
  (OneMessage with the fault "midcrash", "wait", or "save" and "crash").
- Reserve returns Undef "if the required funds were already available", but
  releases are netted first (453) although their funds may be locked by a deal
  (UndefMeansAvailable).

Payment channels (paychmgr)
- failOffChainNoChannel subtracts the amounts of off-chain requests that were
  cancelled before sum() left them out (simple.go:159, 227, 455): the create message
  carries too little (AmountReserved, run `paych_race`).
- A stop between the push of a message and its record loses the message: its channel
  or funds are unknown to the store (506, 620) (BalanceMatches and InFlightRecorded
  with "midcrash"). A stop between the result and SaveMessageResult leaves
  GetPaychWaitReady waiting for ever.
- After a StateWaitMsg error CreateMsg or AddFundsMsg stays set, and the queue waits
  for a restart (532, 648).
- A request for nothing that is alone in the queue is never answered (292), although
  the text at 237 advises to "create with 'lotus paych add-funds %s %s 0'".
- Requests that were filled stay in the queue when processTask returns without a
  message and an amount of zero or less, and are processed again.
- A channel whose state cannot be read is taken for settled (store.go:390-397): a second
  channel is created beside one that is active.
- What a reservation cancelled after sum() asked for is paid and credited to nobody;
  a channel may be created with nothing for callers that all left.

Window PoSt (storage/wdpost)
- "Only generate one proof at a time" (wdpost_changehandler.go:224): the late result
  of an aborted proof clears `current` (267) and a second proof starts beside the
  first (OneProofAtATime).
- Reverts during an interruption of ChainNotify are not delivered
  (wdpost_sched.go:178): a submission with the randomness of the other chain stays
  Complete (CompleteIsValid without `~ missed`).
- When the network version cannot be queried, the commit randomness is that of the
  opening of the window (wdpost_run.go:158-160). A revert to exactly that height changes
  it and is no reset (CompleteIsValid without `VersionUnknown`).
- A window is Complete once its messages are in the pool. That one fails on chain is
  only logged (wdpost_run.go:742-755); it is not submitted again.

Sync manager (chain/sync_manager.go)
- Deferred tipsets are dropped when the only worker ends (471-486)
  (DeferredProcessed, run `sync_manager_deferred`).
- Selecting deferred work decides on the first worker the map yields (485), so two
  workers may sync one tipset (NoDuplicateSync).

Sealing scheduler (storage/sealer)
- disable forgets windows still in the channel (sched_worker.go:197); the scheduler
  then overfills it, "expected ... done to be buffered" (sched1.go:386)
  (DoneBuffered, with three tasks and "session").
- A worker that restarts loses the windows in its channel (sched_worker.go:93)
  (InOnePlace, with "restart").
- IndexHeap of a skipped request is stale, so a request of a sector being removed is
  assigned (sched1.go:331) (AssignedAcceptable).
- Before initialisation a disable request is never answered (sched.go:327)
  (DisableCompletes, under FairSchedSpec).

PoSt scheduler (storage/sealer/sched_post.go)
- Enabled is not read when workers are chosen (128) (OnlyEnabled).
- A worker that registers again counts its resources anew (42) (GpusSuffice).

Call tracking (storage/sealer/manager_calltracker.go)
- A result stored late makes a later caller see "something else in waiting" (264, 457)
  (NobodyElseWaits).
- Of two callers that wait for one work the second gets an empty result and no error
  (304) (NoEmptyResult).
- After a failed call a caller may wait for work no call does (157, 188)
  (WaitsForRunning).
- After a restart a waiter may wait for ever for a result that was accepted and lost
  (449, 474) (WaitingEnds without `crashes > 0`).
- A caller whose context ends after the call was made and before startWork
  (sched.go:243) leaves a call nobody has recorded. Not modelled.

Chain events (chain/events)
- get counts back from the cache's own head although it is asked about another
  (tscache.go:107): a tipset that reaches the cache while ChainAt looks up gives the
  handler a later tipset than "the tipset at the specified epoch"
  (events_height.go:51) (TsAtHeight).
- With a full ring, get at the height just below the oldest one it holds (tailH) does
  not ask the node: the slot it computes is that of the head.
- An event between onHeadChanged and the adding of the matcher is seen by neither
  (events_called.go).
- The number of calls that a timeout looks at is not taken back by a revert.

Batchers (storage/pipeline/*_batch.go)
- A bucket of terminations that is cut at AddressedSectorsMax loses the rest: its
  callers are never answered (terminate_batch.go:174, 239) (WaitingIsTodo without
  `lost`).
- A commit batch of which every sector is gone answers nobody.
- API errors before a batch is made answer nobody until a later attempt.

Message pool and signer (chain/messagepool, chain/messagesigner)
- Clear(local = true) leaves replaced local messages in the datastore and does not
  reset currentSize (PoolCounts without `cleared`).
- The limits that messagepool.go:1058-1061 documents for PushUntrusted are not
  enforced: local = true makes the check not strict.
- A nonce that was pushed but not saved, and whose message the pool then forgot, is
  given again (NonceNotReused without `forgotten`).
- A restart reloads the stored messages through the checks for new ones: one whose
  sender's balance no longer covers it is passed over, although it was accepted and
  published, and stays in the store (LocalKept without `forgotten`).
- A restart that finds the stored messages of an address applied already does not mark
  the address as local (messagepool.go:1514-1516). After a reorganisation they are
  pending again and may be pruned (LocalKept without `forgotten`).

Sealing state machine (storage/pipeline)
- planCommitting returns processed = i for an event it does not know (fsm.go:691;
  fsm_test.go:344-346 expects 1): the event is never consumed. StartPacking and
  AbortUpgrade, or a second seed callback whose lookup fails, lead there.
- ReleaseSectorKeyFailed consumes nothing (fsm.go:577): a restart there repeats for
  ever, although states_failed.go:268 means to "wait for a bit and try again".
- Loops excepted by KnownLoop: a commit that failed on chain and whose message stays in
  SectorInfo, through CommitWait, CommitFailed and Committing or back through
  PreCommit1 (states_sealing.go:595-607, states_failed.go:303); an update out of gas
  followed by a change or expiry of its deal (states_failed.go:220); a precommit that
  landed and expired, PreCommitWait, WaitSeed, PreCommitFailed (states_failed.go:100); a
  commit or update pushed again after a stop that lost its cid. In the last case an
  update that landed unknown to the miner may also be aborted, and the sector proves its
  original data while the chain holds it to the update. A failed commit is excepted only
  while the sector is not on chain and is neither being terminated, removed, nor waiting
  for new deal ids.
- handleTerminating looks for the sector (states_proving.go:51) and for its precommit
  (59) on the newest chain, which may be two different ones. If the commit lands in
  between it finds neither and removes a sector that is live, against "See if sector is
  live. If not, goto removing" (43-45) (RemovalSafe without "torn").
- checkPieces makes an API error of StateMarketStorageDeal an ErrInvalidDeals
  (checks.go:73-76): a lookup that fails sends the sector to RecoverDealIDs or fails its
  precommit, as if the deal were gone.
- handlePreCommitWait dereferences a nil deal when StateMarketStorageDeal fails
  (states_sealing.go:528-533).
- handleSubmitCommitAggregate repeats its lookup ten times without leaving the loop on
  success (828-850).
- GetTicket does not accept SectorSealPreCommit1Failed, which its handler sends
  (states_sealing.go:209, fsm.go:74-77): the sector stays there until a restart.
- getTicket: an API error for an allocated sector removes it (157-206); "not
  proceeding" sends a nil ticket (139-148, 212).
- Terminating without a message goes to TerminateWait, which fails
  (states_proving.go:76, 83).
- An operator's abort in ReplicaUpdateWait drops an update that is still pending
  (fsm.go:197).
- SnapDealsRecoverDealIDs always goes on to SubmitReplicaUpdate (fsm.go:275).
- ForceSectorState's empty SectorCommitted erases the proof (fsm.go:720).
- padSector no longer compares the CID of the padding (states_sealing.go:115-119).

Deal input (storage/pipeline/input.go)
- An API error in maybeStartSealing leaves a sector closed with a stopped timer
  (127-131).
- A timer entry left from the sector's first life makes a second upgrade pack at once
  (95-102).
- maybeUpgradeSector lacks a `continue` (703); openSectors keeps a WaitDeals sector
  that was removed; pieces after one that failed are not answered (227-263).

## 6. Limits and what is not modelled

- One sector, one address, one pair of addresses, one work: properties across several
  (limits on sectors in sealing, fairness between works) are not expressed.
- Data is abstract: no gas, no sizes of pieces, no proof contents. A handler's call
  succeeds or fails.
- A sealing handler other than handleTerminating is atomic. The chain does not move
  while it runs; it may move between any two handlers. Where another handler reads the
  newest chain more than once, the reads see one chain here.
- Null rounds are not modelled in window PoSt: every height has a tipset.
- The goroutines of the payment channel manager use the merged context of their
  requests; the datastore is assumed to ignore its end.
- Not modelled in the state machine: ReceiveSector, the deprecated Empty and
  PackingFailed, and Faulty, FaultReported and FaultedFinal, whose events nothing in
  the repository sends. Deal input with several sectors.
- Not modelled in payment channels: vouchers, lanes, collecting, inbound channels.
- Not modelled in the message pool: selection of messages for a block, gas, the order
  of republication.

Parts without a module, with the reason for each, are in PROJECT.json, "components".
By size most of the repository is code in which nothing can go wrong between two
steps: generated CBOR and RPC code, API definitions, actor bindings per version,
command line tools and test kits are more than half of its lines. Of the rest the VM, the state manager and the actors are deterministic computation whose
result the modules take from the chain, the proofs are a Rust library, and message
selection is gas arithmetic out of TLC's reach. The lines the modules translate are
therefore a small share of the repository, and most of the lines of the components
they are about. The split store (compaction against concurrent views and writes) and
the storage index are concurrent, would repay a model, and have none.
