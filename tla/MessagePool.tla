---------------------------- MODULE MessagePool ----------------------------
(***************************************************************************)
(* The message pool (chain/messagepool/messagepool.go, pruning.go): the    *)
(* pending messages of every sender with the nonce that follows them,      *)
(* additions from the node and from the network, the removal of messages   *)
(* that were applied and the return of reverted ones when the head         *)
(* changes, pruning, and the store of local messages that is loaded after  *)
(* a restart.                                                              *)
(*                                                                         *)
(* A tipset is the set of its messages, at most one of a sender; chain is  *)
(* the sequence of tipsets up to the pool's curTs.  A message is its       *)
(* sender, nonce, premium and a number that tells messages apart; its      *)
(* funds are its premium.  HeadChange holds curTsLk throughout but takes   *)
(* lk for each message, so Prune and Clear can come in between.            *)
(***************************************************************************)
EXTENDS Integers, Sequences, FiniteSets

PFs == INSTANCE FiniteSetsExt
PSq == INSTANCE SequencesExt

CONSTANTS
    Addrs, Premiums,
    MaxMessages, MaxNonce, MaxHeight, MaxHeads, \* bounds: messages, nonces, tipsets, changes of the head
    MaxNonceGap, MaxActorPendingMessages, MaxUntrustedActorPendingMessages,
    SizeLimitHigh, SizeLimitLow, Balance,       \* configuration and the funds of every sender
    Priority,                                   \* addresses that are never pruned
    PoolFaults, MaxPoolFaults                   \* "signature", "store", "clear", "crash"

ASSUME MessagePoolAssumption ==
    /\ Premiums \subseteq Nat /\ MaxMessages \in Nat /\ MaxNonce \in Nat /\ MaxHeight \in Nat /\ MaxHeads \in Nat /\ MaxNonceGap \in Nat
    /\ MaxActorPendingMessages \in Nat /\ MaxUntrustedActorPendingMessages \in Nat
    /\ SizeLimitHigh \in Nat /\ SizeLimitLow \in Nat /\ Balance \in Nat /\ Priority \subseteq Addrs
    /\ PoolFaults \subseteq {"signature", "store", "clear", "crash"} /\ MaxPoolFaults \in Nat

VARIABLES
    chain,          \* the tipsets up to curTs
    heads,          \* changes of the head so far
    head,           \* the HeadChange that runs: tipsets to apply, messages left of the one being applied, reverted messages
    pool,           \* pending, currentSize and whether pruneTrigger is full
    pruning,        \* pruneExcessMessages has read curTs
    cool,           \* the pruneCooldown has a token
    localMsgs,      \* the store of local messages
    localAddrs,
    net,            \* messages a miner may know of: what was not published at once is republished
    unsigned,       \* history: reverted messages whose signature was not in the cache
    forgotten,      \* history: nonces of local messages lost in one of the ways LocalKept names
    cleared,        \* history: Clear was called
    poolFaults

mem == <<pool, pruning, cool, localAddrs>>
history == <<unsigned, forgotten, cleared>>
poolVars == <<chain, heads, head, mem, localMsgs, net, history, poolFaults>>

NoSet == [here |-> FALSE, msgs |-> {}, next |-> 0, funds |-> 0]
NoHead == [on |-> FALSE, apply |-> <<>>, left |-> {}, rmsgs |-> {}]
EmptyPool == [pend |-> [a \in Addrs |-> NoSet], size |-> 0, trigger |-> FALSE]

PoolInit ==
    /\ chain = <<>> /\ heads = 0 /\ head = NoHead
    /\ pool = EmptyPool /\ pruning = FALSE /\ cool = TRUE
    /\ localMsgs = {} /\ localAddrs = {} /\ net = {}
    /\ unsigned = {} /\ forgotten = {} /\ cleared = FALSE /\ poolFaults = 0

PoolMayFail(f) == f \in PoolFaults /\ poolFaults < MaxPoolFaults

-----------------------------------------------------------------------------
(* The chain and the pending set of one sender. *)

getStateNonce(a, ch) == Cardinality({i \in DOMAIN ch : \E m \in ch[i] : m.from = a})

newMsgSet(n) == [here |-> TRUE, msgs |-> {}, next |-> n, funds |-> 0]

nonces(msgs) == {<<m.from, m.nonce>> : m \in msgs}

At(ms, n) == {m \in ms.msgs : m.nonce = n}

\* The first nonce from n on that is not pending.
fillGap(msgs, n) == PFs!Min({k \in n..MaxNonce + 2 : \A m \in msgs : m.nonce # k})

ComputeMinRBF(prem) == prem + (prem * 64) \div 256 + 1

sumFunds(msgs) == PFs!MapThenSumSet(LAMBDA m : m.prem, msgs)

refuses(ms, m, strict, untrusted) ==
    LET maxGap == IF untrusted THEN 0 ELSE MaxNonceGap
        maxPending == IF untrusted THEN MaxUntrustedActorPendingMessages ELSE MaxActorPendingMessages
        old == At(ms, m.nonce)
    IN  \/ strict /\ m.nonce > ms.next + maxGap
        \/ strict /\ m.nonce > ms.next /\ old # {}
        \/ \E o \in old : m.prem < ComputeMinRBF(o.prem)
        \/ strict /\ old = {} /\ Cardinality(ms.msgs) >= maxPending

\* Mutant: the funds of a replaced message stay reserved.
addFunds(ms, m) ==
    [ms EXCEPT !.next = IF m.nonce = @ THEN fillGap(ms.msgs, @ + 1) ELSE @,
               !.msgs = (@ \ At(ms, m.nonce)) \cup {m},
               !.funds = @ + m.prem]

\* The set with a message it does not refuse.
add(ms, m) ==
    [ms EXCEPT !.next = IF m.nonce = @ THEN fillGap(ms.msgs, @ + 1) ELSE @,
               !.msgs = (@ \ At(ms, m.nonce)) \cup {m},
               !.funds = @ - sumFunds(At(ms, m.nonce)) + m.prem]

\* Mutant: an applied message that was not known does not advance the nonce.
rmKnown(ms, n, applied) ==
    [ms EXCEPT !.msgs = @ \ At(ms, n), !.funds = @ - sumFunds(At(ms, n)),
               !.next = IF At(ms, n) = {} THEN @ ELSE IF applied THEN PFs!Max({@, n + 1}) ELSE PFs!Min({@, n})]

\* A message is applied or pruned.  One that was applied without being known may fill a gap.
rm(ms, n, applied) ==
    [ms EXCEPT !.msgs = @ \ At(ms, n), !.funds = @ - sumFunds(At(ms, n)),
               !.next = IF At(ms, n) = {} THEN IF applied /\ n >= @ THEN fillGap(ms.msgs, n + 1) ELSE @
                        ELSE IF applied THEN PFs!Max({@, n + 1}) ELSE PFs!Min({@, n})]

-----------------------------------------------------------------------------
(* The pool. *)

getRequiredFunds(ms, n) == ms.funds - sumFunds(At(ms, n))

\* The balance covers the message together with what is pending.
checkBalance(p, m) == m.prem + getRequiredFunds(p.pend[m.from], m.nonce) <= Balance

(* A sender without pending messages gets a set that starts at its nonce on chain; the set *)
(* stays when the message is then refused.                                                 *)
pendingSet(p, a, ch) == IF p.pend[a].here THEN p.pend[a] ELSE newMsgSet(getStateNonce(a, ch))

addLocked(p, m, strict, untrusted, ch) ==
    LET ms == pendingSet(p, m.from, ch)
        size == p.size + IF At(ms, m.nonce) = {} THEN 1 ELSE 0
    IN  IF refuses(ms, m, strict, untrusted) THEN [ok |-> FALSE, p |-> [p EXCEPT !.pend[m.from] = ms]]
        ELSE [ok |-> TRUE,
              p |-> [pend |-> [p.pend EXCEPT ![m.from] = add(ms, m)], size |-> size,
                     trigger |-> p.trigger \/ (size > p.size /\ size > SizeLimitHigh)]]

\* A set without messages is deleted.
remove(p, a, n, applied) ==
    LET ms == rm(p.pend[a], n, applied)
    IN  IF ~p.pend[a].here THEN p
        ELSE [p EXCEPT !.pend[a] = IF ms.msgs = {} THEN NoSet ELSE ms,
                       !.size = @ - Cardinality(At(p.pend[a], n))]

removeAll(p, msgs, applied) ==
    PSq!FoldLeft(LAMBDA q, m : remove(q, m.from, m.nonce, applied), p, PSq!SetToSeq(msgs))

\* The state nonce is not above the message's and the balance suffices.
addable(p, m, ch) == getStateNonce(m.from, ch) <= m.nonce /\ checkBalance(p, m)

getNonce(a) ==
    LET n == getStateNonce(a, chain)
    IN  IF pool.pend[a].here THEN PFs!Max({n, pool.pend[a].next}) ELSE n

\* addLocal stores the message.
stored(m) == localMsgs \cup {m}

(* A message of the node itself: it is added without the strict checks, whether or not it   *)
(* comes through PushUntrusted, and stored.                                                 *)
pushTs(m, untrusted) ==
    /\ ~head.on /\ addable(pool, m, chain)
    /\ LET r == addLocked(pool, m, FALSE, untrusted, chain)
       IN  r.ok /\ pool' = r.p
    /\ localAddrs' = localAddrs \cup {m.from} /\ net' = net \cup {m}
    /\ UNCHANGED <<chain, heads, head, pruning, cool, history>>

\* A signed message is pushed, by Push or by PushUntrusted, for instance to replace one that is pending.
Push(m, untrusted) ==
    /\ m \notin net /\ Cardinality(net) < MaxMessages /\ pushTs(m, untrusted)
    /\ localMsgs' = stored(m)
    /\ UNCHANGED poolFaults

\* A message arrives from the network.
Add(m) ==
    /\ m \in net \/ Cardinality(net) < MaxMessages
    /\ ~head.on /\ addable(pool, m, chain)
    /\ pool' = addLocked(pool, m, TRUE, FALSE, chain).p
    /\ net' = net \cup {m}
    /\ UNCHANGED <<chain, heads, head, pruning, cool, localMsgs, localAddrs, history, poolFaults>>

\* A message of another node does not reach this one.
Miss(m) ==
    /\ m \notin net /\ Cardinality(net) < MaxMessages
    /\ net' = net \cup {m}
    /\ UNCHANGED <<chain, heads, head, mem, localMsgs, history, poolFaults>>

-----------------------------------------------------------------------------
(* HeadChange. *)

\* The tipsets a miner could make on top of ch.
Tipsets(ch) ==
    {ts \in SUBSET {m \in net : m.nonce = getStateNonce(m.from, ch)} :
        ts # {} /\ \A x, y \in ts : x.from = y.from => x = y}

\* At most two tipsets on top of ch.
Branches(ch) ==
    LET one == {<<ts>> : ts \in Tipsets(ch)}
    IN  {<<>>} \cup one \cup UNION {{q \o <<ts>> : ts \in Tipsets(ch \o q)} : q \in one}

\* The tipsets above k are reverted; the messages whose signature is known will be added again.
HeadChange(k) ==
    /\ ~head.on /\ heads < MaxHeads /\ k \in 0..Len(chain)
    /\ LET base == SubSeq(chain, 1, k)
           reverted == UNION {chain[i] : i \in k + 1..Len(chain)}
       IN  \E apply \in Branches(base), bad \in SUBSET reverted :
              /\ apply # <<>> \/ reverted # {}
              /\ Len(base) + Len(apply) <= MaxHeight
              /\ bad # {} => PoolMayFail("signature")
              /\ chain' = base
              /\ head' = [on |-> TRUE, apply |-> apply, left |-> {}, rmsgs |-> reverted \ bad]
              /\ unsigned' = unsigned \cup bad
              /\ forgotten' = forgotten \cup nonces(bad)
              /\ poolFaults' = poolFaults + IF bad = {} THEN 0 ELSE 1
    /\ heads' = heads + 1
    /\ UNCHANGED <<mem, localMsgs, net, cleared>>

\* The reverted messages that an applied one stands for: by nonce.
twins(m) == {r \in head.rmsgs : r.from = m.from /\ r.nonce = m.nonce}

\* curTs becomes the next tipset; its messages are left to be taken out.
ApplyTipset ==
    /\ head.on /\ head.left = {} /\ head.apply # <<>>
    /\ chain' = Append(chain, Head(head.apply))
    /\ head' = [head EXCEPT !.apply = Tail(@), !.left = Head(head.apply)]
    /\ UNCHANGED <<heads, mem, localMsgs, net, history, poolFaults>>

\* An applied message is taken out of the reverted ones, or else out of the pool.
RemoveApplied(m) ==
    /\ m \in head.left
    /\ pool' = IF twins(m) = {} THEN remove(pool, m.from, m.nonce, TRUE) ELSE pool
    /\ head' = [head EXCEPT !.left = @ \ {m}, !.rmsgs = @ \ twins(m)]
    /\ UNCHANGED <<chain, heads, pruning, cool, localMsgs, localAddrs, net, history, poolFaults>>

\* A reverted message comes back, without checks.
AddSkipChecks(m) ==
    /\ head.left = {} /\ head.apply = <<>> /\ m \in head.rmsgs
    /\ pool' = addLocked(pool, m, FALSE, FALSE, chain).p
    /\ head' = [head EXCEPT !.rmsgs = @ \ {m}]
    /\ UNCHANGED <<chain, heads, pruning, cool, localMsgs, localAddrs, net, history, poolFaults>>

HeadDone ==
    /\ head.on /\ head.left = {} /\ head.apply = <<>> /\ head.rmsgs = {}
    /\ head' = NoHead
    /\ UNCHANGED <<chain, heads, mem, localMsgs, net, history, poolFaults>>

-----------------------------------------------------------------------------
(* Pruning, clearing, restarts. *)

\* pruneExcessMessages waits for curTsLk, and lets go of it.
PruneStart ==
    /\ pool.trigger /\ ~pruning /\ ~head.on
    /\ pool' = [pool EXCEPT !.trigger = FALSE] /\ pruning' = TRUE
    /\ UNCHANGED <<chain, heads, head, cool, localMsgs, localAddrs, net, history, poolFaults>>

Pending(p) == UNION {p.pend[a].msgs : a \in Addrs}

\* Local and priority addresses are never pruned.
protected == localAddrs \cup Priority

(* A restart that finds all stored messages of an address applied does not make it local    *)
(* (messagepool.go:1514-1516): if they are reverted later they are as good as anyone's.     *)
unmarked(p, q) == {x \in nonces(localMsgs) : x[1] \notin localAddrs} \cap (nonces(Pending(p)) \ nonces(Pending(q)))

(* Messages are removed except the protected ones and the best that fit below the low mark; *)
(* which ones are best depends on gas and fees, so any may be.  Without a base fee none is. *)
Prune ==
    /\ pruning /\ pruning' = FALSE
    /\ IF pool.size < SizeLimitHigh \/ ~cool THEN UNCHANGED <<pool, cool>>
       ELSE LET kept == {m \in Pending(pool) : m.from \in protected}
                room == PFs!Max({0, SizeLimitLow - Cardinality(kept)})
            IN  /\ cool' = FALSE
                /\ \/ \E best \in SUBSET (Pending(pool) \ kept) :
                          /\ Cardinality(best) <= room
                          /\ pool' = removeAll(pool, Pending(pool) \ (kept \cup best), FALSE)
                   \/ UNCHANGED pool
    /\ forgotten' = forgotten \cup unmarked(pool, pool')
    /\ UNCHANGED <<chain, heads, head, localMsgs, localAddrs, net, unsigned, cleared, poolFaults>>

CoolDown ==
    /\ ~cool /\ cool' = TRUE
    /\ UNCHANGED <<chain, heads, head, pool, pruning, localMsgs, localAddrs, net, history, poolFaults>>

\* The operator clears the pool; currentSize is left as it is.
Clear(local) ==
    /\ PoolMayFail("clear") /\ poolFaults' = poolFaults + 1 /\ cleared' = TRUE
    /\ LET out == IF local THEN Addrs ELSE Addrs \ localAddrs
           mine == UNION {pool.pend[a].msgs : a \in localAddrs}
       IN  /\ pool' = [pool EXCEPT !.pend = [a \in Addrs |-> IF a \in out THEN NoSet ELSE @[a]]]
           /\ localMsgs' = IF local THEN localMsgs \ mine ELSE localMsgs
           /\ forgotten' = forgotten \cup IF local THEN nonces(mine \cup localMsgs) ELSE unmarked(pool, pool')
    /\ UNCHANGED <<chain, heads, head, pruning, cool, localAddrs, net, unsigned>>

\* Mutant: the message that is next on the chain counts as too old.
loadOneLater(r, m) ==
    LET ch == chain \o head.apply
    IN  IF getStateNonce(m.from, ch) >= m.nonce THEN r
        ELSE IF ~checkBalance(r.p, m) THEN [r EXCEPT !.poor = @ \cup {m}]
        ELSE [r EXCEPT !.p = addLocked(@, m, FALSE, FALSE, ch).p]

\* A message of the store that is too old is passed over; one the balance does not cover is refused.
loadOne(r, m) ==
    LET ch == chain \o head.apply
    IN  IF getStateNonce(m.from, ch) > m.nonce THEN r
        ELSE IF ~checkBalance(r.p, m) THEN [r EXCEPT !.poor = @ \cup {m}]
        ELSE [r EXCEPT !.p = addLocked(@, m, FALSE, FALSE, ch).p]

\* The messages of the store, in any order.
loadLocal(order) == PSq!FoldLeft(loadOne, [p |-> EmptyPool, poor |-> {}], order)

(* The node stops and starts again on the head the chain store has.  What was not in the store *)
(* is lost, and so is a nonce none of whose stored messages could be paid for.                 *)
RestartPool ==
    /\ PoolMayFail("crash") /\ poolFaults' = poolFaults + 1
    /\ chain' = chain \o head.apply /\ head' = NoHead
    /\ \E order \in PSq!SetToSeqs(localMsgs) :
          LET r == loadLocal(order)
              unstored == {m \in Pending(pool) \cup head.rmsgs : m.from \in localAddrs} \ localMsgs
          IN  /\ pool' = r.p
              /\ forgotten' = forgotten \cup nonces(unstored) \cup (nonces(r.poor) \ nonces(Pending(r.p)))
    /\ localAddrs' = {m.from : m \in {x \in localMsgs : x.nonce >= getStateNonce(x.from, chain')}}
    /\ pruning' = FALSE /\ cool' = TRUE
    /\ cleared' = FALSE
    /\ UNCHANGED <<heads, localMsgs, net, unsigned>>

-----------------------------------------------------------------------------
(* Properties. *)

\* No pending message has a nonce the chain has passed, and the nonce the pool would give next
\* (getNonceLocked) is the first one that is neither on the chain nor pending, however additions,
\* replacements, head changes and pruning followed one another.  Reverted messages that could
\* not be added again leave a gap of their own.
NonceIsNext ==
    ~head.on => \A a \in Addrs :
        LET ms == pool.pend[a]
            n == getStateNonce(a, chain)
        IN  /\ \A m \in ms.msgs : m.nonce >= n
            /\ ms.here /\ (\A m \in unsigned : m.from # a) => getNonce(a) = fillGap(ms.msgs, n)

\* requiredFunds of every sender is the sum over what is pending, replaced messages included, and
\* currentSize counts the pending messages until the operator clears the pool.
PoolCounts ==
    /\ \A a \in Addrs : pool.pend[a].funds = sumFunds(pool.pend[a].msgs)
    /\ ~cleared => pool.size = Cardinality(Pending(pool))

\* A message in the store of local messages is applied, or one with its nonce is still pending:
\* pruning, replacement, reorganisations and restarts never lose it, unless Clear removed it, a
\* signature was missing, the balance did not cover it when a restart loaded the store, or a
\* restart found it applied and it was pruned after a reorganisation (the address was not local).
LocalKept ==
    ~head.on => \A m \in localMsgs :
        m.nonce < getStateNonce(m.from, chain) \/ At(pool.pend[m.from], m.nonce) # {} \/ <<m.from, m.nonce>> \in forgotten
=============================================================================
