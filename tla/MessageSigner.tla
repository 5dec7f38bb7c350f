--------------------------- MODULE MessageSigner ---------------------------
(***************************************************************************)
(* The message signer above the message pool                               *)
(* (chain/messagesigner/messagesigner.go with MpoolPushMessage of          *)
(* node/impl/full/mpool.go): SignMessage takes the larger of the pool's    *)
(* nonce and the one in its store, signs, pushes, and only then stores the *)
(* next nonce.  Its lock makes calls follow one another, but not the pool  *)
(* underneath, and the node may stop between any two steps.                *)
(***************************************************************************)
EXTENDS MessagePool

CONSTANTS
    Local,          \* the address of the wallet
    Remote,         \* addresses of other nodes
    SignPremium, RemotePremiums,    \* premiums of signed messages and of those of other nodes
    MaxSigns        \* bound: messages signed

ASSUME MessageSignerAssumption ==
    Local \in Addrs /\ Remote \subseteq Addrs \ {Local} /\ SignPremium \in Premiums /\ RemotePremiums \subseteq Premiums /\ MaxSigns \in Nat

VARIABLES
    sign,           \* the call of SignMessage that holds the lock
    store,          \* the next nonce in the datastore; 0 when there is none
    signs,
    pushed,         \* history: signed messages that are or were in the pool
    saved           \* history: those whose nonce was stored

signer == <<sign, store, signs, pushed, saved>>
vars == <<poolVars, signer>>

NoSign == [pc |-> "idle", nonce |-> 0]

Init == PoolInit /\ sign = NoSign /\ store = 0 /\ signs = 0 /\ pushed = {} /\ saved = {}

Signed == [from |-> Local, nonce |-> sign.nonce, prem |-> SignPremium, id |-> signs]

\* Mutant: the stored nonce is used only when the pool has none.
nextNoncePool == getNonce(Local)

\* The nonce of the pool, unless the store is ahead of it.
nextNonce == PFs!Max({getNonce(Local), store})

SignStart ==
    /\ sign.pc = "idle" /\ signs < MaxSigns /\ Cardinality(net) < MaxMessages /\ ~head.on /\ nextNonce <= MaxNonce
    /\ signs' = signs + 1
    /\ sign' = [pc |-> "push", nonce |-> nextNonce]
    /\ UNCHANGED <<poolVars, store, pushed, saved>>

\* The message is pushed; a fee cap below the base fee leaves the publication to the republish loop.
SignPush ==
    /\ sign.pc = "push" /\ pushTs(Signed, FALSE)
    /\ pushed' = pushed \cup {Signed}
    /\ \/ localMsgs' = stored(Signed) /\ UNCHANGED poolFaults /\ \E pc \in {"publish", "save"} : sign' = [sign EXCEPT !.pc = pc]
       \/ /\ PoolMayFail("store") /\ poolFaults' = poolFaults + 1
          /\ sign' = NoSign /\ UNCHANGED localMsgs
    /\ UNCHANGED <<store, signs, saved>>

\* The wallet or the pool refuses.
SignRefused ==
    /\ sign.pc = "push" /\ ~head.on
    /\ sign' = NoSign
    /\ UNCHANGED <<poolVars, store, signs, pushed, saved>>

\* Push publishes; an error is returned to SignMessage, which then stores nothing.
SignPublish ==
    /\ sign.pc = "publish"
    /\ \/ sign' = [sign EXCEPT !.pc = "save"] /\ UNCHANGED poolFaults
       \/ sign' = NoSign /\ PoolMayFail("store") /\ poolFaults' = poolFaults + 1
    /\ UNCHANGED <<chain, heads, head, mem, localMsgs, net, history, store, signs, pushed, saved>>

SaveNonce ==
    /\ sign.pc = "save" /\ sign' = NoSign
    /\ \/ store' = sign.nonce + 1 /\ saved' = saved \cup {Signed} /\ UNCHANGED poolFaults
       \/ PoolMayFail("store") /\ poolFaults' = poolFaults + 1 /\ UNCHANGED <<store, saved>>
    /\ UNCHANGED <<chain, heads, head, mem, localMsgs, net, history, signs, pushed>>

Restart == RestartPool /\ sign' = NoSign /\ UNCHANGED <<store, signs, pushed, saved>>

\* A message of an operator or of another node.
Message(a, prems) == {[from |-> a, nonce |-> n, prem |-> p, id |-> 0] : n \in 0..MaxNonce, p \in prems}

\* The operator replaces what was signed.
Replace == \E m \in Message(Local, Premiums) : At(pool.pend[Local], m.nonce) # {} /\ \E untrusted \in BOOLEAN : Push(m, untrusted)

PoolNext ==
    \/ Replace \/ (\E a \in Remote : \E m \in Message(a, RemotePremiums) : Add(m) \/ Miss(m))
    \/ (\E k \in 0..MaxHeight : HeadChange(k)) \/ ApplyTipset
    \/ (\E m \in head.left : RemoveApplied(m)) \/ (\E m \in head.rmsgs : AddSkipChecks(m)) \/ HeadDone
    \/ PruneStart \/ Prune \/ CoolDown \/ (\E local \in BOOLEAN : Clear(local))

Next ==
    \/ SignStart \/ SignPush \/ SignRefused \/ SignPublish \/ SaveNonce \/ Restart
    \/ PoolNext /\ UNCHANGED signer

Spec == Init /\ [][Next]_vars

-----------------------------------------------------------------------------
\* SignMessage gives no nonce to two messages that were both pushed, whatever fails or stops
\* between the push and saveNonce, unless the pool lost the first one in a way LocalKept names or
\* it was never in the store of local messages; and never to two whose nonces were both stored.
NonceNotReused ==
    \A x, y \in pushed : x # y /\ x.nonce = y.nonce => <<Local, x.nonce>> \in forgotten /\ ~({x, y} \subseteq saved)
=============================================================================
