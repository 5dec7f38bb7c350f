------------------------- MODULE FundManagerProofs -------------------------
(***************************************************************************)
(* For any requests, wallets and amounts: a fund manager that is not       *)
(* stopped in the middle of process(), whose datastore works and whose     *)
(* StateWaitMsg calls succeed never has two messages in flight.  The       *)
(* invariant, FlightInv, says which message each copy of the state names.  *)
(*                                                                         *)
(* The rest are lemmas for FundsHeldProofs, about the operators of the     *)
(* model.  A loop is a recursive function of the number of turns: there is *)
(* a run of it (LoopRuns), and what each turn keeps holds at the end       *)
(* (InductionTo).  A sum over a set of requests is the cardinality of a    *)
(* set of units (TotalIsUnits), so that the theorems about cardinalities   *)
(* apply.                                                                  *)
(***************************************************************************)
EXTENDS FundManager, FiniteSetTheorems, TLAPS

\* process() pushed a message and did not record it in the state yet.
Unrecorded == {"completeRes", "applyRes", "completeWd", "applyWd"}

IsMsg(m) == m = [kind |-> m.kind, wallet |-> m.wallet, amt |-> m.amt, done |-> m.done]

\* The message in flight is the one the state names and the waiter waits for,
\* or the one process() has just pushed, in which case the state names none.
FlightInv ==
    /\ \E S : msgs \in Seq(S)
    /\ \A i \in DOMAIN msgs : IsMsg(msgs[i])
    /\ plan = [cancel |-> plan.cancel, add |-> plan.add, wallet |-> plan.wallet,
               reserved |-> plan.reserved, amt |-> plan.amt, err |-> plan.err, cid |-> plan.cid]
    /\ waitFor = msgCid /\ store = [reserved |-> store.reserved, msg |-> msgCid]
    /\ pc # "unlocked" => msgCid = 0
    /\ pc \notin Unrecorded => plan.cid = 0
    /\ plan.err => plan.cid = 0
    /\ plan.err => pc \in {"completeRes", "applyRes", "applyWd"}
    /\ \A i \in DOMAIN msgs : ~ msgs[i].done => i = msgCid \/ i = plan.cid

-----------------------------------------------------------------------------
\* The provers get more time than the default.
USE SMTT(20), ZenonT(20)

\* What Append does to a sequence whose elements have no common type.
LEMMA AppendAny ==
    ASSUME NEW s, \E S : s \in Seq(S), NEW e
    PROVE  /\ \E S : Append(s, e) \in Seq(S)
           /\ Len(s) \in Nat /\ DOMAIN s = 1..Len(s)
           /\ Len(Append(s, e)) = Len(s) + 1
           /\ DOMAIN Append(s, e) = 1..(Len(s) + 1)
           /\ \A i \in 1..Len(s) : Append(s, e)[i] = s[i]
           /\ Append(s, e)[Len(s) + 1] = e
<1>1. PICK S : s \in Seq(S)
  OBVIOUS
<1> DEFINE T == S \cup {e}
<1>2. s \in Seq(T) /\ e \in T
  BY <1>1
<1> HIDE DEF T
<1>3. /\ Append(s, e) \in Seq(T) /\ Len(s) \in Nat /\ DOMAIN s = 1..Len(s)
      /\ Len(Append(s, e)) = Len(s) + 1
      /\ DOMAIN Append(s, e) = 1..(Len(s) + 1)
      /\ \A i \in 1..Len(s) : Append(s, e)[i] = s[i]
      /\ Append(s, e)[Len(s) + 1] = e
  BY <1>2
<1>4. QED
  BY Zenon, <1>3

\* A fund manager without messages satisfies the invariant.
LEMMA InitFlight == Init => FlightInv
<1> SUFFICES ASSUME Init PROVE FlightInv
  OBVIOUS
<1>1. msgs \in Seq({})
  BY DEF Init
<1>2. QED
  BY <1>1 DEF Init, FlightInv, NoPlan, Unrecorded

\* A step that pushes nothing, executes nothing and keeps the state and its
\* stored copy.
LEMMA SameFlight ==
    ASSUME FlightInv, UNCHANGED <<msgs, msgCid, store, waitFor, plan>>,
           \/ UNCHANGED pc
           \/ pc = "completeRes" /\ pc' = "applyRes"
           \/ pc = "completeWd" /\ pc' = "applyWd"
           \/ pc = "unlocked" /\ pc' = "withdrawals" /\ msgCid = 0
    PROVE  FlightInv'
  BY DEF FlightInv, IsMsg, Unrecorded

\* MpoolPushMessage while nothing is in flight.
LEMMA PushFlight ==
    ASSUME FlightInv, NEW k, NEW w, NEW a, Push(k, w, a),
           UNCHANGED <<msgCid, store, waitFor>>,
           pc \notin Unrecorded \cup {"unlocked"}, pc' \in Unrecorded,
           plan' = [plan EXCEPT !.cid = Len(msgs')]
    PROVE  FlightInv'
<1> DEFINE m == [kind |-> k, wallet |-> w, amt |-> a, done |-> FALSE]
<1>1. msgs' = Append(msgs, m)
  BY DEF Push
<1>2. \E S : msgs \in Seq(S)
  BY DEF FlightInv
<1> HIDE DEF m
<1>3. /\ \E S : msgs' \in Seq(S)
      /\ Len(msgs) \in Nat /\ DOMAIN msgs = 1..Len(msgs)
      /\ Len(msgs') = Len(msgs) + 1
      /\ DOMAIN msgs' = 1..(Len(msgs) + 1)
      /\ \A i \in 1..Len(msgs) : msgs'[i] = msgs[i]
      /\ msgs'[Len(msgs) + 1] = m
  <2>1. /\ \E S : Append(msgs, m) \in Seq(S)
        /\ Len(msgs) \in Nat /\ DOMAIN msgs = 1..Len(msgs)
        /\ Len(Append(msgs, m)) = Len(msgs) + 1
        /\ DOMAIN Append(msgs, m) = 1..(Len(msgs) + 1)
        /\ \A i \in 1..Len(msgs) : Append(msgs, m)[i] = msgs[i]
        /\ Append(msgs, m)[Len(msgs) + 1] = m
    BY <1>2, AppendAny, Zenon
  <2>2. QED
    BY <1>1, <2>1, Zenon
<1>4. plan' = [cancel |-> plan.cancel, add |-> plan.add, wallet |-> plan.wallet,
               reserved |-> plan.reserved, amt |-> plan.amt, err |-> plan.err,
               cid |-> Len(msgs) + 1]
  BY <1>3 DEF FlightInv
<1>5. \A i \in DOMAIN msgs' : IsMsg(msgs'[i])
  BY <1>3 DEF FlightInv, IsMsg, m
<1>6. \A i \in DOMAIN msgs' : ~ msgs'[i].done => i = msgCid' \/ i = plan'.cid
  BY <1>3, <1>4 DEF FlightInv, Unrecorded
<1>7. QED
  BY Zenon, <1>3, <1>4, <1>5, <1>6 DEF FlightInv, Unrecorded

\* The datastore works.
LEMMA SaveWorks ==
    ASSUME "save" \notin faults, saveState
    PROVE  store' = [reserved |-> amtReserved', msg |-> msgCid']
  BY DEF saveState

\* The result of process() is recorded: the message just pushed becomes the one
\* the state names, and the one a waiter is started for.
LEMMA RecordFlight ==
    ASSUME FlightInv, "save" \notin faults, NEW reserved,
           pc \in {"applyRes", "applyWd"}, UNCHANGED msgs,
           \/ applyStateChange(plan.cid, reserved)
           \/ plan.cid = 0 /\ UNCHANGED <<msgCid, amtReserved, store>>,
           \/ ProcessEnds
           \/ /\ pc' = "withdrawals" /\ plan' = NoPlan
              /\ msgCid' = 0 /\ UNCHANGED waitFor
    PROVE  FlightInv'
<1>1. msgCid' = plan.cid /\ store' = [reserved |-> store'.reserved, msg |-> msgCid']
  BY SaveWorks DEF applyStateChange, FlightInv
<1>2. plan' = NoPlan /\ pc' \in {"unlocked", "withdrawals"}
  BY DEF ProcessEnds
<1>3. pc' # "unlocked" => msgCid' = 0
  BY DEF ProcessEnds
<1>4. waitFor' = msgCid'
  BY <1>1 DEF ProcessEnds, FlightInv
<1>5. msgCid = 0
  BY DEF FlightInv
<1>6. QED
  BY <1>1, <1>2, <1>3, <1>4, <1>5 DEF FlightInv, NoPlan, Unrecorded, IsMsg

\* A restart finds the message in flight in the datastore, unless process() had
\* pushed one it did not record yet.
LEMMA RestartFlight ==
    ASSUME FlightInv, plan.cid = 0, Restart
    PROVE  FlightInv'
  BY DEF FlightInv, Restart, chain, NoPlan, Unrecorded, IsMsg

\* Setting the done field of a message.
LEMMA MsgDone ==
    ASSUME NEW x, IsMsg(x), NEW d
    PROVE  [x EXCEPT !.done = d] =
             [kind |-> x.kind, wallet |-> x.wallet, amt |-> x.amt, done |-> d]
  BY DEF IsMsg

\* Executing a message only takes it out of flight.
LEMMA ExecuteFlight ==
    ASSUME FlightInv, NEW i \in DOMAIN msgs, Execute(i)
    PROVE  FlightInv'
<1> DEFINE m == [kind |-> msgs[i].kind, wallet |-> msgs[i].wallet, amt |-> msgs[i].amt,
                 done |-> TRUE]
<1>1. msgs' = [msgs EXCEPT ![i] = m]
  <2>1. msgs' = [msgs EXCEPT ![i] = [msgs[i] EXCEPT !.done = TRUE]]
    BY DEF Execute
  <2>2. [msgs[i] EXCEPT !.done = TRUE] = m
    <3>1. IsMsg(msgs[i])
      BY DEF FlightInv
    <3>2. QED
      BY <3>1, MsgDone, Zenon
  <2>3. QED
    BY Zenon, <2>1, <2>2
<1>2. PICK S : msgs \in Seq(S)
  BY DEF FlightInv
<1>3. msgs \in Seq(S \cup {m})
  BY <1>2, SMT
<1>4. msgs' \in Seq(S \cup {m})
  BY <1>1, <1>3
<1>5. DOMAIN msgs' = DOMAIN msgs /\ msgs'[i] = m
      /\ \A j \in DOMAIN msgs : j # i => msgs'[j] = msgs[j]
  BY <1>1, <1>3
<1>6. \A j \in DOMAIN msgs' : IsMsg(msgs'[j])
  BY <1>5 DEF FlightInv, IsMsg
<1>7. \A j \in DOMAIN msgs' : ~ msgs'[j].done => ~ msgs[j].done
  BY <1>5
<1>8. UNCHANGED <<msgCid, store, waitFor, plan, pc>>
  BY DEF Execute
<1>9. QED
  BY <1>4, <1>5, <1>6, <1>7, <1>8 DEF FlightInv

\* Every step preserves the invariant.
LEMMA NextFlight ==
    ASSUME faults \cap {"wait", "midcrash", "save"} = {}, FlightInv, [Step]_vars
    PROVE  FlightInv'
<1> USE DEF queues, callers, chain
<1>1. CASE ProcessReturns \/ ProcessNoReservations \/ CompleteReservations
           \/ CompleteWithdrawals
  BY <1>1, SameFlight DEF ProcessReturns, ProcessNoReservations, canProcess,
                          CompleteReservations, CompleteWithdrawals
<1>2. CASE ProcessReservations
  <2>1. UNCHANGED <<msgs, msgCid, store, waitFor>> /\ msgCid = 0 /\ pc' \in {"addFunds", "completeRes"}
    BY <1>2 DEF ProcessReservations, canProcess
  <2>2. plan' = [cancel |-> plan'.cancel, add |-> plan'.add, wallet |-> plan'.wallet,
                 reserved |-> plan'.reserved, amt |-> plan'.amt, err |-> plan'.err, cid |-> 0]
    BY Zenon, <1>2 DEF ProcessReservations, NoPlan
  <2>3. pc = "unlocked" /\ plan.cid = 0
    BY <1>2 DEF ProcessReservations, FlightInv, Unrecorded
  <2>4. plan'.cid = 0
    BY <2>2
  <2>5. plan'.err => pc' = "completeRes"
    BY Zenon, <1>2 DEF ProcessReservations, NoPlan
  <2>6. QED
    BY <2>1, <2>2, <2>3, <2>4, <2>5 DEF FlightInv, Unrecorded, IsMsg
<1>3. CASE AddFunds
  <2>1. CASE Push("add", plan.wallet, plan.amt) /\ plan' = [plan EXCEPT !.cid = Len(msgs')]
    BY <1>3, <2>1, PushFlight DEF AddFunds, Unrecorded
  <2>2. CASE UNCHANGED msgs
    <3>1. plan.cid = 0 /\ ~ plan.err
      BY <1>3 DEF AddFunds, FlightInv, Unrecorded
    <3>2. \/ plan' = [plan EXCEPT !.cancel = @ \cup plan.add, !.add = {}]
          \/ plan' = [plan EXCEPT !.err = TRUE]
          \/ plan' = [plan EXCEPT !.cid = Len(msgs')] /\ Push("add", plan.wallet, plan.amt)
      BY <1>3 DEF AddFunds
    <3>3. CASE plan' = [plan EXCEPT !.cancel = @ \cup plan.add, !.add = {}]
      <4>1. plan' = [cancel |-> plan.cancel \cup plan.add, add |-> {}, wallet |-> plan.wallet,
                     reserved |-> plan.reserved, amt |-> plan.amt, err |-> plan.err, cid |-> 0]
        BY Zenon, <3>1, <3>3 DEF FlightInv
      <4>2. QED
        BY <1>3, <2>2, <3>1, <4>1 DEF AddFunds, FlightInv, Unrecorded, IsMsg
    <3>4. CASE plan' = [plan EXCEPT !.err = TRUE]
      <4>1. plan' = [cancel |-> plan.cancel, add |-> plan.add, wallet |-> plan.wallet,
                     reserved |-> plan.reserved, amt |-> plan.amt, err |-> TRUE, cid |-> 0]
        BY Zenon, <3>1, <3>4 DEF FlightInv
      <4>2. QED
        BY <1>3, <2>2, <3>1, <4>1 DEF AddFunds, FlightInv, Unrecorded, IsMsg
    <3>5. QED
      BY <2>1, <3>2, <3>3, <3>4
  <2>3. QED
    BY <1>3, <2>1, <2>2 DEF AddFunds
<1>4. CASE ApplyReservations
  BY <1>4, RecordFlight DEF ApplyReservations, FlightInv
<1>5. CASE ProcessWithdrawals
  <2>1. plan' = [cancel |-> plan'.cancel, add |-> plan'.add, wallet |-> plan'.wallet,
                 reserved |-> plan'.reserved, amt |-> plan'.amt, err |-> plan'.err, cid |-> 0]
    BY Zenon, <1>5 DEF ProcessWithdrawals, NoPlan
  <2>2. /\ pc = "withdrawals" /\ pc' \in {"applyWd", "withdrawFunds"}
        /\ UNCHANGED <<msgs, msgCid, store, waitFor>>
    BY <1>5 DEF ProcessWithdrawals
  <2>3. plan'.cid = 0
    BY <2>1
  <2>4. plan'.err => pc' = "applyWd"
    BY Zenon, <1>5 DEF ProcessWithdrawals, NoPlan
  <2>5. QED
    BY <2>1, <2>2, <2>3, <2>4 DEF FlightInv, Unrecorded, IsMsg
<1>6. CASE WithdrawFunds
  BY <1>6, PushFlight DEF WithdrawFunds, Unrecorded
<1>7. CASE WithdrawFundsFails
  <2>1. CASE Restart
    BY <1>7, <2>1, RestartFlight DEF WithdrawFundsFails, FlightInv, Unrecorded
  <2>2. CASE ~ Restart
    <3>1. plan' = [plan EXCEPT !.err = TRUE] /\ pc' = "applyWd" /\ pc = "withdrawFunds"
          /\ UNCHANGED <<msgs, msgCid, store, waitFor>>
      BY <1>7, <2>2 DEF WithdrawFundsFails
    <3>2. plan' = [cancel |-> plan.cancel, add |-> plan.add, wallet |-> plan.wallet,
                   reserved |-> plan.reserved, amt |-> plan.amt, err |-> TRUE, cid |-> 0]
      BY Zenon, <3>1 DEF FlightInv, Unrecorded
    <3>3. QED
      BY Zenon, <3>1, <3>2 DEF FlightInv, Unrecorded, IsMsg
  <2>3. QED
    BY <2>1, <2>2
<1>8. CASE ApplyWithdrawals
  BY <1>8, RecordFlight DEF ApplyWithdrawals, FlightInv
<1>9. CASE WaitDone
  <2>1. /\ UNCHANGED <<msgs, plan, pc>> /\ pc = "unlocked"
        /\ msgs[waitFor].done /\ msgCid' = 0 /\ waitFor' = 0
    BY <1>9 DEF WaitDone
  <2>2. store' = [reserved |-> amtReserved', msg |-> 0]
    BY <1>9, SaveWorks DEF WaitDone
  <2>3. QED
    BY <2>1, <2>2 DEF FlightInv, Unrecorded, IsMsg
<1>10. CASE Crash
  BY Zenon, <1>10, RestartFlight DEF Crash, FlightInv, Unrecorded
<1>11. ASSUME NEW q \in Reqs, RequestAndWait(q) \/ RequestRelease(q) \/ Cancel(q) \/ Spend(q)
       PROVE  FlightInv'
  BY <1>11, SameFlight DEF RequestAndWait, RequestRelease, Cancel, Spend
<1>12. ASSUME NEW i \in DOMAIN msgs, Execute(i) PROVE FlightInv'
  BY <1>12, ExecuteFlight
<1>13. CASE UNCHANGED vars
  BY <1>13, SameFlight DEF vars
<1>14. QED
  BY <1>1, <1>2, <1>3, <1>4, <1>5, <1>6, <1>7, <1>8, <1>9, <1>10, <1>11, <1>12, <1>13
  DEF Step, ProcessStep

\* The invariant holds throughout, unless the record of the message fails, and
\* it leaves room for one message only.
THEOREM OneMessageInFlight == Spec => []OneMessage
<1> DEFINE Flight == Recorded => FlightInv
<1>1. Init => Flight
  BY InitFlight
<1>2. Flight => OneMessage
  BY DEF FlightInv, OneMessage, Unrecorded
<1>3. Flight /\ [Next]_vars => Flight'
  <2>1. [Next]_vars => [Step]_vars /\ faults' = faults
    BY DEF Next, vars
  <2>2. Recorded' /\ faults' = faults => Recorded /\ faults \cap {"wait", "midcrash", "save"} = {}
    BY DEF Recorded
  <2>3. QED
    BY <2>1, <2>2, NextFlight
<1>4. QED
  BY <1>1, <1>2, <1>3, PTL DEF Spec

-----------------------------------------------------------------------------
(* Loops, which are recursive functions of the number of turns. *)

\* A non-empty set of naturals has a least element.
LEMMA LeastNatural ==
  ASSUME NEW T, T \subseteq Nat, T # {}
  PROVE  \E x \in T : \A y \in T : x <= y
<1> DEFINE R == OpToRel(<, Nat)
<1>1. IsWellFoundedOn(R, Nat)
  BY Zenon, NatLessThanWellFounded
<1>2. \A y, z \in Nat : y < z => <<y, z>> \in R
  BY DEF OpToRel
<1> HIDE DEF R
<1>3. PICK x \in T : \A y \in T : ~ (<<y, x>> \in R)
  BY Zenon, <1>1, WFMin
<1>4. \A y \in T : ~ (y < x)
  BY Zenon, <1>2, <1>3
<1>5. \A y \in T : x <= y
  BY SMT, <1>4
<1> QED BY <1>5

\* Induction up to a bound.
LEMMA InductionTo ==
  ASSUME NEW N \in Nat, NEW P, 0 \in P, \A k \in 1..N : k - 1 \in P => k \in P
  PROVE  \A k \in 0..N : k \in P
<1> DEFINE T == {k \in 0..N : k \notin P}
<1> SUFFICES ASSUME T # {} PROVE FALSE
  OBVIOUS
<1>1. PICK k \in T : \A y \in T : k <= y
  <2>1. T \subseteq Nat
    OBVIOUS
  <2> HIDE DEF T
  <2> QED BY <2>1, LeastNatural, Zenon
<1>2. k \in 1..N /\ k - 1 \in 0..N /\ ~ (k <= k - 1)
  OBVIOUS
<1> QED BY <1>1, <1>2

\* The run f of a loop over N items that starts at b and whose k-th turn is
\* G[k]; the turns keep to the set V.
LoopRun(f, N, V, b, G) ==
    f \in [0..N -> V] /\ f[0] = b /\ \A k \in 1..N : f[k] = G[k][f[k - 1]]

\* There is one, which is what a recursive function on 0..N needs to be defined.
LEMMA LoopRuns ==
  ASSUME NEW N \in Nat, NEW V, NEW b \in V, NEW G \in [1..N -> [V -> V]]
  PROVE  \E f : LoopRun(f, N, V, b, G)
<1> DEFINE Upto(m, f) == /\ f \in [0..m -> V] /\ f[0] = b
                         /\ \A k \in 1..m : f[k] = G[k][f[k - 1]]
           P == {m \in Nat : \E f : Upto(m, f)}
<1>1. 0 \in P
  <2>1. PICK f : f = [k \in 0..0 |-> b]
    BY Zenon
  <2>2. Upto(0, f)
    BY <2>1
  <2> QED BY <2>2
<1>2. ASSUME NEW m \in 1..N, m - 1 \in P PROVE m \in P
  <2>1. PICK g : Upto(m - 1, g)
    BY <1>2
  <2>2. PICK v : v = G[m][g[m - 1]]
    OBVIOUS
  <2>3. v \in V
    BY <2>1, <2>2
  <2>4. PICK f : f = [k \in 0..m |-> IF k = m THEN v ELSE g[k]]
    BY Zenon
  <2>5. f \in [0..m -> V] /\ f[m] = v /\ \A k \in 0..(m - 1) : f[k] = g[k]
    BY <2>1, <2>3, <2>4
  <2>6. f[0] = b
    BY <2>1, <2>5
  <2>7. \A k \in 1..m : f[k] = G[k][f[k - 1]]
    BY <2>1, <2>2, <2>5
  <2>8. Upto(m, f) /\ m \in Nat
    BY <2>5, <2>6, <2>7
  <2> QED BY <2>8
<1>3. N \in P
  <2> HIDE DEF P
  <2>1. \A k \in 0..N : k \in P
    BY Zenon, <1>1, <1>2, InductionTo
  <2> QED BY <2>1
<1> QED BY <1>3 DEF LoopRun

-----------------------------------------------------------------------------
(* Sums of amounts. *)

\* Amt, of what the calls r ask for.
Total(r, S) == MapThenSumSet(LAMBDA q : r[q].amt, S)

\* The single units of the amounts: a set as large as their sum.
Units(r, S) == UNION {{q} \X (1..r[q].amt) : q \in S}

\* Finitely many requests, with amounts.
HasAmounts(r, S) == IsFiniteSet(S) /\ \A q \in S : r[q].amt \in Nat

\* The size of an interval.
LEMMA UpTo ==
  ASSUME NEW n \in Nat
  PROVE  IsFiniteSet(1..n) /\ Cardinality(1..n) = n
<1>1. 1 \in Int /\ n \in Int
  OBVIOUS
<1>2. IsFiniteSet(1..n) /\ Cardinality(1..n) = IF 1 > n THEN 0 ELSE n - 1 + 1
  BY <1>1, FS_Interval, Zenon
<1> QED BY <1>2

\* The units of finitely many requests are finitely many.
LEMMA UnitsFinite ==
  ASSUME NEW r, NEW S, HasAmounts(r, S)
  PROVE  IsFiniteSet(Units(r, S))
<1> DEFINE f == [q \in S |-> {q} \X (1..r[q].amt)]
           T == {{q} \X (1..r[q].amt) : q \in S}
<1>1. f \in Surjection(S, T)
  BY Zenon DEF Surjection
<1>2. IsFiniteSet(S)
  BY DEF HasAmounts
<1>3. \A t \in T : IsFiniteSet(t)
  <2> SUFFICES ASSUME NEW q \in S PROVE IsFiniteSet({q} \X (1..r[q].amt))
    OBVIOUS
  <2>1. IsFiniteSet({q}) /\ IsFiniteSet(1..r[q].amt)
    BY Zenon, FS_Singleton, UpTo DEF HasAmounts
  <2> QED BY <2>1, FS_Product, Zenon
<1> HIDE DEF f, T
<1>4. IsFiniteSet(T)
  BY <1>1, <1>2, FS_Surjection
<1>5. IsFiniteSet(UNION T)
  BY <1>3, <1>4, FS_UNION
<1> QED BY <1>5 DEF T, Units

\* One request contributes its amount.
LEMMA UnitsStep ==
  ASSUME NEW r, NEW S, HasAmounts(r, S), NEW x \in S
  PROVE  Cardinality(Units(r, S)) = r[x].amt + Cardinality(Units(r, S \ {x}))
<1> DEFINE X == {x} \X (1..r[x].amt)
           R == Units(r, S \ {x})
<1>1. Units(r, S) = X \cup R
  BY Zenon DEF Units
<1>2. X \cap R = {}
  BY DEF Units
<1>3. IsFiniteSet(S \ {x}) /\ r[x].amt \in Nat
  BY Zenon, FS_Difference DEF HasAmounts
<1>4. HasAmounts(r, S \ {x})
  BY <1>3 DEF HasAmounts
<1>5. IsFiniteSet(R)
  BY <1>4, UnitsFinite
<1>6. IsFiniteSet(X) /\ Cardinality(X) = r[x].amt
  <2>1. /\ IsFiniteSet({x}) /\ Cardinality({x}) = 1
        /\ IsFiniteSet(1..r[x].amt) /\ Cardinality(1..r[x].amt) = r[x].amt
    BY Zenon, <1>3, FS_Singleton, UpTo
  <2>2. IsFiniteSet(X) /\ Cardinality(X) = Cardinality({x}) * Cardinality(1..r[x].amt)
    BY <2>1, FS_Product, Zenon
  <2> QED BY <1>3, <2>1, <2>2
<1> HIDE DEF X, R
<1>7. Cardinality(X \cup R) = Cardinality(X) + Cardinality(R) - Cardinality({})
  <2>1. Cardinality(X \cup R) = Cardinality(X) + Cardinality(R) - Cardinality(X \cap R)
    BY <1>5, <1>6, FS_Union, Zenon
  <2> QED BY <1>2, <2>1, Zenon
<1>8. Cardinality(R) \in Nat /\ Cardinality({}) = 0
  BY <1>5, FS_CardinalityType, FS_EmptySet
<1> QED BY <1>1, <1>3, <1>6, <1>7, <1>8 DEF R

\* The sum is the number of units: the fold that computes it and the cardinality
\* satisfy the same recursion over the subsets.
LEMMA TotalIsUnits ==
  ASSUME NEW r, NEW S, HasAmounts(r, S)
  PROVE  Total(r, S) = Cardinality(Units(r, S))
<1> DEFINE pick(s) == CHOOSE x \in s : TRUE
           Recurs(f) == f = [s \in SUBSET S |->
                               IF s = {} THEN 0 ELSE r[pick(s)].amt + f[s \ {pick(s)}]]
<1>0. Total(r, S) = (CHOOSE f : Recurs(f))[S]
  BY DEF Total, MapThenSumSet, MapThenFoldSet
<1>1. \A s \in SUBSET S : HasAmounts(r, s)
  BY FS_Subset DEF HasAmounts
<1>2. \A s \in SUBSET S : s # {} => pick(s) \in s
  OBVIOUS
<1> HIDE DEF pick
<1>3. PICK g : g = [s \in SUBSET S |-> Cardinality(Units(r, s))]
  BY Zenon
<1>4. g = [s \in SUBSET S |-> IF s = {} THEN 0 ELSE r[pick(s)].amt + g[s \ {pick(s)}]]
  <2>1. ASSUME NEW s \in SUBSET S, s # {} PROVE g[s] = r[pick(s)].amt + g[s \ {pick(s)}]
    <3>1. pick(s) \in s /\ s \ {pick(s)} \in SUBSET S
      BY <1>2, <2>1
    <3>2. g[s] = Cardinality(Units(r, s)) /\ g[s \ {pick(s)}] = Cardinality(Units(r, s \ {pick(s)}))
      BY <1>3, <3>1, Zenon
    <3>3. PICK x : x = pick(s)
      OBVIOUS
    <3>4. HasAmounts(r, s) /\ x \in s
      BY <1>1, <2>1, <3>1, <3>3, Zenon
    <3>5. Cardinality(Units(r, s)) = r[x].amt + Cardinality(Units(r, s \ {x}))
      BY <3>4, UnitsStep
    <3> QED BY <3>2, <3>3, <3>5, Zenon
  <2>2. {} \in SUBSET S /\ g[{}] = 0
    <3>1. Units(r, {}) = {}
      BY DEF Units
    <3> QED BY <1>3, <3>1, FS_EmptySet
  <2>3. PICK h : h = [s \in SUBSET S |-> IF s = {} THEN 0 ELSE r[pick(s)].amt + g[s \ {pick(s)}]]
    BY Zenon
  <2>4. \A s \in SUBSET S : h[s] = g[s]
    BY <2>1, <2>2, <2>3, Zenon
  <2>5. h = g
    BY <1>3, <2>3, <2>4, Zenon
  <2> QED BY <2>3, <2>5, Zenon
<1>5. PICK f : f = (CHOOSE h : Recurs(h)) /\ Recurs(f)
  BY Zenon, <1>4
<1>6. f[{}] = 0 /\ \A s \in SUBSET S : s # {} => f[s] = r[pick(s)].amt + f[s \ {pick(s)}]
  <2>1. PICK h : h = [s \in SUBSET S |-> IF s = {} THEN 0 ELSE r[pick(s)].amt + f[s \ {pick(s)}]]
    BY Zenon
  <2>2. f = h
    BY Zenon, <1>5, <2>1
  <2>3. h[{}] = 0 /\ \A s \in SUBSET S : s # {} => h[s] = r[pick(s)].amt + f[s \ {pick(s)}]
    BY <2>1, Zenon
  <2> QED BY Zenon, <2>2, <2>3
<1>7. \A s \in SUBSET S : f[s] = g[s]
  <2> DEFINE T == {n \in Nat : \E s \in SUBSET S : Cardinality(s) = n /\ f[s] # g[s]}
  <2> SUFFICES ASSUME NEW s0 \in SUBSET S, f[s0] # g[s0] PROVE FALSE
    OBVIOUS
  <2>1. \A s \in SUBSET S : IsFiniteSet(s) /\ Cardinality(s) \in Nat
    BY <1>1, FS_CardinalityType DEF HasAmounts
  <2>2. T # {} /\ T \subseteq Nat
    BY <2>1
  <2>3. PICK n \in T : \A y \in T : n <= y
    <3> HIDE DEF T
    <3> QED BY Zenon, <2>2, LeastNatural
  <2>4. PICK s \in SUBSET S : Cardinality(s) = n /\ f[s] # g[s]
    OBVIOUS
  <2>5. s # {}
    <3>1. g[{}] = 0
      BY <1>4
    <3> QED BY Zenon, <1>6, <2>4, <3>1
  <2>6. PICK x : x = pick(s)
    OBVIOUS
  <2>7. x \in s /\ s \ {x} \in SUBSET S
    BY <1>2, <2>5, <2>6
  <2>8. Cardinality(s \ {x}) = n - 1
    BY <2>1, <2>4, <2>7, FS_RemoveElement
  <2>9. f[s \ {x}] = g[s \ {x}]
    <3>1. n \in Nat /\ ~ (n <= n - 1)
      OBVIOUS
    <3>2. Cardinality(s \ {x}) \in Nat
      BY <2>1, <2>7
    <3>3. Cardinality(s \ {x}) \notin T
      BY <2>3, <2>8, <3>1, Zenon
    <3> QED BY Zenon, <2>7, <3>2, <3>3
  <2>10. f[s] = r[x].amt + f[s \ {x}]
    BY <1>6, <2>5, <2>6, Zenon
  <2>11. g[s] = r[x].amt + g[s \ {x}]
    <3>1. PICK h : h = [t \in SUBSET S |-> IF t = {} THEN 0 ELSE r[pick(t)].amt + g[t \ {pick(t)}]]
      BY Zenon
    <3>2. h[s] = r[x].amt + g[s \ {x}]
      BY <2>5, <2>6, <3>1, Zenon
    <3> QED BY <1>4, <3>1, <3>2, Zenon
  <2> QED BY <2>4, <2>9, <2>10, <2>11
<1> QED
  <2>1. S \in SUBSET S
    OBVIOUS
  <2> QED BY <1>0, <1>3, <1>5, <1>7, <2>1, Zenon

\* A sum of amounts is an amount.
LEMMA TotalType ==
  ASSUME NEW r, NEW S, HasAmounts(r, S)
  PROVE  Total(r, S) \in Nat
  BY TotalIsUnits, UnitsFinite, FS_CardinalityType

\* The sum over no request.
LEMMA TotalNone ==
  ASSUME NEW r
  PROVE  Total(r, {}) = 0
<1>1. HasAmounts(r, {}) /\ Units(r, {}) = {}
  BY FS_EmptySet DEF HasAmounts, Units
<1> QED BY <1>1, TotalIsUnits, FS_EmptySet

\* Fewer requests, no larger sum.
LEMMA TotalSubset ==
  ASSUME NEW r, NEW S, HasAmounts(r, S), NEW T, T \subseteq S
  PROVE  Total(r, T) \in Nat /\ Total(r, S) \in Nat /\ Total(r, T) <= Total(r, S)
<1>1. HasAmounts(r, T)
  BY FS_Subset DEF HasAmounts
<1>2. Units(r, T) \subseteq Units(r, S)
  BY DEF Units
<1>3. IsFiniteSet(Units(r, S))
  BY UnitsFinite
<1>4. Cardinality(Units(r, T)) <= Cardinality(Units(r, S))
  BY <1>2, <1>3, FS_Subset
<1> QED BY <1>1, <1>4, TotalIsUnits, TotalType

\* The sum over a union.
LEMMA TotalUnion ==
  ASSUME NEW r, NEW S, HasAmounts(r, S), NEW T, HasAmounts(r, T)
  PROVE  /\ Total(r, S \cup T) \in Nat
         /\ Total(r, S \cup T) <= Total(r, S) + Total(r, T)
         /\ S \cap T = {} => Total(r, S \cup T) = Total(r, S) + Total(r, T)
<1> DEFINE A == Units(r, S)
           B == Units(r, T)
<1>1. HasAmounts(r, S \cup T)
  BY Zenon, FS_Union DEF HasAmounts
<1>2. Units(r, S \cup T) = A \cup B
  BY Zenon DEF Units
<1>3. S \cap T = {} => A \cap B = {}
  BY DEF Units
<1>4. IsFiniteSet(A) /\ IsFiniteSet(B)
  BY UnitsFinite
<1>5. Total(r, S) = Cardinality(A) /\ Total(r, T) = Cardinality(B)
  BY TotalIsUnits
<1>6. Total(r, S \cup T) = Cardinality(A \cup B) /\ Total(r, S \cup T) \in Nat
  BY Zenon, <1>1, <1>2, TotalIsUnits, TotalType
<1> HIDE DEF A, B
<1>7. /\ Cardinality(A \cup B) = Cardinality(A) + Cardinality(B) - Cardinality(A \cap B)
      /\ Cardinality(A) \in Nat /\ Cardinality(B) \in Nat
  BY Zenon, <1>4, FS_Union, FS_CardinalityType
<1>8. Cardinality(A \cap B) \in Nat
  BY Zenon, <1>4, FS_Intersection, FS_CardinalityType
<1>9. S \cap T = {} => Cardinality(A \cap B) = 0
  BY <1>3, FS_EmptySet
<1> QED BY <1>5, <1>6, <1>7, <1>8, <1>9

\* The sum over one request.
LEMMA TotalOne ==
  ASSUME NEW r, NEW q, r[q].amt \in Nat
  PROVE  HasAmounts(r, {q}) /\ Total(r, {q}) = r[q].amt
<1>1. HasAmounts(r, {q})
  BY Zenon, FS_Singleton DEF HasAmounts
<1>2. q \in {q} /\ {q} \ {q} = {}
  OBVIOUS
<1>3. Cardinality(Units(r, {q})) = r[q].amt + Cardinality(Units(r, {}))
  <2>1. Cardinality(Units(r, {q})) = r[q].amt + Cardinality(Units(r, {q} \ {q}))
    BY <1>1, <1>2, UnitsStep, Zenon
  <2> QED BY <1>2, <2>1, Zenon
<1>4. Units(r, {}) = {}
  BY DEF Units
<1>5. Cardinality({}) = 0
  BY FS_EmptySet
<1>6. Total(r, {q}) = Cardinality(Units(r, {q}))
  BY <1>1, TotalIsUnits
<1> QED BY <1>1, <1>3, <1>4, <1>5, <1>6

\* The sum over what is left.
LEMMA TotalDifference ==
  ASSUME NEW r, NEW S, HasAmounts(r, S), NEW T, T \subseteq S
  PROVE  Total(r, S \ T) = Total(r, S) - Total(r, T)
<1> DEFINE D == S \ T
<1>1. HasAmounts(r, T) /\ HasAmounts(r, D)
  BY FS_Subset, FS_Difference DEF HasAmounts
<1>2. D \cap T = {} /\ D \cup T = S
  OBVIOUS
<1> HIDE DEF D
<1>3. Total(r, D \cup T) = Total(r, D) + Total(r, T)
  BY <1>1, <1>2, TotalUnion
<1>4. Total(r, D) \in Nat /\ Total(r, T) \in Nat
  BY <1>1, TotalType
<1>5. Total(r, S) = Total(r, D) + Total(r, T)
  BY <1>2, <1>3, Zenon
<1>6. Total(r, D) = Total(r, S) - Total(r, T)
  BY <1>4, <1>5
<1> QED BY <1>6, Zenon DEF D

-----------------------------------------------------------------------------
(* The loops of splitReservations, processWithdrawals and filterOutProcessedReqs. *)

\* Requests that are still to be paid for.
Live(S) == S \ cancelled

\* The calls of a behaviour have amounts, and are finitely many.
LEMMA ReqAmounts ==
  ASSUME req \in [Reqs -> Requests], NEW S, S \subseteq Reqs
  PROVE  HasAmounts(req, S)
<1>1. IsFiniteSet(S)
  BY FundManagerAssumption, FS_Subset
<1>2. \A q \in S : req[q].amt \in Nat
  BY FundManagerAssumption
<1> QED BY <1>1, <1>2 DEF HasAmounts

\* A cancelled request counts for nothing, any other for its amount.
LEMMA LiveAmount ==
  ASSUME req \in [Reqs -> Requests], NEW q \in Reqs, NEW S, S \subseteq Reqs
  PROVE  /\ Amount(q) \in Nat /\ Total(req, Live(S)) \in Nat /\ Total(req, Live(S \cup {q})) \in Nat
         /\ Total(req, Live(S \cup {q})) <= Total(req, Live(S)) + Amount(q)
<1>1. req[q].amt \in Nat
  BY ReqAmounts DEF HasAmounts
<1>2. HasAmounts(req, Live(S)) /\ HasAmounts(req, {q})
  BY ReqAmounts DEF Live
<1>3. Total(req, Live(S)) \in Nat
  BY <1>2, TotalType
<1>4. CASE q \in cancelled
  <2>1. Live(S \cup {q}) = Live(S) /\ Amount(q) = 0
    BY <1>4 DEF Live, Amount
  <2> QED BY <1>3, <2>1
<1>5. CASE q \notin cancelled
  <2>1. Live(S \cup {q}) = Live(S) \cup {q} /\ Amount(q) = req[q].amt
    BY <1>5 DEF Live, Amount
  <2>2. /\ Total(req, Live(S) \cup {q}) \in Nat
        /\ Total(req, Live(S) \cup {q}) <= Total(req, Live(S)) + Total(req, {q})
    BY <1>2, TotalUnion
  <2>3. Total(req, {q}) = req[q].amt
    BY Zenon, <1>1, TotalOne
  <2> QED BY Zenon, <1>1, <1>3, <2>1, <2>2, <2>3
<1> QED BY <1>4, <1>5

-----------------------------------------------------------------------------
\* What splitReservations may have worked out: what is to be granted is covered
\* by what is released and what is to be added.
Splits == {s \in [cancel : SUBSET Reqs, add : SUBSET Reqs, wallet : Wallets \cup {NoWallet},
                  addAmt : Nat, rel : Nat] :
              Total(req, Live(s.cancel \cup s.add)) <= Total(req, Range(releases)) - s.rel + s.addAmt}

\* A record in Splits, by its fields.
LEMMA SplitRecord ==
  ASSUME NEW c, NEW a, NEW w, NEW m, NEW r, c \cup a \subseteq Reqs, w \in Wallets \cup {NoWallet},
         m \in Nat, r \in Nat,
         Total(req, Live(c \cup a)) <= Total(req, Range(releases)) - r + m
  PROVE  [cancel |-> c, add |-> a, wallet |-> w, addAmt |-> m, rel |-> r] \in Splits
<1>1. PICK s : s = [cancel |-> c, add |-> a, wallet |-> w, addAmt |-> m, rel |-> r]
  BY Zenon
<1>2. s.cancel = c /\ s.add = a /\ s.wallet = w /\ s.addAmt = m /\ s.rel = r
  BY <1>1
<1>3. s \in [cancel : SUBSET Reqs, add : SUBSET Reqs, wallet : Wallets \cup {NoWallet},
             addAmt : Nat, rel : Nat]
  BY <1>1
<1>4. Total(req, Live(s.cancel \cup s.add)) <= Total(req, Range(releases)) - s.rel + s.addAmt
  BY <1>2, Zenon
<1>5. s \in Splits
  BY <1>3, <1>4, Zenon DEF Splits
<1> QED BY <1>1, <1>5, Zenon

\* Before the first reservation all that is released is left.
LEMMA NothingIsSplit ==
  ASSUME req \in [Reqs -> Requests], releases \in Seq(Reqs)
  PROVE  NothingSplit \in Splits
<1>1. Range(releases) \subseteq Reqs
  BY DEF Range
<1>2. HasAmounts(req, Range(releases))
  BY <1>1, ReqAmounts
<1>3. PICK R \in Nat : R = Total(req, Range(releases))
  BY <1>2, TotalType
<1>4. NothingSplit = [cancel |-> {}, add |-> {}, wallet |-> NoWallet, addAmt |-> 0, rel |-> R]
  BY <1>3 DEF NothingSplit, Amt, Total
<1>5. Live({} \cup {}) = {}
  BY DEF Live
<1>6. Total(req, Live({} \cup {})) <= Total(req, Range(releases)) - R + 0
  <2>1. Total(req, Live({} \cup {})) = 0
    BY <1>5, TotalNone, Zenon
  <2>2. 0 <= R - R + 0
    OBVIOUS
  <2> QED BY <1>3, <2>1, <2>2, Zenon
<1>7. {} \cup {} \subseteq Reqs /\ 0 \in Nat /\ NoWallet \in Wallets \cup {NoWallet}
  OBVIOUS
<1> QED BY <1>4, <1>6, <1>7, SplitRecord, Zenon

\* A reservation is covered by what is left of the releases, or is added, or
\* stays in the queue.
LEMMA SplitStep ==
  ASSUME req \in [Reqs -> Requests], releases \in Seq(Reqs), NEW s \in Splits, NEW q \in Reqs
  PROVE  splitStep(s, q) \in Splits
<1>1. Range(releases) \subseteq Reqs
  BY DEF Range
<1>2. PICK R \in Nat : R = Total(req, Range(releases))
  BY <1>1, ReqAmounts, TotalType
<1>3. /\ s = [cancel |-> s.cancel, add |-> s.add, wallet |-> s.wallet, addAmt |-> s.addAmt, rel |-> s.rel]
      /\ s.cancel \cup s.add \subseteq Reqs /\ s.wallet \in Wallets \cup {NoWallet}
      /\ s.rel \in Nat /\ s.addAmt \in Nat
      /\ Total(req, Live(s.cancel \cup s.add)) <= R - s.rel + s.addAmt
  BY <1>2 DEF Splits
<1>4. PICK D : D = s.cancel \cup s.add
  BY Zenon
<1>5. /\ Amount(q) \in Nat /\ Total(req, Live(D)) \in Nat /\ Total(req, Live(D \cup {q})) \in Nat
      /\ Total(req, Live(D \cup {q})) <= Total(req, Live(D)) + Amount(q)
  BY ZenonT(40), <1>3, <1>4, LiveAmount
<1>6. PICK x \in Nat, y \in Nat, z \in Nat, a \in Nat, b \in Nat :
        /\ x = Amount(q) /\ y = s.rel /\ z = s.addAmt
        /\ a = Total(req, Live(D)) /\ b = Total(req, Live(D \cup {q}))
  BY <1>3, <1>5
<1>7. a <= R - y + z /\ b <= a + x
  BY <1>3, <1>4, <1>5, <1>6
<1>8. D \cup {q} \subseteq Reqs /\ req[q].wallet \in Wallets \cup {NoWallet} /\ 0 \in Nat
  BY <1>3, <1>4, FundManagerAssumption
<1>9. CASE x <= y
  <2>1. splitStep(s, q) = [cancel |-> s.cancel \cup {q}, add |-> s.add, wallet |-> s.wallet,
                           addAmt |-> z, rel |-> y - x]
    BY Zenon, <1>3, <1>6, <1>9 DEF splitStep
  <2>2. (s.cancel \cup {q}) \cup s.add = D \cup {q}
    BY <1>4
  <2>3. y - x \in Nat /\ b <= R - (y - x) + z
    BY <1>7, <1>9
  <2>4. [cancel |-> s.cancel \cup {q}, add |-> s.add, wallet |-> s.wallet,
         addAmt |-> z, rel |-> y - x] \in Splits
    BY Zenon, <1>2, <1>3, <1>6, <1>8, <2>2, <2>3, SplitRecord
  <2> QED BY <2>1, <2>4, Zenon
<1>10. CASE ~ (x <= y) /\ s.wallet \in {NoWallet, req[q].wallet}
  <2>1. splitStep(s, q) = [cancel |-> s.cancel, add |-> s.add \cup {q}, wallet |-> req[q].wallet,
                           addAmt |-> z + x - y, rel |-> 0]
    BY Zenon, <1>3, <1>6, <1>10 DEF splitStep
  <2>2. s.cancel \cup (s.add \cup {q}) = D \cup {q}
    BY <1>4
  <2>3. z + x - y \in Nat /\ b <= R - 0 + (z + x - y)
    BY <1>7, <1>10
  <2>4. [cancel |-> s.cancel, add |-> s.add \cup {q}, wallet |-> req[q].wallet,
         addAmt |-> z + x - y, rel |-> 0] \in Splits
    BY Zenon, <1>2, <1>6, <1>8, <2>2, <2>3, SplitRecord
  <2> QED BY <2>1, <2>4, Zenon
<1>11. CASE ~ (x <= y) /\ s.wallet \notin {NoWallet, req[q].wallet}
  BY <1>6, <1>11 DEF splitStep
<1> QED BY <1>9, <1>10, <1>11

\* splitReservations, for any queues.
LEMMA ReservationsSplit ==
  ASSUME req \in [Reqs -> Requests], releases \in Seq(Reqs), reservations \in Seq(Reqs)
  PROVE  splitReservations \in Splits
<1> DEFINE N == Len(reservations)
           V == Splits
           Turn(v, k) == splitStep(v, reservations[k])
           G == [k \in 1..N |-> [v \in V |-> Turn(v, k)]]
           Recurs(f) == f = [k \in 0..N |-> IF k = 0 THEN NothingSplit ELSE Turn(f[k - 1], k)]
<1>0. splitReservations = (CHOOSE f : Recurs(f))[N]
  BY DEF splitReservations
<1>1. N \in Nat /\ \A k \in 1..N : reservations[k] \in Reqs
  BY DEF Range
<1> HIDE DEF N
<1>2. NothingSplit \in V
  BY NothingIsSplit
<1>3. \A k \in 1..N : \A v \in V : Turn(v, k) \in V
  BY <1>1, SplitStep
<1> HIDE DEF V, Turn
<1>4. G \in [1..N -> [V -> V]] /\ \A k \in 1..N : \A v \in V : G[k][v] = Turn(v, k)
  BY <1>3
<1> HIDE DEF G
<1>5. PICK f \in [0..N -> V] : f[0] = NothingSplit /\ \A k \in 1..N : f[k] = G[k][f[k - 1]]
  <2>1. \E f : LoopRun(f, N, V, NothingSplit, G)
    BY <1>1, <1>2, <1>4, LoopRuns, Zenon
  <2> QED BY <2>1, Zenon DEF LoopRun
<1>6. \A k \in 1..N : f[k] = Turn(f[k - 1], k)
  <2> SUFFICES ASSUME NEW k \in 1..N PROVE f[k] = Turn(f[k - 1], k)
    OBVIOUS
  <2>1. f[k - 1] \in V
    BY <1>1
  <2> QED BY <1>4, <1>5, <2>1, Zenon
<1>7. f = [k \in 0..N |-> IF k = 0 THEN NothingSplit ELSE Turn(f[k - 1], k)]
  BY <1>1, <1>5, <1>6
<1>8. PICK g : g = (CHOOSE h : Recurs(h)) /\ Recurs(g)
  BY <1>7, Zenon
<1>9. g[0] = NothingSplit /\ \A k \in 1..N : g[k] = Turn(g[k - 1], k)
  <2>1. PICK h : h = [k \in 0..N |-> IF k = 0 THEN NothingSplit ELSE Turn(g[k - 1], k)]
    BY Zenon
  <2>2. h[0] = NothingSplit /\ \A k \in 1..N : h[k] = Turn(g[k - 1], k)
    BY <1>1, <2>1
  <2> QED BY <1>8, <2>1, <2>2, Zenon
<1>10. g[N] = f[N]
  <2> DEFINE P == {k \in Nat : g[k] = f[k]}
  <2>1. 0 \in P /\ \A k \in 1..N : k - 1 \in P => k \in P
    BY <1>1, <1>5, <1>6, <1>9
  <2>2. \A k \in 0..N : k \in P
    <3> HIDE DEF P
    <3> QED BY <1>1, <2>1, InductionTo, Zenon
  <2> QED BY <1>1, <2>2
<1> QED BY <1>0, <1>1, <1>5, <1>8, <1>10 DEF V

-----------------------------------------------------------------------------
\* What the loop of processWithdrawals may have worked out: the batch leaves
\* what is reserved, and all requests are withdrawals.
Fits == {a \in [zero : SUBSET Range(withdrawals), refused : SUBSET Range(withdrawals),
                add : SUBSET Range(withdrawals), wallet : Wallets \cup {NoWallet}, amt : Nat] :
            a.amt = 0 \/ a.amt <= netAvail}

\* A withdrawal is answered at once, or fits into the batch, or waits.
LEMMA FitStep ==
  ASSUME req \in [Reqs -> Requests], withdrawals \in Seq(Reqs), avail \in Nat, amtReserved \in Nat,
         NEW a \in Fits, NEW q \in Range(withdrawals)
  PROVE  withdrawStep(a, q) \in Fits
<1>1. q \in Reqs
  BY DEF Range
<1>2. Amount(q) \in Nat /\ req[q].wallet \in Wallets
  <2>1. {} \subseteq Reqs
    OBVIOUS
  <2>2. Amount(q) \in Nat
    BY <1>1, <2>1, LiveAmount, Zenon
  <2> QED BY <1>1, <2>2, FundManagerAssumption
<1>3. PICK x \in Nat, n \in Int : x = Amount(q) /\ n = netAvail
  BY <1>2 DEF netAvail
<1>4. /\ a = [zero |-> a.zero, refused |-> a.refused, add |-> a.add, wallet |-> a.wallet, amt |-> a.amt]
      /\ a.zero \cup a.refused \cup a.add \subseteq Range(withdrawals)
      /\ a.wallet \in Wallets \cup {NoWallet} /\ a.amt \in Nat /\ (a.amt = 0 \/ a.amt <= n)
  BY <1>3 DEF Fits
<1>5. \/ withdrawStep(a, q) = [zero |-> a.zero \cup {q}, refused |-> a.refused, add |-> a.add,
                               wallet |-> a.wallet, amt |-> a.amt]
      \/ withdrawStep(a, q) = [zero |-> a.zero, refused |-> a.refused \cup {q}, add |-> a.add,
                               wallet |-> a.wallet, amt |-> a.amt]
      \/ /\ withdrawStep(a, q) = [zero |-> a.zero, refused |-> a.refused, add |-> a.add \cup {q},
                                  wallet |-> req[q].wallet, amt |-> a.amt + x]
         /\ ~ (a.amt + x > n)
      \/ withdrawStep(a, q) = a
  BY Zenon, <1>3, <1>4 DEF withdrawStep
<1>6. PICK R : R = Range(withdrawals)
  BY Zenon
<1>7. \/ withdrawStep(a, q) = a
      \/ /\ withdrawStep(a, q) \in [zero : SUBSET R, refused : SUBSET R, add : SUBSET R,
                                    wallet : Wallets \cup {NoWallet}, amt : Nat]
         /\ withdrawStep(a, q).amt = 0 \/ withdrawStep(a, q).amt <= n
  BY <1>2, <1>4, <1>5, <1>6
<1> QED BY <1>3, <1>6, <1>7 DEF Fits

\* Before the first withdrawal the batch is empty.
LEMMA NothingIsFit == NothingFit \in Fits
  BY Zenon DEF NothingFit, Fits

\* The loop of processWithdrawals, for any queue.
LEMMA WithdrawalsFit ==
  ASSUME req \in [Reqs -> Requests], withdrawals \in Seq(Reqs), avail \in Nat, amtReserved \in Nat
  PROVE  fitWithdrawals \in Fits
<1> DEFINE N == Len(withdrawals)
           V == Fits
           Turn(v, k) == withdrawStep(v, withdrawals[k])
           G == [k \in 1..N |-> [v \in V |-> Turn(v, k)]]
           Recurs(f) == f = [k \in 0..N |-> IF k = 0 THEN NothingFit ELSE Turn(f[k - 1], k)]
<1>0. fitWithdrawals = (CHOOSE f : Recurs(f))[N]
  BY DEF fitWithdrawals
<1>1. N \in Nat /\ \A k \in 1..N : withdrawals[k] \in Range(withdrawals)
  BY DEF Range
<1> HIDE DEF N
<1>2. NothingFit \in V
  BY NothingIsFit
<1>3. \A k \in 1..N : \A v \in V : Turn(v, k) \in V
  BY <1>1, FitStep
<1> HIDE DEF V, Turn
<1>4. G \in [1..N -> [V -> V]] /\ \A k \in 1..N : \A v \in V : G[k][v] = Turn(v, k)
  BY <1>3
<1> HIDE DEF G
<1>5. PICK f \in [0..N -> V] : f[0] = NothingFit /\ \A k \in 1..N : f[k] = G[k][f[k - 1]]
  <2>1. \E f : LoopRun(f, N, V, NothingFit, G)
    BY <1>1, <1>2, <1>4, LoopRuns, Zenon
  <2> QED BY <2>1, Zenon DEF LoopRun
<1>6. \A k \in 1..N : f[k] = Turn(f[k - 1], k)
  <2> SUFFICES ASSUME NEW k \in 1..N PROVE f[k] = Turn(f[k - 1], k)
    OBVIOUS
  <2>1. f[k - 1] \in V
    BY <1>1
  <2> QED BY <1>4, <1>5, <2>1, Zenon
<1>7. f = [k \in 0..N |-> IF k = 0 THEN NothingFit ELSE Turn(f[k - 1], k)]
  BY <1>1, <1>5, <1>6
<1>8. PICK g : g = (CHOOSE h : Recurs(h)) /\ Recurs(g)
  BY <1>7, Zenon
<1>9. g[0] = NothingFit /\ \A k \in 1..N : g[k] = Turn(g[k - 1], k)
  <2>1. PICK h : h = [k \in 0..N |-> IF k = 0 THEN NothingFit ELSE Turn(g[k - 1], k)]
    BY Zenon
  <2>2. h[0] = NothingFit /\ \A k \in 1..N : h[k] = Turn(g[k - 1], k)
    BY <1>1, <2>1
  <2> QED BY <1>8, <2>1, <2>2, Zenon
<1>10. g[N] = f[N]
  <2> DEFINE P == {k \in Nat : g[k] = f[k]}
  <2>1. 0 \in P /\ \A k \in 1..N : k - 1 \in P => k \in P
    BY <1>1, <1>5, <1>6, <1>9
  <2>2. \A k \in 0..N : k \in P
    <3> HIDE DEF P
    <3> QED BY <1>1, <2>1, InductionTo, Zenon
  <2> QED BY <1>1, <2>2
<1> QED BY <1>0, <1>1, <1>5, <1>8, <1>10 DEF V

-----------------------------------------------------------------------------
\* filterOutProcessedReqs keeps requests of the queue.
LEMMA FilterKeeps ==
  ASSUME NEW queue \in Seq(Reqs), NEW done
  PROVE  filterOut(queue, done) \in Seq(Range(queue))
<1> DEFINE N == Len(queue)
           V == Seq(Range(queue))
           Turn(v, k) == IF queue[k] \in done THEN v ELSE Append(v, queue[k])
           G == [k \in 1..N |-> [v \in V |-> Turn(v, k)]]
           Recurs(f) == f = [k \in 0..N |-> IF k = 0 THEN <<>> ELSE Turn(f[k - 1], k)]
<1>0. filterOut(queue, done) = (CHOOSE f : Recurs(f))[N]
  BY DEF filterOut
<1>1. N \in Nat /\ \A k \in 1..N : queue[k] \in Range(queue)
  BY DEF Range
<1> HIDE DEF N
<1>2. <<>> \in V
  OBVIOUS
<1>3. \A k \in 1..N : \A v \in V : Turn(v, k) \in V
  BY <1>1
<1> HIDE DEF V, Turn
<1>4. G \in [1..N -> [V -> V]] /\ \A k \in 1..N : \A v \in V : G[k][v] = Turn(v, k)
  BY <1>3
<1> HIDE DEF G
<1>5. PICK f \in [0..N -> V] : f[0] = <<>> /\ \A k \in 1..N : f[k] = G[k][f[k - 1]]
  <2>1. \E f : LoopRun(f, N, V, <<>>, G)
    BY <1>1, <1>2, <1>4, LoopRuns, Zenon
  <2> QED BY <2>1, Zenon DEF LoopRun
<1>6. \A k \in 1..N : f[k] = Turn(f[k - 1], k)
  <2> SUFFICES ASSUME NEW k \in 1..N PROVE f[k] = Turn(f[k - 1], k)
    OBVIOUS
  <2>1. f[k - 1] \in V
    BY <1>1
  <2> QED BY <1>4, <1>5, <2>1, Zenon
<1>7. f = [k \in 0..N |-> IF k = 0 THEN <<>> ELSE Turn(f[k - 1], k)]
  BY <1>1, <1>5, <1>6
<1>8. PICK g : g = (CHOOSE h : Recurs(h)) /\ Recurs(g)
  BY <1>7, Zenon
<1>9. g[0] = <<>> /\ \A k \in 1..N : g[k] = Turn(g[k - 1], k)
  <2>1. PICK h : h = [k \in 0..N |-> IF k = 0 THEN <<>> ELSE Turn(g[k - 1], k)]
    BY Zenon
  <2>2. h[0] = <<>> /\ \A k \in 1..N : h[k] = Turn(g[k - 1], k)
    BY <1>1, <2>1
  <2> QED BY <1>8, <2>1, <2>2, Zenon
<1>10. g[N] = f[N]
  <2> DEFINE P == {k \in Nat : g[k] = f[k]}
  <2>1. 0 \in P /\ \A k \in 1..N : k - 1 \in P => k \in P
    BY <1>1, <1>5, <1>6, <1>9
  <2>2. \A k \in 0..N : k \in P
    <3> HIDE DEF P
    <3> QED BY <1>1, <2>1, InductionTo, Zenon
  <2> QED BY <1>1, <2>2
<1> QED BY <1>0, <1>1, <1>5, <1>8, <1>10 DEF V
=============================================================================
