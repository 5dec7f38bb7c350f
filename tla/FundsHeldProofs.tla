------------------------- MODULE FundsHeldProofs --------------------------
(***************************************************************************)
(* For any requests, wallets and amounts, and a fund manager that is not   *)
(* stopped in the middle of process(), whose datastore works and whose     *)
(* StateWaitMsg calls succeed: what callers were told is reserved for them *)
(* is reserved, and no withdrawal takes it.  The invariant, FundsInv,      *)
(* follows the amounts through the steps of process(): callers are told    *)
(* before the amount is recorded, and a withdrawal is planned before it is *)
(* paid.                                                                   *)
(***************************************************************************)
EXTENDS FundManagerProofs

\* The provers get more time than the default.
USE SMTT(20), ZenonT(20)

Status == {"new", "waiting", "ok", "failed"}

\* The steps of process() that deal with reservations, and with releases.
Reserving == {"addFunds", "completeRes", "applyRes"}

\* The types, and that the datastore has the amount reserved.
FundsTyped ==
    /\ req \in [Reqs -> Requests] /\ st \in [Reqs -> Status] /\ rel \in [Reqs -> Status]
    /\ reservations \in Seq(Reqs) /\ releases \in Seq(Reqs) /\ withdrawals \in Seq(Reqs)
    /\ amtReserved \in Nat /\ avail \in Nat /\ plan.reserved \in Nat /\ plan.amt \in Int
    /\ \A i \in DOMAIN msgs : msgs[i].amt \in Nat
    /\ store.reserved = amtReserved
    /\ spent \subseteq Reqs

\* Withdrawals are answered as withdrawals, and only granted reservations are
\* released.
QueuesSorted ==
    /\ \A q \in Range(withdrawals) : req[q].kind = "withdraw"
    /\ pc \in {"withdrawFunds", "completeWd"} => plan.add \subseteq Range(withdrawals)
    /\ pc # "applyRes" => Range(releases) \subseteq Outstanding
    /\ \A q \in cancelled : q \in Reqs /\ st[q] = "failed"

\* What processReservations is about to leave granted.
ToGrant ==
    (Outstanding \ Range(releases))
    \cup {q \in (plan.cancel \cup plan.add) \cap Reqs :
             req[q].kind = "reserve" /\ st[q] = "waiting" /\ rel[q] # "ok"}

\* Callers are told before the amount is recorded: until then the amount planned
\* covers what they were, or are about to be told.
Covered ==
    /\ pc # "applyRes" \/ plan.err => Total(req, Outstanding) <= amtReserved
    /\ pc \in {"addFunds", "completeRes"} /\ ~ plan.err => Total(req, ToGrant) <= plan.reserved
    /\ pc = "applyRes" /\ ~ plan.err => Total(req, Outstanding) <= plan.reserved

\* What is reserved stays when the withdrawal that is in flight, or is about to
\* be pushed, has been paid; deals that were published meanwhile have locked
\* their part.
Left(amt) == amtReserved + amt <= avail + Total(req, spent \cap Outstanding)

WithdrawalsFitting ==
    /\ pc = "withdrawFunds" => plan.amt \in Nat /\ Left(plan.amt)
    /\ \A i \in DOMAIN msgs : ~ msgs[i].done /\ msgs[i].kind = "withdraw" =>
          pc \notin Reserving /\ Left(msgs[i].amt)

FundsInv == FundsTyped /\ QueuesSorted /\ Covered /\ WithdrawalsFitting

-----------------------------------------------------------------------------
\* A sum over calls is an amount.
LEMMA TotalTyped ==
  ASSUME req \in [Reqs -> Requests], NEW S, S \subseteq Reqs
  PROVE  Total(req, S) \in Nat
  BY ReqAmounts, TotalType

\* Nothing was granted and no release has succeeded.
LEMMA SameOutstanding ==
  ASSUME UNCHANGED req,
         \A q \in Reqs : req[q].kind = "reserve" =>
            (st'[q] = "ok" <=> st[q] = "ok") /\ (rel'[q] = "ok" <=> rel[q] = "ok")
  PROVE  Outstanding' = Outstanding
  BY DEF Outstanding

\* Outside of processReservations only the amounts matter.
LEMMA CoveredSame ==
  ASSUME Covered, Outstanding' = Outstanding, UNCHANGED <<req, amtReserved>>,
         pc \notin Reserving, pc' \notin Reserving
  PROVE  Covered'
  BY DEF Covered, Reserving

\* Nothing changes what a withdrawal leaves.
LEMMA FittingSame ==
  ASSUME WithdrawalsFitting, Outstanding' = Outstanding,
         UNCHANGED <<req, amtReserved, avail, spent, msgs>>,
         pc' = "withdrawFunds" => pc = "withdrawFunds" /\ plan'.amt = plan.amt,
         pc' \in Reserving => pc \in Reserving \/ \A i \in DOMAIN msgs : msgs[i].done
  PROVE  WithdrawalsFitting'
  BY Zenon DEF WithdrawalsFitting, Left

\* When no message is named, none is in flight.
LEMMA NonePending ==
  ASSUME FlightInv, msgCid = 0, plan.cid = 0
  PROVE  \A i \in DOMAIN msgs : msgs[i].done
<1>1. PICK S : msgs \in Seq(S)
  BY DEF FlightInv
<1>2. 0 \notin DOMAIN msgs
  BY <1>1
<1> QED BY <1>2, Zenon DEF FlightInv

\* Nothing is reserved at the start.
LEMMA InitFunds == Init => FundsInv
<1> SUFFICES ASSUME Init PROVE FundsInv
  OBVIOUS
<1>1. Outstanding = {} /\ spent \cap Outstanding = {}
  BY DEF Init, Outstanding
<1>2. Total(req, {}) = 0
  <2>1. HasAmounts(req, {}) /\ Units(req, {}) = {}
    BY ReqAmounts DEF Units, Init
  <2> QED BY <2>1, TotalIsUnits, FS_EmptySet
<1>3. avail \in Nat /\ plan.reserved = 0 /\ plan.amt = 0
  BY FundManagerAssumption DEF Init, NoPlan
<1>4. Range(withdrawals) = {} /\ Range(releases) = {}
  BY DEF Init, Range
<1>5. FundsTyped
  BY <1>3 DEF Init, FundsTyped, Status
<1>6. QueuesSorted
  BY <1>4 DEF Init, QueuesSorted
<1>7. Covered
  BY <1>1, <1>2 DEF Init, Covered
<1>8. WithdrawalsFitting
  BY DEF Init, WithdrawalsFitting
<1> QED BY <1>5, <1>6, <1>7, <1>8 DEF FundsInv

-----------------------------------------------------------------------------
\* A step that touches nothing the invariant is about.
LEMMA SameFunds ==
  ASSUME FundsInv, UNCHANGED <<queues, amtReserved, pc, plan, req, st, rel, cancelled, chain>>,
         store'.reserved = amtReserved
  PROVE  FundsInv'
<1>1. Outstanding' = Outstanding /\ ToGrant' = ToGrant
  BY DEF Outstanding, ToGrant, queues
<1>2. FundsTyped'
  BY DEF FundsInv, FundsTyped, queues, chain
<1>3. QueuesSorted'
  BY <1>1 DEF FundsInv, QueuesSorted, queues
<1>4. Covered'
  BY <1>1 DEF FundsInv, Covered
<1>5. WithdrawalsFitting'
  BY <1>1, FittingSame DEF FundsInv, chain
<1> QED BY <1>2, <1>3, <1>4, <1>5 DEF FundsInv

\* process() goes straight to the withdrawals.
LEMMA NoReservationsFunds ==
  ASSUME FundsInv, ProcessNoReservations
  PROVE  FundsInv'
<1> USE DEF queues, callers, chain
<1>0. pc = "unlocked" /\ pc' = "withdrawals"
      /\ UNCHANGED <<queues, amtReserved, plan, req, st, rel, cancelled, chain, store>>
  BY DEF ProcessNoReservations
<1>1. Outstanding' = Outstanding
  BY <1>0 DEF Outstanding
<1>2. FundsTyped'
  BY <1>0 DEF FundsInv, FundsTyped
<1>3. QueuesSorted'
  BY <1>0, <1>1 DEF FundsInv, QueuesSorted
<1>4. Covered'
  BY <1>0, <1>1, CoveredSame DEF FundsInv, Reserving
<1>5. WithdrawalsFitting'
  BY <1>0, <1>1, FittingSame DEF FundsInv, Reserving
<1> QED BY <1>2, <1>3, <1>4, <1>5 DEF FundsInv

\* A request joins a queue.
LEMMA QueueAppend ==
  ASSUME NEW s \in Seq(Reqs), NEW q \in Reqs
  PROVE  Append(s, q) \in Seq(Reqs) /\ Range(Append(s, q)) = Range(s) \cup {q}
<1>1. /\ Append(s, q) \in Seq(Reqs) /\ DOMAIN s = 1..Len(s) /\ Len(s) \in Nat
      /\ DOMAIN Append(s, q) = 1..(Len(s) + 1)
      /\ \A i \in 1..Len(s) : Append(s, q)[i] = s[i]
      /\ Append(s, q)[Len(s) + 1] = q
  OBVIOUS
<1>2. PICK t : t = Append(s, q)
  BY Zenon
<1>3. Range(t) = Range(s) \cup {q}
  BY <1>1, <1>2 DEF Range
<1> QED BY <1>1, <1>2, <1>3, Zenon

\* requestAndWait: a request is queued.
LEMMA RequestFunds ==
  ASSUME FundsInv, NEW q \in Reqs, RequestAndWait(q)
  PROVE  FundsInv'
<1> USE DEF queues, callers, chain
<1>0. /\ pc = "unlocked" /\ st[q] = "new" /\ st' = [st EXCEPT ![q] = "waiting"]
      /\ UNCHANGED <<releases, amtReserved, plan, pc, req, rel, cancelled, chain, store>>
      /\ \/ UNCHANGED withdrawals /\ reservations' = Append(reservations, q)
         \/ /\ req[q].kind = "withdraw" /\ UNCHANGED reservations
            /\ withdrawals' = Append(withdrawals, q)
  BY DEF RequestAndWait
<1>1. /\ withdrawals \in Seq(Reqs) /\ reservations \in Seq(Reqs)
      /\ st \in [Reqs -> Status] /\ rel \in [Reqs -> Status]
  BY DEF FundsInv, FundsTyped
<1>2. Outstanding' = Outstanding
  BY <1>0, <1>1, SameOutstanding
<1>3. withdrawals' \in Seq(Reqs) /\ reservations' \in Seq(Reqs)
  BY <1>0, <1>1, QueueAppend, Zenon
<1>4. \/ Range(withdrawals') = Range(withdrawals)
      \/ req[q].kind = "withdraw" /\ Range(withdrawals') = Range(withdrawals) \cup {q}
  <2>1. Range(Append(withdrawals, q)) = Range(withdrawals) \cup {q}
    BY <1>1, QueueAppend
  <2>2. CASE withdrawals' = withdrawals
    BY <2>2, Zenon
  <2>3. CASE req[q].kind = "withdraw" /\ withdrawals' = Append(withdrawals, q)
    BY <2>1, <2>3, Zenon
  <2> QED BY <1>0, <2>2, <2>3
<1>5. FundsTyped'
  BY Zenon, <1>0, <1>1, <1>3 DEF FundsInv, FundsTyped, Status
<1>6. QueuesSorted'
  BY <1>0, <1>1, <1>2, <1>4 DEF FundsInv, QueuesSorted
<1>7. Covered'
  BY <1>0, <1>2, CoveredSame DEF FundsInv, Reserving
<1>8. WithdrawalsFitting'
  BY <1>0, <1>2, FittingSame DEF FundsInv, Reserving
<1> QED BY <1>5, <1>6, <1>7, <1>8 DEF FundsInv

\* Release: a granted reservation is queued.
LEMMA ReleaseFunds ==
  ASSUME FundsInv, NEW q \in Reqs, RequestRelease(q)
  PROVE  FundsInv'
<1> USE DEF queues, callers, chain
<1>0. /\ pc = "unlocked" /\ rel[q] = "new" /\ rel' = [rel EXCEPT ![q] = "waiting"]
      /\ req[q].kind = "reserve" /\ st[q] = "ok"
      /\ releases' = Append(releases, q)
      /\ UNCHANGED <<reservations, withdrawals, amtReserved, plan, pc, req, st, cancelled, chain, store>>
  BY DEF RequestRelease
<1>1. releases \in Seq(Reqs) /\ rel \in [Reqs -> Status]
  BY DEF FundsInv, FundsTyped
<1>2. Outstanding' = Outstanding /\ q \in Outstanding
  BY <1>0, <1>1, SameOutstanding DEF Outstanding
<1>3. releases' \in Seq(Reqs)
  BY <1>0, <1>1
<1>4. Range(releases') = Range(releases) \cup {q}
  BY <1>0, <1>1 DEF Range
<1>5. FundsTyped'
  BY <1>0, <1>1, <1>3 DEF FundsInv, FundsTyped, Status
<1>6. QueuesSorted'
  BY ZenonT(40), <1>0, <1>1, <1>2, <1>4 DEF FundsInv, QueuesSorted
<1>7. Covered'
  BY <1>0, <1>2, CoveredSame DEF FundsInv, Reserving
<1>8. WithdrawalsFitting'
  BY <1>0, <1>2, FittingSame DEF FundsInv, Reserving
<1> QED BY <1>5, <1>6, <1>7, <1>8 DEF FundsInv

\* A caller gives up: less is to be granted.
LEMMA CancelFunds ==
  ASSUME FundsInv, NEW q \in Reqs, Cancel(q)
  PROVE  FundsInv'
<1> USE DEF queues, callers, chain
<1>0. /\ st[q] = "waiting" /\ st' = [st EXCEPT ![q] = "failed"]
      /\ cancelled' = cancelled \cup {q}
      /\ UNCHANGED <<queues, amtReserved, plan, pc, req, rel, chain, store>>
  BY DEF Cancel
<1>1. req \in [Reqs -> Requests] /\ st \in [Reqs -> Status] /\ plan.reserved \in Nat
  BY DEF FundsInv, FundsTyped
<1>2. Outstanding' = Outstanding
  BY <1>0, <1>1, SameOutstanding
<1>3. ToGrant' \subseteq ToGrant
  BY <1>0, <1>1, <1>2 DEF ToGrant
<1>4. ToGrant \subseteq Reqs
  BY DEF ToGrant, Outstanding
<1>5. /\ Total(req, ToGrant') \in Nat /\ Total(req, ToGrant) \in Nat
      /\ Total(req, ToGrant') <= Total(req, ToGrant)
  BY <1>1, <1>3, <1>4, ReqAmounts, TotalSubset
<1>6. FundsTyped'
  BY <1>0, <1>1 DEF FundsInv, FundsTyped, Status
<1>7. QueuesSorted'
  BY <1>0, <1>1, <1>2 DEF FundsInv, QueuesSorted
<1>8. Covered'
  BY <1>0, <1>1, <1>2, <1>5 DEF FundsInv, Covered
<1>9. WithdrawalsFitting'
  BY <1>0, <1>2, FittingSame DEF FundsInv
<1> QED BY <1>6, <1>7, <1>8, <1>9 DEF FundsInv

\* A deal locks what was reserved for it.
LEMMA SpendFunds ==
  ASSUME FundsInv, NEW q \in Reqs, Spend(q)
  PROVE  FundsInv'
<1> USE DEF queues, callers, chain
<1>0. /\ req[q].kind = "reserve" /\ st[q] = "ok" /\ rel[q] = "new" /\ q \notin spent
      /\ avail >= req[q].amt /\ avail' = avail - req[q].amt /\ spent' = spent \cup {q}
      /\ UNCHANGED <<queues, amtReserved, plan, pc, req, st, rel, cancelled, msgs, store>>
  BY DEF Spend
<1>1. /\ req \in [Reqs -> Requests] /\ avail \in Nat /\ spent \subseteq Reqs
      /\ amtReserved \in Nat /\ plan.amt \in Int
      /\ \A i \in DOMAIN msgs : msgs[i].amt \in Nat
  BY DEF FundsInv, FundsTyped
<1>2. Outstanding' = Outstanding /\ ToGrant' = ToGrant /\ q \in Outstanding
  BY <1>0 DEF Outstanding, ToGrant
<1>3. req[q].amt \in Nat
  BY <1>1, ReqAmounts DEF HasAmounts
<1>4. FundsTyped'
  BY <1>0, <1>1, <1>3 DEF FundsInv, FundsTyped
<1>5. QueuesSorted'
  BY <1>0, <1>2 DEF FundsInv, QueuesSorted
<1>6. Covered'
  BY <1>0, <1>2 DEF FundsInv, Covered
<1>7. /\ Total(req, spent \cap Outstanding) \in Nat
      /\ Total(req, spent' \cap Outstanding) = Total(req, spent \cap Outstanding) + req[q].amt
  <2> DEFINE S == spent \cap Outstanding
  <2>1. S \cap {q} = {} /\ spent' \cap Outstanding = S \cup {q} /\ S \subseteq Reqs
    BY <1>0, <1>1, <1>2
  <2> HIDE DEF S
  <2>2. HasAmounts(req, S) /\ HasAmounts(req, {q})
    BY <1>1, <2>1, ReqAmounts
  <2>3. Total(req, S \cup {q}) = Total(req, S) + Total(req, {q})
    BY ZenonT(40), <2>1, <2>2, TotalUnion
  <2>4. Total(req, {q}) = req[q].amt /\ Total(req, S) \in Nat
    BY <1>3, <2>2, TotalOne, TotalType
  <2> QED BY ZenonT(40), <2>1, <2>3, <2>4 DEF S
<1>8. ASSUME NEW a \in Int, Left(a) PROVE Left(a)'
  <2>1. amtReserved + a <= avail + Total(req, spent \cap Outstanding)
    BY <1>8 DEF Left
  <2>2. amtReserved + a <= avail - req[q].amt + (Total(req, spent \cap Outstanding) + req[q].amt)
    BY <1>1, <1>3, <1>7, <2>1
  <2> QED BY <1>0, <1>2, <1>7, <2>2, Zenon DEF Left
<1>9. WithdrawalsFitting'
  BY <1>0, <1>1, <1>8 DEF FundsInv, WithdrawalsFitting
<1> QED BY <1>4, <1>5, <1>6, <1>9 DEF FundsInv

\* A record with the fields of the plan.
IsPlan(n) == n = [cancel |-> n.cancel, add |-> n.add, wallet |-> n.wallet, reserved |-> n.reserved,
                  amt |-> n.amt, err |-> n.err, cid |-> n.cid]

\* The fields of the empty plan.
LEMMA NoPlanIsPlan ==
  /\ IsPlan(NoPlan) /\ NoPlan.amt = 0 /\ NoPlan.err = FALSE /\ NoPlan.cid = 0
  /\ NoPlan.reserved = 0 /\ NoPlan.add = {} /\ NoPlan.cancel = {}
  BY Zenon DEF NoPlan, IsPlan

\* A plan with another amount, or one that failed.
LEMMA PlanWith ==
  ASSUME NEW n, IsPlan(n), NEW x, NEW m,
         m \in {n, [n EXCEPT !.amt = x], [n EXCEPT !.err = TRUE]}
  PROVE  m.cancel = n.cancel /\ m.add = n.add /\ m.reserved = n.reserved /\ m.amt \in {n.amt, x}
  BY DEF IsPlan

\* process() decides what to grant: what it plans to reserve covers what was
\* granted before, less what is released, and what it grants.
LEMMA ReservationsFunds ==
  ASSUME FundsInv, FlightInv, ProcessReservations
  PROVE  FundsInv'
<1> USE DEF queues, callers, chain
<1>0. /\ pc = "unlocked" /\ pc' \in {"addFunds", "completeRes"} /\ msgCid = 0
      /\ UNCHANGED <<queues, amtReserved, req, st, rel, chain, store, cancelled>>
  BY DEF ProcessReservations, canProcess
<1>1. /\ req \in [Reqs -> Requests] /\ releases \in Seq(Reqs) /\ reservations \in Seq(Reqs)
      /\ amtReserved \in Nat /\ avail \in Nat
  BY DEF FundsInv, FundsTyped
<1>2. PICK s : s = splitReservations
  OBVIOUS
<1>3. /\ s.cancel \cup s.add \subseteq Reqs /\ s.rel \in Nat /\ s.addAmt \in Nat
      /\ Total(req, Live(s.cancel \cup s.add)) <= Total(req, Range(releases)) - s.rel + s.addAmt
  BY <1>1, <1>2, ReservationsSplit DEF Splits
<1>4. PICK reserved : reserved = newReserved(s.addAmt - s.rel)
  OBVIOUS
<1>5. PICK p : p = [NoPlan EXCEPT !.cancel = s.cancel, !.add = s.add, !.wallet = s.wallet,
                                  !.reserved = reserved]
  OBVIOUS
<1>6. plan' \in {p, [p EXCEPT !.amt = reserved - avail], [p EXCEPT !.err = TRUE]}
  BY <1>2, <1>4, <1>5 DEF ProcessReservations
<1>7. /\ plan'.cancel = s.cancel /\ plan'.add = s.add /\ plan'.reserved = reserved
      /\ plan'.amt \in {0, reserved - avail}
  <2>1. p.cancel = s.cancel /\ p.add = s.add /\ p.reserved = reserved /\ p.amt = 0 /\ IsPlan(p)
    <3>1. PICK n : n = NoPlan /\ IsPlan(n) /\ n.amt = 0
      BY NoPlanIsPlan, Zenon
    <3>2. p = [n EXCEPT !.cancel = s.cancel, !.add = s.add, !.wallet = s.wallet, !.reserved = reserved]
      BY <1>5, <3>1, Zenon
    <3>3. /\ p.cancel = s.cancel /\ p.add = s.add /\ p.reserved = reserved
          /\ p.amt = n.amt /\ p.err = n.err /\ p.cid = n.cid /\ IsPlan(p)
      BY ZenonT(40), <3>1, <3>2 DEF IsPlan
    <3> QED BY <3>1, <3>3, Zenon
  <2> QED BY <1>6, <2>1, PlanWith
<1>8. reserved \in Nat /\ reserved >= amtReserved + s.addAmt - s.rel
  BY <1>1, <1>3, <1>4 DEF newReserved
<1>9. Outstanding' = Outstanding /\ Outstanding \subseteq Reqs /\ Range(releases) \subseteq Outstanding
  BY <1>0 DEF Outstanding, FundsInv, QueuesSorted
<1>10. FundsTyped'
  BY <1>0, <1>1, <1>7, <1>8 DEF FundsInv, FundsTyped
<1>11. QueuesSorted'
  BY <1>0, <1>9 DEF FundsInv, QueuesSorted
<1>12. Total(req, ToGrant') <= reserved
  <2> DEFINE L == Live(s.cancel \cup s.add)
             K == Outstanding \ Range(releases)
             G == {q \in (s.cancel \cup s.add) \cap Reqs :
                     req[q].kind = "reserve" /\ st[q] = "waiting" /\ rel[q] # "ok"}
  <2>1. ToGrant' = K \cup G
    BY <1>0, <1>7, <1>9, Zenon DEF ToGrant
  <2>2. G \subseteq L
    BY DEF FundsInv, QueuesSorted, Live
  <2>3. L \subseteq Reqs /\ K \subseteq Reqs
    BY <1>3, <1>9 DEF Live
  <2>4. Total(req, L) <= Total(req, Range(releases)) - s.rel + s.addAmt
    BY <1>3
  <2>5. Total(req, K) = Total(req, Outstanding) - Total(req, Range(releases))
    BY <1>1, <1>9, ReqAmounts, TotalDifference
  <2>6. Total(req, Outstanding) <= amtReserved
    BY <1>0 DEF FundsInv, Covered
  <2> HIDE DEF L, K, G
  <2>7. Total(req, K \cup L) <= Total(req, K) + Total(req, L) /\ Total(req, K \cup L) \in Nat
    BY ZenonT(40), <1>1, <2>3, ReqAmounts, TotalUnion
  <2>8. Total(req, K \cup G) <= Total(req, K \cup L) /\ Total(req, K \cup G) \in Nat
    <3>1. K \cup G \subseteq K \cup L /\ K \cup L \subseteq Reqs
      BY <2>2, <2>3
    <3> QED BY <1>1, <3>1, ReqAmounts, TotalSubset
  <2>9. Total(req, K) \in Nat /\ Total(req, L) \in Nat /\ Total(req, Range(releases)) \in Nat
        /\ Total(req, Outstanding) \in Nat
    BY <1>1, <1>9, <2>3, TotalTyped
  <2>10. s.rel \in Nat /\ s.addAmt \in Nat
    BY <1>3
  <2>11. Total(req, K \cup G) <= reserved
    <3>1. PICK k \in Nat, l \in Nat, r \in Nat, o \in Nat, u \in Nat, v \in Nat :
            /\ k = Total(req, K) /\ l = Total(req, L) /\ r = Total(req, Range(releases))
            /\ o = Total(req, Outstanding) /\ u = Total(req, K \cup L) /\ v = Total(req, K \cup G)
      BY <2>7, <2>8, <2>9, Zenon
    <3>2. /\ l <= r - s.rel + s.addAmt /\ k = o - r /\ o <= amtReserved /\ u <= k + l /\ v <= u
      BY <2>4, <2>5, <2>6, <2>7, <2>8, <3>1, Zenon
    <3>3. v <= reserved
      BY <1>1, <1>8, <2>10, <3>2
    <3> QED BY <3>1, <3>3, Zenon
  <2> QED BY <2>1, <2>11, Zenon
<1>13. Covered'
  BY <1>0, <1>7, <1>9, <1>12 DEF FundsInv, Covered
<1>14. WithdrawalsFitting'
  <2>1. plan.cid = 0
    BY <1>0 DEF FlightInv, Unrecorded
  <2>2. \A i \in DOMAIN msgs : msgs[i].done
    BY <1>0, <2>1, NonePending
  <2> QED BY <1>0, <1>9, <2>2, FittingSame DEF FundsInv
<1> QED BY <1>10, <1>11, <1>13, <1>14 DEF FundsInv

\* Pushing a message adds it at the end.
LEMMA PushAny ==
  ASSUME FlightInv, NEW k, NEW w, NEW a \in Nat, Push(k, w, a),
         \A i \in DOMAIN msgs : msgs[i].amt \in Nat
  PROVE  /\ \A i \in DOMAIN msgs' : msgs'[i].amt \in Nat
         /\ \A i \in DOMAIN msgs' :
               \/ i \in DOMAIN msgs /\ msgs'[i] = msgs[i]
               \/ msgs'[i] = [kind |-> k, wallet |-> w, amt |-> a, done |-> FALSE]
<1>1. PICK m : m = [kind |-> k, wallet |-> w, amt |-> a, done |-> FALSE]
  BY Zenon
<1>2. msgs' = Append(msgs, m) /\ m.amt \in Nat
  BY <1>1 DEF Push
<1>3. \E S : msgs \in Seq(S)
  BY DEF FlightInv
<1>4. /\ \E S : Append(msgs, m) \in Seq(S)
      /\ Len(msgs) \in Nat /\ DOMAIN msgs = 1..Len(msgs)
      /\ Len(Append(msgs, m)) = Len(msgs) + 1
      /\ DOMAIN Append(msgs, m) = 1..(Len(msgs) + 1)
      /\ \A i \in 1..Len(msgs) : Append(msgs, m)[i] = msgs[i]
      /\ Append(msgs, m)[Len(msgs) + 1] = m
  BY <1>3, AppendAny, Zenon
<1>5. PICK t : t = msgs'
  OBVIOUS
<1>6. \A i \in DOMAIN t : (i \in DOMAIN msgs /\ t[i] = msgs[i]) \/ t[i] = m
  BY <1>2, <1>4, <1>5
<1>7. \A i \in DOMAIN t : t[i].amt \in Nat
  BY <1>2, <1>6
<1> QED BY <1>1, <1>5, <1>6, <1>7, Zenon

\* AddFunds: the plan keeps what it grants, or fails.
LEMMA AddFundsStep ==
  ASSUME FundsInv, FlightInv, AddFunds
  PROVE  FundsInv'
<1> USE DEF queues, callers, chain
<1>0. /\ pc = "addFunds" /\ pc' = "completeRes"
      /\ UNCHANGED <<queues, amtReserved, req, st, rel, cancelled, avail, spent, store>>
  BY DEF AddFunds
<1>1. IsPlan(plan)
  BY Zenon DEF FlightInv, IsPlan
<1>2. /\ plan'.cancel \cup plan'.add = plan.cancel \cup plan.add
      /\ plan'.reserved = plan.reserved /\ plan'.amt = plan.amt
  <2>1. \/ plan' = [plan EXCEPT !.cancel = @ \cup plan.add, !.add = {}]
        \/ plan' = [plan EXCEPT !.cid = Len(msgs')]
        \/ plan' = [plan EXCEPT !.err = TRUE]
    BY DEF AddFunds
  <2> QED BY Zenon, <1>1, <2>1 DEF IsPlan
<1>3. ~ plan.err
  BY Zenon, <1>0 DEF FlightInv
<1>4. Outstanding' = Outstanding /\ ToGrant' = ToGrant
  BY <1>0, <1>2 DEF Outstanding, ToGrant
<1>5. /\ \A i \in DOMAIN msgs' : msgs'[i].amt \in Nat
      /\ \A i \in DOMAIN msgs' : ~ msgs'[i].done => msgs'[i].kind # "withdraw"
  <2>1. \A i \in DOMAIN msgs : msgs[i].done
    BY <1>0, NonePending DEF FlightInv, Unrecorded
  <2>2. \A i \in DOMAIN msgs : msgs[i].amt \in Nat
    BY DEF FundsInv, FundsTyped
  <2>3. CASE UNCHANGED msgs
    BY <2>1, <2>2, <2>3
  <2>4. CASE ~ NothingToAdd /\ Push("add", plan.wallet, plan.amt)
    <3>1. plan.amt \in Nat
      BY <2>4 DEF NothingToAdd, FundsInv, FundsTyped
    <3>2. /\ \A i \in DOMAIN msgs' : msgs'[i].amt \in Nat
          /\ \A i \in DOMAIN msgs' :
                \/ i \in DOMAIN msgs /\ msgs'[i] = msgs[i]
                \/ msgs'[i] = [kind |-> "add", wallet |-> plan.wallet, amt |-> plan.amt, done |-> FALSE]
      BY Zenon, <2>2, <2>4, <3>1, PushAny
    <3> QED BY <2>1, <3>2
  <2> QED BY Zenon, <2>3, <2>4 DEF AddFunds
<1>6. FundsTyped'
  BY Zenon, <1>0, <1>2, <1>5 DEF FundsInv, FundsTyped
<1>7. QueuesSorted'
  BY <1>0, <1>4 DEF FundsInv, QueuesSorted
<1>8. Covered'
  BY <1>0, <1>2, <1>3, <1>4 DEF FundsInv, Covered
<1>9. WithdrawalsFitting'
  BY <1>0, <1>5 DEF WithdrawalsFitting
<1> QED BY <1>6, <1>7, <1>8, <1>9 DEF FundsInv

\* The callers are told.
LEMMA CompleteReservationsFunds ==
  ASSUME FundsInv, CompleteReservations
  PROVE  FundsInv'
<1> USE DEF queues, callers, chain
<1>0. /\ pc = "completeRes" /\ pc' = "applyRes"
      /\ UNCHANGED <<queues, amtReserved, plan, req, cancelled, chain, store>>
      /\ rel' = [q \in Reqs |-> IF q \notin Range(releases) THEN rel[q]
                                ELSE IF plan.err THEN "failed" ELSE "ok"]
  BY ZenonT(40) DEF CompleteReservations
<1>1. /\ plan.err => st' = [q \in Reqs |-> IF q \in Range(reservations) /\ st[q] = "waiting"
                                            THEN "failed" ELSE st[q]]
      /\ ~ plan.err => st' = [q \in Reqs |-> IF q \in plan.cancel \cup plan.add /\ st[q] = "waiting"
                                              THEN "ok" ELSE st[q]]
  BY DEF CompleteReservations, CompleteAll
<1>2. st \in [Reqs -> Status] /\ rel \in [Reqs -> Status]
  BY DEF FundsInv, FundsTyped
<1>3. Range(releases) \subseteq Outstanding
  BY <1>0 DEF FundsInv, QueuesSorted
<1>4. plan.err => Outstanding' = Outstanding
  <2> SUFFICES ASSUME plan.err PROVE Outstanding' = Outstanding
    OBVIOUS
  <2>1. \A q \in Reqs : (st'[q] = "ok" <=> st[q] = "ok")
    BY <1>1, <1>2
  <2>2. \A q \in Reqs : (rel'[q] = "ok" <=> rel[q] = "ok")
    BY <1>0, <1>3 DEF Outstanding
  <2> QED BY <1>0, <2>1, <2>2, SameOutstanding
<1>5. ~ plan.err => Outstanding' = ToGrant
  <2> SUFFICES ASSUME ~ plan.err PROVE Outstanding' = ToGrant
    OBVIOUS
  <2>1. \A q \in Reqs : st'[q] = "ok" <=> st[q] = "ok" \/ (q \in plan.cancel \cup plan.add /\ st[q] = "waiting")
    BY <1>1, <1>2
  <2>2. \A q \in Reqs : rel'[q] # "ok" <=> rel[q] # "ok" /\ q \notin Range(releases)
    BY <1>0, <1>3 DEF Outstanding
  <2>3. Outstanding \subseteq Reqs /\ Range(releases) \subseteq Outstanding
    BY Zenon, <1>3 DEF Outstanding
  <2>4. ASSUME NEW q \in Reqs PROVE q \in Outstanding' <=> q \in ToGrant
    <3>1. q \in Outstanding' <=> /\ req[q].kind = "reserve" /\ rel[q] # "ok" /\ q \notin Range(releases)
                                 /\ st[q] = "ok" \/ (q \in plan.cancel \cup plan.add /\ st[q] = "waiting")
      BY <1>0, <2>1, <2>2 DEF Outstanding
    <3>2. q \in Range(releases) => st[q] = "ok"
      BY <2>3 DEF Outstanding
    <3> QED BY Zenon, <3>1, <3>2 DEF Outstanding, ToGrant
  <2>5. Outstanding' \subseteq Reqs /\ ToGrant \subseteq Reqs
    BY Zenon DEF Outstanding, ToGrant
  <2> QED BY <2>4, <2>5
<1>6. FundsTyped'
  BY <1>0, <1>1, <1>2 DEF FundsInv, FundsTyped, Status
<1>7. QueuesSorted'
  <2>1. \A q \in Reqs : st[q] = "failed" => st'[q] = "failed"
    BY <1>1, <1>2
  <2> QED BY ZenonT(40), <1>0, <2>1 DEF FundsInv, QueuesSorted
<1>8. Covered'
  BY ZenonT(40), <1>0, <1>4, <1>5 DEF FundsInv, Covered
<1>9. WithdrawalsFitting'
  BY <1>0 DEF FundsInv, WithdrawalsFitting, Reserving
<1> QED BY <1>6, <1>7, <1>8, <1>9 DEF FundsInv

\* The amount planned is recorded: it covers what the callers were told.
LEMMA ApplyReservationsFunds ==
  ASSUME FundsInv, "save" \notin faults, ApplyReservations
  PROVE  FundsInv'
<1> USE DEF queues, callers, chain
<1>0. /\ pc = "applyRes" /\ pc' \in {"withdrawals", "unlocked"} /\ plan' = NoPlan /\ releases' = <<>>
      /\ UNCHANGED <<withdrawals, req, st, rel, cancelled, avail, msgs, spent>>
      /\ reservations' \in {<<>>, filterOut(reservations, plan.cancel \cup plan.add)}
  BY DEF ApplyReservations, ProcessEnds
<1>1. /\ req \in [Reqs -> Requests] /\ reservations \in Seq(Reqs)
      /\ amtReserved \in Nat /\ plan.reserved \in Nat /\ store.reserved = amtReserved
  BY DEF FundsInv, FundsTyped
<1>2. reservations' \in Seq(Reqs)
  <2>1. filterOut(reservations, plan.cancel \cup plan.add) \in Seq(Range(reservations))
    BY <1>1, FilterKeeps
  <2>2. Range(reservations) \subseteq Reqs
    BY <1>1 DEF Range
  <2>3. filterOut(reservations, plan.cancel \cup plan.add) \in Seq(Reqs) /\ <<>> \in Seq(Reqs)
    BY <2>1, <2>2
  <2> QED BY ZenonT(40), <1>0, <2>3
<1>3. plan'.reserved = 0 /\ plan'.amt = 0 /\ plan'.err = FALSE
  BY <1>0, NoPlanIsPlan, Zenon
<1>4. Outstanding' = Outstanding
  BY <1>0 DEF Outstanding
<1>5. /\ amtReserved' \in Nat /\ store'.reserved = amtReserved'
      /\ Total(req, Outstanding) <= amtReserved'
  <2>1. CASE plan.err
    <3>1. UNCHANGED <<amtReserved, store>>
      BY Zenon, <2>1 DEF ApplyReservations
    <3> QED BY Zenon, <1>1, <2>1, <3>1 DEF FundsInv, Covered
  <2>2. CASE ~ plan.err
    <3>1. applyStateChange(plan.cid, plan.reserved)
      BY <2>2 DEF ApplyReservations
    <3>2. plan.reserved # -1
      BY <1>1
    <3>3. amtReserved' = plan.reserved /\ store' = [reserved |-> amtReserved', msg |-> msgCid']
      BY <3>1, <3>2, SaveWorks DEF applyStateChange
    <3> QED BY Zenon, <1>0, <1>1, <2>2, <3>3 DEF FundsInv, Covered
  <2> QED BY <2>1, <2>2
<1>6. Range(releases') = {}
  BY <1>0 DEF Range
<1>7. FundsTyped'
  BY <1>0, <1>2, <1>3, <1>5 DEF FundsInv, FundsTyped
<1>8. QueuesSorted'
  BY Zenon, <1>0, <1>4, <1>6 DEF FundsInv, QueuesSorted
<1>9. Covered'
  BY <1>0, <1>4, <1>5 DEF Covered
<1>10. WithdrawalsFitting'
  BY <1>0 DEF FundsInv, WithdrawalsFitting, Reserving
<1> QED BY Zenon, <1>7, <1>8, <1>9, <1>10 DEF FundsInv

\* Telling callers that wait for a withdrawal grants no reservation.
LEMMA CompletedWithdrawals ==
  ASSUME FundsTyped, QueuesSorted, NEW S, S \subseteq Range(withdrawals),
         NEW outcome, \A q \in Reqs : outcome[q] \in {"ok", "failed"},
         NEW cid, CompleteAll(S, outcome, cid),
         UNCHANGED <<req, rel>>
  PROVE  /\ st' \in [Reqs -> Status] /\ Outstanding' = Outstanding
         /\ \A q \in Reqs : st[q] = "failed" => st'[q] = "failed"
<1>1. st' = [q \in Reqs |-> IF q \in S /\ st[q] = "waiting" THEN outcome[q] ELSE st[q]]
  BY Zenon DEF CompleteAll
<1>2. st \in [Reqs -> Status] /\ \A q \in S : req[q].kind = "withdraw"
  BY Zenon DEF FundsTyped, QueuesSorted
<1>3. st' \in [Reqs -> Status]
  BY <1>1, <1>2 DEF Status
<1>4. \A q \in Reqs : req[q].kind = "reserve" => st'[q] = st[q]
  BY <1>1, <1>2
<1>5. Outstanding' = Outstanding
  BY <1>4, SameOutstanding
<1> QED BY <1>1, <1>3, <1>5

\* A step of processWithdrawals, told what it tells and plans.
LEMMA WithdrawalStep ==
  ASSUME FundsInv, UNCHANGED <<queues, amtReserved, store, req, rel, cancelled, chain>>,
         pc \notin Reserving, pc' \in {"withdrawFunds", "completeWd", "applyWd"},
         st' \in [Reqs -> Status], Outstanding' = Outstanding,
         \A q \in Reqs : st[q] = "failed" => st'[q] = "failed",
         plan'.reserved \in Nat, plan'.amt \in Int,
         pc' \in {"withdrawFunds", "completeWd"} => plan'.add \subseteq Range(withdrawals),
         pc' = "withdrawFunds" => plan'.amt \in Nat /\ Left(plan'.amt)
  PROVE  FundsInv'
<1> USE DEF queues, chain
<1>1. FundsTyped'
  BY Zenon DEF FundsInv, FundsTyped
<1>2. QueuesSorted'
  BY Zenon DEF FundsInv, QueuesSorted, Reserving
<1>3. Covered'
  BY CoveredSame DEF FundsInv, Reserving
<1>4. WithdrawalsFitting'
  <2>1. pc' \notin Reserving
    BY DEF Reserving
  <2>2. \A a : Left(a)' <=> Left(a)
    BY DEF Left
  <2> QED BY Zenon, <2>1, <2>2 DEF FundsInv, WithdrawalsFitting, Left
<1> QED BY Zenon, <1>1, <1>2, <1>3, <1>4 DEF FundsInv

\* process() decides what to withdraw: what is reserved is left.
LEMMA ProcessWithdrawalsFunds ==
  ASSUME FundsInv, ProcessWithdrawals
  PROVE  FundsInv'
<1> USE DEF queues, callers, chain
<1>0. pc = "withdrawals" /\ UNCHANGED <<queues, amtReserved, store, req, rel, cancelled, chain>>
  BY Zenon DEF ProcessWithdrawals
<1>1. /\ req \in [Reqs -> Requests] /\ withdrawals \in Seq(Reqs) /\ avail \in Nat /\ amtReserved \in Nat
      /\ FundsTyped /\ QueuesSorted
  BY DEF FundsInv, FundsTyped
<1>2. PICK f : f = fitWithdrawals
  OBVIOUS
<1>3. /\ f.zero \cup f.refused \subseteq Range(withdrawals) /\ f.add \subseteq Range(withdrawals)
      /\ f.amt \in Nat /\ (f.amt = 0 \/ f.amt <= netAvail)
  BY <1>1, <1>2, WithdrawalsFit DEF Fits
<1>4. CASE /\ CompleteAll(f.zero \cup f.refused,
                          [q \in Reqs |-> IF q \in f.zero THEN "ok" ELSE "failed"], [q \in Reqs |-> 0])
           /\ plan' = [NoPlan EXCEPT !.add = f.add, !.wallet = f.wallet, !.amt = f.amt]
           /\ pc' = IF f.amt = 0 THEN "applyWd" ELSE "withdrawFunds"
  <2>1. /\ st' \in [Reqs -> Status] /\ Outstanding' = Outstanding
        /\ \A q \in Reqs : st[q] = "failed" => st'[q] = "failed"
    <3>1. PICK o : o = [q \in Reqs |-> IF q \in f.zero THEN "ok" ELSE "failed"]
      BY Zenon
    <3>2. \A q \in Reqs : o[q] \in {"ok", "failed"}
      BY <3>1
    <3>3. CompleteAll(f.zero \cup f.refused, o, [q \in Reqs |-> 0])
      BY <1>4, <3>1, Zenon
    <3> QED BY Zenon, <1>0, <1>1, <1>3, <3>2, <3>3, CompletedWithdrawals
  <2>2. plan'.add = f.add /\ plan'.amt = f.amt /\ plan'.reserved = 0
    <3>1. PICK n : n = NoPlan /\ IsPlan(n) /\ n.reserved = 0
      BY NoPlanIsPlan, Zenon
    <3>2. plan' = [n EXCEPT !.add = f.add, !.wallet = f.wallet, !.amt = f.amt]
      BY <1>4, <3>1, Zenon
    <3> QED BY <3>1, <3>2 DEF IsPlan
  <2>3. pc' = "withdrawFunds" => Left(f.amt)
    <3> SUFFICES ASSUME pc' = "withdrawFunds" PROVE Left(f.amt)
      OBVIOUS
    <3>1. f.amt <= avail - amtReserved
      BY Zenon, <1>3, <1>4 DEF netAvail
    <3>2. Total(req, spent \cap Outstanding) \in Nat
      BY <1>1, TotalTyped DEF Outstanding
    <3> QED BY <1>1, <1>3, <3>1, <3>2 DEF Left
  <2> QED BY <1>0, <1>3, <1>4, <2>1, <2>2, <2>3, WithdrawalStep DEF Reserving
<1>5. CASE /\ CompleteAll(Range(withdrawals), [q \in Reqs |-> "failed"], [q \in Reqs |-> 0])
           /\ plan' = [NoPlan EXCEPT !.err = TRUE] /\ pc' = "applyWd"
  <2>1. /\ st' \in [Reqs -> Status] /\ Outstanding' = Outstanding
        /\ \A q \in Reqs : st[q] = "failed" => st'[q] = "failed"
    BY ZenonT(40), <1>0, <1>1, <1>5, CompletedWithdrawals
  <2>2. plan'.amt = 0 /\ plan'.reserved = 0
    <3>1. PICK n : n = NoPlan /\ IsPlan(n) /\ n.reserved = 0 /\ n.amt = 0
      BY NoPlanIsPlan, Zenon
    <3>2. plan' = [n EXCEPT !.err = TRUE]
      BY <1>5, <3>1, Zenon
    <3> QED BY <3>1, <3>2 DEF IsPlan
  <2> QED BY <1>0, <1>5, <2>1, <2>2, WithdrawalStep DEF Reserving
<1> QED BY <1>2, <1>4, <1>5 DEF ProcessWithdrawals

\* The withdrawal is pushed.
LEMMA WithdrawFundsStep ==
  ASSUME FundsInv, FlightInv, WithdrawFunds
  PROVE  FundsInv'
<1> USE DEF queues, callers, chain
<1>0. /\ pc = "withdrawFunds" /\ pc' = "completeWd" /\ Push("withdraw", plan.wallet, plan.amt)
      /\ plan' = [plan EXCEPT !.cid = Len(msgs')]
      /\ UNCHANGED <<queues, amtReserved, store, req, st, rel, cancelled, avail, spent>>
  BY DEF WithdrawFunds
<1>1. plan'.add = plan.add /\ plan'.reserved = plan.reserved /\ plan'.amt = plan.amt
  <2>1. IsPlan(plan)
    BY Zenon DEF FlightInv, IsPlan
  <2> QED BY <1>0, <2>1 DEF IsPlan
<1>2. plan.amt \in Nat /\ Left(plan.amt)
  BY <1>0 DEF FundsInv, WithdrawalsFitting
<1>3. Outstanding' = Outstanding
  BY <1>0 DEF Outstanding
<1>4. \A i \in DOMAIN msgs : msgs[i].amt \in Nat
  BY DEF FundsInv, FundsTyped
<1>5. /\ \A i \in DOMAIN msgs' : msgs'[i].amt \in Nat
      /\ \A i \in DOMAIN msgs' :
            \/ i \in DOMAIN msgs /\ msgs'[i] = msgs[i]
            \/ msgs'[i] = [kind |-> "withdraw", wallet |-> plan.wallet, amt |-> plan.amt, done |-> FALSE]
  BY <1>0, <1>2, <1>4, PushAny
<1>6. FundsTyped'
  BY <1>0, <1>1, <1>5 DEF FundsInv, FundsTyped
<1>7. QueuesSorted'
  BY <1>0, <1>1, <1>3 DEF FundsInv, QueuesSorted
<1>8. Covered'
  BY <1>0, <1>3, CoveredSame DEF FundsInv, Reserving
<1>9. WithdrawalsFitting'
  <2>1. \A a : Left(a)' <=> Left(a)
    BY Zenon, <1>0, <1>3 DEF Left
  <2>2. ASSUME NEW i \in DOMAIN msgs', ~ msgs'[i].done, msgs'[i].kind = "withdraw"
        PROVE  Left(msgs'[i].amt)
    <3>1. CASE i \in DOMAIN msgs /\ msgs'[i] = msgs[i]
      BY Zenon, <2>2, <3>1 DEF FundsInv, WithdrawalsFitting
    <3>2. CASE msgs'[i] = [kind |-> "withdraw", wallet |-> plan.wallet, amt |-> plan.amt, done |-> FALSE]
      BY <1>2, <3>2
    <3> QED BY <1>5, <3>1, <3>2
  <2>3. ASSUME NEW i \in DOMAIN msgs', ~ msgs'[i].done, msgs'[i].kind = "withdraw"
        PROVE  Left(msgs[i].amt)'
    BY ZenonT(40), <1>0, <1>3, <2>2, <2>3 DEF Left
  <2> QED BY <1>0, <2>3 DEF WithdrawalsFitting, Reserving
<1> QED BY <1>6, <1>7, <1>8, <1>9 DEF FundsInv

\* A restart loses what nobody was told.
LEMMA RestartFunds ==
  ASSUME FundsInv, pc \notin Reserving, Restart
  PROVE  FundsInv'
<1> USE DEF queues, callers, chain
<1>0. /\ reservations' = <<>> /\ releases' = <<>> /\ withdrawals' = <<>>
      /\ amtReserved' = store.reserved /\ pc' = "unlocked" /\ plan' = NoPlan
      /\ st' = [q \in Reqs |-> IF st[q] = "waiting" THEN "failed" ELSE st[q]]
      /\ rel' = [q \in Reqs |-> IF rel[q] = "waiting" THEN "new" ELSE rel[q]]
      /\ UNCHANGED <<store, req, cancelled, avail, msgs, spent>>
  BY ZenonT(40) DEF Restart
<1>1. st \in [Reqs -> Status] /\ rel \in [Reqs -> Status] /\ store.reserved = amtReserved
  BY DEF FundsInv, FundsTyped
<1>2. st' \in [Reqs -> Status] /\ rel' \in [Reqs -> Status]
  BY Zenon, <1>0, <1>1 DEF Status
<1>3. Outstanding' = Outstanding
  BY <1>0, SameOutstanding
<1>4. plan'.reserved = 0 /\ plan'.amt = 0
  BY <1>0, NoPlanIsPlan, Zenon
<1>5. Range(withdrawals') = {} /\ Range(releases') = {} /\ <<>> \in Seq(Reqs)
  BY <1>0 DEF Range
<1>6. FundsTyped'
  BY <1>0, <1>1, <1>2, <1>4, <1>5 DEF FundsInv, FundsTyped
<1>7. QueuesSorted'
  BY <1>0, <1>1, <1>3, <1>5 DEF FundsInv, QueuesSorted
<1>8. Covered'
  BY ZenonT(40), <1>0, <1>1, <1>3, CoveredSame DEF FundsInv, Reserving
<1>9. WithdrawalsFitting'
  BY <1>0, <1>1, <1>3, FittingSame DEF FundsInv, Reserving
<1> QED BY <1>6, <1>7, <1>8, <1>9 DEF FundsInv

\* The push fails, or the node panics and starts again.
LEMMA WithdrawFailsStep ==
  ASSUME FundsInv, FlightInv, WithdrawFundsFails
  PROVE  FundsInv'
<1> USE DEF queues, callers, chain
<1>0. pc = "withdrawFunds"
  BY DEF WithdrawFundsFails
<1>1. CASE Restart
  BY <1>0, <1>1, RestartFunds DEF Reserving
<1>2. CASE ~ Restart
  <2>1. /\ CompleteAll(Range(withdrawals), [q \in Reqs |-> "failed"], [q \in Reqs |-> 0])
        /\ plan' = [plan EXCEPT !.err = TRUE] /\ pc' = "applyWd"
        /\ UNCHANGED <<queues, amtReserved, store, req, rel, cancelled, chain>>
    BY Zenon, <1>2 DEF WithdrawFundsFails
  <2>2. FundsTyped /\ QueuesSorted /\ plan.reserved \in Nat /\ plan.amt \in Int
    BY DEF FundsInv, FundsTyped
  <2>3. /\ st' \in [Reqs -> Status] /\ Outstanding' = Outstanding
        /\ \A q \in Reqs : st[q] = "failed" => st'[q] = "failed"
    BY <2>1, <2>2, CompletedWithdrawals
  <2>4. plan'.amt = plan.amt /\ plan'.reserved = plan.reserved
    <3>1. IsPlan(plan)
      BY Zenon DEF FlightInv, IsPlan
    <3> QED BY Zenon, <2>1, <3>1 DEF IsPlan
  <2> QED BY <1>0, <2>1, <2>2, <2>3, <2>4, WithdrawalStep DEF Reserving
<1> QED BY <1>1, <1>2

\* The callers of the batch are told.
LEMMA CompleteWithdrawalsFunds ==
  ASSUME FundsInv, CompleteWithdrawals
  PROVE  FundsInv'
<1> USE DEF queues, callers, chain
<1>1. /\ pc = "completeWd" /\ pc' = "applyWd"
      /\ CompleteAll(plan.add, [q \in Reqs |-> "ok"], [q \in Reqs |-> plan.cid])
      /\ UNCHANGED <<queues, amtReserved, store, plan, req, rel, cancelled, chain>>
  BY Zenon DEF CompleteWithdrawals
<1>2. FundsTyped /\ QueuesSorted /\ plan.reserved \in Nat /\ plan.amt \in Int
  BY Zenon DEF FundsInv, FundsTyped
<1>3. plan.add \subseteq Range(withdrawals)
  BY ZenonT(40), <1>1, <1>2 DEF QueuesSorted
<1>4. /\ st' \in [Reqs -> Status] /\ Outstanding' = Outstanding
      /\ \A q \in Reqs : st[q] = "failed" => st'[q] = "failed"
  BY <1>1, <1>2, <1>3, CompletedWithdrawals
<1> QED BY Zenon, <1>1, <1>2, <1>4, WithdrawalStep DEF Reserving

\* The message is recorded, the amount reserved stays.
LEMMA ApplyWithdrawalsFunds ==
  ASSUME FundsInv, "save" \notin faults, ApplyWithdrawals
  PROVE  FundsInv'
<1> USE DEF queues, callers, chain
<1>0. /\ pc = "applyWd" /\ pc' = "unlocked" /\ plan' = NoPlan
      /\ withdrawals' = filterOut(withdrawals, completed)
      /\ UNCHANGED <<reservations, releases, req, st, rel, cancelled, avail, msgs, spent>>
  BY Zenon DEF ApplyWithdrawals, ProcessEnds
<1>1. withdrawals \in Seq(Reqs) /\ amtReserved \in Nat /\ store.reserved = amtReserved
  BY DEF FundsInv, FundsTyped
<1>2. amtReserved' = amtReserved /\ store'.reserved = amtReserved
  <2>1. CASE UNCHANGED <<amtReserved, store>>
    BY <1>1, <2>1
  <2>2. CASE applyStateChange(plan.cid, -1)
    BY <2>2, SaveWorks DEF applyStateChange
  <2> QED BY <2>1, <2>2 DEF ApplyWithdrawals
<1>3. withdrawals' \in Seq(Reqs) /\ Range(withdrawals') \subseteq Range(withdrawals)
  <2>1. withdrawals' \in Seq(Range(withdrawals))
    BY <1>0, <1>1, FilterKeeps
  <2>2. Range(withdrawals) \subseteq Reqs
    BY <1>1 DEF Range
  <2>3. withdrawals' \in Seq(Reqs)
    BY <2>1, <2>2
  <2>4. Range(withdrawals') \subseteq Range(withdrawals)
    <3>1. PICK R : R = Range(withdrawals)
      OBVIOUS
    <3>2. withdrawals' \in Seq(R)
      BY <2>1, <3>1, Zenon
    <3>3. Range(withdrawals') \subseteq R
      BY <3>2 DEF Range
    <3> QED BY <3>1, <3>3, Zenon
  <2> QED BY <2>3, <2>4
<1>4. plan'.reserved = 0 /\ plan'.amt = 0
  BY <1>0, NoPlanIsPlan, Zenon
<1>5. Outstanding' = Outstanding
  BY ZenonT(40), <1>0 DEF Outstanding
<1>6. FundsTyped'
  BY <1>0, <1>1, <1>2, <1>3, <1>4 DEF FundsInv, FundsTyped
<1>7. QueuesSorted'
  BY <1>0, <1>3, <1>5 DEF FundsInv, QueuesSorted
<1>8. Covered'
  BY ZenonT(40), <1>0, <1>2, <1>5, CoveredSame DEF FundsInv, Reserving
<1>9. WithdrawalsFitting'
  BY <1>0, <1>2, <1>5, FittingSame DEF FundsInv, Reserving
<1> QED BY <1>6, <1>7, <1>8, <1>9 DEF FundsInv

\* The smaller of two amounts.
LEMMA MinOfTwo ==
  ASSUME NEW x \in Nat, NEW y \in Nat
  PROVE  Min({x, y}) = IF x <= y THEN x ELSE y
<1>1. \E z \in {x, y} : \A w \in {x, y} : z <= w
  OBVIOUS
<1>2. PICK m : m = Min({x, y})
  OBVIOUS
<1>3. m \in {x, y} /\ \A w \in {x, y} : m <= w
  BY <1>1, <1>2, Zenon DEF Min
<1>4. m = IF x <= y THEN x ELSE y
  BY <1>3
<1> QED BY <1>2, <1>4, Zenon

\* What a message does to the escrow.
LEMMA ExecuteAvail ==
  ASSUME FundsTyped, NEW i \in DOMAIN msgs, Execute(i)
  PROVE  /\ avail' \in Nat
         /\ msgs[i].kind = "withdraw" =>
               avail' = avail \/ avail' = avail - (IF msgs[i].amt <= avail THEN msgs[i].amt ELSE avail)
<1>1. PICK a \in Nat : a = msgs[i].amt
  BY ZenonT(40) DEF FundsTyped
<1>2. avail \in Nat
  BY DEF FundsTyped
<1>3. \/ msgs[i].kind = "add" /\ avail' = avail + a
      \/ msgs[i].kind = "withdraw" /\ avail' = avail - Min({a, avail})
      \/ avail' = avail
  BY <1>1, Zenon DEF Execute
<1>4. Min({a, avail}) = IF a <= avail THEN a ELSE avail
  BY <1>2, MinOfTwo
<1> QED BY <1>1, <1>2, <1>3, <1>4

\* The message in flight is executed.
LEMMA ExecuteFunds ==
  ASSUME FundsInv, FlightInv, NEW i \in DOMAIN msgs, Execute(i)
  PROVE  FundsInv'
<1> USE DEF queues, callers, chain
<1>0. /\ ~ msgs[i].done /\ msgs' = [msgs EXCEPT ![i].done = TRUE]
      /\ UNCHANGED <<queues, amtReserved, store, pc, plan, req, st, rel, cancelled, spent>>
  BY DEF Execute
<1>1. avail' \in Nat
  BY ExecuteAvail DEF FundsInv
<1>2. PICK m : m = [msgs[i] EXCEPT !.done = TRUE]
  BY ZenonT(40)
<1>3. m.amt = msgs[i].amt /\ m.done = TRUE
  <2>1. IsMsg(msgs[i])
    BY DEF FlightInv
  <2>2. m = [kind |-> msgs[i].kind, wallet |-> msgs[i].wallet, amt |-> msgs[i].amt, done |-> TRUE]
    BY <1>2, <2>1, MsgDone, Zenon
  <2> QED BY <2>2, Zenon
<1>4. DOMAIN msgs' = DOMAIN msgs /\ msgs'[i] = m /\ \A j \in DOMAIN msgs : j # i => msgs'[j] = msgs[j]
  <2>1. msgs' = [msgs EXCEPT ![i] = m]
    BY <1>0, <1>2, Zenon
  <2>2. PICK S : msgs \in Seq(S)
    BY DEF FlightInv
  <2> QED BY <2>1, <2>2
<1>5. \A j \in DOMAIN msgs : ~ msgs[j].done => j = i
  BY <1>0 DEF FlightInv, Unrecorded
<1>6. pc # "withdrawFunds"
  BY <1>0, NonePending DEF FlightInv, Unrecorded
<1>7. Outstanding' = Outstanding /\ ToGrant' = ToGrant
  BY <1>0 DEF Outstanding, ToGrant
<1>8. FundsTyped'
  BY <1>0, <1>1, <1>3, <1>4 DEF FundsInv, FundsTyped
<1>9. QueuesSorted'
  BY <1>0, <1>7 DEF FundsInv, QueuesSorted
<1>10. Covered'
  BY <1>0, <1>7 DEF FundsInv, Covered
<1>11. WithdrawalsFitting'
  <2>1. \A j \in DOMAIN msgs' : msgs'[j].done
    BY Zenon, <1>3, <1>4, <1>5
  <2> QED BY Zenon, <1>0, <1>6, <2>1 DEF WithdrawalsFitting
<1> QED BY <1>8, <1>9, <1>10, <1>11 DEF FundsInv

\* Every step preserves the invariant.
LEMMA NextFunds ==
  ASSUME faults \cap {"wait", "midcrash", "save"} = {}, FlightInv, FundsInv, [Step]_vars
  PROVE  FundsInv'
<1> USE DEF queues, callers, chain
<1>0. store.reserved = amtReserved
  BY ZenonT(40) DEF FundsInv, FundsTyped
<1>1. CASE ProcessReturns \/ UNCHANGED vars
  BY <1>0, <1>1, SameFunds DEF ProcessReturns, vars
<1>2. CASE ProcessNoReservations
  BY <1>2, NoReservationsFunds
<1>3. CASE ProcessReservations
  BY <1>3, ReservationsFunds
<1>4. CASE AddFunds
  BY <1>4, AddFundsStep
<1>5. CASE CompleteReservations
  BY <1>5, CompleteReservationsFunds
<1>6. CASE ApplyReservations
  BY <1>6, ApplyReservationsFunds
<1>7. CASE ProcessWithdrawals
  BY <1>7, ProcessWithdrawalsFunds
<1>8. CASE WithdrawFunds
  BY <1>8, WithdrawFundsStep
<1>9. CASE WithdrawFundsFails
  BY <1>9, WithdrawFailsStep
<1>10. CASE CompleteWithdrawals
  BY <1>10, CompleteWithdrawalsFunds
<1>11. CASE ApplyWithdrawals
  BY <1>11, ApplyWithdrawalsFunds
<1>12. CASE WaitDone
  <2>1. UNCHANGED <<queues, amtReserved, pc, plan, req, st, rel, cancelled, chain>> /\ saveState
    BY <1>12 DEF WaitDone
  <2>2. store'.reserved = amtReserved
    BY <2>1, SaveWorks
  <2> QED BY <2>1, <2>2, SameFunds
<1>13. CASE Crash
  <2>1. pc = "unlocked" /\ Restart
    BY <1>13 DEF Crash
  <2> QED BY <2>1, RestartFunds DEF Reserving
<1>14. ASSUME NEW q \in Reqs, RequestAndWait(q) \/ RequestRelease(q) \/ Cancel(q) \/ Spend(q)
       PROVE  FundsInv'
  BY <1>14, RequestFunds, ReleaseFunds, CancelFunds, SpendFunds
<1>15. ASSUME NEW i \in DOMAIN msgs, Execute(i) PROVE FundsInv'
  BY <1>15, ExecuteFunds
<1> QED BY <1>1, <1>2, <1>3, <1>4, <1>5, <1>6, <1>7, <1>8, <1>9, <1>10, <1>11, <1>12, <1>13, <1>14, <1>15
    DEF Step, ProcessStep

-----------------------------------------------------------------------------
\* Both invariants hold throughout, unless the record of a message fails.
LEMMA FundsAlways == Spec => [](Recorded => FlightInv /\ FundsInv)
<1> DEFINE Sound == Recorded => FlightInv /\ FundsInv
<1>1. Init => Sound
  BY InitFlight, InitFunds
<1>2. Sound /\ [Next]_vars => Sound'
  <2>1. [Next]_vars => [Step]_vars /\ faults' = faults
    BY DEF Next, vars
  <2>2. Recorded' /\ faults' = faults => Recorded /\ faults \cap {"wait", "midcrash", "save"} = {}
    BY DEF Recorded
  <2>3. QED
    BY <2>1, <2>2, NextFlight, NextFunds
<1>3. QED
  BY <1>1, <1>2, PTL DEF Spec

\* What callers were told is reserved is reserved, in whatever batches, over
\* whatever restarts.
THEOREM ReservedAmountsHeld == Spec => []ReservationsHeld
<1>1. (Recorded => FlightInv /\ FundsInv) => ReservationsHeld
  BY DEF FundsInv, Covered, ReservationsHeld, Amt, Total
<1>2. QED
  BY <1>1, FundsAlways, PTL

\* A withdrawal that is executed leaves what is reserved.
THEOREM ReservedAmountsKept == Spec => ReservedKept
<1> DEFINE A == \A i \in DOMAIN msgs :
                  /\ Recorded /\ ~ msgs[i].done /\ msgs'[i].done
                  /\ msgs[i].kind = "withdraw" /\ avail' # avail
                  => avail' + Amt(spent \cap Outstanding) >= amtReserved
<1>1. (Recorded => FlightInv /\ FundsInv) /\ [Next]_vars => [A]_vars
  <2> SUFFICES ASSUME Recorded => FlightInv /\ FundsInv, Next, NEW i \in DOMAIN msgs,
                      Recorded, ~ msgs[i].done, msgs'[i].done,
                      msgs[i].kind = "withdraw", avail' # avail
               PROVE  avail' + Total(req, spent \cap Outstanding) >= amtReserved
    BY ZenonT(40) DEF Amt, Total
  <2>1. FundsTyped /\ Left(msgs[i].amt)
    BY Zenon DEF FundsInv, WithdrawalsFitting
  <2>2. Execute(i)
    <3> USE DEF queues, callers, chain
    <3>1. (\E q \in Reqs : Spend(q)) \/ \E j \in DOMAIN msgs : Execute(j)
      <4>1. ~ ProcessStep /\ ~ Crash
        BY Zenon DEF ProcessStep, ProcessReturns, ProcessReservations, ProcessNoReservations, AddFunds,
               CompleteReservations, ApplyReservations, ProcessWithdrawals, WithdrawFunds, WithdrawFundsFails,
               CompleteWithdrawals, ApplyWithdrawals, WaitDone, Crash, Restart
      <4>2. \A q \in Reqs : ~ (RequestAndWait(q) \/ RequestRelease(q) \/ Cancel(q))
        BY Zenon DEF RequestAndWait, RequestRelease, Cancel
      <4> QED BY Zenon, <4>1, <4>2 DEF Next, Step
    <3>2. ~ \E q \in Reqs : Spend(q)
      BY Zenon DEF Spend
    <3>3. PICK j \in DOMAIN msgs : Execute(j)
      BY <3>1, <3>2
    <3>4. j # i => msgs'[i] = msgs[i]
      <4>1. PICK S : msgs \in Seq(S)
        BY Zenon DEF FlightInv
      <4> QED BY Zenon, <3>3, <4>1 DEF Execute
    <3> QED BY Zenon, <3>3, <3>4
  <2>3. PICK a \in Nat : a = msgs[i].amt
    BY Zenon, <2>1 DEF FundsTyped
  <2>4. avail \in Nat /\ amtReserved \in Nat /\ Total(req, spent \cap Outstanding) \in Nat
    BY Zenon, <2>1, TotalTyped DEF FundsTyped, Outstanding
  <2>5. avail' = avail - (IF a <= avail THEN a ELSE avail)
    BY Zenon, <2>1, <2>2, <2>3, ExecuteAvail
  <2>6. amtReserved + a <= avail + Total(req, spent \cap Outstanding)
    BY <2>1, <2>3 DEF Left
  <2> QED BY <2>4, <2>5, <2>6
<1>2. QED
  BY <1>1, FundsAlways, PTL DEF Spec, ReservedKept
=============================================================================
