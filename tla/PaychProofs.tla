---------------------------- MODULE PaychProofs ----------------------------
(***************************************************************************)
(* For any requests, amounts and faults: as long as the node does not stop *)
(* between a push and its record, the store knows what the chain holds and *)
(* what messages are out.  Amounts are sums over sets of requests, whose   *)
(* type the provers cannot find; no step of the proof needs it, because    *)
(* store and chain are changed by the same amounts.  The invariant says    *)
(* which message each record, each goroutine and the running processQueue  *)
(* stand for, and what the chain holds for it.                             *)
(***************************************************************************)
EXTENDS Paych, TLAPS

\* A sequence, whatever its elements are.
IsSeq(s) == \E S : s \in Seq(S)

\* A sequence has its indices as domain.
LEMMA IsSeqDomain ==
  ASSUME NEW s, IsSeq(s)
  PROVE  Len(s) \in Nat /\ DOMAIN s = 1..Len(s)
<1> PICK S : s \in Seq(S)
  BY DEF IsSeq
<1> QED OBVIOUS

\* What Append does.
LEMMA AppendIsSeq ==
  ASSUME NEW s, NEW e, IsSeq(s)
  PROVE  /\ IsSeq(Append(s, e)) /\ Len(Append(s, e)) = Len(s) + 1
         /\ DOMAIN Append(s, e) = 1..(Len(s) + 1)
         /\ \A i \in DOMAIN s : Append(s, e)[i] = s[i]
         /\ Append(s, e)[Len(s) + 1] = e
<1> PICK S : s \in Seq(S)
  BY DEF IsSeq
<1> DEFINE T == S \cup {e}
<1>1. s \in Seq(T)
  OBVIOUS
<1>2. e \in T
  OBVIOUS
<1> HIDE DEF T
<1>3. /\ Append(s, e) \in Seq(T) /\ Len(Append(s, e)) = Len(s) + 1
      /\ \A i \in 1..Len(s) : Append(s, e)[i] = s[i]
      /\ Append(s, e)[Len(s) + 1] = e
  BY <1>1, <1>2
<1>4. IsSeq(Append(s, e))
  BY <1>3 DEF IsSeq
<1> QED BY <1>3, <1>4, IsSeqDomain

\* What replacing an element does.
LEMMA ExceptIsSeq ==
  ASSUME NEW s, NEW e, IsSeq(s), NEW i \in DOMAIN s
  PROVE  IsSeq([s EXCEPT ![i] = e]) /\ Len([s EXCEPT ![i] = e]) = Len(s)
<1> PICK S : s \in Seq(S)
  BY DEF IsSeq
<1> DEFINE T == S \cup {e}
<1>1. s \in Seq(T)
  OBVIOUS
<1>2. e \in T
  OBVIOUS
<1> HIDE DEF T
<1>3. [s EXCEPT ![i] = e] \in Seq(T) /\ Len([s EXCEPT ![i] = e]) = Len(s)
  BY <1>1, <1>2
<1> QED BY <1>3 DEF IsSeq

-----------------------------------------------------------------------------
JobFields == {"pc", "merged", "amt", "avail", "chan", "taken", "msg"}
MsgFields == {"to", "amt", "st"}
ChannelFields == {"open", "amt", "avail", "pend", "pendAvail", "createMsg", "addFundsMsg", "settling"}

\* The sequences are as long as there are messages, and records are records.
Shape ==
    /\ IsSeq(msgs) /\ IsSeq(balance) /\ IsSeq(wait)
    /\ Len(balance) = Len(msgs) /\ Len(wait) = Len(msgs)
    /\ DOMAIN chans \subseteq DOMAIN msgs
    /\ DOMAIN job = JobFields
    /\ \A m \in DOMAIN msgs : DOMAIN msgs[m] = MsgFields
    /\ \A c \in DOMAIN chans : DOMAIN chans[c] = ChannelFields

\* The messages that channel c records are its own, and what it expects of
\* them is what they carry.
ChannelOK(c) ==
    /\ msgs[c].to = c
    /\ chans[c].open \in BOOLEAN
    /\ ~ chans[c].open => /\ chans[c].createMsg = c /\ chans[c].addFundsMsg = 0
                          /\ chans[c].pend = msgs[c].amt
    /\ chans[c].open => chans[c].createMsg = 0 /\ msgs[c].st = "ok"
    /\ LET m == chans[c].addFundsMsg IN
       m # 0 => m \in DOMAIN msgs /\ m # c /\ msgs[m].to = c /\ chans[c].pend = msgs[m].amt

\* The message of processQueue is not recorded; the chain may have executed it.
JobOK ==
    /\ job.pc \notin {"created", "added"} => job.msg = 0
    /\ job.pc = "created" =>
          /\ job.msg \in DOMAIN msgs \ DOMAIN chans
          /\ msgs[job.msg].to = job.msg /\ msgs[job.msg].amt = job.amt
          /\ balance[job.msg] = IF msgs[job.msg].st = "ok" THEN job.amt ELSE 0
    /\ job.pc \in {"taken", "addFunds", "added"} =>
          job.chan \in DOMAIN chans /\ chans[job.chan].open /\ Idle(job.chan)
    /\ job.pc = "added" =>
          /\ job.msg \in DOMAIN msgs /\ job.msg # job.chan
          /\ msgs[job.msg].to = job.chan /\ msgs[job.msg].amt = job.amt
          /\ balance[job.chan] = IF msgs[job.msg].st = "ok" THEN chans[job.chan].amt + job.amt
                                 ELSE chans[job.chan].amt

StoreInv ==
    /\ Shape
    /\ \A c \in DOMAIN chans : ChannelOK(c)
    /\ JobOK
    /\ BalanceMatches
    /\ InFlightRecorded
    /\ \A m \in DOMAIN wait : wait[m] = "waiting" => IsRecorded(m)

-----------------------------------------------------------------------------
\* A step that changes neither messages nor what channels record of them keeps
\* the invariant if it does not forget the message of processQueue.
LEMMA StoreKept ==
  ASSUME StoreInv, UNCHANGED <<msgs, balance>>,
         IsSeq(wait') /\ Len(wait') = Len(msgs),
         \A m \in DOMAIN msgs : wait'[m] = "waiting" => IsRecorded(m),
         DOMAIN chans' = DOMAIN chans,
         \A c \in DOMAIN chans :
            /\ DOMAIN chans'[c] = ChannelFields
            /\ chans'[c].open = chans[c].open /\ chans'[c].amt = chans[c].amt
            /\ chans'[c].pend = chans[c].pend
            /\ chans'[c].createMsg = chans[c].createMsg
            /\ chans'[c].addFundsMsg = chans[c].addFundsMsg,
         DOMAIN job' = JobFields, JobOK',
         job.pc = "added" => job' = job,
         job'.msg = job.msg
  PROVE  StoreInv'
<1>1. DOMAIN wait' = DOMAIN msgs /\ DOMAIN wait = DOMAIN msgs
  BY IsSeqDomain DEF StoreInv, Shape
<1>2. Shape'
  BY <1>1 DEF StoreInv, Shape
<1>3. (\A c \in DOMAIN chans : ChannelOK(c))'
  BY DEF StoreInv, Shape, ChannelOK
<1>4. \A m \in DOMAIN msgs : IsRecorded(m)' <=> IsRecorded(m)
  BY DEF IsRecorded
<1>5. BalanceMatches'
  BY DEF StoreInv, BalanceMatches, Landed
<1>6. InFlightRecorded'
  BY <1>4 DEF StoreInv, InFlightRecorded
<1> QED BY <1>1, <1>2, <1>3, <1>4, <1>5, <1>6 DEF StoreInv

-----------------------------------------------------------------------------
\* The store is empty at first.
LEMMA InitStoreInv == Init => StoreInv
<1> SUFFICES ASSUME Init PROVE StoreInv
  OBVIOUS
<1>1. /\ IsSeq(msgs) /\ IsSeq(balance) /\ IsSeq(wait)
      /\ Len(msgs) = 0 /\ Len(balance) = 0 /\ Len(wait) = 0
      /\ DOMAIN msgs = {} /\ DOMAIN wait = {} /\ DOMAIN chans = {}
  BY DEF Init, IsSeq
<1>2. DOMAIN job = JobFields /\ job.msg = 0 /\ job.pc = "unlocked"
  BY DEF Init, Unlocked, JobFields
<1> QED BY <1>1, <1>2 DEF StoreInv, Shape, JobOK, BalanceMatches, InFlightRecorded

\* What processQueue does up to the push, or without one.
LEMMA QueueStepStoreInv ==
  ASSUME StoreInv,
         \/ ProcessQueue \/ MergeQueue \/ NoChannel \/ MessageOut \/ PushFails
         \/ TakeAvailable \/ CompleteAmount
  PROVE  StoreInv'
<1>w. IsSeq(wait) /\ Len(wait) = Len(msgs) /\ DOMAIN wait = DOMAIN msgs
  BY IsSeqDomain DEF StoreInv, Shape
<1>j. DOMAIN job = JobFields /\ DOMAIN Unlocked = JobFields /\ Unlocked.msg = 0 /\ Unlocked.pc = "unlocked"
  BY DEF StoreInv, Shape, Unlocked, JobFields
<1>c. \A c \in DOMAIN chans : DOMAIN chans[c] = ChannelFields
  BY DEF StoreInv, Shape
<1>1. CASE ProcessQueue \/ MergeQueue \/ NoChannel \/ MessageOut \/ PushFails
  <2>1. UNCHANGED <<msgs, balance, wait, chans>> /\ job.pc \notin {"created", "added"}
    BY Zenon, <1>1 DEF ProcessQueue, MergeQueue, NoChannel, MessageOut, PushFails, chain, callers
  <2>2. /\ DOMAIN job' = JobFields /\ job'.msg = 0
        /\ job'.pc \in {"unlocked", "filtered", "merged", "create"}
    <3>1. CASE ProcessQueue
      BY SMTT(30), <3>1, <1>j DEF ProcessQueue, JobFields
    <3>2. CASE MergeQueue
      BY Zenon, <3>2, <1>j DEF MergeQueue, JobFields
    <3>3. CASE NoChannel
      BY ZenonT(40), <3>3, <1>j DEF NoChannel, JobFields, StoreInv, JobOK
    <3>4. CASE MessageOut \/ PushFails
      BY <3>4, <1>j DEF MessageOut, PushFails
    <3> QED BY <1>1, <3>1, <3>2, <3>3, <3>4
  <2>3. job.msg = 0 /\ JobOK'
    BY <2>1, <2>2 DEF StoreInv, JobOK
  <2> QED BY SMTT(30), <2>1, <2>2, <2>3, <1>w, <1>c, StoreKept DEF StoreInv
<1>2. CASE TakeAvailable
  <2>1. PICK c \in DOMAIN chans :
          /\ Idle(c) /\ job.pc = "merged"
          /\ \E t : /\ chans' = [chans EXCEPT ![c].avail = @ - t]
                    /\ job' = [job EXCEPT !.pc = "taken", !.chan = c, !.taken = t]
    BY Zenon, <1>2 DEF TakeAvailable, ActiveChans
  <2>2. UNCHANGED <<msgs, balance, wait>>
    BY Zenon, <1>2 DEF TakeAvailable, chain
  <2>3. DOMAIN job' = JobFields /\ job'.pc = "taken" /\ job'.chan = c /\ job'.msg = job.msg
    BY <2>1, <1>j DEF JobFields
  <2>4. /\ DOMAIN chans' = DOMAIN chans
        /\ \A d \in DOMAIN chans :
            /\ DOMAIN chans'[d] = ChannelFields
            /\ chans'[d].open = chans[d].open /\ chans'[d].amt = chans[d].amt
            /\ chans'[d].pend = chans[d].pend
            /\ chans'[d].createMsg = chans[d].createMsg
            /\ chans'[d].addFundsMsg = chans[d].addFundsMsg
    BY <2>1, <1>c DEF ChannelFields
  <2>5. chans[c].open
    BY <2>1, IsSeqDomain DEF StoreInv, Shape, ChannelOK, Idle
  <2>6. JobOK'
    BY ZenonT(40), <2>1, <2>3, <2>4, <2>5 DEF StoreInv, JobOK, Idle
  <2> QED BY <2>1, <2>2, <2>3, <2>4, <2>6, <1>w, StoreKept DEF StoreInv
<1>3. CASE CompleteAmount
  <2>1. /\ job.pc = "taken"
        /\ \E v : chans' = [chans EXCEPT ![job.chan].avail = v]
        /\ \/ job' = Unlocked
           \/ \E l, a : job' = [job EXCEPT !.pc = "addFunds", !.merged = l, !.amt = a]
        /\ UNCHANGED <<msgs, balance, wait>>
    BY ZenonT(40), <1>3 DEF CompleteAmount, chain
  <2>2. DOMAIN job' = JobFields /\ job'.msg = 0 /\ job.msg = 0
    BY ZenonT(40), <2>1, <1>j DEF JobFields, StoreInv, JobOK
  <2>3. job'.pc = "unlocked" \/ (job'.pc = "addFunds" /\ job'.chan = job.chan)
    <3>1. CASE job' = Unlocked
      BY <3>1, <1>j
    <3>2. ASSUME NEW l, NEW a, job' = [job EXCEPT !.pc = "addFunds", !.merged = l, !.amt = a]
          PROVE  job'.pc = "addFunds" /\ job'.chan = job.chan
      BY SMTT(30), <3>2, <1>j DEF JobFields
    <3> QED BY Zenon, <2>1, <3>1, <3>2
  <2>v. PICK v : chans' = [chans EXCEPT ![job.chan].avail = v]
    BY Zenon, <2>1
  <2>4. /\ DOMAIN chans' = DOMAIN chans
        /\ \A d \in DOMAIN chans :
            /\ DOMAIN chans'[d] = ChannelFields
            /\ chans'[d].open = chans[d].open /\ chans'[d].amt = chans[d].amt
            /\ chans'[d].pend = chans[d].pend
            /\ chans'[d].createMsg = chans[d].createMsg
            /\ chans'[d].addFundsMsg = chans[d].addFundsMsg
    BY SMTT(30), <2>v, <1>c DEF ChannelFields
  <2>5. JobOK'
    <3>1. CASE job'.pc = "unlocked"
      BY <2>2, <3>1 DEF JobOK
    <3>2. CASE job'.pc = "addFunds" /\ job'.chan = job.chan
      <4>1. job.chan \in DOMAIN chans /\ chans[job.chan].open /\ Idle(job.chan)
        BY Zenon, <2>1 DEF StoreInv, JobOK
      <4>2. job.chan \in DOMAIN chans' /\ chans'[job.chan].open /\ Idle(job.chan)'
        BY <2>4, <3>2, <4>1 DEF Idle
      <4> QED BY SMTT(30), <2>2, <3>2, <4>2 DEF JobOK
    <3> QED BY <2>3, <3>1, <3>2
  <2> QED BY Zenon, <2>1, <2>2, <2>4, <2>5, <1>w, StoreKept DEF StoreInv
<1> QED BY <1>1, <1>2, <1>3

\* MpoolPushMessage: processQueue has the message.
LEMMA PushStoreInv == ASSUME StoreInv, Push PROVE StoreInv'
<1> DEFINE m == Len(msgs) + 1
           to == IF job.pc = "create" THEN m ELSE job.chan
<1>d. /\ Len(msgs) \in Nat /\ DOMAIN msgs = 1..Len(msgs) /\ DOMAIN balance = DOMAIN msgs
      /\ DOMAIN wait = DOMAIN msgs /\ m \notin DOMAIN chans /\ m \notin DOMAIN msgs
  BY IsSeqDomain DEF StoreInv, Shape
<1>1. /\ IsSeq(msgs') /\ Len(msgs') = m /\ DOMAIN msgs' = DOMAIN msgs \cup {m}
      /\ \A i \in DOMAIN msgs : msgs'[i] = msgs[i]
      /\ msgs'[m] = [to |-> to, amt |-> job.amt, st |-> "sent"]
  BY <1>d, AppendIsSeq DEF Push, StoreInv, Shape
<1>2. /\ IsSeq(balance') /\ Len(balance') = m
      /\ \A i \in DOMAIN msgs : balance'[i] = balance[i]
      /\ balance'[m] = 0
  BY <1>d, AppendIsSeq DEF Push, StoreInv, Shape
<1>3. /\ IsSeq(wait') /\ Len(wait') = m /\ DOMAIN wait' = DOMAIN msgs \cup {m}
      /\ \A i \in DOMAIN msgs : wait'[i] = wait[i]
      /\ wait'[m] = "none"
  BY <1>d, AppendIsSeq DEF Push, StoreInv, Shape
<1>4. /\ DOMAIN job' = JobFields /\ job'.msg = m /\ job'.chan = to /\ job'.amt = job.amt
      /\ \/ job.pc = "create" /\ job'.pc = "created"
         \/ job.pc = "addFunds" /\ job'.pc = "added"
  <2>1. /\ job' = [job EXCEPT !.pc = IF @ = "create" THEN "created" ELSE "added", !.chan = to, !.msg = m]
        /\ job.pc \in {"create", "addFunds"}
    BY DEF Push
  <2>2. DOMAIN job = JobFields
    BY DEF StoreInv, Shape
  <2> HIDE DEF m, to
  <2> QED BY <2>1, <2>2 DEF JobFields
<1>5. chans' = chans /\ job.msg = 0
  BY <1>4 DEF Push, StoreInv, JobOK
<1> HIDE DEF m, to
<1>6. Shape'
  BY <1>1, <1>2, <1>3, <1>4, <1>5 DEF StoreInv, Shape, MsgFields
<1>7. (\A c \in DOMAIN chans : ChannelOK(c))'
  BY <1>1, <1>5 DEF StoreInv, Shape, ChannelOK
<1>8. \A i \in DOMAIN msgs : IsRecorded(i)' <=> IsRecorded(i)
  BY <1>1, <1>5 DEF IsRecorded
<1>9. ASSUME NEW c \in DOMAIN chans
      PROVE  (Landed(c)' <=> Landed(c)) /\ c \in DOMAIN msgs
  <2>1. c \in DOMAIN msgs /\ ChannelOK(c)
    BY DEF StoreInv, Shape
  <2>2. CASE chans[c].open
    BY <2>1, <2>2, <1>1, <1>5 DEF ChannelOK, Landed
  <2>3. CASE ~ chans[c].open
    BY <2>1, <2>3, <1>1, <1>5 DEF ChannelOK, Landed
  <2> QED BY <2>1, <2>2, <2>3
<1>10. BalanceMatches'
  BY <1>2, <1>4, <1>5, <1>9 DEF StoreInv, BalanceMatches
<1>11. InFlightRecorded'
  BY <1>d, <1>1, <1>4, <1>5, <1>8 DEF StoreInv, InFlightRecorded
<1>12. JobOK'
  <2>1. CASE job.pc = "create"
    BY SMTT(30), <2>1, <1>1, <1>2, <1>4, <1>5, <1>d DEF StoreInv, JobOK, to
  <2>2. CASE job.pc = "addFunds"
    <3>1. /\ job.chan \in DOMAIN chans /\ chans[job.chan].open /\ Idle(job.chan)
          /\ job.chan \in DOMAIN msgs /\ job.chan # m /\ to = job.chan
      BY <2>2, <1>d DEF StoreInv, JobOK, Shape, to
    <3>2. balance[job.chan] = chans[job.chan].amt
      BY <2>2, <3>1 DEF StoreInv, BalanceMatches, Landed, Idle
    <3> QED BY <2>2, <3>1, <3>2, <1>1, <1>2, <1>4, <1>5 DEF JobOK, Idle
  <2> QED BY <2>1, <2>2, <1>4
<1> QED BY <1>1, <1>3, <1>5, <1>6, <1>7, <1>8, <1>10, <1>11, <1>12, <1>d DEF StoreInv

\* CreateChannel: the store has a record of the message.
LEMMA CreateChannelStoreInv == ASSUME StoreInv, CreateChannel PROVE StoreInv'
<1>0. PICK m : m = job.msg
  OBVIOUS
<1>d. /\ Len(msgs) \in Nat /\ DOMAIN msgs = 1..Len(msgs) /\ DOMAIN wait = DOMAIN msgs
      /\ IsSeq(wait) /\ Len(wait) = Len(msgs)
  BY ZenonT(40), IsSeqDomain DEF StoreInv, Shape
<1>m. /\ m \in DOMAIN msgs \ DOMAIN chans /\ m # 0
      /\ msgs[m].to = m /\ msgs[m].amt = job.amt
      /\ balance[m] = IF msgs[m].st = "ok" THEN job.amt ELSE 0
  BY SMTT(30), <1>0, <1>d DEF CreateChannel, StoreInv, JobOK
<1>1. /\ UNCHANGED <<msgs, balance>> /\ job' = Unlocked
      /\ wait' = [wait EXCEPT ![m] = "waiting"]
      /\ chans' = [c \in DOMAIN chans \cup {m} |->
                     IF c = m THEN NewChannel(m, job.amt, job.avail) ELSE chans[c]]
  BY <1>0 DEF CreateChannel, chain
<1>2. /\ IsSeq(wait') /\ Len(wait') = Len(wait) /\ DOMAIN wait' = DOMAIN wait
  BY Zenon, <1>d, <1>m, <1>1, ExceptIsSeq
<1>3. /\ DOMAIN chans' = DOMAIN chans \cup {m} /\ DOMAIN chans'[m] = ChannelFields
      /\ \A c \in DOMAIN chans : chans'[c] = chans[c]
      /\ ~ chans'[m].open /\ chans'[m].open \in BOOLEAN /\ chans'[m].amt = 0 /\ chans'[m].pend = job.amt
      /\ chans'[m].createMsg = m /\ chans'[m].addFundsMsg = 0
  BY ZenonT(40), <1>m, <1>1 DEF NewChannel, ChannelFields
<1>4. DOMAIN job' = JobFields /\ job'.msg = 0 /\ job'.pc = "unlocked"
  BY <1>1 DEF Unlocked, JobFields
<1>5. Shape'
  BY SMTT(30), <1>d, <1>m, <1>1, <1>2, <1>3, <1>4 DEF StoreInv, Shape
<1>6. (\A c \in DOMAIN chans : ChannelOK(c))'
  BY Zenon, <1>m, <1>1, <1>3 DEF StoreInv, ChannelOK
<1>7. JobOK'
  BY <1>4 DEF JobOK
<1>8. BalanceMatches'
  <2> SUFFICES ASSUME NEW c \in DOMAIN chans'
               PROVE  balance[c] = IF ~ Landed(c)' THEN chans'[c].amt
                                   ELSE IF chans'[c].open THEN chans'[c].amt + chans'[c].pend
                                   ELSE chans'[c].pend
    BY SMTT(30), <1>1 DEF BalanceMatches
  <2>1. CASE c = m
    BY <2>1, <1>m, <1>1, <1>3 DEF Landed
  <2>2. CASE c # m
    <3>1. c \in DOMAIN chans /\ (Landed(c)' <=> Landed(c))
      BY <2>2, <1>1, <1>3 DEF Landed
    <3>2. job.pc # "added"
      BY ZenonT(40) DEF CreateChannel
    <3> QED BY ZenonT(40), <2>2, <3>1, <3>2, <1>3 DEF StoreInv, BalanceMatches
  <2> QED BY SMTT(30), <2>1, <2>2
<1>9. \A i \in DOMAIN msgs : (IsRecorded(i) => IsRecorded(i)') /\ IsRecorded(m)'
  BY <1>m, <1>1, <1>3 DEF IsRecorded
<1>10. InFlightRecorded'
  BY <1>0, <1>1, <1>9 DEF StoreInv, InFlightRecorded
<1> QED BY <1>d, <1>m, <1>1, <1>2, <1>5, <1>6, <1>7, <1>8, <1>9, <1>10 DEF StoreInv

\* addFunds: the channel has a record of the message.
LEMMA AddFundsStoreInv == ASSUME StoreInv, AddFunds PROVE StoreInv'
<1>0. PICK m, d : m = job.msg /\ d = job.chan
  OBVIOUS
<1>d. /\ Len(msgs) \in Nat /\ DOMAIN msgs = 1..Len(msgs) /\ DOMAIN wait = DOMAIN msgs
      /\ IsSeq(wait) /\ Len(wait) = Len(msgs)
  BY IsSeqDomain DEF StoreInv, Shape
<1>m. /\ m \in DOMAIN msgs /\ m # d /\ m # 0
      /\ d \in DOMAIN chans /\ chans[d].open /\ Idle(d) /\ DOMAIN chans[d] = ChannelFields
      /\ msgs[m].to = d /\ msgs[m].amt = job.amt
      /\ balance[d] = IF msgs[m].st = "ok" THEN chans[d].amt + job.amt ELSE chans[d].amt
  BY <1>0, <1>d DEF AddFunds, StoreInv, Shape, JobOK
<1>1. /\ UNCHANGED <<msgs, balance>> /\ job' = Unlocked
      /\ wait' = [wait EXCEPT ![m] = "waiting"]
      /\ chans' = [chans EXCEPT ![d] = [@ EXCEPT !.pend = job.amt, !.pendAvail = job.avail, !.addFundsMsg = m]]
  BY <1>0 DEF AddFunds, chain
<1>p. job.pc = "added"
  BY DEF AddFunds
<1>2. /\ IsSeq(wait') /\ Len(wait') = Len(wait) /\ DOMAIN wait' = DOMAIN wait
  BY Zenon, <1>d, <1>m, <1>1, ExceptIsSeq
<1>3. /\ DOMAIN chans' = DOMAIN chans /\ DOMAIN chans'[d] = ChannelFields
      /\ \A c \in DOMAIN chans : c # d => chans'[c] = chans[c]
      /\ chans'[d].open = chans[d].open /\ chans'[d].amt = chans[d].amt /\ chans'[d].pend = job.amt
      /\ chans'[d].createMsg = chans[d].createMsg /\ chans'[d].addFundsMsg = m
  BY Zenon, <1>m, <1>1 DEF ChannelFields
<1>4. DOMAIN job' = JobFields /\ job'.msg = 0 /\ job'.pc = "unlocked"
  BY <1>1 DEF Unlocked, JobFields
<1>5. Shape'
  BY <1>d, <1>m, <1>1, <1>2, <1>3, <1>4 DEF StoreInv, Shape
<1>6. (\A c \in DOMAIN chans : ChannelOK(c))'
  <2> SUFFICES ASSUME NEW c \in DOMAIN chans PROVE ChannelOK(c)'
    BY <1>3
  <2>1. ChannelOK(c)
    BY DEF StoreInv
  <2>2. CASE c = d
    BY ZenonT(40), <2>1, <2>2, <1>m, <1>1, <1>3 DEF ChannelOK
  <2>3. CASE c # d
    BY <2>1, <2>3, <1>1, <1>3 DEF ChannelOK
  <2> QED BY <2>2, <2>3
<1>7. JobOK'
  BY <1>4 DEF JobOK
<1>8. BalanceMatches'
  <2> SUFFICES ASSUME NEW c \in DOMAIN chans
               PROVE  balance[c] = IF ~ Landed(c)' THEN chans'[c].amt
                                   ELSE IF chans'[c].open THEN chans'[c].amt + chans'[c].pend
                                   ELSE chans'[c].pend
    BY <1>1, <1>3 DEF BalanceMatches
  <2>1. CASE c = d
    BY ZenonT(40), <2>1, <1>m, <1>1, <1>3 DEF Landed
  <2>2. CASE c # d
    <3>1. Landed(c)' <=> Landed(c)
      BY <2>2, <1>1, <1>3 DEF Landed
    <3> QED BY <2>2, <3>1, <1>0, <1>3 DEF StoreInv, BalanceMatches
  <2> QED BY <2>1, <2>2
<1>9. \A i \in DOMAIN msgs : (IsRecorded(i) => IsRecorded(i)') /\ IsRecorded(m)'
  BY <1>d, <1>m, <1>1, <1>3 DEF IsRecorded, Idle
<1>10. InFlightRecorded'
  BY <1>0, <1>1, <1>9 DEF StoreInv, InFlightRecorded
<1> QED BY <1>d, <1>m, <1>1, <1>2, <1>5, <1>6, <1>7, <1>8, <1>9, <1>10 DEF StoreInv

-----------------------------------------------------------------------------
\* The chain executes a message that its channel records or processQueue has.
LEMMA ExecuteStoreInv ==
  ASSUME StoreInv, NEW m \in DOMAIN msgs, Execute(m) PROVE StoreInv'
<1>0. PICK t : t = msgs[m].to
  OBVIOUS
<1>d. /\ Len(msgs) \in Nat /\ DOMAIN msgs = 1..Len(msgs) /\ m # 0
      /\ DOMAIN balance = DOMAIN msgs /\ DOMAIN wait = DOMAIN msgs
      /\ IsSeq(msgs) /\ IsSeq(balance) /\ DOMAIN msgs[m] = MsgFields
  BY IsSeqDomain DEF StoreInv, Shape
<1>1. /\ msgs[m].st = "sent" /\ UNCHANGED <<job, chans, wait>>
      /\ \/ /\ msgs' = [msgs EXCEPT ![m].st = "ok"]
            /\ balance' = [balance EXCEPT ![t] = IF t = m THEN msgs[m].amt ELSE @ + msgs[m].amt]
         \/ msgs' = [msgs EXCEPT ![m].st = "failed"] /\ balance' = balance
  BY <1>0 DEF Execute
<1>2. /\ IsSeq(msgs') /\ Len(msgs') = Len(msgs) /\ DOMAIN msgs' = DOMAIN msgs
      /\ \A i \in DOMAIN msgs : /\ i # m => msgs'[i] = msgs[i]
                                /\ DOMAIN msgs'[i] = MsgFields
                                /\ msgs'[i].to = msgs[i].to /\ msgs'[i].amt = msgs[i].amt
      /\ msgs'[m].st \in {"ok", "failed"}
  <2>1. PICK x \in {"ok", "failed"} : msgs' = [msgs EXCEPT ![m] = [@ EXCEPT !.st = x]]
    BY <1>1
  <2>2. IsSeq(msgs') /\ Len(msgs') = Len(msgs)
    BY Zenon, <2>1, <1>d, ExceptIsSeq
  <2>3. DOMAIN msgs' = DOMAIN msgs /\ \A i \in DOMAIN msgs : DOMAIN msgs[i] = MsgFields
    BY <2>1 DEF StoreInv, Shape
  <2> QED BY <2>1, <2>2, <2>3, <1>d DEF MsgFields
<1>3. \/ /\ m = job.msg /\ job.pc = "created" /\ t = m /\ t \notin DOMAIN chans
      \/ /\ m = job.msg /\ job.pc = "added" /\ t = job.chan /\ t \in DOMAIN chans /\ t # m
      \/ IsRecorded(m)
  BY <1>0, <1>1, <1>d DEF StoreInv, InFlightRecorded, JobOK
<1>4. t \in DOMAIN msgs
  BY <1>0, <1>3 DEF StoreInv, Shape, IsRecorded
<1>5. /\ IsSeq(balance') /\ Len(balance') = Len(balance) /\ DOMAIN balance' = DOMAIN balance
      /\ \A i \in DOMAIN msgs : i # t => balance'[i] = balance[i]
      /\ msgs'[m].st # "ok" => balance'[t] = balance[t]
      /\ msgs'[m].st = "ok" => balance'[t] = IF t = m THEN msgs[m].amt ELSE balance[t] + msgs[m].amt
  <2>1. CASE balance' = balance /\ msgs' = [msgs EXCEPT ![m].st = "failed"]
    BY <2>1, <1>d DEF MsgFields
  <2>2. CASE /\ msgs' = [msgs EXCEPT ![m].st = "ok"]
             /\ balance' = [balance EXCEPT ![t] = IF t = m THEN msgs[m].amt ELSE @ + msgs[m].amt]
    <3>1. msgs'[m].st = "ok"
      BY <2>2, <1>d DEF MsgFields
    <3>2. PICK v : /\ v = IF t = m THEN msgs[m].amt ELSE balance[t] + msgs[m].amt
                   /\ balance' = [balance EXCEPT ![t] = v]
      BY Zenon, <2>2
    <3>3. IsSeq(balance') /\ Len(balance') = Len(balance)
      BY Zenon, <3>2, <1>d, <1>4, ExceptIsSeq
    <3> QED BY Zenon, <3>1, <3>2, <3>3, <1>d, <1>4
  <2> QED BY <1>1, <2>1, <2>2
<1>6. Shape'
  BY <1>1, <1>2, <1>5 DEF StoreInv, Shape
<1>7. ASSUME NEW c \in DOMAIN chans PROVE ChannelOK(c)' /\ c \in DOMAIN msgs
  <2>1. c \in DOMAIN msgs /\ ChannelOK(c)
    BY DEF StoreInv, Shape
  <2> QED BY <2>1, <1>1, <1>2 DEF ChannelOK
<1>8. ASSUME NEW c \in DOMAIN chans, c # t
      PROVE  (Landed(c)' <=> Landed(c)) /\ balance'[c] = balance[c]
  <2>1. c \in DOMAIN msgs /\ ChannelOK(c)
    BY DEF StoreInv, Shape
  <2>2. CASE chans[c].open
    BY ZenonT(40), <2>1, <2>2, <1>0, <1>1, <1>2, <1>5, <1>8 DEF ChannelOK, Landed
  <2>3. CASE ~ chans[c].open
    BY <2>1, <2>3, <1>0, <1>1, <1>2, <1>5, <1>8 DEF ChannelOK, Landed
  <2> QED BY <2>1, <2>2, <2>3
<1>9. ASSUME IsRecorded(m) PROVE t \in DOMAIN chans /\ ~ (job.pc \in {"taken", "addFunds", "added"} /\ job.chan = t)
  BY <1>0, <1>9, <1>d DEF StoreInv, JobOK, IsRecorded, Idle
<1>10. JobOK'
  <2>1. CASE job.pc = "created"
    BY <2>1, <1>0, <1>1, <1>2, <1>3, <1>4, <1>5, <1>9, <1>d DEF StoreInv, JobOK
  <2>2. CASE job.pc = "added"
    <3>1. /\ job.msg \in DOMAIN msgs /\ job.msg # job.chan /\ job.chan \in DOMAIN chans
          /\ msgs[job.msg].to = job.chan /\ msgs[job.msg].amt = job.amt
          /\ balance[job.chan] = IF msgs[job.msg].st = "ok" THEN chans[job.chan].amt + job.amt
                                 ELSE chans[job.chan].amt
          /\ job.chan \in DOMAIN msgs
      BY <2>2 DEF StoreInv, JobOK, Shape
    <3>2. CASE m = job.msg
      BY <2>2, <3>1, <3>2, <1>0, <1>1, <1>2, <1>5 DEF StoreInv, JobOK, Idle
    <3>3. CASE m # job.msg
      <4>1. t # job.chan
        BY <2>2, <3>3, <1>3, <1>9
      <4> QED BY <2>2, <3>1, <3>3, <4>1, <1>1, <1>2, <1>5 DEF StoreInv, JobOK, Idle
    <3> QED BY ZenonT(40), <3>2, <3>3
  <2>3. CASE job.pc \notin {"created", "added"}
    BY <2>3, <1>1 DEF StoreInv, JobOK, Idle
  <2> QED BY Zenon, <2>1, <2>2, <2>3
<1>11. BalanceMatches'
  <2> SUFFICES ASSUME NEW c \in DOMAIN chans, ~ (job.pc = "added" /\ job.chan = c)
               PROVE  balance'[c] = IF ~ Landed(c)' THEN chans[c].amt
                                    ELSE IF chans[c].open THEN chans[c].amt + chans[c].pend
                                    ELSE chans[c].pend
    BY <1>1 DEF BalanceMatches
  <2>1. balance[c] = IF ~ Landed(c) THEN chans[c].amt
                     ELSE IF chans[c].open THEN chans[c].amt + chans[c].pend
                     ELSE chans[c].pend
    BY DEF StoreInv, BalanceMatches
  <2>2. CASE c # t
    BY <2>1, <2>2, <1>8
  <2>3. CASE c = t
    <3>1. IsRecorded(m) /\ ChannelOK(c)
      BY Zenon, <2>3, <1>3 DEF StoreInv
    <3>2. CASE chans[c].open
      <4>1. m = chans[c].addFundsMsg /\ m # c /\ chans[c].pend = msgs[m].amt
        BY <2>3, <3>1, <3>2, <1>0, <1>d DEF IsRecorded, ChannelOK
      <4> QED BY SMTT(30), <2>1, <2>3, <3>2, <4>1, <1>1, <1>2, <1>5, <1>d DEF Landed
    <3>3. CASE ~ chans[c].open
      <4>1. m = chans[c].createMsg /\ m = c /\ chans[c].pend = msgs[m].amt
        BY <2>3, <3>1, <3>3, <1>0, <1>d DEF IsRecorded, ChannelOK
      <4> QED BY ZenonT(40), <2>1, <2>3, <3>3, <4>1, <1>1, <1>2, <1>5, <1>d DEF Landed
    <3> QED BY <3>1, <3>2, <3>3
  <2> QED BY <2>2, <2>3
<1>12. \A i \in DOMAIN msgs : IsRecorded(i)' <=> IsRecorded(i)
  BY <1>1, <1>2 DEF IsRecorded
<1>13. InFlightRecorded'
  BY Zenon, <1>1, <1>2, <1>12 DEF StoreInv, InFlightRecorded
<1> QED BY <1>1, <1>6, <1>7, <1>10, <1>11, <1>12, <1>13, <1>d DEF StoreInv

\* The result of message m is applied to its channel t, or the channel is gone.
LEMMA ResultStoreInv ==
  ASSUME StoreInv, UNCHANGED <<msgs, balance, job>>, job.pc = "unlocked",
         NEW m \in DOMAIN msgs, NEW t, t = msgs[m].to, NEW w,
         msgs[m].st # "sent", w # "waiting", wait' = [wait EXCEPT ![m] = w],
         DOMAIN chans \ {t} \subseteq DOMAIN chans', DOMAIN chans' \subseteq DOMAIN chans,
         \A c \in DOMAIN chans \ {t} : chans'[c] = chans[c],
         t \in DOMAIN chans => {chans[t].createMsg, chans[t].addFundsMsg} \subseteq {0, m},
         t \in DOMAIN chans' =>
            /\ DOMAIN chans'[t] = ChannelFields /\ chans'[t].open = TRUE
            /\ chans'[t].createMsg = 0 /\ chans'[t].addFundsMsg = 0
            /\ balance[t] = chans'[t].amt /\ msgs[t].st = "ok"
  PROVE  StoreInv'
<1>d. /\ Len(msgs) \in Nat /\ DOMAIN msgs = 1..Len(msgs) /\ DOMAIN wait = DOMAIN msgs
      /\ IsSeq(wait) /\ Len(wait) = Len(msgs) /\ DOMAIN chans \subseteq DOMAIN msgs /\ job.msg = 0
  BY IsSeqDomain DEF StoreInv, Shape, JobOK
<1>1. IsSeq(wait') /\ Len(wait') = Len(wait) /\ DOMAIN wait' = DOMAIN wait
  BY ZenonT(40), <1>d, ExceptIsSeq
<1>2. Shape'
  BY SMTT(30), <1>1, <1>d DEF StoreInv, Shape
<1>3. (\A c \in DOMAIN chans : ChannelOK(c))'
  <2> SUFFICES ASSUME NEW c \in DOMAIN chans' PROVE ChannelOK(c)'
    OBVIOUS
  <2>1. ChannelOK(c)
    BY DEF StoreInv
  <2>2. CASE c = t
    BY Zenon, <2>1, <2>2 DEF ChannelOK
  <2>3. CASE c # t
    <3>1. chans'[c] = chans[c]
      BY Zenon, <2>3
    <3> QED BY <2>1, <3>1 DEF ChannelOK
  <2> QED BY <2>2, <2>3
<1>4. JobOK'
  BY Zenon, <1>d DEF JobOK
<1>5. BalanceMatches'
  <2> SUFFICES ASSUME NEW c \in DOMAIN chans'
               PROVE  balance[c] = IF ~ Landed(c)' THEN chans'[c].amt
                                   ELSE IF chans'[c].open THEN chans'[c].amt + chans'[c].pend
                                   ELSE chans'[c].pend
    BY Zenon DEF BalanceMatches
  <2>1. CASE c = t
    BY Zenon, <2>1 DEF Landed
  <2>2. CASE c # t
    <3>1. Landed(c)' <=> Landed(c)
      BY <2>2 DEF Landed
    <3> QED BY Zenon, <2>2, <3>1 DEF StoreInv, BalanceMatches
  <2> QED BY <2>1, <2>2
<1>6. ASSUME NEW i \in DOMAIN msgs, i # m, IsRecorded(i) PROVE IsRecorded(i)'
  <2>1. i # 0
    BY <1>d
  <2>2. msgs[i].to # t
    BY ZenonT(40), <2>1, <1>6 DEF IsRecorded
  <2> QED BY <2>2, <1>6 DEF IsRecorded
<1>7. InFlightRecorded'
  BY Zenon, <1>6, <1>d DEF StoreInv, InFlightRecorded
<1>8. (\A i \in DOMAIN wait : wait[i] = "waiting" => IsRecorded(i))'
  BY <1>1, <1>6, <1>d DEF StoreInv
<1> QED BY Zenon, <1>2, <1>3, <1>4, <1>5, <1>7, <1>8 DEF StoreInv

\* waitPaychCreateMsg: the channel is removed or has its address and its funds.
LEMMA WaitPaychCreateMsgStoreInv ==
  ASSUME StoreInv, NEW m \in DOMAIN msgs, WaitPaychCreateMsg(m) PROVE StoreInv'
<1>d. m # 0 /\ DOMAIN wait = DOMAIN msgs
  BY IsSeqDomain DEF StoreInv, Shape
<1>1. /\ job.pc = "unlocked" /\ wait[m] = "waiting" /\ msgs[m].to = m /\ msgs[m].st # "sent"
      /\ UNCHANGED <<msgs, balance, job>>
  BY DEF WaitPaychCreateMsg, Executed, chain
<1>2. m \in DOMAIN chans /\ IsRecorded(m) /\ ChannelOK(m) /\ DOMAIN chans[m] = ChannelFields
  BY <1>1, <1>d DEF StoreInv, Shape, IsRecorded
<1>3. chans[m].createMsg = m /\ chans[m].addFundsMsg = 0 /\ ~ chans[m].open
  BY SMTT(30), <1>1, <1>2, <1>d DEF IsRecorded, ChannelOK
<1>4. CASE msgs[m].st = "failed"
  <2>1. /\ chans' = [c \in DOMAIN chans \ {m} |-> chans[c]]
        /\ wait' = [wait EXCEPT ![m] = "err"]
    BY <1>4 DEF WaitPaychCreateMsg
  <2>2. DOMAIN chans' = DOMAIN chans \ {m} /\ \A c \in DOMAIN chans \ {m} : chans'[c] = chans[c]
    BY <2>1
  <2> QED BY Zenon, <2>1, <2>2, <1>1, <1>3, ResultStoreInv
<1>5. CASE msgs[m].st = "ok"
  <2>1. /\ chans' = [chans EXCEPT ![m] = [@ EXCEPT !.open = TRUE, !.amt = chans[m].pend,
                        !.avail = chans[m].pendAvail, !.pend = 0, !.pendAvail = 0, !.createMsg = 0]]
        /\ wait' = [wait EXCEPT ![m] = "ok"]
    BY <1>5 DEF WaitPaychCreateMsg
  <2>2. balance[m] = chans[m].pend
    BY <1>1, <1>2, <1>3, <1>5, <1>d DEF StoreInv, BalanceMatches, Landed
  <2>3. /\ DOMAIN chans' = DOMAIN chans /\ \A c \in DOMAIN chans \ {m} : chans'[c] = chans[c]
        /\ DOMAIN chans'[m] = ChannelFields /\ chans'[m].open = TRUE
        /\ chans'[m].createMsg = 0 /\ chans'[m].addFundsMsg = 0 /\ chans'[m].amt = chans[m].pend
    BY Zenon, <2>1, <1>2, <1>3 DEF ChannelFields
  <2> QED BY ZenonT(40), <2>1, <2>2, <2>3, <1>1, <1>3, <1>5, ResultStoreInv
<1> QED BY <1>4, <1>5 DEF WaitPaychCreateMsg

\* waitAddFundsMsg: the channel has the funds or they are forgotten.
LEMMA WaitAddFundsMsgStoreInv ==
  ASSUME StoreInv, NEW m \in DOMAIN msgs, WaitAddFundsMsg(m) PROVE StoreInv'
<1>0. PICK t, w : t = msgs[m].to /\ w = IF msgs[m].st = "ok" THEN "ok" ELSE "err"
  OBVIOUS
<1>d. m # 0 /\ DOMAIN wait = DOMAIN msgs
  BY IsSeqDomain DEF StoreInv, Shape
<1>1. /\ job.pc = "unlocked" /\ wait[m] = "waiting" /\ t # m /\ msgs[m].st # "sent"
      /\ UNCHANGED <<msgs, balance, job>>
      /\ wait' = [wait EXCEPT ![m] = w] /\ w # "waiting"
  BY Zenon, <1>0 DEF WaitAddFundsMsg, Executed, chain
<1>2. t \in DOMAIN chans /\ IsRecorded(m) /\ ChannelOK(t) /\ DOMAIN chans[t] = ChannelFields
  BY SMTT(30), <1>0, <1>1, <1>d DEF StoreInv, Shape, IsRecorded
<1>3. chans[t].createMsg = 0 /\ chans[t].addFundsMsg = m /\ chans[t].open = TRUE /\ msgs[t].st = "ok"
  BY Zenon, <1>0, <1>1, <1>2, <1>d DEF IsRecorded, ChannelOK
<1>4. balance[t] = IF msgs[m].st = "ok" THEN chans[t].amt + chans[t].pend ELSE chans[t].amt
  BY <1>1, <1>2, <1>3, <1>d DEF StoreInv, BalanceMatches, Landed
<1>5. PICK ok \in BOOLEAN : /\ ok <=> msgs[m].st = "ok"
                           /\ chans' = [chans EXCEPT ![t] = FundsAdded(chans[t], ok)]
  BY Zenon, <1>0 DEF WaitAddFundsMsg
<1>6. /\ DOMAIN chans' = DOMAIN chans /\ \A c \in DOMAIN chans \ {t} : chans'[c] = chans[c]
      /\ DOMAIN chans'[t] = ChannelFields /\ chans'[t].open = chans[t].open
      /\ chans'[t].createMsg = chans[t].createMsg /\ chans'[t].addFundsMsg = 0
      /\ chans'[t].amt = IF ok THEN chans[t].amt + chans[t].pend ELSE chans[t].amt
  <2>1. /\ DOMAIN chans' = DOMAIN chans /\ \A c \in DOMAIN chans \ {t} : chans'[c] = chans[c]
        /\ chans'[t] = FundsAdded(chans[t], ok)
    BY <1>2, <1>5
  <2> QED BY <1>2, <2>1 DEF ChannelFields, FundsAdded
<1>7. balance[t] = chans'[t].amt
  BY Zenon, <1>4, <1>5, <1>6
<1>8. /\ t = msgs[m].to /\ chans'[t].open = TRUE /\ chans'[t].createMsg = 0
      /\ {chans[t].createMsg, chans[t].addFundsMsg} \subseteq {0, m}
  BY <1>0, <1>3, <1>6
<1>9. /\ DOMAIN chans' = DOMAIN chans /\ \A c \in DOMAIN chans \ {t} : chans'[c] = chans[c]
      /\ DOMAIN chans'[t] = ChannelFields /\ chans'[t].addFundsMsg = 0
  BY SMTT(30), <1>6
<1> QED BY Zenon, <1>1, <1>3, <1>7, <1>8, <1>9, ResultStoreInv

\* The other steps change neither messages nor what the channels record.
LEMMA OtherStepStoreInv ==
  ASSUME StoreInv,
         \/ \E r \in Requests : GetPaych(r) \/ Cancel(r) \/ GetPaychWaitReady(r)
         \/ \E m \in DOMAIN msgs : MsgWaitComplete(m) \/ WaitFails(m) \/ TargetSettles(m)
         \/ \E c \in DOMAIN chans : Settle(c)
         \/ vars' = vars
  PROVE  StoreInv'
<1>d. /\ DOMAIN wait = DOMAIN msgs /\ IsSeq(wait) /\ Len(wait) = Len(msgs) /\ DOMAIN job = JobFields
      /\ \A c \in DOMAIN chans : DOMAIN chans[c] = ChannelFields
  BY IsSeqDomain DEF StoreInv, Shape
<1>1. UNCHANGED <<msgs, balance, job>>
  BY DEF GetPaych, Cancel, GetPaychWaitReady, MsgWaitComplete, WaitFails, TargetSettles, Settle, vars, chain
<1>2. /\ IsSeq(wait') /\ Len(wait') = Len(msgs)
      /\ \A m \in DOMAIN msgs : wait'[m] = "waiting" => IsRecorded(m)
  <2>1. CASE wait' = wait
    BY <2>1, <1>d DEF StoreInv
  <2>2. CASE \E m \in DOMAIN msgs : MsgWaitComplete(m) \/ WaitFails(m)
    <3>1. PICK m \in DOMAIN msgs, w \in {"none", "err"} : wait' = [wait EXCEPT ![m] = w]
      BY <2>2 DEF MsgWaitComplete, WaitFails
    <3>2. IsSeq(wait') /\ Len(wait') = Len(msgs)
      BY Zenon, <3>1, <1>d, ExceptIsSeq
    <3> QED BY ZenonT(40), <3>1, <3>2, <1>d DEF StoreInv
  <2> QED BY Zenon, <2>1, <2>2 DEF GetPaych, Cancel, GetPaychWaitReady, TargetSettles, Settle, vars
<1>3. /\ DOMAIN chans' = DOMAIN chans
      /\ \A c \in DOMAIN chans :
            /\ DOMAIN chans'[c] = ChannelFields
            /\ chans'[c].open = chans[c].open /\ chans'[c].amt = chans[c].amt
            /\ chans'[c].pend = chans[c].pend
            /\ chans'[c].createMsg = chans[c].createMsg
            /\ chans'[c].addFundsMsg = chans[c].addFundsMsg
  <2>1. CASE chans' = chans
    BY <2>1, <1>d
  <2>2. CASE \E c \in DOMAIN chans : Settle(c)
    <3>1. PICK c \in DOMAIN chans : chans' = [chans EXCEPT ![c].settling = TRUE]
      BY Zenon, <2>2 DEF Settle
    <3> QED BY <3>1, <1>d DEF ChannelFields
  <2> QED BY Zenon, <2>1, <2>2 DEF GetPaych, Cancel, GetPaychWaitReady, MsgWaitComplete, WaitFails, TargetSettles, vars
<1>4. JobOK'
  BY ZenonT(40), <1>1, <1>3 DEF StoreInv, JobOK, Idle
<1> QED BY <1>1, <1>2, <1>3, <1>4, <1>d, StoreKept

\* A restart, as long as processQueue has no message that is not recorded.
LEMMA RestartStoreInv ==
  ASSUME StoreInv, Restart, job.pc \notin {"created", "added"} PROVE StoreInv'
<1>d. DOMAIN wait = DOMAIN msgs /\ IsSeq(wait) /\ Len(wait) = Len(msgs) /\ Len(wait) \in Nat
      /\ DOMAIN msgs = 1..Len(msgs)
      /\ \A c \in DOMAIN chans : DOMAIN chans[c] = ChannelFields
  BY SMTT(30), IsSeqDomain DEF StoreInv, Shape
<1>1. /\ UNCHANGED <<msgs, balance, chans>> /\ job' = Unlocked
      /\ wait' = [m \in DOMAIN wait |->
                    IF \E c \in DOMAIN chans : m \in {chans[c].createMsg, chans[c].addFundsMsg}
                    THEN "waiting" ELSE "none"]
  BY ZenonT(40) DEF Restart, chain
<1>2. DOMAIN job' = JobFields /\ job'.msg = 0 /\ job'.pc = "unlocked" /\ job.msg = 0
  BY Zenon, <1>1 DEF Unlocked, JobFields, StoreInv, JobOK
<1>3. IsSeq(wait') /\ Len(wait') = Len(msgs)
  <2>1. wait' \in [1..Len(msgs) -> {"waiting", "none"}]
    BY <1>1, <1>d
  <2>2. wait' \in Seq({"waiting", "none"}) /\ Len(wait') = Len(msgs)
    BY <2>1, <1>d
  <2> QED BY <2>2 DEF IsSeq
<1>4. ASSUME NEW m \in DOMAIN msgs, wait'[m] = "waiting" PROVE IsRecorded(m)
  <2>1. PICK c \in DOMAIN chans : m \in {chans[c].createMsg, chans[c].addFundsMsg}
    BY <1>1, <1>4, <1>d
  <2>2. ChannelOK(c) /\ m # 0
    BY <1>d DEF StoreInv
  <2>3. msgs[m].to = c
    BY <2>1, <2>2 DEF ChannelOK
  <2> QED BY Zenon, <2>1, <2>3 DEF IsRecorded
<1>5. JobOK'
  BY <1>2 DEF JobOK
<1> QED BY <1>1, <1>2, <1>3, <1>4, <1>5, <1>d, StoreKept

-----------------------------------------------------------------------------
\* The store matches the chain: for any requests and amounts, whatever messages
\* fail and wherever the node stops except between a push and its record, the
\* amount that the store has for a channel is its balance on chain, but for the
\* message that it records, and every message that is not executed is recorded
\* (CreateChannel, addFunds, waitPaychCreateMsg, waitAddFundsMsg, restartPending).
THEOREM StoreKnowsChain == Spec => []StoreMatchesChain
<1> DEFINE Inv == Recorded => StoreInv
<1>1. Init => Inv
  BY InitStoreInv
<1>2. Inv /\ [Next]_vars => Inv'
  <2> SUFFICES ASSUME Recorded => StoreInv, [Next]_vars, Recorded' PROVE StoreInv'
    OBVIOUS
  <2>1. faults' = faults /\ Recorded /\ StoreInv
    BY DEF Next, vars, Recorded
  <2>2. CASE JobStep
    BY <2>1, <2>2, QueueStepStoreInv, PushStoreInv, CreateChannelStoreInv, AddFundsStoreInv
       DEF JobStep
  <2>3. CASE \E m \in DOMAIN msgs : Execute(m) \/ WaitPaychCreateMsg(m) \/ WaitAddFundsMsg(m)
    BY SMTT(30), <2>1, <2>3, ExecuteStoreInv, WaitPaychCreateMsgStoreInv, WaitAddFundsMsgStoreInv
  <2>4. CASE Restart
    BY Zenon, <2>1, <2>4, RestartStoreInv DEF Restart, Recorded
  <2>5. CASE \/ \E r \in Requests : GetPaych(r) \/ Cancel(r) \/ GetPaychWaitReady(r)
             \/ \E m \in DOMAIN msgs : MsgWaitComplete(m) \/ WaitFails(m) \/ TargetSettles(m)
             \/ \E c \in DOMAIN chans : Settle(c)
             \/ vars' = vars
    BY <2>1, <2>5, OtherStepStoreInv
  <2> QED BY <2>2, <2>3, <2>4, <2>5 DEF Next, Step, WaitStep
<1>3. Inv => StoreMatchesChain
  BY DEF StoreInv, StoreMatchesChain
<1> QED BY <1>1, <1>2, <1>3, PTL DEF Spec
=============================================================================
