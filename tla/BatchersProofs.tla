--------------------------- MODULE BatchersProofs ---------------------------
(***************************************************************************)
(* For any number of sectors and callers, any configuration and any        *)
(* faults: nobody waits for a sector the batcher has forgotten, what a     *)
(* caller is told is what happened to its sector, and no epoch is let pass *)
(* while a registered sector is short of time.                             *)
(***************************************************************************)
EXTENDS Batchers, FiniteSetTheorems, TLAPS

Calls == [pc : {"none", "waits", "left", "answered"}, sector : Sectors \cup {0},
          before : Nat, after : Nat, answer : {"none", "message", "error"}]

Typed ==
    /\ todo \subseteq Sectors /\ waiting \in [Sectors -> SUBSET Callers]
    /\ left \in [Sectors -> Int] /\ (\A s \in Sectors : left[s] >= -1)
    /\ timer \in Int /\ call \in [Callers -> Calls] /\ sent \in [Sectors -> Nat]
    /\ fails \in Nat

\* Since a caller that waits registered its sector, no message held it.
WaitersUnsent ==
    \A c \in Callers : call[c].pc = "waits" =>
        /\ call[c].sector \in Sectors /\ c \in waiting[call[c].sector]
        /\ call[c].before = sent[call[c].sector]

\* The timer fires before a registered sector is short of time, unless the loop
\* is about to look at the sectors anyway.
TimerInTime ==
    kind # "terminate" /\ fails = 0 /\ loop = "select" /\ ~ notify =>
        \A s \in todo : timer <= 0 \/ timer <= left[s] - Slack

BatcherInv == Typed /\ WaitersUnsent /\ AnswersMatch /\ WaitingIsTodo /\ TimerInTime

-----------------------------------------------------------------------------
\* A non-empty set of naturals has a least element.
LEMMA LeastNatural ==
  ASSUME NEW T, T \subseteq Nat, T # {}
  PROVE  \E x \in T : \A y \in T : x <= y
<1> DEFINE R == OpToRel(<, Nat)
<1>1. IsWellFoundedOn(R, Nat)
  BY Zenon, NatLessThanWellFounded
<1>2. \A y, z \in Nat : y < z => <<y, z>> \in R
  BY DEF OpToRel
<1> HIDE DEF R
<1>3. PICK x \in T : \A y \in T : ~ (<<y, x>> \in R)
  BY Zenon, <1>1, WFMin
<1>4. \A y \in T : ~ (y < x)
  BY Zenon, <1>2, <1>3
<1>5. \A y \in T : x <= y
  BY SMT, <1>4
<1> QED BY <1>5

\* A non-empty set of integers from -1 on has a least element, which is Min.
LEMMA MinOfCutoffs ==
  ASSUME NEW S, S \subseteq Int, \A x \in S : x >= -1, S # {}
  PROVE  Min(S) \in S /\ \A x \in S : Min(S) <= x
<1> DEFINE T == {n \in Nat : n - 1 \in S}
<1>1. T \subseteq Nat /\ T # {}
  <2>1. PICK x : x \in S
    OBVIOUS
  <2>2. x + 1 \in T
    BY <2>1
  <2> QED BY <2>2
<1>2. PICK n \in T : \A m \in T : n <= m
  <2> HIDE DEF T
  <2> QED BY Zenon, <1>1, LeastNatural
<1>3. n - 1 \in S /\ \A x \in S : n - 1 <= x
  <2>1. \A x \in S : x + 1 \in T
    OBVIOUS
  <2> QED BY <1>2, <2>1
<1>4. \E x \in S : \A y \in S : x <= y
  BY <1>3
<1> QED BY Zenon, <1>4 DEF Min

\* The smaller and the larger of two integers.
LEMMA MinOfTwo ==
  ASSUME NEW x \in Int, NEW y \in Int
  PROVE  Min({x, y}) \in {x, y} /\ Min({x, y}) <= x /\ Min({x, y}) <= y
<1>1. \E z \in {x, y} : \A u \in {x, y} : z <= u
  OBVIOUS
<1> QED BY <1>1 DEF Min

LEMMA MaxOfTwo ==
  ASSUME NEW x \in Int, NEW y \in Int
  PROVE  Max({x, y}) \in {x, y} /\ Max({x, y}) >= x /\ Max({x, y}) >= y
<1>1. \E z \in {x, y} : \A u \in {x, y} : z >= u
  OBVIOUS
<1> QED BY <1>1 DEF Max

\* batchWait is no longer than what any registered sector has left.
LEMMA BatchWaitInTime ==
  ASSUME NEW cuts \in [Sectors -> Int], \A s \in Sectors : cuts[s] >= -1, NEW reg \in SUBSET Sectors
  PROVE  /\ batchWait(cuts, reg) \in Int
         /\ \A s \in reg : batchWait(cuts, reg) <= 0 \/ batchWait(cuts, reg) <= cuts[s] - Slack
<1>1. MaxWait \in Int /\ Slack \in Int
  BY BatchersAssumption
<1>2. CASE reg = {}
  BY <1>1, <1>2 DEF batchWait
<1>3. CASE reg # {}
  <2> DEFINE S == {cuts[s] : s \in reg}
  <2>1. S \subseteq Int /\ (\A x \in S : x >= -1) /\ S # {}
    BY <1>3
  <2>2. \A s \in reg : cuts[s] \in S
    OBVIOUS
  <2> HIDE DEF S
  <2>3. PICK m \in Int : m = Min(S) /\ \A x \in S : m <= x
    BY Zenon, <2>1, MinOfCutoffs
  <2>4. PICK k \in Int : k = Max({0, m - Slack}) /\ k \in {0, m - Slack}
    <3>1. 0 \in Int /\ m - Slack \in Int
      BY <1>1
    <3>2. PICK d : d = m - Slack
      OBVIOUS
    <3>3. Max({0, d}) \in {0, d}
      BY Zenon, <3>1, <3>2, MaxOfTwo
    <3> QED BY <3>1, <3>2, <3>3
  <2>5. PICK t \in Int : t = Min({MaxWait, k}) /\ t <= k
    <3>1. Min({MaxWait, k}) \in {MaxWait, k} /\ Min({MaxWait, k}) <= k
      BY Zenon, <1>1, MinOfTwo
    <3> QED BY <1>1, <3>1
  <2>6. batchWait(cuts, reg) = t
    BY <1>3, <2>3, <2>4, <2>5 DEF batchWait, S
  <2>7. \A s \in reg : m <= cuts[s]
    BY <2>2, <2>3
  <2> QED BY <1>1, <2>4, <2>5, <2>6, <2>7
<1> QED BY <1>2, <1>3

\* A batch is over, or there is none: the timer is set for what stays registered.
LEMMA TimerIsSet ==
  ASSUME Typed, NEW cuts \in [Sectors -> Int], \A s \in Sectors : cuts[s] >= -1,
         NEW reg \in SUBSET Sectors, waitsAgain(cuts, reg), again,
         todo' = reg, left' = cuts
  PROVE  timer' \in Int /\ TimerInTime'
<1>1. batchWait(cuts, reg) \in Int /\ MaxWait \in Int
  BY BatchWaitInTime, BatchersAssumption
<1>2. timer' \in Int
  BY <1>1 DEF waitsAgain
<1>3. TimerInTime'
  <2> SUFFICES ASSUME kind' # "terminate", NEW s \in todo'
               PROVE  timer' <= 0 \/ timer' <= left'[s] - Slack
    BY DEF TimerInTime
  <2>1. kind' = kind
    BY DEF again
  <2>2. timer' = batchWait(cuts, reg)
    BY <2>1 DEF waitsAgain
  <2> QED BY <2>2, BatchWaitInTime
<1> QED BY <1>2, <1>3

\* The answer to a call.
Answered(r, n, a) == [r EXCEPT !.pc = "answered", !.after = n, !.answer = a]

LEMMA AnsweredCall ==
  ASSUME NEW r \in Calls, NEW n \in Nat, NEW a, a \in {"message", "error"}
  PROVE  /\ Answered(r, n, a) \in Calls
         /\ Answered(r, n, a).pc = "answered" /\ Answered(r, n, a).after = n
         /\ Answered(r, n, a).answer = a /\ Answered(r, n, a).before = r.before
  BY Zenon DEF Calls, Answered

\* The end of a batch: whoever is told, is told what happened, and a sector that
\* is forgotten without an answer was lost.
LEMMA AnswersStep ==
  ASSUME BatcherInv, NEW done, NEW ok, NEW off, answers(done, ok, off), ok \subseteq done,
         \A s \in (todo \cap off) \ done : kind = "terminate" /\ s \in gone \cup dropped',
         dropped \subseteq dropped', fails' \in Nat
  PROVE  BatcherInv'
<1> DEFINE cuts == [s \in Sectors |-> IF s \in done THEN 0 ELSE left[s]]
           hears(c) == call[c].pc = "waits" /\ call[c].sector \in done /\ c \in told(call[c].sector)
           hear(c) == [call[c] EXCEPT !.pc = "answered", !.after = sent'[call[c].sector],
                                      !.answer = answer(call[c].sector, ok)]
<1>1. /\ sent' = [s \in Sectors |-> sent[s] + IF s \in ok THEN 1 ELSE 0]
      /\ call' = [c \in Callers |-> IF hears(c) THEN hear(c) ELSE call[c]]
      /\ waiting' = [s \in Sectors |-> IF s \in done THEN {} ELSE waiting[s]]
      /\ todo' = todo \ (done \cup off) /\ left' = cuts
      /\ waitsAgain(cuts, todo') /\ again
  BY Zenon DEF answers, remaining
<1> HIDE DEF cuts, hears, hear
<1>2. /\ Typed /\ WaitersUnsent /\ AnswersMatch /\ WaitingIsTodo
      /\ todo \subseteq Sectors /\ waiting \in [Sectors -> SUBSET Callers]
      /\ left \in [Sectors -> Int] /\ (\A s \in Sectors : left[s] >= -1)
      /\ call \in [Callers -> Calls] /\ sent \in [Sectors -> Nat]
  BY DEF BatcherInv, Typed
<1>3. kind' = kind /\ gone' = gone
  BY <1>1 DEF again
<1>4. cuts \in [Sectors -> Int] /\ (\A s \in Sectors : cuts[s] >= -1) /\ todo' \in SUBSET Sectors
  BY <1>1, <1>2 DEF cuts
<1>5. sent' \in [Sectors -> Nat] /\ \A s \in Sectors : sent'[s] = sent[s] + IF s \in ok THEN 1 ELSE 0
  BY <1>1, <1>2
<1>6. \A c \in Callers :
        \/ call'[c] = call[c] /\ ~ hears(c)
        \/ /\ hears(c) /\ call'[c] \in Calls /\ call'[c].pc = "answered"
           /\ call'[c].after = sent'[call[c].sector] /\ call'[c].answer = answer(call[c].sector, ok)
           /\ call'[c].before = call[c].before
  <2> SUFFICES ASSUME NEW c \in Callers, hears(c)
               PROVE  /\ call'[c] \in Calls /\ call'[c].pc = "answered"
                      /\ call'[c].after = sent'[call[c].sector]
                      /\ call'[c].answer = answer(call[c].sector, ok)
                      /\ call'[c].before = call[c].before
    BY <1>1
  <2>1. call'[c] = hear(c)
    BY <1>1
  <2>2. call[c] \in Calls /\ call[c].sector \in Sectors
    BY <1>2 DEF WaitersUnsent, hears
  <2>3. sent'[call[c].sector] \in Nat /\ answer(call[c].sector, ok) \in {"message", "error"}
    BY <1>5, <2>2 DEF answer
  <2>4. hear(c) = Answered(call[c], sent'[call[c].sector], answer(call[c].sector, ok))
    BY DEF hear, Answered
  <2>5. PICK n, a, r :
          /\ n \in Nat /\ a \in {"message", "error"} /\ r \in Calls
          /\ n = sent'[call[c].sector] /\ a = answer(call[c].sector, ok) /\ r = call[c]
    BY Zenon, <2>2, <2>3
  <2>6. PICK q : q = Answered(r, n, a)
    BY Zenon
  <2>7. q \in Calls /\ q.pc = "answered" /\ q.after = n /\ q.answer = a /\ q.before = r.before
    BY <2>5, <2>6, AnsweredCall
  <2>8. call'[c] = q
    BY Zenon, <2>1, <2>4, <2>5, <2>6
  <2> QED BY Zenon, <2>5, <2>7, <2>8
<1>7. Typed' /\ TimerInTime'
  <2>1. timer' \in Int /\ TimerInTime'
    <3> HIDE DEF cuts
    <3> QED BY <1>1, <1>2, <1>4, TimerIsSet
  <2>2. call' \in [Callers -> Calls]
    <3>1. \A c \in Callers : call'[c] \in Calls
      BY <1>2, <1>6
    <3> QED BY <1>1, <3>1
  <2>3. waiting' \in [Sectors -> SUBSET Callers]
    BY <1>1, <1>2
  <2>4. left' \in [Sectors -> Int] /\ (\A s \in Sectors : left'[s] >= -1)
    BY Zenon, <1>1, <1>4
  <2> QED BY <1>4, <1>5, <2>1, <2>2, <2>3, <2>4 DEF Typed
<1>8. WaitersUnsent'
  <2> SUFFICES ASSUME NEW c \in Callers, call'[c].pc = "waits"
               PROVE  /\ call'[c].sector \in Sectors /\ c \in waiting'[call'[c].sector]
                      /\ call'[c].before = sent'[call'[c].sector]
    BY DEF WaitersUnsent
  <2>1. call'[c] = call[c] /\ ~ hears(c)
    BY <1>6
  <2>2. /\ call[c].sector \in Sectors /\ c \in waiting[call[c].sector]
        /\ call[c].before = sent[call[c].sector]
    BY <1>2, <2>1 DEF WaitersUnsent
  <2>3. call[c].sector \notin done
    BY <2>1, <2>2 DEF told, hears
  <2>4. sent[call[c].sector] \in Nat /\ sent'[call[c].sector] = sent[call[c].sector]
    BY <1>2, <1>5, <2>2, <2>3
  <2> QED BY <1>1, <2>1, <2>2, <2>3, <2>4
<1>9. AnswersMatch'
  <2> SUFFICES ASSUME NEW c \in Callers, call'[c].pc = "answered"
               PROVE  call'[c].after = call'[c].before + IF call'[c].answer = "message" THEN 1 ELSE 0
    BY DEF AnswersMatch
  <2>1. CASE call'[c] = call[c]
    BY <1>2, <2>1 DEF AnswersMatch
  <2>2. CASE /\ hears(c)
             /\ call'[c].after = sent'[call[c].sector] /\ call'[c].answer = answer(call[c].sector, ok)
             /\ call'[c].before = call[c].before
    <3>1. call[c].sector \in Sectors /\ call[c].before = sent[call[c].sector]
      BY Zenon, <1>2, <2>2 DEF WaitersUnsent, hears
    <3> QED BY <1>5, <2>2, <3>1 DEF answer
  <2> QED BY <1>6, <2>1, <2>2
<1>10. WaitingIsTodo'
  <2> SUFFICES ASSUME NEW s \in Sectors, waiting'[s] # {}, ~ lost(s)'
               PROVE  s \in todo'
    BY DEF WaitingIsTodo
  <2>1. s \notin done /\ waiting[s] # {}
    BY <1>1
  <2>2. ~ lost(s) /\ ~ (kind = "terminate" /\ s \in gone \cup dropped')
    BY <1>3 DEF lost
  <2>3. s \in todo
    BY <1>2, <2>1, <2>2 DEF WaitingIsTodo
  <2> QED BY <1>1, <2>1, <2>2, <2>3
<1> QED BY <1>7, <1>8, <1>9, <1>10 DEF BatcherInv

\* There is no batch, or it is not sent: only the timer is set.
LEMMA NothingStep ==
  ASSUME BatcherInv, nothing, fails' \in Nat
  PROVE  BatcherInv'
<1>1. /\ UNCHANGED <<todo, waiting, left, call, sent, dropped>> /\ waitsAgain(left, todo) /\ again
      /\ kind' = kind /\ gone' = gone
  BY DEF nothing, again
<1>2. Typed /\ left \in [Sectors -> Int] /\ (\A s \in Sectors : left[s] >= -1) /\ todo \in SUBSET Sectors
  BY DEF BatcherInv, Typed
<1>3. timer' \in Int /\ TimerInTime'
  BY <1>1, <1>2, TimerIsSet
<1>4. Typed'
  BY Zenon, <1>1, <1>2, <1>3 DEF Typed
<1>5. WaitersUnsent' /\ AnswersMatch' /\ WaitingIsTodo'
  BY <1>1 DEF BatcherInv, WaitersUnsent, AnswersMatch, WaitingIsTodo, lost
<1> QED BY <1>3, <1>4, <1>5 DEF BatcherInv

LEMMA InitBatcher == Init => BatcherInv
<1> SUFFICES ASSUME Init PROVE BatcherInv
  OBVIOUS
<1> USE DEF Init
<1>1. NoCall \in Calls /\ NoCall.pc = "none"
  BY DEF NoCall, Calls
<1>2. Typed
  BY <1>1, BatchersAssumption DEF Typed
<1>3. WaitersUnsent /\ AnswersMatch
  BY <1>1 DEF WaitersUnsent, AnswersMatch
<1>4. WaitingIsTodo /\ TimerInTime
  BY DEF WaitingIsTodo, TimerInTime
<1> QED BY <1>2, <1>3, <1>4 DEF BatcherInv

-----------------------------------------------------------------------------
(* The callers and the chain. *)

LEMMA RegisterStep ==
  ASSUME BatcherInv, NEW c \in Callers, NEW s \in Sectors, NEW cut \in Nat, register(c, s, cut)
  PROVE  BatcherInv'
<1> PICK r : r = [NoCall EXCEPT !.pc = "waits", !.sector = s, !.before = sent[s]]
  OBVIOUS
<1>1. /\ call[c].pc = "none" /\ todo' = todo \cup {s} /\ waiting' = [waiting EXCEPT ![s] = @ \cup {c}]
      /\ left' = [left EXCEPT ![s] = cut] /\ notify' /\ call' = [call EXCEPT ![c] = r]
      /\ UNCHANGED <<kind, timer, sent, gone, dropped, fails>>
  BY DEF register, notified, world
<1>2. /\ Typed /\ WaitersUnsent /\ AnswersMatch /\ WaitingIsTodo
      /\ waiting \in [Sectors -> SUBSET Callers] /\ left \in [Sectors -> Int]
      /\ (\A x \in Sectors : left[x] >= -1)
      /\ call \in [Callers -> Calls] /\ sent \in [Sectors -> Nat]
  BY DEF BatcherInv, Typed
<1>3. r \in Calls /\ r.pc = "waits" /\ r.sector = s /\ r.before = sent[s]
  BY Zenon, <1>2 DEF NoCall, Calls
<1>4. call' \in [Callers -> Calls] /\ call'[c] = r /\ \A d \in Callers : d # c => call'[d] = call[d]
  BY <1>1, <1>2, <1>3
<1>5. /\ waiting' \in [Sectors -> SUBSET Callers] /\ waiting'[s] = waiting[s] \cup {c}
      /\ \A x \in Sectors : x # s => waiting'[x] = waiting[x]
  BY <1>1, <1>2
<1>6. left' \in [Sectors -> Int] /\ \A x \in Sectors : left'[x] >= -1
  BY <1>1, <1>2
<1>7. Typed'
  BY <1>1, <1>2, <1>4, <1>5, <1>6 DEF Typed
<1>8. WaitersUnsent'
  <2> SUFFICES ASSUME NEW d \in Callers, call'[d].pc = "waits"
               PROVE  /\ call'[d].sector \in Sectors /\ d \in waiting'[call'[d].sector]
                      /\ call'[d].before = sent'[call'[d].sector]
    BY DEF WaitersUnsent
  <2>1. CASE d = c
    BY <1>1, <1>3, <1>4, <1>5, <2>1
  <2>2. CASE d # c
    <3>1. /\ call[d].sector \in Sectors /\ d \in waiting[call[d].sector]
          /\ call[d].before = sent[call[d].sector]
      BY <1>2, <1>4, <2>2 DEF WaitersUnsent
    <3> QED BY <1>1, <1>4, <1>5, <2>2, <3>1
  <2> QED BY <2>1, <2>2
<1>9. AnswersMatch'
  <2> SUFFICES ASSUME NEW d \in Callers, call'[d].pc = "answered"
               PROVE  call'[d].after = call'[d].before + IF call'[d].answer = "message" THEN 1 ELSE 0
    BY DEF AnswersMatch
  <2>1. d # c
    BY Zenon, <1>3, <1>4
  <2> QED BY <1>2, <1>4, <2>1 DEF AnswersMatch
<1>10. WaitingIsTodo' /\ TimerInTime'
  BY <1>1, <1>2, <1>5 DEF WaitingIsTodo, TimerInTime, lost
<1> QED BY <1>7, <1>8, <1>9, <1>10 DEF BatcherInv

\* What the other steps leave alone, but for the timer.
LEMMA QuietStep ==
  ASSUME BatcherInv, UNCHANGED <<kind, todo, waiting, call, sent, dropped>>, gone \subseteq gone',
         left' \in [Sectors -> Int], \A s \in Sectors : left'[s] >= -1, timer' \in Int, fails' \in Nat,
         TimerInTime'
  PROVE  BatcherInv'
<1>1. Typed'
  BY DEF BatcherInv, Typed
<1>2. WaitersUnsent' /\ AnswersMatch'
  BY DEF BatcherInv, WaitersUnsent, AnswersMatch
<1>3. WaitingIsTodo'
  BY DEF BatcherInv, WaitingIsTodo, lost
<1> QED BY <1>1, <1>2, <1>3 DEF BatcherInv

LEMMA LeaveStep ==
  ASSUME BatcherInv, NEW c \in Callers, Leave(c)
  PROVE  BatcherInv'
<1> PICK r : r = [call[c] EXCEPT !.pc = "left"]
  BY Zenon
<1>1. /\ call' = [call EXCEPT ![c] = r] /\ fails' = fails + 1
      /\ UNCHANGED <<kind, todo, waiting, left, timer, sent, gone, dropped>>
  BY DEF Leave, b
<1>2. Typed /\ call \in [Callers -> Calls] /\ fails \in Nat
  BY DEF BatcherInv, Typed
<1>3. r \in Calls /\ r.pc = "left"
  <2>1. call[c] \in Calls
    BY <1>2
  <2> QED BY <2>1 DEF Calls
<1>4. call' \in [Callers -> Calls] /\ call'[c] = r /\ \A d \in Callers : d # c => call'[d] = call[d]
  BY <1>1, <1>2, <1>3
<1>5. Typed' /\ TimerInTime'
  BY <1>1, <1>2, <1>4 DEF Typed, TimerInTime
<1>6. WaitersUnsent' /\ AnswersMatch'
  BY <1>1, <1>3, <1>4 DEF BatcherInv, WaitersUnsent, AnswersMatch
<1>7. WaitingIsTodo'
  BY <1>1 DEF BatcherInv, WaitingIsTodo, lost
<1> QED BY <1>5, <1>6, <1>7 DEF BatcherInv

LEMMA TickStep == BatcherInv /\ Tick => BatcherInv'
<1> SUFFICES ASSUME BatcherInv, Tick PROVE BatcherInv'
  OBVIOUS
<1>1. /\ UNCHANGED <<kind, todo, waiting, notify, loop, call, dropped, sent, gone, fails>>
      /\ timer' = timer - 1
      /\ left' = [s \in Sectors |-> IF s \in todo THEN Max({-1, left[s] - 1}) ELSE left[s]]
  BY DEF Tick
<1>2. /\ left \in [Sectors -> Int] /\ (\A s \in Sectors : left[s] >= -1) /\ timer \in Int /\ fails \in Nat
      /\ todo \subseteq Sectors /\ Slack \in Int
  BY BatchersAssumption DEF BatcherInv, Typed
<1>3. \A s \in Sectors : left'[s] \in Int /\ left'[s] >= -1 /\ left'[s] >= left[s] - 1
  <2> SUFFICES ASSUME NEW s \in Sectors
               PROVE  left'[s] \in Int /\ left'[s] >= -1 /\ left'[s] >= left[s] - 1
    OBVIOUS
  <2>1. PICK x \in Int : x = left[s] - 1
    BY <1>2
  <2>2. -1 \in Int
    OBVIOUS
  <2>3. Max({-1, x}) \in {-1, x} /\ Max({-1, x}) >= -1 /\ Max({-1, x}) >= x
    BY Zenon, <2>2, MaxOfTwo
  <2>4. left'[s] = IF s \in todo THEN Max({-1, x}) ELSE left[s]
    BY Zenon, <1>1, <2>1
  <2> QED BY <1>2, <2>1, <2>3, <2>4
<1>4. left' \in [Sectors -> Int] /\ timer' \in Int
  BY <1>1, <1>2, <1>3
<1>5. TimerInTime'
  BY <1>1, <1>2, <1>3 DEF BatcherInv, TimerInTime
<1> QED BY <1>1, <1>2, <1>3, <1>4, <1>5, QuietStep

-----------------------------------------------------------------------------
(* The terminations: what the loop over the buckets has gathered. *)

\* A bucket that went in the message is in it, but for sectors that are not live
\* and buckets that were cut.
Gathered(g) ==
    /\ g.cut \subseteq g.over
    /\ \A s \in todo : Partition[s] \in g.parts => s \in g.take \cup gone \cup g.over

LEMMA VisitGathers ==
  ASSUME NEW acc, Gathered(acc), NEW l
  PROVE  Gathered(visit(acc, l))
<1> DEFINE n == Cardinality(bucket(l))
           live == bucket(l) \ gone
           room == AddressedSectorsMax - acc.total
           cut == n > room
           take == IF cut THEN lowest(live, room) ELSE live
           total == acc.total + IF cut THEN room ELSE n
           full == total >= AddressedSectorsMax \/ total >= MaxBatch \/ Cardinality(acc.parts) + 1 >= DeclarationsMax
           new == [total |-> total, parts |-> acc.parts \cup {l}, take |-> acc.take \cup take,
                   cut |-> acc.cut \cup IF cut THEN take ELSE {},
                   over |-> acc.over \cup IF cut THEN bucket(l) ELSE {}, full |-> full]
<1>1. visit(acc, l) \in {acc, new}
  BY Zenon DEF visit
<1>2. /\ new.parts = acc.parts \cup {l} /\ new.take = acc.take \cup take
      /\ new.cut = acc.cut \cup (IF cut THEN take ELSE {})
      /\ new.over = acc.over \cup (IF cut THEN bucket(l) ELSE {})
  BY Zenon
<1>3. /\ take \subseteq bucket(l) /\ (~ cut => take = live) /\ live = bucket(l) \ gone
      /\ bucket(l) = {s \in todo : Partition[s] = l}
  BY Zenon DEF lowest, bucket
<1> HIDE DEF new, take, cut, live, total, full, room, n
<1>4. Gathered(new)
  BY <1>2, <1>3 DEF Gathered
<1> QED BY <1>1, <1>4

LEMMA GatherGathers ==
  ASSUME NEW order, Len(order) \in Nat
  PROVE  Gathered(gather(order))
<1> DEFINE N == Len(order)
           Upto(m, f) == /\ DOMAIN f = 0..m /\ f[0] = NothingYet
                         /\ \A k \in 1..m : f[k] = visit(f[k - 1], order[k])
           Recurs(f) == f = [k \in 0..N |-> IF k = 0 THEN NothingYet ELSE visit(f[k - 1], order[k])]
<1>0. gather(order) = (CHOOSE f : Recurs(f))[N]
  BY DEF gather
<1> HIDE DEF N
<1>1. N \in Nat
  BY DEF N
<1>2. Gathered(NothingYet)
  BY DEF Gathered, NothingYet
<1>3. \A m \in Nat : \E f : Upto(m, f)
  <2> DEFINE T == {m \in Nat : ~ \E f : Upto(m, f)}
  <2> SUFFICES ASSUME T # {} PROVE FALSE
    OBVIOUS
  <2>1. PICK m \in T : \A y \in T : m <= y
    <3>1. T \subseteq Nat
      OBVIOUS
    <3> HIDE DEF T
    <3> QED BY Zenon, <3>1, LeastNatural
  <2>2. m # 0
    <3>1. PICK f : f = [k \in 0..0 |-> NothingYet]
      BY Zenon
    <3>2. Upto(0, f)
      BY <3>1
    <3> QED BY Zenon, <3>2
  <2>3. PICK g : Upto(m - 1, g)
    <3>1. m - 1 \in Nat /\ ~ (m <= m - 1)
      BY <2>2
    <3> QED BY Zenon, <2>1, <3>1
  <2>4. PICK f : f = [k \in 0..m |-> IF k = m THEN visit(g[m - 1], order[m]) ELSE g[k]]
    BY Zenon
  <2>5. Upto(m, f)
    <3>1. m \in Nat \ {0} /\ DOMAIN f = 0..m /\ f[m] = visit(g[m - 1], order[m])
      BY <2>2, <2>4
    <3>2. \A k \in 0..(m - 1) : f[k] = g[k]
      BY <2>4, <3>1
    <3>3. f[0] = NothingYet
      BY <2>3, <3>1, <3>2
    <3>4. \A k \in 1..m : f[k] = visit(f[k - 1], order[k])
      BY <2>3, <3>1, <3>2
    <3> QED BY <3>1, <3>3, <3>4
  <2> QED BY <2>5
<1>4. \E f : Recurs(f)
  <2>1. PICK f : Upto(N, f)
    BY <1>1, <1>3
  <2>2. PICK g : g = [k \in 0..N |-> IF k = 0 THEN NothingYet ELSE visit(f[k - 1], order[k])]
    BY Zenon
  <2>3. \A k \in 0..N : g[k] = f[k]
    BY <1>1, <2>1, <2>2
  <2>4. g = [k \in 0..N |-> IF k = 0 THEN NothingYet ELSE visit(g[k - 1], order[k])]
    BY <1>1, <2>2, <2>3
  <2> QED BY Zenon, <2>4
<1>5. PICK f : f = (CHOOSE g : Recurs(g)) /\ Recurs(f)
  BY Zenon, <1>4
<1>6. f[0] = NothingYet /\ \A k \in 1..N : f[k] = visit(f[k - 1], order[k])
  <2>1. PICK h : h = [k \in 0..N |-> IF k = 0 THEN NothingYet ELSE visit(f[k - 1], order[k])]
    BY Zenon
  <2>2. f = h
    BY Zenon, <1>5, <2>1
  <2>3. h[0] = NothingYet /\ \A k \in 1..N : h[k] = visit(f[k - 1], order[k])
    BY <1>1, <2>1
  <2> QED BY Zenon, <2>2, <2>3
<1>7. \A k \in 0..N : Gathered(f[k])
  <2> DEFINE T == {k \in 0..N : ~ Gathered(f[k])}
  <2> SUFFICES ASSUME T # {} PROVE FALSE
    OBVIOUS
  <2>1. PICK k \in T : \A y \in T : k <= y
    <3>1. T \subseteq Nat
      BY <1>1
    <3> HIDE DEF T
    <3> QED BY Zenon, <3>1, LeastNatural
  <2>2. k \in 1..N
    BY <1>2, <1>6
  <2>3. k - 1 \in 0..N /\ ~ (k <= k - 1)
    BY <1>1, <2>2
  <2>4. Gathered(f[k - 1])
    BY <2>1, <2>3
  <2> QED BY <1>6, <2>2, <2>4, VisitGathers
<1> QED BY <1>0, <1>1, <1>5, <1>7

\* The partitions are read in some order.
LEMMA OrderHasLength ==
  ASSUME NEW parts \in {DOMAIN Deadline} \cup PartitionsRead,
         NEW order \in Bijection(1..Cardinality(parts), parts)
  PROVE  Len(order) \in Nat
<1>1. IsFiniteSet(DOMAIN Deadline)
  BY BatchersAssumption
<1>2. parts \subseteq DOMAIN Deadline
  BY DEF PartitionsRead
<1>3. Cardinality(parts) \in Nat
  BY <1>1, <1>2, FS_Subset, FS_CardinalityType
<1>4. order \in [1..Cardinality(parts) -> parts]
  BY Zenon DEF Bijection, Injection
<1> QED BY <1>3, <1>4

LEMMA TerminationStep == BatcherInv /\ processTermination => BatcherInv'
<1> SUFFICES ASSUME BatcherInv, processTermination PROVE BatcherInv'
  OBVIOUS
<1>1. PICK parts \in {DOMAIN Deadline} \cup PartitionsRead :
        \E order \in Bijection(1..Cardinality(parts), parts) :
          /\ dropped' = dropped \cup gather(order).over
          /\ \E f \in {0, 1} : fails' = fails + f
          /\ \/ answers({}, {}, gather(order).cut)
             \/ answers(gather(order).take, gather(order).take, bucketsOf(gather(order).parts))
  BY Zenon DEF processTermination
<1>2. PICK order \in Bijection(1..Cardinality(parts), parts) :
        /\ dropped' = dropped \cup gather(order).over
        /\ \E f \in {0, 1} : fails' = fails + f
        /\ \/ answers({}, {}, gather(order).cut)
           \/ answers(gather(order).take, gather(order).take, bucketsOf(gather(order).parts))
  BY <1>1
<1>3. PICK g : g = gather(order)
  OBVIOUS
<1>4. Gathered(g)
  BY Zenon, <1>3, OrderHasLength, GatherGathers
<1>5. kind = "terminate" /\ fails' \in Nat /\ dropped' = dropped \cup g.over
  BY SMTT(30), <1>2, <1>3 DEF processTermination, BatcherInv, Typed
<1>6. CASE answers({}, {}, g.cut)
  <2>1. \A s \in (todo \cap g.cut) \ {} : kind = "terminate" /\ s \in gone \cup dropped'
    BY <1>4, <1>5 DEF Gathered
  <2> QED BY <1>5, <1>6, <2>1, AnswersStep
<1>7. CASE answers(g.take, g.take, bucketsOf(g.parts))
  <2>1. \A s \in (todo \cap bucketsOf(g.parts)) \ g.take : kind = "terminate" /\ s \in gone \cup dropped'
    BY <1>4, <1>5 DEF Gathered, bucketsOf
  <2> QED BY <1>5, <1>7, <2>1, AnswersStep
<1> QED BY <1>2, <1>3, <1>6, <1>7

\* Precommits and commits: whatever part of the registered sectors is sent, all
\* of the part is answered.
LEMMA BatchStep ==
  ASSUME BatcherInv, PreCommitIndividually \/ CommitIndividually \/ processBatch
  PROVE  BatcherInv'
<1>0. fails \in Nat
  BY DEF BatcherInv, Typed
<1>1. /\ fails' \in Nat
      /\ \/ nothing
         \/ UNCHANGED dropped /\ \E done, ok : ok \subseteq done /\ answers(done, ok, {})
  <2>1. CASE PreCommitIndividually
    BY <1>0, <2>1 DEF PreCommitIndividually, oneByOne
  <2>2. CASE CommitIndividually
    <3>1. PICK ok \in SUBSET (todo \ gone) : oneByOne(ok, todo \ gone)
      BY <2>2 DEF CommitIndividually
    <3> QED BY <1>0, <3>1 DEF oneByOne
  <2>3. CASE processBatch
    <3>1. /\ fails' \in {fails, fails + 1}
          /\ \/ \E p : sendBatch(p)
             \/ UNCHANGED dropped /\ \E p : answers(p.good \cup p.bad, {}, {})
      BY Zenon, <2>3 DEF processBatch
    <3>2. ASSUME NEW p, sendBatch(p)
          PROVE  nothing \/ (UNCHANGED dropped /\ answers(p.good \cup p.bad, p.good, {}))
      BY Zenon, <3>2 DEF sendBatch
    <3>3. \A p : p.good \subseteq p.good \cup p.bad /\ {} \subseteq p.good \cup p.bad
      OBVIOUS
    <3>4. fails' \in Nat
      BY <1>0, <3>1
    <3> QED BY Zenon, <3>1, <3>2, <3>3, <3>4
  <2> QED BY <2>1, <2>2, <2>3
<1>2. CASE nothing
  BY <1>1, <1>2, NothingStep
<1>3. CASE UNCHANGED dropped /\ \E done, ok : ok \subseteq done /\ answers(done, ok, {})
  <2>1. PICK done, ok : ok \subseteq done /\ answers(done, ok, {})
    BY <1>3
  <2>2. \A s \in (todo \cap {}) \ done : kind = "terminate" /\ s \in gone \cup dropped'
    BY Zenon
  <2> QED BY <1>1, <1>3, <2>1, <2>2, AnswersStep
<1> QED BY <1>1, <1>2, <1>3

LEMMA BatcherStep == BatcherInv /\ [Next]_vars => BatcherInv'
<1> SUFFICES ASSUME BatcherInv, [Next]_vars PROVE BatcherInv'
  OBVIOUS
<1>0. /\ fails \in Nat /\ left \in [Sectors -> Int] /\ (\A s \in Sectors : left[s] >= -1)
      /\ timer \in Int /\ TimerInTime
  BY DEF BatcherInv, Typed
<1>1. ASSUME NEW c \in Callers, NEW s \in SectorsOf[c], AddPreCommit(c, s) \/ AddCommit(c, s) \/ AddTermination(c, s)
      PROVE  BatcherInv'
  <2>1. s \in Sectors /\ Ahead \subseteq Nat
    BY BatchersAssumption
  <2>2. PICK cut \in Nat : register(c, s, cut)
    BY Zenon, <1>1, <2>1 DEF AddPreCommit, AddCommit, AddTermination, getPreCommitCutoff, getCommitCutoff
  <2> QED BY <2>1, <2>2, RegisterStep
<1>2. CASE StartNothing \/ StartFails \/ TerminationFails
  <2>1. nothing /\ fails' \in Nat
    BY <1>0, <1>2 DEF StartNothing, StartFails, TerminationFails
  <2> QED BY <2>1, NothingStep
<1>3. CASE Flush \/ Stop \/ (\E why \in {"notify", "timer", "force"} : Select(why))
  <2>1. UNCHANGED <<kind, todo, waiting, left, timer, call, sent, dropped, gone>> /\ fails' \in Nat
    BY <1>0, <1>3 DEF Flush, Stop, Select, b, world
  <2>2. TimerInTime'
    BY <1>0, <1>3, <2>1 DEF Flush, Stop, Select, b, world, TimerInTime
  <2> QED BY Zenon, <1>0, <2>1, <2>2, QuietStep
<1>4. ASSUME NEW s \in Sectors, Vanish(s) PROVE BatcherInv'
  <2>1. /\ UNCHANGED <<kind, todo, waiting, left, timer, call, sent, dropped>> /\ fails' \in Nat
        /\ gone \subseteq gone' /\ fails' # 0
    BY <1>0, <1>4 DEF Vanish, b
  <2>2. TimerInTime'
    BY <2>1 DEF TimerInTime
  <2> QED BY <1>0, <2>1, <2>2, QuietStep
<1>5. CASE UNCHANGED vars
  <2>1. UNCHANGED <<kind, todo, waiting, left, timer, notify, loop, call, sent, dropped, gone, fails>>
    BY <1>5 DEF vars, b, world
  <2>2. TimerInTime'
    BY <1>0, <2>1 DEF TimerInTime
  <2> QED BY <1>0, <2>1, <2>2, QuietStep
<1> QED BY <1>1, <1>2, <1>3, <1>4, <1>5, LeaveStep, TickStep, BatchStep, TerminationStep DEF Next, Loop

LEMMA BatcherInvariant == Spec => []BatcherInv
  BY InitBatcher, BatcherStep, PTL DEF Spec

-----------------------------------------------------------------------------
\* Nobody waits for a sector that is no longer registered: whichever sectors a
\* batch takes, wherever it fails, and whoever registers while it is made.  The
\* exception is a termination that is not live, or whose bucket did not fit in a
\* message (processBatch of the three batchers, AddPreCommit, AddCommit,
\* AddTermination).
THEOREM NobodyForgotten == Spec => []WaitingIsTodo
<1>1. BatcherInv => WaitingIsTodo
  BY DEF BatcherInv
<1> QED BY <1>1, BatcherInvariant, PTL

\* A caller told of a message has its sector in exactly one message sent since
\* it registered, one told of an error in none, however its call overlapped with
\* batches, failures and other callers of the sector (maybeStartBatch,
\* processIndividually, processBatch).
THEOREM AnswersTrue == Spec => []AnswersMatch
<1>1. BatcherInv => AnswersMatch
  BY DEF BatcherInv
<1> QED BY <1>1, BatcherInvariant, PTL

\* No epoch passes while a registered precommit or commit has no more than the
\* slack left before its cutoff, unless something failed: batchWait is computed
\* for what stays registered, and a later registration wakes the loop up
\* (run, batchWait).
THEOREM CutoffsKept == Spec => CutoffKept
<1>1. BatcherInv /\ Tick /\ kind # "terminate" /\ fails = 0 => \A s \in todo : left[s] > Slack
  <2> SUFFICES ASSUME BatcherInv, Tick, kind # "terminate", fails = 0, NEW s \in todo
               PROVE  left[s] > Slack
    OBVIOUS
  <2>1. loop = "select" /\ ~ notify /\ timer > 0
    BY DEF Tick
  <2>2. timer \in Int /\ left[s] \in Int /\ Slack \in Int
    BY BatchersAssumption DEF BatcherInv, Typed
  <2>3. timer <= 0 \/ timer <= left[s] - Slack
    BY <2>1 DEF BatcherInv, TimerInTime
  <2> QED BY <2>1, <2>2, <2>3
<1> QED BY <1>1, BatcherInvariant, PTL DEF CutoffKept
=============================================================================
