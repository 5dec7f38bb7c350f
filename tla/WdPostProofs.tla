---------------------------- MODULE WdPostProofs ----------------------------
(***************************************************************************)
(* For windows of any length, any heights, any number of head changes and  *)
(* any faults: the prover never waits for a dead proof, a window has one   *)
(* submission at a time, what counts as submitted has a message the chain  *)
(* still accepts while every revert is reported, and a proof that is ready *)
(* in its window is submitted.                                             *)
(***************************************************************************)
EXTENDS WdPost, FiniteSetTheorems, TLAPS

Generations == [w : Windows, aborted : BOOLEAN, state : {"running", "ok", "error", "done"}]
Submissions == [w : Windows, low : Int, gone : BOOLEAN, state : {"running", "ok", "error", "done"}]
Messages == [w : Windows, epoch : Int, valid : BOOLEAN]

\* The types that matter, by owner.
ProverTyped ==
    /\ gens \in Seq(Generations) /\ current \in 0..Len(gens)
    /\ cache \in SUBSET Windows /\ added \in Seq(Windows)
SubmitterTyped ==
    /\ postWindows \in [Windows -> SubmitStates] /\ currentTS \in Int
    /\ subs \in Seq(Submissions)
ChainTyped ==
    /\ head \in 0..MaxHeight /\ hc \in [revert : Int, advance : 0..MaxHeight]
    /\ behind \in Int /\ pushed \in SUBSET Messages
Typed == ProverTyped /\ SubmitterTyped /\ ChainTyped

\* No proof is generated for a window whose challenge is not yet known, so that
\* nextToProve always finds a window.
ChallengeKnown(w) == Challenge(w) + ChallengeConfidence <= MaxHeight
Margin ==
    /\ \A w \in cache : ChallengeKnown(w)
    /\ \A g \in DOMAIN gens : ChallengeKnown(gens[g].w)

\* Submission i of ss is one of window w that is under way.
UnderWay(ss, i, w) == ~ ss[i].gone /\ ss[i].state # "done" /\ ss[i].w = w

\* In ss, each window that is Submitting in pw has one submission under way,
\* and the others have none.
Balanced(pw, ss) ==
    \A w \in Windows :
        /\ pw[w] = "Submitting" =>
              \E i \in DOMAIN ss : /\ UnderWay(ss, i, w)
                                   /\ \A k \in DOMAIN ss : UnderWay(ss, k, w) => k = i
        /\ pw[w] # "Submitting" => \A k \in DOMAIN ss : ~ UnderWay(ss, k, w)

SubmissionInv == ~ stopped => Balanced(postWindows, subs)

\* A window counts as submitted, or is about to when the result comes in.
Succeeded(w) ==
    \/ postWindows[w] = "Complete"
    \/ \E i \in DOMAIN subs : UnderWay(subs, i, w) /\ subs[i].state = "ok"

\* The revert update() is handing over takes the chain back before window w.
Pending(w) == updating # "no" /\ revertedToPrevDL(w)

\* A message of w the chain accepts
Accepted(w) == \E m \in pushed : m.w = w /\ m.valid

\* A message carries the randomness of the challenge or of the opening.
Epochs == \A m \in pushed : m.epoch \in {Challenge(m.w), Open(m.w)}

\* What the submitter does not know of yet is in hc.
Told == ~ missed => (behind # -1 => updating # "no" /\ hc.revert = behind)

\* No submission under way started before a revert of the ticket of its challenge
\* that the submitter has handled.
InTime ==
    ~ missed => \A i \in DOMAIN subs, w \in Windows :
        UnderWay(subs, i, w) => subs[i].low = -1 \/ subs[i].low >= Open(w) \/ Pending(w)

\* What succeeded is accepted, up to the reverts still to be handled.
Backed ==
    ~ missed => \A w \in Windows \ EmptyWindows :
        Succeeded(w) => Accepted(w) \/ VersionUnknown(w) \/ Pending(w)

ValidInv == Epochs /\ Told /\ InTime /\ Backed

HandlerInv == Typed /\ Margin /\ CurrentIsLive /\ SubmissionInv /\ ValidInv /\ NoMissedSubmit

-----------------------------------------------------------------------------
\* A non-empty set of naturals has a least element.
LEMMA LeastNatural ==
  ASSUME NEW T, T \subseteq Nat, T # {}
  PROVE  \E x \in T : \A y \in T : x <= y
<1> DEFINE R == OpToRel(<, Nat)
<1>1. IsWellFoundedOn(R, Nat)
  BY Zenon, NatLessThanWellFounded
<1>2. \A y, z \in Nat : y < z => <<y, z>> \in R
  BY DEF OpToRel
<1> HIDE DEF R
<1>3. PICK x \in T : \A y \in T : ~ (<<y, x>> \in R)
  BY Zenon, <1>1, WFMin
<1>4. \A y \in T : ~ (y < x)
  BY Zenon, <1>2, <1>3
<1>5. \A y \in T : x <= y
  BY SMT, <1>4
<1> QED BY <1>5

\* A height belongs to the window that div gives.
LEMMA WindowOf ==
  ASSUME NEW h \in Nat
  PROVE  Window(h) \in Nat /\ Open(Window(h)) <= h /\ h < Close(Window(h))
<1>1. WindowLen \in Nat \ {0}
  BY WdPostAssumption
<1> QED BY <1>1 DEF Window, Open, Close

\* Windows start and end at integer heights.
LEMMA WindowHeights ==
  ASSUME NEW w \in Windows
  PROVE  w \in Nat /\ Open(w) \in Nat /\ Close(w) \in Nat /\ Close(w) = Open(w) + WindowLen
<1>1. WindowLen \in Nat /\ MaxHeight \in Nat
  BY WdPostAssumption
<1>2. w \in Nat
  BY <1>1, WindowOf DEF Windows
<1>3. w * WindowLen \in Nat
  BY <1>1, <1>2
<1> QED BY <1>1, <1>2, <1>3 DEF Open, Close

\* A later window opens when an earlier one has closed.
LEMMA WindowsDisjoint ==
  ASSUME NEW v \in Nat, NEW w \in Nat, v < w
  PROVE  Close(v) <= Open(w)
<1>1. WindowLen \in Nat
  BY WdPostAssumption
<1>2. PICK k \in Nat : w = v + 1 + k
  <2>1. w - v - 1 \in Nat /\ w = v + 1 + (w - v - 1)
    OBVIOUS
  <2> QED BY <2>1
<1>3. w * WindowLen = v * WindowLen + WindowLen + k * WindowLen
  BY <1>1, <1>2
<1>4. k * WindowLen \in Nat /\ v * WindowLen \in Nat
  BY <1>1, <1>2
<1> QED BY <1>1, <1>3, <1>4 DEF Open, Close

\* The window of a height of the chain, and the two after it, are in Windows.
LEMMA WindowInWindows ==
  ASSUME NEW h \in 0..MaxHeight
  PROVE  Window(h) \in Windows /\ Window(h) <= Window(MaxHeight)
<1>1. MaxHeight \in Nat /\ WindowLen \in Nat
  BY WdPostAssumption
<1>2. /\ Window(h) \in Nat /\ Open(Window(h)) <= h
      /\ Window(MaxHeight) \in Nat /\ MaxHeight < Close(Window(MaxHeight))
  BY <1>1, WindowOf
<1>3. Open(Window(h)) \in Int /\ Close(Window(MaxHeight)) \in Int
  BY <1>1, <1>2 DEF Open, Close
<1>4. Window(h) <= Window(MaxHeight)
  <2>1. ASSUME Window(MaxHeight) < Window(h) PROVE FALSE
    <3>1. Close(Window(MaxHeight)) <= Open(Window(h))
      BY <1>2, <2>1, WindowsDisjoint
    <3> QED BY <1>1, <1>2, <1>3, <3>1
  <2> QED BY <1>2, <2>1
<1> QED BY <1>2, <1>4 DEF Windows

\* The last window of the model is always without proofs.
LEMMA LastNotKnown == ~ ChallengeKnown(Window(MaxHeight) + 2)
<1> DEFINE m == Window(MaxHeight)
<1>1. /\ MaxHeight \in Nat /\ WindowLen \in Nat /\ Lookback \in Nat /\ Lookback <= WindowLen
      /\ ChallengeConfidence \in Nat
  BY WdPostAssumption
<1>2. m \in Nat /\ MaxHeight < Close(m)
  BY <1>1, WindowOf
<1> HIDE DEF m
<1>3. Close(m + 1) <= Open(m + 2) /\ Close(m) <= Open(m + 1)
  BY <1>2, WindowsDisjoint
<1>4. Open(m) \in Int /\ Open(m + 1) \in Int /\ Open(m + 2) \in Int
  BY <1>1, <1>2 DEF Open
<1>5. MaxHeight < Open(m + 2) - Lookback
  BY <1>1, <1>2, <1>3, <1>4 DEF Close
<1> QED BY <1>1, <1>4, <1>5 DEF ChallengeKnown, Challenge, m

\* nextToProve finds a window.
LEMMA NextToProveType ==
  ASSUME Typed, Margin
  PROVE  nextToProve \in Windows
<1> DEFINE T == {w \in Windows : w >= Window(hc.advance) /\ w \notin cache}
<1>1. Window(hc.advance) \in Nat /\ Window(hc.advance) <= Window(MaxHeight)
  <2>1. hc.advance \in 0..MaxHeight /\ MaxHeight \in Nat
    BY WdPostAssumption DEF Typed, ChainTyped
  <2> QED BY <2>1, WindowInWindows, WindowOf
<1>2. Window(MaxHeight) \in Nat
  BY WdPostAssumption, WindowOf
<1>3. Window(MaxHeight) + 2 \in T
  <2>1. Window(MaxHeight) + 2 \notin cache
    BY LastNotKnown DEF Margin
  <2> QED BY <1>1, <1>2, <2>1 DEF Windows
<1>4. T \subseteq Nat
  BY <1>2 DEF Windows
<1>5. PICK x \in T : \A y \in T : x <= y
  <2> HIDE DEF T
  <2> QED BY Zenon, <1>3, <1>4, LeastNatural
<1>6. \A v \in Windows : v >= Window(hc.advance) /\ v < x => v \in cache
  BY <1>4, <1>5
<1>7. /\ x \in Windows /\ x >= Window(hc.advance) /\ x \notin cache
      /\ \A v \in Windows : v >= Window(hc.advance) /\ v < x => v \in cache
  BY <1>5, <1>6
<1> QED BY Zenon, <1>7 DEF nextToProve

-----------------------------------------------------------------------------
LEMMA InitHandler == Init => HandlerInv
<1> SUFFICES ASSUME Init PROVE HandlerInv
  OBVIOUS
<1> USE DEF Init
<1>1. MaxHeight \in Nat
  BY WdPostAssumption
<1>2. Typed
  BY <1>1 DEF Typed, ProverTyped, SubmitterTyped, ChainTyped, SubmitStates, noChange
<1>3. Margin /\ CurrentIsLive /\ NoMissedSubmit
  BY DEF Margin, CurrentIsLive, NoMissedSubmit
<1>4. SubmissionInv /\ ValidInv
  BY DEF SubmissionInv, Balanced, ValidInv, Epochs, Told, InTime, Backed, Succeeded
<1> QED BY <1>2, <1>3, <1>4 DEF HandlerInv

\* What changing a field of a submission does.
LEMMA SubRecords ==
  ASSUME NEW r \in Submissions
  PROVE  /\ [r EXCEPT !.gone = TRUE] \in Submissions
         /\ [r EXCEPT !.gone = TRUE].gone = TRUE
         /\ \A st \in {"ok", "error", "done"} :
               /\ [r EXCEPT !.state = st] \in Submissions
               /\ [r EXCEPT !.state = st].w = r.w
               /\ [r EXCEPT !.state = st].gone = r.gone
               /\ [r EXCEPT !.state = st].low = r.low
               /\ [r EXCEPT !.state = st].state = st
  BY Zenon DEF Submissions

\* What a revert does to a submission.
LEMMA SubLow ==
  ASSUME NEW r \in Submissions, NEW l \in Int, NEW rec, rec = [r EXCEPT !.low = l]
  PROVE  rec \in Submissions /\ rec.w = r.w /\ rec.gone = r.gone /\ rec.state = r.state /\ rec.low = l
  BY DEF Submissions

\* What the chain does to a message.
LEMMA MessageRecords ==
  ASSUME NEW m \in Messages, NEW v \in BOOLEAN
  PROVE  /\ [m EXCEPT !.valid = v] \in Messages
         /\ [m EXCEPT !.valid = v].w = m.w
         /\ [m EXCEPT !.valid = v].epoch = m.epoch
         /\ [m EXCEPT !.valid = v].valid = v
  BY Zenon DEF Messages

\* The challenge of a window is before its opening.
LEMMA ChallengeBeforeOpen ==
  ASSUME NEW w \in Windows
  PROVE  Challenge(w) \in Int /\ Open(w) \in Int /\ Challenge(w) < Open(w)
<1>1. Open(w) \in Int /\ Lookback \in Int /\ Lookback > 0
  BY WindowHeights, WdPostAssumption
<1> QED BY <1>1 DEF Challenge

\* A revert leaves the submissions under way as they are, but may be the lowest
\* they have met.
LEMMA SubsMove ==
  ASSUME SubmitterTyped, NEW r \in Int, NEW a, ChainMoves(r, a)
  PROVE  /\ subs' \in Seq(Submissions) /\ DOMAIN subs' = DOMAIN subs
         /\ \A i \in DOMAIN subs :
               /\ subs'[i].w = subs[i].w /\ subs'[i].gone = subs[i].gone
               /\ subs'[i].state = subs[i].state
               /\ subs'[i].low = subs[i].low \/ (r # -1 /\ subs'[i].low = r)
<1>1. subs' = [s \in DOMAIN subs |-> IF subs[s].state = "running"
                                     THEN [subs[s] EXCEPT !.low = lowest(subs[s].low, r)] ELSE subs[s]]
  BY Zenon DEF ChainMoves
<1>2. subs \in Seq(Submissions) /\ \A i \in DOMAIN subs : subs[i] \in Submissions
  BY DEF SubmitterTyped
<1>3. ASSUME NEW i \in DOMAIN subs
      PROVE  /\ subs'[i] \in Submissions
             /\ subs'[i].w = subs[i].w /\ subs'[i].gone = subs[i].gone
             /\ subs'[i].state = subs[i].state
             /\ subs'[i].low = subs[i].low \/ (r # -1 /\ subs'[i].low = r)
  <2>1. PICK l : l = lowest(subs[i].low, r)
    OBVIOUS
  <2>2. subs[i].low \in Int
    BY <1>2 DEF Submissions
  <2>3. l \in Int /\ (l = subs[i].low \/ (r # -1 /\ l = r))
    BY <2>1, <2>2 DEF lowest
  <2>4. PICK rec : rec = [subs[i] EXCEPT !.low = l]
    OBVIOUS
  <2>5. /\ rec \in Submissions /\ rec.w = subs[i].w /\ rec.gone = subs[i].gone
        /\ rec.state = subs[i].state /\ rec.low = l
    BY <1>2, <2>3, <2>4, SubLow
  <2>6. subs'[i] = subs[i] \/ subs'[i] = rec
    BY Zenon, <1>1, <2>1, <2>4
  <2> QED BY Zenon, <1>2, <2>3, <2>5, <2>6
<1>4. subs' = [i \in 1..Len(subs) |-> subs'[i]] /\ DOMAIN subs = 1..Len(subs) /\ Len(subs) \in Nat
  BY <1>1, <1>2
<1>5. subs' \in Seq(Submissions) /\ DOMAIN subs' = DOMAIN subs
  BY <1>3, <1>4
<1> QED BY Zenon, <1>3, <1>5

\* A message stays acceptable unless a revert changes the ticket of its epoch, and
\* a revert that changes the ticket of the challenge goes back before the opening.
LEMMA MessagesMove ==
  ASSUME pushed \in SUBSET Messages, Epochs, NEW r \in Int, NEW a, ChainMoves(r, a)
  PROVE  /\ pushed' \in SUBSET Messages /\ Epochs'
         /\ \A w \in Windows : VersionUnknown(w) => VersionUnknown(w)'
         /\ \A w \in Windows : Accepted(w) =>
               Accepted(w)' \/ VersionUnknown(w)' \/ (r # -1 /\ r < Open(w))
<1> DEFINE v(m) == m.valid /\ ~ Changes(r, m.epoch)
           f(m) == [m EXCEPT !.valid = v(m)]
<1>1. pushed' = {f(m) : m \in pushed}
  BY Zenon DEF ChainMoves
<1>2. \A m \in pushed : v(m) \in BOOLEAN
  BY Zenon
<1> HIDE DEF v
<1>3. \A m \in pushed : f(m) \in Messages /\ f(m).w = m.w /\ f(m).epoch = m.epoch /\ f(m).valid = v(m)
  BY Zenon, <1>2, MessageRecords
<1> HIDE DEF f
<1>4. pushed' \in SUBSET Messages /\ Epochs'
  <2>1. \A x \in pushed' : \E m \in pushed : x = f(m)
    BY Zenon, <1>1
  <2>2. \A x \in pushed' : x \in Messages /\ x.epoch \in {Challenge(x.w), Open(x.w)}
    BY Zenon, <1>3, <2>1 DEF Epochs
  <2> QED BY Zenon, <2>2 DEF Epochs
<1>5. \A m \in pushed : f(m) \in pushed'
  BY Zenon, <1>1
<1>6. \A w \in Windows : VersionUnknown(w) => VersionUnknown(w)'
  BY Zenon, <1>3, <1>5 DEF VersionUnknown
<1>7. ASSUME NEW w \in Windows, Accepted(w), ~ VersionUnknown(w)', ~ (r # -1 /\ r < Open(w))
      PROVE  Accepted(w)'
  <2>1. PICK m \in pushed : m.w = w /\ m.valid
    BY Zenon, <1>7 DEF Accepted
  <2>2. m.epoch # Open(w)
    BY Zenon, <1>6, <1>7, <2>1 DEF VersionUnknown
  <2>3. m.epoch = Challenge(w)
    BY Zenon, <2>1, <2>2 DEF Epochs
  <2>4. ~ Changes(r, m.epoch)
    BY <1>7, <2>3, ChallengeBeforeOpen DEF Changes
  <2>5. v(m)
    BY Zenon, <2>1, <2>4 DEF v
  <2> QED BY Zenon, <1>3, <1>5, <2>1, <2>5 DEF Accepted
<1> QED BY Zenon, <1>4, <1>6, <1>7

\* The chain moves on, or back.
LEMMA ChainStep ==
  ASSUME HandlerInv, NEW r \in {-1} \cup 1..head, NEW a \in 1..MaxHeight, ChainMoves(r, a),
         UNCHANGED <<prover, postWindows, currentTS, failed, stopped>>, updating = "no",
         hc' = hc \/ hc' \in [revert : {-1, r}, advance : {a}],
         missed' \/ (~ missed /\ r = -1 /\ UNCHANGED <<updating, hc>>)
                 \/ (~ missed /\ updating' # "no" /\ hc'.revert = r)
  PROVE  HandlerInv'
<1>1. UNCHANGED <<current, gens, cache, added, postWindows, currentTS, failed, stopped>>
  BY DEF prover
<1>2. /\ r \in Int /\ a \in 0..MaxHeight /\ MaxHeight \in Nat /\ head' = a
      /\ behind' = behind \/ (r # -1 /\ behind' = r)
  BY WdPostAssumption DEF ChainMoves, lowest
<1>3. Typed /\ Margin /\ CurrentIsLive /\ SubmissionInv /\ NoMissedSubmit
  BY Zenon DEF HandlerInv
<1>4. Epochs /\ Told /\ InTime /\ Backed
  BY Zenon DEF HandlerInv, ValidInv
<1>5. /\ subs' \in Seq(Submissions) /\ DOMAIN subs' = DOMAIN subs
      /\ \A i \in DOMAIN subs :
            /\ subs'[i].w = subs[i].w /\ subs'[i].gone = subs[i].gone
            /\ subs'[i].state = subs[i].state
            /\ subs'[i].low = subs[i].low \/ (r # -1 /\ subs'[i].low = r)
  BY Zenon, <1>2, <1>3, SubsMove DEF Typed
<1>6. /\ pushed' \in SUBSET Messages /\ Epochs'
      /\ \A w \in Windows : VersionUnknown(w) => VersionUnknown(w)'
      /\ \A w \in Windows : Accepted(w) =>
            Accepted(w)' \/ VersionUnknown(w)' \/ (r # -1 /\ r < Open(w))
  <2>1. pushed \in SUBSET Messages
    BY Zenon, <1>3 DEF Typed, ChainTyped
  <2> QED BY Zenon, <1>2, <1>4, <2>1, MessagesMove
<1>7. ProverTyped' /\ SubmitterTyped'
  BY Zenon, <1>1, <1>3, <1>5 DEF Typed, ProverTyped, SubmitterTyped
<1>8. ChainTyped'
  <2>1. hc' \in [revert : Int, advance : 0..MaxHeight]
    BY <1>2, <1>3 DEF Typed, ChainTyped
  <2>2. behind' \in Int
    BY <1>2, <1>3 DEF Typed, ChainTyped
  <2> QED BY <1>2, <1>6, <2>1, <2>2 DEF ChainTyped
<1>9. Margin' /\ CurrentIsLive' /\ NoMissedSubmit'
  BY <1>1, <1>3 DEF Margin, CurrentIsLive, NoMissedSubmit
<1>10. \A i \in DOMAIN subs, w \in Windows : UnderWay(subs', i, w) <=> UnderWay(subs, i, w)
  BY Zenon, <1>5 DEF UnderWay
<1>11. SubmissionInv'
  <2> SUFFICES ASSUME ~ stopped, NEW w \in Windows
               PROVE  /\ postWindows[w] = "Submitting" =>
                            \E i \in DOMAIN subs' :
                                /\ UnderWay(subs', i, w)
                                /\ \A k \in DOMAIN subs' : UnderWay(subs', k, w) => k = i
                      /\ postWindows[w] # "Submitting" => \A k \in DOMAIN subs' : ~ UnderWay(subs', k, w)
    BY <1>1 DEF SubmissionInv, Balanced
  <2>1. /\ postWindows[w] = "Submitting" =>
              \E i \in DOMAIN subs : /\ UnderWay(subs, i, w)
                                     /\ \A k \in DOMAIN subs : UnderWay(subs, k, w) => k = i
        /\ postWindows[w] # "Submitting" => \A k \in DOMAIN subs : ~ UnderWay(subs, k, w)
    BY <1>3 DEF SubmissionInv, Balanced
  <2> QED BY Zenon, <1>5, <1>10, <2>1
<1>12. Told'
  BY <1>2, <1>4 DEF Told
<1>13. ASSUME ~ missed', NEW w \in Windows, r # -1, r < Open(w) PROVE Pending(w)'
  BY <1>13 DEF Pending, revertedToPrevDL
<1>14. \A w \in Windows : ~ Pending(w)
  BY Zenon DEF Pending
<1>15. InTime'
  <2> SUFFICES ASSUME ~ missed', NEW i \in DOMAIN subs', NEW w \in Windows, UnderWay(subs', i, w),
                      subs'[i].low # -1, ~ (subs'[i].low >= Open(w))
               PROVE  Pending(w)'
    BY Zenon DEF InTime
  <2>1. i \in DOMAIN subs /\ UnderWay(subs, i, w) /\ ~ missed
    BY Zenon, <1>5, <1>10
  <2>2. subs[i].low = -1 \/ subs[i].low >= Open(w)
    BY Zenon, <1>4, <1>14, <2>1 DEF InTime
  <2>3. subs'[i].low = r /\ r # -1
    BY Zenon, <1>5, <2>1, <2>2
  <2>4. r < Open(w)
    BY <1>2, <2>3, ChallengeBeforeOpen
  <2> QED BY <1>13, <2>3, <2>4
<1>16. Backed'
  <2> SUFFICES ASSUME ~ missed', NEW w \in Windows \ EmptyWindows, Succeeded(w)'
               PROVE  Accepted(w)' \/ VersionUnknown(w)' \/ Pending(w)'
    BY Zenon DEF Backed
  <2>1. Succeeded(w) /\ ~ missed
    BY Zenon, <1>1, <1>5, <1>10 DEF Succeeded
  <2>2. Accepted(w) \/ VersionUnknown(w)
    BY Zenon, <1>4, <1>14, <2>1 DEF Backed
  <2> QED BY Zenon, <1>6, <1>13, <2>2
<1> QED BY Zenon, <1>6, <1>7, <1>8, <1>9, <1>11, <1>12, <1>15, <1>16 DEF HandlerInv, Typed, ValidInv

\* A head change that is handed over is in hc, or was missed.
LEMMA HeadChangeStep == HandlerInv /\ HeadChange => HandlerInv'
<1> SUFFICES ASSUME HandlerInv, HeadChange PROVE HandlerInv'
  OBVIOUS
<1>1. PICK r \in {-1} \cup 1..head, a \in 1..MaxHeight :
        /\ ChainMoves(r, a)
        /\ \/ hc' = [revert |-> r, advance |-> a] /\ UNCHANGED missed
           \/ hc' = [revert |-> -1, advance |-> a] /\ missed' = TRUE
  BY Zenon DEF HeadChange
<1>2. UNCHANGED <<prover, postWindows, currentTS, failed, stopped>> /\ updating = "no" /\ updating' = "prover"
  BY DEF HeadChange
<1>3. hc' \in [revert : {-1, r}, advance : {a}]
  BY <1>1
<1>4. missed' \/ (~ missed /\ updating' # "no" /\ hc'.revert = r)
  BY <1>1, <1>2
<1> QED BY Zenon, <1>1, <1>2, <1>3, <1>4, ChainStep

\* A head change that is dropped is missed if it reverts anything.
LEMMA UpdateFailsStep == HandlerInv /\ UpdateFails => HandlerInv'
<1> SUFFICES ASSUME HandlerInv, UpdateFails PROVE HandlerInv'
  OBVIOUS
<1>1. PICK r \in {-1} \cup 1..head, a \in 1..MaxHeight : ChainMoves(r, a) /\ missed' = (missed \/ r # -1)
  BY Zenon DEF UpdateFails
<1>2. UNCHANGED <<updating, hc, prover, postWindows, currentTS, failed, stopped>> /\ updating = "no"
  BY DEF UpdateFails
<1>3. missed' \/ (~ missed /\ r = -1 /\ UNCHANGED <<updating, hc>>)
  BY Zenon, <1>1, <1>2
<1> QED BY Zenon, <1>1, <1>2, <1>3, ChainStep

-----------------------------------------------------------------------------
\* The steps of the prover leave the submitter and the chain alone.
LEMMA ProverSteps ==
  ASSUME HandlerInv, UNCHANGED <<head, hc, submitter, pushed, behind, missed, stopped>>,
         updating' = updating \/ updating' # "no",
         ProverTyped', Margin', CurrentIsLive',
         \/ UNCHANGED <<cache, added>>
         \/ \E w : cache' = cache \cup {w} /\ added' = Append(added, w)
  PROVE  HandlerInv'
<1> USE DEF submitter
<1>0. Typed'
  BY DEF HandlerInv, Typed, SubmitterTyped, ChainTyped
<1>1. SubmissionInv'
  BY DEF HandlerInv, SubmissionInv
<1>2. ValidInv'
  BY Zenon DEF HandlerInv, ValidInv, Epochs, Told, InTime, Backed, Succeeded, Accepted, VersionUnknown,
     Pending, revertedToPrevDL
<1>3. CASE UNCHANGED <<cache, added>>
  <2>1. NoMissedSubmit'
    BY <1>3 DEF HandlerInv, NoMissedSubmit
  <2> QED BY <1>0, <1>1, <1>2, <2>1 DEF HandlerInv
<1>4. CASE \E w : cache' = cache \cup {w} /\ added' = Append(added, w)
  <2> PICK w : cache' = cache \cup {w} /\ added' = Append(added, w)
    BY <1>4
  <2>1. added \in Seq(Windows) /\ w \in Windows
    BY DEF HandlerInv, Typed, ProverTyped
  <2>2. /\ \A i \in DOMAIN added : i \in DOMAIN added' /\ added'[i] = added[i]
        /\ Len(added) + 1 \in DOMAIN added' /\ added'[Len(added) + 1] = w
    BY <2>1
  <2>3. NoMissedSubmit'
    BY <2>2 DEF HandlerInv, NoMissedSubmit
  <2> QED BY <1>0, <1>1, <1>2, <2>3 DEF HandlerInv
<1> QED BY <1>3, <1>4

\* What changing a field of a generation does.
LEMMA GenRecords ==
  ASSUME NEW r \in Generations
  PROVE  /\ [r EXCEPT !.aborted = TRUE] \in Generations
         /\ [r EXCEPT !.aborted = TRUE].w = r.w
         /\ \A st \in {"ok", "error", "done"} :
               /\ [r EXCEPT !.state = st] \in Generations
               /\ [r EXCEPT !.state = st].w = r.w
               /\ [r EXCEPT !.state = st].aborted = r.aborted
               /\ [r EXCEPT !.state = st].state = st
  BY Zenon DEF Generations

LEMMA ProverHeadStep == HandlerInv /\ ProverHead => HandlerInv'
<1> SUFFICES ASSUME HandlerInv, ProverHead PROVE HandlerInv'
  OBVIOUS
<1> PICK w : w = nextToProve
  OBVIOUS
<1> DEFINE gs == IF Expires(current) THEN abortGen(current) ELSE gens
           new == [w |-> w, aborted |-> FALSE, state |-> "running"]
<1>1. /\ UNCHANGED <<missed, head, heads, hc, cache, added, submitter, pushed, behind, stopped>>
      /\ updating' = "submitter" /\ ~ stopped
  BY DEF ProverHead
<1>2. Typed /\ Margin /\ CurrentIsLive /\ gens \in Seq(Generations) /\ current \in 0..Len(gens)
  BY DEF HandlerInv, Typed, ProverTyped
<1>3. /\ gs \in Seq(Generations) /\ Len(gs) = Len(gens)
      /\ \A g \in DOMAIN gens : gs[g].w = gens[g].w
  <2>1. CASE ~ Expires(current)
    BY <1>2, <2>1
  <2>2. CASE Expires(current)
    <3>1. current \in DOMAIN gens
      BY <1>2, <2>2 DEF Expires
    <3>2. PICK rec : rec = [gens[current] EXCEPT !.aborted = TRUE]
      BY Zenon
    <3>3. gs = [gens EXCEPT ![current] = rec]
      BY <2>2, <3>2 DEF abortGen
    <3> HIDE DEF gs
    <3>4. gens[current] \in Generations
      BY <1>2, <3>1
    <3>5. rec \in Generations /\ rec.w = gens[current].w
      BY Zenon, <3>2, <3>4, GenRecords
    <3> QED BY <1>2, <3>1, <3>3, <3>5
  <2> QED BY <2>1, <2>2
<1>4. /\ \/ UNCHANGED <<current, gens>>
         \/ current' = 0 /\ gens' = gs
         \/ gens' = Append(gs, new) /\ current' = Len(gens') /\ ChallengeKnown(w)
  <2>1. hc.advance \in Int /\ hc.advance <= MaxHeight /\ MaxHeight \in Int
    BY <1>2, WdPostAssumption DEF Typed, ChainTyped
  <2>2. w \in Windows
    BY <1>2, NextToProveType
  <2>3. Challenge(w) + ChallengeConfidence \in Int
    BY <2>2, WindowHeights, WdPostAssumption DEF Challenge
  <2>4. hc.advance >= Challenge(w) + ChallengeConfidence => ChallengeKnown(w)
    BY <2>1, <2>3 DEF ChallengeKnown
  <2> QED BY <2>4 DEF ProverHead
<1> HIDE DEF gs
<1>5. /\ gens' \in Seq(Generations) /\ current' \in 0..Len(gens')
      /\ \A g \in DOMAIN gens' : ChallengeKnown(gens'[g].w)
      /\ CurrentIsLive'
  <2>1. CASE UNCHANGED <<current, gens>>
    BY <1>1, <1>2, <2>1 DEF Margin, CurrentIsLive
  <2>2. CASE current' = 0 /\ gens' = gs
    BY <1>2, <1>3, <2>2 DEF Margin, CurrentIsLive
  <2>3. CASE gens' = Append(gs, new) /\ current' = Len(gens') /\ ChallengeKnown(w)
    <3>1. new \in Generations /\ new.w = w /\ new.state # "done" /\ ~ new.aborted
      BY <1>2, NextToProveType DEF Generations
    <3> HIDE DEF new
    <3>2. /\ gens' \in Seq(Generations) /\ Len(gens') = Len(gs) + 1
          /\ \A g \in DOMAIN gens' : g \in DOMAIN gens \/ g = Len(gs) + 1
          /\ \A g \in DOMAIN gens : gens'[g] = gs[g]
          /\ gens'[Len(gs) + 1] = new
      BY <1>2, <1>3, <2>3, <3>1
    <3>3. current' = Len(gs) + 1 /\ current' \in 0..Len(gens')
      BY <1>3, <2>3, <3>2
    <3>4. CurrentIsLive'
      BY <3>1, <3>2, <3>3 DEF CurrentIsLive
    <3>5. \A g \in DOMAIN gens' : ChallengeKnown(gens'[g].w)
      BY <1>2, <1>3, <2>3, <3>1, <3>2 DEF Margin
    <3> QED BY <3>2, <3>3, <3>4, <3>5
  <2> QED BY <1>4, <2>1, <2>2, <2>3
<1>6. ProverTyped'
  BY <1>1, <1>2, <1>5 DEF Typed, ProverTyped
<1>7. Margin'
  BY <1>1, <1>2, <1>5 DEF Margin
<1> QED BY <1>1, <1>5, <1>6, <1>7, ProverSteps

\* One generation changes its state.
LEMMA GenStep ==
  ASSUME gens \in Seq(Generations), NEW g \in DOMAIN gens, NEW st \in {"ok", "error", "done"},
         gens' = [gens EXCEPT ![g].state = st]
  PROVE  /\ gens' \in Seq(Generations) /\ Len(gens') = Len(gens)
         /\ \A h \in DOMAIN gens :
               /\ gens'[h].w = gens[h].w /\ gens'[h].aborted = gens[h].aborted
               /\ h = g => gens'[h].state = st
               /\ h # g => gens'[h] = gens[h]
<1>1. PICK rec : rec = [gens[g] EXCEPT !.state = st]
  OBVIOUS
<1>2. gens' = [gens EXCEPT ![g] = rec]
  BY <1>1
<1>3. gens[g] \in Generations
  OBVIOUS
<1>4. /\ rec \in Generations /\ rec.w = gens[g].w /\ rec.aborted = gens[g].aborted
      /\ rec.state = st
  BY Zenon, <1>1, <1>3, GenRecords
<1>5. gens' \in Seq(Generations) /\ Len(gens') = Len(gens)
  BY <1>2, <1>4
<1>6. \A h \in DOMAIN gens : (h = g /\ gens'[h] = rec) \/ (h # g /\ gens'[h] = gens[h])
  BY <1>2, <1>4
<1> QED BY <1>4, <1>5, <1>6

LEMMA GenerateDoneStep ==
  ASSUME HandlerInv, NEW g \in DOMAIN gens, GenerateDone(g)
  PROVE  HandlerInv'
<1>1. PICK res \in {"ok", "error"} : gens' = [gens EXCEPT ![g].state = res]
  BY Zenon DEF GenerateDone
<1>2. UNCHANGED <<missed, head, heads, updating, hc, current, cache, added, submitter, pushed, behind, stopped>>
  BY DEF GenerateDone
<1>3. ProverTyped /\ Margin /\ CurrentIsLive
  BY DEF HandlerInv, Typed
<1>4. /\ gens' \in Seq(Generations) /\ Len(gens') = Len(gens)
      /\ \A h \in DOMAIN gens :
            /\ gens'[h].w = gens[h].w /\ gens'[h].aborted = gens[h].aborted
            /\ h = g => gens'[h].state = res
            /\ h # g => gens'[h] = gens[h]
  <2>1. res \in {"ok", "error", "done"} /\ gens \in Seq(Generations)
    BY <1>3 DEF ProverTyped
  <2> QED BY Zenon, <1>1, <2>1, GenStep
<1>5. ProverTyped' /\ Margin'
  BY <1>2, <1>3, <1>4 DEF ProverTyped, Margin
<1>6. CurrentIsLive'
  BY <1>2, <1>3, <1>4 DEF CurrentIsLive, ProverTyped
<1> QED BY <1>2, <1>5, <1>6, ProverSteps

\* The result of the current generation clears current, that of an aborted one
\* does not leave it pointing to a generation that is done.
LEMMA ProverResultStep ==
  ASSUME HandlerInv, NEW g \in DOMAIN gens, ProverResult(g)
  PROVE  HandlerInv'
<1>1. UNCHANGED <<missed, head, heads, updating, hc, submitter, pushed, behind, stopped>>
      /\ gens' = [gens EXCEPT ![g].state = "done"]
  BY DEF ProverResult
<1>2. ProverTyped /\ Margin /\ CurrentIsLive
  BY DEF HandlerInv, Typed
<1>3. /\ gens' \in Seq(Generations) /\ Len(gens') = Len(gens)
      /\ \A h \in DOMAIN gens :
            /\ gens'[h].w = gens[h].w /\ gens'[h].aborted = gens[h].aborted
            /\ h # g => gens'[h] = gens[h]
  <2>1. "done" \in {"ok", "error", "done"} /\ gens \in Seq(Generations)
    BY <1>2 DEF ProverTyped
  <2> QED BY Zenon, <1>1, <2>1, GenStep
<1>4. current' = 0 \/ (current' = current /\ current # g)
  BY DEF ProverResult, currentAfterError
<1>5. \/ UNCHANGED <<cache, added>>
      \/ cache' = cache \cup {gens[g].w} /\ added' = Append(added, gens[g].w)
  BY DEF ProverResult
<1>6. gens[g].w \in Windows
  <2>1. gens \in Seq(Generations)
    BY <1>2 DEF ProverTyped
  <2>2. gens[g] \in Generations
    BY <2>1
  <2> QED BY <2>2 DEF Generations
<1>7. cache' \in SUBSET Windows /\ added' \in Seq(Windows)
  <2>1. cache \in SUBSET Windows /\ added \in Seq(Windows)
    BY <1>2 DEF ProverTyped
  <2>2. \A x \in Windows : Append(added, x) \in Seq(Windows) /\ cache \cup {x} \in SUBSET Windows
    BY <2>1
  <2> QED BY Zenon, <1>5, <1>6, <2>1, <2>2
<1>8. ProverTyped'
  BY <1>2, <1>3, <1>4, <1>7 DEF ProverTyped
<1>9. Margin'
  BY <1>2, <1>3, <1>5 DEF Margin
<1>10. CurrentIsLive'
  BY <1>1, <1>2, <1>3, <1>4 DEF CurrentIsLive, ProverTyped
<1> QED BY <1>1, <1>5, <1>8, <1>9, <1>10, ProverSteps

-----------------------------------------------------------------------------
\* startSubmit adds the one submission that is due.
LEMMA StartBalances ==
  ASSUME NEW old, NEW ss \in Seq(Submissions), NEW low \in Int,
         Balanced(old, ss), startSubmit(old, ss, low),
         \A v, w \in started(old) : v = w,
         \A w \in Windows : old[w] = "Submitting" => postWindows'[w] = "Submitting"
  PROVE  /\ subs' \in Seq(Submissions) /\ Balanced(postWindows', subs')
         /\ \A i \in DOMAIN subs' : /\ i \in DOMAIN ss => subs'[i] = ss[i]
                                    /\ i \notin DOMAIN ss => subs'[i].state = "running" /\ subs'[i].low = low
<1>1. CASE started(old) = {}
  <2>1. subs' = ss
    BY <1>1 DEF startSubmit
  <2>2. \A w \in Windows : postWindows'[w] = "Submitting" <=> old[w] = "Submitting"
    BY <1>1 DEF started
  <2> QED BY <2>1, <2>2 DEF Balanced
<1>2. CASE started(old) # {}
  <2>1. PICK n \in started(old) : n = CHOOSE w \in started(old) : TRUE
    BY <1>2
  <2>2. n \in Windows /\ postWindows'[n] = "Submitting" /\ old[n] # "Submitting"
    BY <2>1 DEF started
  <2>3. \A w \in Windows : w # n => (postWindows'[w] = "Submitting" <=> old[w] = "Submitting")
    BY <2>1 DEF started
  <2>4. PICK new : new = [w |-> n, low |-> low, gone |-> FALSE, state |-> "running"]
    BY Zenon
  <2>5. subs' = Append(ss, new)
    BY <1>2, <2>1, <2>4 DEF startSubmit
  <2>6. new \in Submissions /\ new.w = n /\ new.gone = FALSE /\ new.state = "running" /\ new.low = low
    BY <2>2, <2>4 DEF Submissions
  <2>7. /\ subs' \in Seq(Submissions) /\ DOMAIN subs' = DOMAIN ss \cup {Len(ss) + 1}
        /\ \A i \in DOMAIN ss : subs'[i] = ss[i]
        /\ subs'[Len(ss) + 1] = new /\ Len(ss) + 1 \notin DOMAIN ss
    BY <2>5, <2>6
  <2>8. \A w \in Windows : \A k \in DOMAIN ss : UnderWay(subs', k, w) <=> UnderWay(ss, k, w)
    BY <2>7 DEF UnderWay
  <2>9. \A w \in Windows : UnderWay(subs', Len(ss) + 1, w) <=> w = n
    BY Zenon, <2>6, <2>7 DEF UnderWay
  <2>10. ASSUME NEW w \in Windows
         PROVE  /\ postWindows'[w] = "Submitting" =>
                      \E i \in DOMAIN subs' :
                          /\ UnderWay(subs', i, w)
                          /\ \A k \in DOMAIN subs' : UnderWay(subs', k, w) => k = i
                /\ postWindows'[w] # "Submitting" => \A k \in DOMAIN subs' : ~ UnderWay(subs', k, w)
    <3>1. CASE w = n
      <4>1. \A k \in DOMAIN ss : ~ UnderWay(ss, k, n)
        BY <2>2 DEF Balanced
      <4> QED BY Zenon, <2>2, <2>7, <2>8, <2>9, <3>1, <4>1
    <3>2. CASE w # n
      <4>1. postWindows'[w] = "Submitting" <=> old[w] = "Submitting"
        BY <2>3, <3>2
      <4>2. \A k \in DOMAIN subs' : UnderWay(subs', k, w) <=> k \in DOMAIN ss /\ UnderWay(ss, k, w)
        BY Zenon, <2>7, <2>8, <2>9, <3>2
      <4> QED BY Zenon, <2>7, <4>1, <4>2 DEF Balanced
    <3> QED BY <3>1, <3>2
  <2>11. Balanced(postWindows', subs')
    BY Zenon, <2>10 DEF Balanced
  <2> QED BY Zenon, <2>6, <2>7, <2>11
<1> QED BY <1>1, <1>2

\* At most one window is far enough for a submission.
LEMMA OneOpen ==
  ASSUME NEW h \in Int, NEW v \in Windows, NEW w \in Windows,
         h < Close(v), h >= Open(v) + SubmitConfidence, h < Close(w), h >= Open(w) + SubmitConfidence
  PROVE  v = w
<1>1. /\ v \in Nat /\ w \in Nat /\ Open(v) \in Nat /\ Open(w) \in Nat
      /\ Close(v) \in Nat /\ Close(w) \in Nat /\ SubmitConfidence \in Nat
  BY WindowHeights, WdPostAssumption
<1>2. v < w => Close(v) <= Open(w)
  BY <1>1, WindowsDisjoint
<1>3. w < v => Close(w) <= Open(v)
  BY <1>1, WindowsDisjoint
<1> QED BY <1>1, <1>2, <1>3

\* A submission starts for a window only when the chain is far enough in it.
LEMMA ReadyInWindow ==
  ASSUME NEW h, NEW w, NEW state, submitIfReady(h, w, state) # state
  PROVE  /\ state = "Start" /\ h < Close(w) /\ h >= Open(w) + SubmitConfidence /\ w \in cache
         /\ submitIfReady(h, w, state) = IF w \in EmptyWindows THEN "Complete" ELSE "Submitting"
  BY Zenon DEF submitIfReady

\* A head change aborts the submissions of windows that were reverted or are
\* over, takes back what was reverted, and starts what is due.
LEMMA SubmitterHeadStep == HandlerInv /\ SubmitterHead => HandlerInv'
<1> SUFFICES ASSUME HandlerInv, SubmitterHead PROVE HandlerInv'
  OBVIOUS
<1>1. PICK before, ss :
        /\ before = [w \in Windows |->
                       IF replaces(w) \/ resets(w) \/ (postWindows[w] = "none" /\ w = Window(hc.advance))
                       THEN "Start" ELSE postWindows[w]]
        /\ ss = [i \in DOMAIN subs |-> IF live(i) /\ replaces(subs[i].w)
                                       THEN [subs[i] EXCEPT !.gone = TRUE] ELSE subs[i]]
        /\ postWindows' = [w \in Windows |-> submitIfReady(hc.advance, w, before[w])]
        /\ startSubmit(before, ss, -1)
  BY Zenon DEF SubmitterHead
<1>2. /\ UNCHANGED <<missed, head, prover, pushed, stopped>> /\ ~ stopped
      /\ updating = "submitter" /\ updating' = "no" /\ currentTS' = hc.advance /\ failed' = {}
      /\ behind' = -1 /\ hc' = noChange
  BY DEF SubmitterHead
<1>3. ProverTyped /\ SubmitterTyped /\ ChainTyped /\ Margin /\ CurrentIsLive
  BY DEF HandlerInv, Typed
<1>4. Balanced(postWindows, subs)
  BY <1>2 DEF HandlerInv, SubmissionInv
<1>5. hc.advance \in Int /\ hc.revert \in Int
  BY <1>3, WdPostAssumption DEF ChainTyped
<1>6. ss \in Seq(Submissions) /\ DOMAIN ss = DOMAIN subs
  <2>1. subs \in Seq(Submissions)
    BY <1>3 DEF SubmitterTyped
  <2>2. \A i \in DOMAIN subs : subs[i] \in Submissions
    BY <2>1
  <2>3. \A i \in DOMAIN subs : [subs[i] EXCEPT !.gone = TRUE] \in Submissions
    BY Zenon, <2>2, SubRecords
  <2>4. \A i \in DOMAIN subs : ss[i] \in Submissions
    BY Zenon, <1>1, <2>2, <2>3
  <2>5. ss = [i \in 1..Len(subs) |-> ss[i]] /\ DOMAIN subs = 1..Len(subs) /\ Len(subs) \in Nat
    BY <1>1, <2>1
  <2> QED BY <2>4, <2>5
<1>7. \A i \in DOMAIN subs :
        \/ /\ ss[i] = subs[i] /\ ~ (live(i) /\ replaces(subs[i].w))
        \/ /\ ss[i].gone = TRUE /\ live(i) /\ replaces(subs[i].w)
  <2>1. \A i \in DOMAIN subs : [subs[i] EXCEPT !.gone = TRUE].gone = TRUE
    <3>1. \A i \in DOMAIN subs : subs[i] \in Submissions
      BY <1>3 DEF SubmitterTyped
    <3> QED BY Zenon, <3>1, SubRecords
  <2> QED BY Zenon, <1>1, <2>1
<1>8. \A i \in DOMAIN subs, w \in Windows : UnderWay(ss, i, w) <=> UnderWay(subs, i, w) /\ ~ replaces(w)
  BY Zenon, <1>7 DEF UnderWay, live
<1>9. \A w \in Windows : before[w] = "Submitting" <=> postWindows[w] = "Submitting" /\ ~ replaces(w)
  BY <1>1 DEF resets
<1>10. Balanced(before, ss)
  <2> SUFFICES ASSUME NEW w \in Windows
               PROVE  /\ before[w] = "Submitting" =>
                            \E i \in DOMAIN ss : /\ UnderWay(ss, i, w)
                                                 /\ \A k \in DOMAIN ss : UnderWay(ss, k, w) => k = i
                      /\ before[w] # "Submitting" => \A k \in DOMAIN ss : ~ UnderWay(ss, k, w)
    BY Zenon DEF Balanced
  <2>1. /\ postWindows[w] = "Submitting" =>
              \E i \in DOMAIN subs : /\ UnderWay(subs, i, w)
                                     /\ \A k \in DOMAIN subs : UnderWay(subs, k, w) => k = i
        /\ postWindows[w] # "Submitting" => \A k \in DOMAIN subs : ~ UnderWay(subs, k, w)
    BY Zenon, <1>4 DEF Balanced
  <2> QED BY Zenon, <1>6, <1>8, <1>9, <2>1
<1>11. /\ before \in [Windows -> SubmitStates] /\ postWindows' \in [Windows -> SubmitStates]
       /\ \A w \in Windows : postWindows'[w] = submitIfReady(hc.advance, w, before[w])
  <2>1. \A w \in Windows : before[w] \in SubmitStates
    BY <1>1, <1>3 DEF SubmitterTyped, SubmitStates
  <2>2. \A w \in Windows : submitIfReady(hc.advance, w, before[w]) \in SubmitStates
    BY <2>1 DEF submitIfReady, SubmitStates
  <2> QED BY <1>1, <2>1, <2>2
<1>12. \A v, w \in started(before) : v = w
  <2>1. ASSUME NEW w \in started(before)
        PROVE  /\ w \in Windows /\ hc.advance < Close(w)
               /\ hc.advance >= Open(w) + SubmitConfidence
    <3>1. w \in Windows /\ postWindows'[w] # before[w]
      BY DEF started
    <3> QED BY Zenon, <1>11, <3>1, ReadyInWindow
  <2> QED BY <1>5, <2>1, OneOpen
<1>13. \A w \in Windows : before[w] = "Submitting" => postWindows'[w] = "Submitting"
  BY Zenon, <1>11 DEF submitIfReady
<1>14. /\ subs' \in Seq(Submissions) /\ Balanced(postWindows', subs')
       /\ \A i \in DOMAIN subs' : /\ i \in DOMAIN ss => subs'[i] = ss[i]
                                  /\ i \notin DOMAIN ss => subs'[i].state = "running" /\ subs'[i].low = -1
  <2>1. startSubmit(before, ss, -1) /\ -1 \in Int
    BY <1>1
  <2> QED BY <1>6, <1>10, <1>12, <1>13, <2>1, StartBalances
<1>15. Typed'
  <2>1. ProverTyped' /\ SubmitterTyped'
    BY <1>2, <1>3, <1>5, <1>11, <1>14 DEF ProverTyped, SubmitterTyped, prover
  <2>2. ChainTyped'
    BY <1>2, <1>3, WdPostAssumption DEF ChainTyped, noChange
  <2> QED BY Zenon, <2>1, <2>2 DEF Typed
<1>16. Margin' /\ CurrentIsLive' /\ SubmissionInv'
  BY <1>2, <1>3, <1>14 DEF Margin, CurrentIsLive, SubmissionInv, prover
<1>17. Epochs /\ Told /\ InTime /\ Backed
  BY Zenon DEF HandlerInv, ValidInv
<1>19. Epochs' /\ Told'
  BY Zenon, <1>2, <1>17 DEF Epochs, Told
<1>20. InTime'
  <2> SUFFICES ASSUME ~ missed', NEW i \in DOMAIN subs', NEW w \in Windows, UnderWay(subs', i, w),
                      i \in DOMAIN ss
               PROVE  subs'[i].low = -1 \/ subs'[i].low >= Open(w)
    BY Zenon, <1>14 DEF InTime
  <2>0. subs'[i] = ss[i]
    BY Zenon, <1>14
  <2>1. UnderWay(ss, i, w) /\ subs'[i] = ss[i]
    BY <2>0 DEF UnderWay
  <2>2. i \in DOMAIN subs /\ UnderWay(subs, i, w) /\ ~ replaces(w)
    BY Zenon, <1>6, <1>8, <2>1
  <2>3. postWindows[w] = "Submitting"
    BY Zenon, <1>4, <2>2 DEF Balanced
  <2>4. ~ Pending(w) /\ ~ missed
    BY Zenon, <1>2, <2>2, <2>3 DEF Pending, replaces
  <2>5. ss[i] = subs[i]
    BY Zenon, <1>7, <2>1, <2>2 DEF UnderWay
  <2> QED BY Zenon, <1>17, <2>1, <2>2, <2>4, <2>5 DEF InTime
<1>21. Backed'
  <2> SUFFICES ASSUME ~ missed', NEW w \in Windows \ EmptyWindows, Succeeded(w)'
               PROVE  Accepted(w)' \/ VersionUnknown(w)'
    BY Zenon DEF Backed
  <2>1. Succeeded(w) /\ ~ revertedToPrevDL(w)
    <3>1. CASE postWindows'[w] = "Complete"
      <4>1. before[w] = "Complete"
        <5>1. postWindows'[w] = submitIfReady(hc.advance, w, before[w])
          BY <1>11
        <5> QED BY <3>1, <5>1, ReadyInWindow
      <4>2. postWindows[w] = "Complete" /\ ~ resets(w)
        BY <1>1, <4>1
      <4> QED BY <4>2 DEF Succeeded, resets
    <3>2. CASE \E i \in DOMAIN subs' : UnderWay(subs', i, w) /\ subs'[i].state = "ok"
      <4>1. PICK i \in DOMAIN subs' : UnderWay(subs', i, w) /\ subs'[i].state = "ok"
        BY <3>2
      <4>2. i \in DOMAIN ss /\ subs'[i] = ss[i]
        BY <1>14, <4>1
      <4>3. i \in DOMAIN subs /\ UnderWay(ss, i, w) /\ ss[i].state = "ok"
        BY Zenon, <1>6, <4>1, <4>2 DEF UnderWay
      <4>4. UnderWay(subs, i, w) /\ ~ replaces(w)
        BY <1>8, <4>3
      <4>5. ss[i] = subs[i]
        BY <1>7, <4>3 DEF UnderWay
      <4>6. postWindows[w] = "Submitting"
        BY <1>4, <4>3, <4>4 DEF Balanced
      <4> QED BY <4>3, <4>4, <4>5, <4>6 DEF Succeeded, replaces
    <3> QED BY Zenon, <3>1, <3>2 DEF Succeeded
  <2>2. Accepted(w) \/ VersionUnknown(w)
    BY Zenon, <1>2, <1>17, <2>1 DEF Backed, Pending
  <2> QED BY Zenon, <1>2, <2>2 DEF Accepted, VersionUnknown
<1>18. NoMissedSubmit'
  <2> SUFFICES ASSUME NEW w \in cache, postWindows'[w] = "Start",
                      currentTS' >= Open(w) + SubmitConfidence, currentTS' < Close(w)
               PROVE  FALSE
    BY <1>2 DEF NoMissedSubmit, prover
  <2>1. w \in Windows
    BY <1>3 DEF ProverTyped
  <2>2. postWindows'[w] = submitIfReady(hc.advance, w, before[w])
    BY <1>11, <2>1
  <2> QED BY <1>2, <2>2 DEF submitIfReady
<1> QED BY Zenon, <1>15, <1>16, <1>18, <1>19, <1>20, <1>21 DEF HandlerInv, ValidInv

\* A proof that is ready is submitted at the height the submitter knows.
LEMMA PostReadyStep == HandlerInv /\ PostReady => HandlerInv'
<1> SUFFICES ASSUME HandlerInv, PostReady PROVE HandlerInv'
  OBVIOUS
<1>1. /\ UNCHANGED <<missed, head, updating, hc, current, gens, cache, currentTS, pushed, behind, failed,
                   stopped>>
      /\ ~ stopped /\ added # <<>> /\ added' = Tail(added)
  BY DEF PostReady
<1>2. ProverTyped /\ SubmitterTyped /\ ChainTyped /\ Margin /\ CurrentIsLive
  BY DEF HandlerInv, Typed
<1>3. Balanced(postWindows, subs)
  BY <1>1 DEF HandlerInv, SubmissionInv
<1>4. PICK n \in Windows : n = Head(added)
  BY <1>1, <1>2 DEF ProverTyped
<1>5. /\ added' \in Seq(Windows)
      /\ \A i \in DOMAIN added : added[i] = n \/ \E j \in DOMAIN added' : added'[j] = added[i]
  <2>1. added \in Seq(Windows) /\ added # <<>>
    BY <1>1, <1>2 DEF ProverTyped
  <2>2. /\ Tail(added) \in Seq(Windows) /\ Len(Tail(added)) = Len(added) - 1 /\ Head(added) = added[1]
        /\ \A i \in 1..(Len(added) - 1) : Tail(added)[i] = added[i + 1]
    BY <2>1
  <2>3. \A i \in DOMAIN added : i = 1 \/ (i - 1 \in DOMAIN added' /\ added'[i - 1] = added[i])
    BY <1>1, <2>1, <2>2
  <2> QED BY Zenon, <1>1, <1>4, <2>2, <2>3
<1>6. /\ postWindows' \in [Windows -> SubmitStates]
      /\ postWindows'[n] = submitIfReady(currentTS, n, postWindows[n])
      /\ \A w \in Windows : w # n => postWindows'[w] = postWindows[w]
  <2>1. postWindows \in [Windows -> SubmitStates]
    BY <1>2 DEF SubmitterTyped
  <2>2. postWindows' = [postWindows EXCEPT ![n] = submitIfReady(currentTS, n, postWindows[n])]
    BY <1>4 DEF PostReady, ready
  <2>3. submitIfReady(currentTS, n, postWindows[n]) \in SubmitStates
    BY <2>1 DEF submitIfReady, SubmitStates
  <2> QED BY <2>1, <2>2, <2>3
<1>7. \A v, w \in started(postWindows) : v = w
  BY <1>6 DEF started
<1>8. \A w \in Windows : postWindows[w] = "Submitting" => postWindows'[w] = "Submitting"
  BY Zenon, <1>6 DEF submitIfReady
<1>9. /\ subs' \in Seq(Submissions) /\ Balanced(postWindows', subs')
      /\ \A i \in DOMAIN subs' : /\ i \in DOMAIN subs => subs'[i] = subs[i]
                                 /\ i \notin DOMAIN subs => subs'[i].state = "running" /\ subs'[i].low = behind
  <2>1. startSubmit(postWindows, subs, behind) /\ subs \in Seq(Submissions) /\ behind \in Int
    BY Zenon, <1>2 DEF PostReady, SubmitterTyped, ChainTyped
  <2> QED BY <1>3, <1>7, <1>8, <2>1, StartBalances
<1>10. Typed'
  BY Zenon, <1>1, <1>2, <1>5, <1>6, <1>9 DEF Typed, ProverTyped, SubmitterTyped, ChainTyped
<1>11. Margin' /\ CurrentIsLive' /\ SubmissionInv'
  BY <1>1, <1>2, <1>9 DEF Margin, CurrentIsLive, SubmissionInv
<1>12. Epochs /\ Told /\ InTime /\ Backed
  BY Zenon DEF HandlerInv, ValidInv
<1>14. Epochs' /\ Told'
  BY Zenon, <1>1, <1>12 DEF Epochs, Told
<1>15. InTime'
  <2> SUFFICES ASSUME ~ missed', NEW i \in DOMAIN subs', NEW w \in Windows, UnderWay(subs', i, w),
                      subs'[i].low # -1, ~ (subs'[i].low >= Open(w))
               PROVE  Pending(w)'
    BY Zenon DEF InTime
  <2>1. CASE i \in DOMAIN subs
    <3>1. UnderWay(subs, i, w) /\ subs[i].low # -1 /\ ~ (subs[i].low >= Open(w))
      BY Zenon, <1>9, <2>1 DEF UnderWay
    <3> QED BY Zenon, <1>1, <1>12, <2>1, <3>1 DEF InTime, Pending, revertedToPrevDL
  <2>2. CASE i \notin DOMAIN subs
    <3>1. behind # -1 /\ ~ (behind >= Open(w))
      BY Zenon, <1>9, <2>2
    <3>2. updating # "no" /\ hc.revert = behind
      BY Zenon, <1>1, <1>12, <3>1 DEF Told
    <3>3. hc.revert < Open(w) /\ hc.revert # -1
      BY <1>2, <3>1, <3>2, ChallengeBeforeOpen DEF ChainTyped
    <3> QED BY Zenon, <1>1, <3>2, <3>3 DEF Pending, revertedToPrevDL
  <2> QED BY <2>1, <2>2
<1>16. Backed'
  <2> SUFFICES ASSUME ~ missed', NEW w \in Windows \ EmptyWindows, Succeeded(w)'
               PROVE  Accepted(w)' \/ VersionUnknown(w)' \/ Pending(w)'
    BY Zenon DEF Backed
  <2>1. postWindows'[w] = "Complete" => postWindows[w] = "Complete"
    BY Zenon, <1>6 DEF submitIfReady
  <2>2. \A i \in DOMAIN subs' : UnderWay(subs', i, w) /\ subs'[i].state = "ok"
           => i \in DOMAIN subs /\ UnderWay(subs, i, w) /\ subs[i].state = "ok"
    BY Zenon, <1>9 DEF UnderWay
  <2>3. Succeeded(w)
    BY <2>1, <2>2 DEF Succeeded
  <2> QED BY Zenon, <1>1, <1>12, <2>3 DEF Backed, Accepted, VersionUnknown, Pending, revertedToPrevDL
<1>13. NoMissedSubmit'
  <2> SUFFICES ASSUME NEW w \in cache, postWindows'[w] = "Start", w \notin failed,
                      currentTS >= Open(w) + SubmitConfidence, currentTS < Close(w)
               PROVE  \E j \in DOMAIN added' : added'[j] = w
    BY <1>1 DEF NoMissedSubmit
  <2>1. w \in Windows
    BY <1>2 DEF ProverTyped
  <2>2. w # n
    BY Zenon, <1>6 DEF submitIfReady
  <2>3. PICK i \in DOMAIN added : added[i] = w
    BY <1>1, <1>6, <2>1, <2>2 DEF HandlerInv, NoMissedSubmit
  <2> QED BY Zenon, <1>5, <2>2, <2>3
<1> QED BY Zenon, <1>10, <1>11, <1>13, <1>14, <1>15, <1>16 DEF HandlerInv, ValidInv

\* One submission changes its state.
LEMMA SubStep ==
  ASSUME subs \in Seq(Submissions), NEW s \in DOMAIN subs, NEW st \in {"ok", "error", "done"},
         NEW l \in Int,
         \/ subs' = [subs EXCEPT ![s].state = st] /\ l = subs[s].low
         \/ subs' = [subs EXCEPT ![s] = [@ EXCEPT !.state = st, !.low = l]]
  PROVE  /\ subs' \in Seq(Submissions) /\ DOMAIN subs' = DOMAIN subs
         /\ subs'[s].w = subs[s].w /\ subs'[s].gone = subs[s].gone /\ subs'[s].state = st
         /\ subs'[s].low = l
         /\ \A i \in DOMAIN subs : i # s => subs'[i] = subs[i]
<1>1. PICK mid, rec : mid = [subs[s] EXCEPT !.state = st] /\ rec = [mid EXCEPT !.low = l]
  OBVIOUS
<1>2. subs[s] \in Submissions
  OBVIOUS
<1>3. mid \in Submissions /\ mid.w = subs[s].w /\ mid.gone = subs[s].gone /\ mid.state = st
      /\ mid.low = subs[s].low
  BY Zenon, <1>1, <1>2, SubRecords
<1>4. /\ rec \in Submissions /\ rec.w = subs[s].w /\ rec.gone = subs[s].gone
      /\ rec.state = st /\ rec.low = l
  <2>1. mid \in Submissions /\ rec = [mid EXCEPT !.low = l] /\ l \in Int
    BY Zenon, <1>1, <1>3
  <2>2. /\ rec \in Submissions /\ rec.w = mid.w /\ rec.gone = mid.gone
        /\ rec.state = mid.state /\ rec.low = l
    BY ONLY <2>1, SubLow
  <2> QED BY Zenon, <1>3, <2>2
<1>7. PICK new : new \in {mid, rec} /\ new.low = l /\ subs' = [subs EXCEPT ![s] = new]
  BY Zenon, <1>1, <1>3, <1>4
<1>8. new \in Submissions /\ new.w = subs[s].w /\ new.gone = subs[s].gone /\ new.state = st
  BY Zenon, <1>3, <1>4, <1>7
<1>5. subs' \in Seq(Submissions) /\ DOMAIN subs' = DOMAIN subs
  BY <1>7, <1>8
<1>6. subs'[s] = new /\ \A i \in DOMAIN subs : i # s => subs'[i] = subs[i]
  BY <1>7, <1>8
<1> QED BY Zenon, <1>5, <1>6, <1>7, <1>8

LEMMA SubmitDoneStep ==
  ASSUME HandlerInv, NEW s \in DOMAIN subs, SubmitDone(s)
  PROVE  HandlerInv'
<1>1. /\ UNCHANGED <<missed, head, updating, hc, prover, postWindows, currentTS, behind, failed, stopped>>
      /\ subs[s].state = "running"
  BY DEF SubmitDone
<1>2. PICK res \in {"ok", "error"} :
        /\ subs' = [subs EXCEPT ![s] = [@ EXCEPT !.state = res, !.low = -1]]
        /\ res = "error" => UNCHANGED pushed
        /\ res = "ok" => \E e \in CommitEpochs(subs[s].w) :
              pushed' = pushed \cup {[w |-> subs[s].w, epoch |-> e, valid |-> ~ Changes(subs[s].low, e)]}
  BY Zenon DEF SubmitDone
<1>3. ProverTyped /\ SubmitterTyped /\ ChainTyped /\ Margin /\ CurrentIsLive
  BY DEF HandlerInv, Typed
<1>4. /\ subs' \in Seq(Submissions) /\ DOMAIN subs' = DOMAIN subs
      /\ subs'[s].w = subs[s].w /\ subs'[s].gone = subs[s].gone /\ subs'[s].state = res
      /\ subs'[s].low = -1
      /\ \A i \in DOMAIN subs : i # s => subs'[i] = subs[i]
  <2>1. subs \in Seq(Submissions) /\ res \in {"ok", "error", "done"}
    BY Zenon, <1>3 DEF SubmitterTyped
  <2>2. -1 \in Int
    OBVIOUS
  <2> QED BY Zenon, <1>2, <2>1, <2>2, SubStep
<1>5. \A i \in DOMAIN subs, w \in Windows : UnderWay(subs', i, w) <=> UnderWay(subs, i, w)
  BY Zenon, <1>1, <1>4 DEF UnderWay
<1>10. /\ subs[s].w \in Windows /\ subs[s].low \in Int
       /\ Challenge(subs[s].w) \in Int /\ Open(subs[s].w) \in Int
       /\ Challenge(subs[s].w) < Open(subs[s].w)
  <2>1. subs[s] \in Submissions
    BY <1>3 DEF SubmitterTyped
  <2>2. subs[s].w \in Windows /\ subs[s].low \in Int
    BY <2>1 DEF Submissions
  <2> QED BY <2>2, ChallengeBeforeOpen
<1>11. \/ pushed' = pushed /\ res = "error"
       \/ /\ res = "ok"
          /\ \E e \in {Challenge(subs[s].w), Open(subs[s].w)}, m \in Messages :
                /\ m.w = subs[s].w /\ m.epoch = e /\ m.valid = ~ Changes(subs[s].low, e)
                /\ pushed' = pushed \cup {m}
  <2>1. CASE res = "error"
    BY Zenon, <1>2, <2>1
  <2>2. CASE res = "ok"
    <3>1. PICK e \in CommitEpochs(subs[s].w) :
            pushed' = pushed \cup {[w |-> subs[s].w, epoch |-> e, valid |-> ~ Changes(subs[s].low, e)]}
      BY Zenon, <1>2, <2>2
    <3>2. e \in {Challenge(subs[s].w), Open(subs[s].w)}
      BY Zenon DEF CommitEpochs
    <3>3. e \in Int
      BY Zenon, <1>10, <3>2
    <3>4. PICK m : m = [w |-> subs[s].w, epoch |-> e, valid |-> ~ Changes(subs[s].low, e)]
      BY Zenon
    <3>5. m \in Messages /\ m.w = subs[s].w /\ m.epoch = e /\ m.valid = ~ Changes(subs[s].low, e)
      BY Zenon, <1>10, <3>3, <3>4 DEF Messages
    <3> QED BY Zenon, <2>2, <3>1, <3>2, <3>4, <3>5
  <2> QED BY Zenon, <2>1, <2>2
<1>12. pushed \subseteq pushed' /\ pushed' \in SUBSET Messages
  BY Zenon, <1>3, <1>11 DEF ChainTyped
<1>6. Typed'
  BY Zenon, <1>1, <1>3, <1>4, <1>12 DEF Typed, ProverTyped, SubmitterTyped, ChainTyped, prover
<1>7. Margin' /\ CurrentIsLive' /\ NoMissedSubmit'
  BY <1>1, <1>3 DEF HandlerInv, Margin, CurrentIsLive, NoMissedSubmit, prover
<1>8. SubmissionInv'
  <2> SUFFICES ASSUME ~ stopped, NEW w \in Windows
               PROVE  /\ postWindows[w] = "Submitting" =>
                            \E i \in DOMAIN subs' :
                                /\ UnderWay(subs', i, w)
                                /\ \A k \in DOMAIN subs' : UnderWay(subs', k, w) => k = i
                      /\ postWindows[w] # "Submitting" => \A k \in DOMAIN subs' : ~ UnderWay(subs', k, w)
    BY <1>1 DEF SubmissionInv, Balanced
  <2>1. /\ postWindows[w] = "Submitting" =>
              \E i \in DOMAIN subs : /\ UnderWay(subs, i, w)
                                     /\ \A k \in DOMAIN subs : UnderWay(subs, k, w) => k = i
        /\ postWindows[w] # "Submitting" => \A k \in DOMAIN subs : ~ UnderWay(subs, k, w)
    BY DEF HandlerInv, SubmissionInv, Balanced
  <2> QED BY Zenon, <1>4, <1>5, <2>1
<1>9. Epochs /\ Told /\ InTime /\ Backed
  BY Zenon DEF HandlerInv, ValidInv
<1>13. Epochs' /\ Told'
  <2>1. Epochs'
    BY Zenon, <1>9, <1>11 DEF Epochs
  <2>2. Told'
    BY Zenon, <1>1, <1>9 DEF Told
  <2> QED BY <2>1, <2>2
<1>14. \A w \in Windows : Pending(w)' <=> Pending(w)
  BY Zenon, <1>1 DEF Pending, revertedToPrevDL
<1>15. InTime'
  BY Zenon, <1>1, <1>4, <1>5, <1>9, <1>14 DEF InTime
<1>16. Backed'
  <2> SUFFICES ASSUME ~ missed', NEW w \in Windows \ EmptyWindows, Succeeded(w)'
               PROVE  Accepted(w)' \/ VersionUnknown(w)' \/ Pending(w)
    BY Zenon, <1>14 DEF Backed
  <2>1. CASE Succeeded(w)
    <3>1. Accepted(w) \/ VersionUnknown(w) \/ Pending(w)
      BY Zenon, <1>1, <1>9, <2>1 DEF Backed
    <3> QED BY Zenon, <1>12, <3>1 DEF Accepted, VersionUnknown
  <2>2. CASE ~ Succeeded(w)
    <3>1. PICK i \in DOMAIN subs : UnderWay(subs', i, w) /\ subs'[i].state = "ok"
      BY Zenon, <1>1, <1>4, <2>2 DEF Succeeded
    <3>2. i = s
      BY Zenon, <1>4, <1>5, <2>2, <3>1 DEF Succeeded
    <3>3. UnderWay(subs, s, w) /\ subs[s].w = w /\ res = "ok"
      BY Zenon, <1>4, <1>5, <3>1, <3>2 DEF UnderWay
    <3>4. PICK m \in pushed' : /\ m.w = w /\ m.epoch \in {Challenge(w), Open(w)}
                               /\ m.valid = ~ Changes(subs[s].low, m.epoch)
      BY Zenon, <1>11, <3>3
    <3>5. subs[s].low = -1 \/ subs[s].low >= Open(w) \/ Pending(w)
      BY Zenon, <1>1, <1>9, <3>3 DEF InTime
    <3>6. CASE m.epoch = Open(w)
      BY Zenon, <3>4, <3>6 DEF VersionUnknown
    <3>7. CASE m.epoch = Challenge(w) /\ ~ Pending(w)
      <4>1. ~ Changes(subs[s].low, Challenge(w))
        BY <1>10, <3>3, <3>5, <3>7 DEF Changes
      <4> QED BY Zenon, <3>4, <3>7, <4>1 DEF Accepted
    <3> QED BY Zenon, <3>4, <3>6, <3>7
  <2> QED BY <2>1, <2>2
<1> QED BY Zenon, <1>6, <1>7, <1>8, <1>13, <1>15, <1>16 DEF HandlerInv, ValidInv

\* The result of a submission whose postWindow was replaced changes nothing
\* that counts.
LEMMA SubmitResultStep ==
  ASSUME HandlerInv, NEW s \in DOMAIN subs, SubmitResult(s)
  PROVE  HandlerInv'
<1> DEFINE n == subs[s].w
           st == IF subs[s].state = "ok" THEN "Complete" ELSE "Start"
<1>1. /\ UNCHANGED <<missed, head, updating, hc, prover, currentTS, pushed, behind, stopped>>
      /\ ~ stopped /\ subs[s].state \in {"ok", "error"}
      /\ subs' = [subs EXCEPT ![s].state = "done"]
  BY DEF SubmitResult
<1>2. \/ subs[s].gone /\ UNCHANGED <<postWindows, failed>>
      \/ /\ ~ subs[s].gone
         /\ postWindows' = [postWindows EXCEPT ![n] = st]
         /\ failed' = IF subs[s].state = "ok" THEN failed ELSE failed \cup {n}
  BY DEF SubmitResult, applies
<1>3. ProverTyped /\ SubmitterTyped /\ ChainTyped /\ Margin /\ CurrentIsLive
  BY Zenon DEF HandlerInv, Typed
<1>4. subs \in Seq(Submissions) /\ n \in Windows
  <2>1. subs \in Seq(Submissions)
    BY <1>3 DEF SubmitterTyped
  <2>2. subs[s] \in Submissions
    BY <2>1
  <2> QED BY <2>1, <2>2 DEF Submissions
<1>5. /\ subs' \in Seq(Submissions) /\ DOMAIN subs' = DOMAIN subs
      /\ subs'[s].state = "done"
      /\ \A i \in DOMAIN subs : i # s => subs'[i] = subs[i]
  <2>1. "done" \in {"ok", "error", "done"} /\ subs[s].low \in Int
    <3>1. subs[s] \in Submissions
      BY <1>4
    <3> QED BY <3>1 DEF Submissions
  <2> QED BY Zenon, <1>1, <1>4, <2>1, SubStep
<1>6. Balanced(postWindows, subs)
  BY <1>1 DEF HandlerInv, SubmissionInv
<1>7. \A i \in DOMAIN subs, w \in Windows : UnderWay(subs', i, w) <=> i # s /\ UnderWay(subs, i, w)
  BY <1>5 DEF UnderWay
<1>8. Margin' /\ CurrentIsLive'
  BY <1>1, <1>3 DEF Margin, CurrentIsLive, prover
<1>11. ASSUME \A w \in Windows : Succeeded(w)' => Succeeded(w) PROVE ValidInv'
  <2>1. Epochs /\ Told /\ InTime /\ Backed
    BY Zenon DEF HandlerInv, ValidInv
  <2>2. Epochs' /\ Told'
    BY Zenon, <1>1, <2>1 DEF Epochs, Told
  <2>3. InTime'
    BY Zenon, <1>1, <1>5, <1>7, <2>1 DEF InTime, Pending, revertedToPrevDL
  <2>4. Backed'
    BY Zenon, <1>1, <1>11, <2>1 DEF Backed, Accepted, VersionUnknown, Pending, revertedToPrevDL
  <2> QED BY Zenon, <2>2, <2>3, <2>4 DEF ValidInv
<1>9. CASE subs[s].gone /\ UNCHANGED <<postWindows, failed>>
  <2>1. \A i \in DOMAIN subs, w \in Windows : UnderWay(subs', i, w) <=> UnderWay(subs, i, w)
    BY <1>7, <1>9 DEF UnderWay
  <2>2. Typed'
    BY <1>1, <1>3, <1>5, <1>9 DEF Typed, ProverTyped, SubmitterTyped, ChainTyped, prover
  <2>3. Balanced(postWindows', subs')
    BY Zenon, <1>5, <1>6, <1>9, <2>1 DEF Balanced
  <2>4. NoMissedSubmit'
    BY <1>1, <1>9 DEF HandlerInv, NoMissedSubmit, prover
  <2>5. ValidInv'
    <3>1. \A w \in Windows : Succeeded(w)' => Succeeded(w)
      BY <1>5, <1>7, <1>9 DEF Succeeded
    <3> QED BY Zenon, <1>11, <3>1
  <2> QED BY Zenon, <1>8, <2>2, <2>3, <2>4, <2>5 DEF HandlerInv, SubmissionInv
<1>10. CASE /\ ~ subs[s].gone
            /\ postWindows' = [postWindows EXCEPT ![n] = st]
            /\ failed' = IF subs[s].state = "ok" THEN failed ELSE failed \cup {n}
  <2> HIDE DEF st
  <2>0. st \in {"Complete", "Start"} /\ (st = "Complete" => subs[s].state = "ok")
    BY Zenon DEF st
  <2>1. /\ postWindows' \in [Windows -> SubmitStates] /\ postWindows'[n] = st
        /\ \A w \in Windows : w # n => postWindows'[w] = postWindows[w]
    BY <1>3, <1>4, <1>10, <2>0 DEF SubmitterTyped, SubmitStates
  <2>2. UnderWay(subs, s, n)
    BY Zenon, <1>1, <1>10 DEF UnderWay
  <2>3. \A i \in DOMAIN subs : UnderWay(subs, i, n) => i = s
    BY <1>4, <1>6, <2>2 DEF Balanced
  <2>4. Typed'
    BY Zenon, <1>1, <1>3, <1>5, <2>1 DEF Typed, ProverTyped, SubmitterTyped, ChainTyped, prover
  <2>5. Balanced(postWindows', subs')
    <3> SUFFICES ASSUME NEW w \in Windows
                 PROVE  /\ postWindows'[w] = "Submitting" =>
                              \E i \in DOMAIN subs' :
                                  /\ UnderWay(subs', i, w)
                                  /\ \A k \in DOMAIN subs' : UnderWay(subs', k, w) => k = i
                        /\ postWindows'[w] # "Submitting" => \A k \in DOMAIN subs' : ~ UnderWay(subs', k, w)
      BY Zenon DEF Balanced
    <3>1. CASE w = n
      BY <1>5, <1>7, <2>0, <2>1, <2>3, <3>1
    <3>2. CASE w # n
      <4>1. \A i \in DOMAIN subs : UnderWay(subs', i, w) <=> UnderWay(subs, i, w)
        BY <1>7, <3>2 DEF UnderWay
      <4> QED BY Zenon, <1>5, <1>6, <2>1, <3>2, <4>1 DEF Balanced
    <3> QED BY <3>1, <3>2
  <2>6. ValidInv'
    <3>1. \A w \in Windows : Succeeded(w)' => Succeeded(w)
      <4> SUFFICES ASSUME NEW w \in Windows, Succeeded(w)' PROVE Succeeded(w)
        BY Zenon
      <4>1. CASE postWindows'[w] = "Complete"
        BY Zenon, <1>4, <2>0, <2>1, <2>2, <4>1 DEF Succeeded
      <4>2. CASE postWindows'[w] # "Complete"
        BY <1>5, <1>7, <4>2 DEF Succeeded
      <4> QED BY <4>1, <4>2
    <3> QED BY Zenon, <1>11, <3>1
  <2>7. NoMissedSubmit'
    <3> SUFFICES ASSUME NEW w \in cache, postWindows'[w] = "Start", w \notin failed',
                        currentTS >= Open(w) + SubmitConfidence, currentTS < Close(w)
                 PROVE  \E j \in DOMAIN added : added[j] = w
      BY <1>1 DEF NoMissedSubmit, prover
    <3>1. w \in Windows
      BY Zenon, <1>3 DEF ProverTyped
    <3>2. w # n
      BY SMTT(30), <1>10, <2>1 DEF st
    <3>3. postWindows[w] = "Start" /\ w \notin failed
      BY <1>10, <2>1, <3>1, <3>2
    <3> QED BY <1>1, <3>3 DEF HandlerInv, NoMissedSubmit
  <2> QED BY <1>8, <2>4, <2>5, <2>6, <2>7 DEF HandlerInv, SubmissionInv
<1> QED BY <1>2, <1>9, <1>10

LEMMA ShutdownStep == HandlerInv /\ Shutdown => HandlerInv'
<1> SUFFICES ASSUME HandlerInv, Shutdown PROVE HandlerInv'
  OBVIOUS
<1>1. /\ UNCHANGED <<missed, head, updating, hc, current, cache, added, postWindows, currentTS, pushed,
                   behind, failed>>
      /\ stopped' /\ subs' = [s \in DOMAIN subs |-> [subs[s] EXCEPT !.gone = TRUE]]
      /\ gens' = IF current = 0 THEN gens ELSE abortGen(current)
  BY DEF Shutdown
<1>2. ProverTyped /\ SubmitterTyped /\ ChainTyped /\ Margin
  BY DEF HandlerInv, Typed
<1>3. /\ gens' \in Seq(Generations) /\ Len(gens') = Len(gens)
      /\ \A g \in DOMAIN gens : gens'[g].w = gens[g].w
  <2>1. gens \in Seq(Generations) /\ current \in 0..Len(gens)
    BY <1>2 DEF ProverTyped
  <2>2. CASE current = 0
    BY <1>1, <2>1, <2>2
  <2>3. CASE current # 0
    <3>1. current \in DOMAIN gens
      BY <2>1, <2>3
    <3>2. PICK rec : rec = [gens[current] EXCEPT !.aborted = TRUE]
      BY Zenon
    <3>3. gens' = [gens EXCEPT ![current] = rec]
      BY <1>1, <2>3, <3>2 DEF abortGen
    <3>4. gens[current] \in Generations
      BY <2>1, <3>1
    <3>5. rec \in Generations /\ rec.w = gens[current].w
      BY Zenon, <3>2, <3>4, GenRecords
    <3> QED BY <2>1, <3>1, <3>3, <3>5
  <2> QED BY <2>2, <2>3
<1>4. /\ subs' \in Seq(Submissions) /\ DOMAIN subs' = DOMAIN subs
      /\ \A i \in DOMAIN subs : subs'[i].gone
  <2>1. subs \in Seq(Submissions)
    BY <1>2 DEF SubmitterTyped
  <2>2. \A i \in DOMAIN subs : subs[i] \in Submissions
    BY <2>1
  <2>3. \A i \in DOMAIN subs : /\ [subs[i] EXCEPT !.gone = TRUE] \in Submissions
                               /\ [subs[i] EXCEPT !.gone = TRUE].gone = TRUE
    BY Zenon, <2>2, SubRecords
  <2>4. \A i \in DOMAIN subs : subs'[i] \in Submissions /\ subs'[i].gone = TRUE
    BY Zenon, <1>1, <2>3
  <2>5. subs' = [i \in 1..Len(subs) |-> subs'[i]] /\ DOMAIN subs = 1..Len(subs) /\ Len(subs) \in Nat
    BY <1>1, <2>1
  <2> QED BY <2>4, <2>5
<1>5. Typed' /\ Margin'
  <2>1. DOMAIN gens' = DOMAIN gens
    BY <1>2, <1>3 DEF ProverTyped
  <2>2. Margin'
    BY <1>1, <1>2, <1>3, <2>1 DEF Margin
  <2>3. Typed'
    BY <1>1, <1>2, <1>3, <1>4 DEF Typed, ProverTyped, SubmitterTyped, ChainTyped
  <2> QED BY <2>2, <2>3
<1>6. CurrentIsLive' /\ SubmissionInv' /\ NoMissedSubmit'
  BY <1>1 DEF CurrentIsLive, SubmissionInv, NoMissedSubmit
<1>7. ValidInv'
  <2>1. \A w \in Windows : Succeeded(w)' => Succeeded(w)
    BY Zenon, <1>1, <1>4 DEF Succeeded, UnderWay
  <2>2. Epochs /\ Told /\ Backed
    BY Zenon DEF HandlerInv, ValidInv
  <2>3. Epochs' /\ Told'
    BY Zenon, <1>1, <2>2 DEF Epochs, Told
  <2>4. InTime'
    BY Zenon, <1>4 DEF InTime, UnderWay
  <2>5. Backed'
    BY Zenon, <1>1, <2>1, <2>2 DEF Backed, Accepted, VersionUnknown, Pending, revertedToPrevDL
  <2> QED BY Zenon, <2>3, <2>4, <2>5 DEF ValidInv
<1> QED BY <1>5, <1>6, <1>7 DEF HandlerInv

LEMMA HandlerStep == HandlerInv /\ [Next]_vars => HandlerInv'
<1> SUFFICES ASSUME HandlerInv, [Next]_vars PROVE HandlerInv'
  OBVIOUS
<1>1. CASE UNCHANGED vars
  BY Zenon, <1>1 DEF vars, prover, submitter, HandlerInv, Typed, ProverTyped, SubmitterTyped, ChainTyped,
     Margin, CurrentIsLive, SubmissionInv, ValidInv, Epochs, Told, InTime, Backed, Succeeded, Accepted,
     VersionUnknown, Pending, revertedToPrevDL, NoMissedSubmit
<1>2. CASE \E g \in DOMAIN gens : GenerateDone(g) \/ ProverResult(g)
  BY <1>2, GenerateDoneStep, ProverResultStep
<1>3. CASE \E s \in DOMAIN subs : SubmitDone(s) \/ SubmitResult(s)
  BY <1>3, SubmitDoneStep, SubmitResultStep
<1> QED BY <1>1, <1>2, <1>3, HeadChangeStep, UpdateFailsStep, ProverHeadStep, SubmitterHeadStep,
           PostReadyStep, ShutdownStep DEF Next

LEMMA HandlerInvariant == Spec => []HandlerInv
  BY InitHandler, HandlerStep, PTL DEF Spec

\* Whatever head changes, results and failures come in, and in whatever order,
\* the proof generation the prover waits for (p.current) is one that is neither
\* aborted nor processed, so its result will clear p.current
\* (changeHandler's proveHandler.run, processHeadChange, processPostResult).
THEOREM ProverNeverWaitsForTheDead == Spec => []CurrentIsLive
<1>1. HandlerInv => CurrentIsLive
  BY Zenon DEF HandlerInv
<1> QED BY <1>1, HandlerInvariant, PTL

\* A window is SubmitStateSubmitting exactly while one submission of it, and
\* only one, is under way: no head change, revert or late result of an aborted
\* submission makes the submitter start a second one or lose track of the first
\* (submitHandler.processHeadChange, submitIfReady, processSubmitResult).
THEOREM OneSubmissionPerWindow == Spec => []OneSubmission
<1>1. HandlerInv => OneSubmission
  <2> SUFFICES ASSUME HandlerInv, ~ stopped, NEW w \in Windows
               PROVE  Cardinality({s \in DOMAIN subs : live(s) /\ subs[s].w = w})
                        = IF postWindows[w] = "Submitting" THEN 1 ELSE 0
    BY DEF OneSubmission
  <2> DEFINE S == {s \in DOMAIN subs : live(s) /\ subs[s].w = w}
  <2>1. \A s \in DOMAIN subs : s \in S <=> UnderWay(subs, s, w)
    BY DEF live, UnderWay
  <2>2. /\ postWindows[w] = "Submitting" =>
              \E i \in DOMAIN subs : /\ UnderWay(subs, i, w)
                                     /\ \A k \in DOMAIN subs : UnderWay(subs, k, w) => k = i
        /\ postWindows[w] # "Submitting" => \A k \in DOMAIN subs : ~ UnderWay(subs, k, w)
    BY DEF HandlerInv, SubmissionInv, Balanced
  <2>3. CASE postWindows[w] = "Submitting"
    <3>1. PICK i : S = {i}
      BY Zenon, <2>1, <2>2, <2>3
    <3> QED BY Zenon, <2>3, <3>1, FS_Singleton
  <2>4. CASE postWindows[w] # "Submitting"
    <3>1. S = {}
      BY Zenon, <2>1, <2>2, <2>4
    <3> QED BY <2>4, <3>1, FS_EmptySet
  <2> QED BY <2>3, <2>4
<1> QED BY <1>1, HandlerInvariant, PTL

\* When a head change has been handled and none of the reverts before it was
\* kept from the loops, a window in SubmitStateComplete has a message in the pool or
\* on chain whose commit randomness the chain still has, so that it need not be
\* submitted again: the reset at reverts before the window's opening (line 411) is
\* enough because the randomness is that of the challenge, Lookback epochs earlier
\* (runSubmitPoST), and this also when the revert comes before the result of the
\* submission, or before the submission starts.  Windows with a message that took
\* the randomness of the opening itself are excepted.
THEOREM CompleteStaysValid == Spec => []CompleteIsValid
<1>1. HandlerInv => CompleteIsValid
  BY Zenon DEF HandlerInv, ValidInv, Backed, Pending, Accepted, Succeeded, CompleteIsValid
<1> QED BY <1>1, HandlerInvariant, PTL

\* A generated proof whose window the chain is in, far enough for the submitter,
\* is submitted, has failed at this height, or its notice is still queued for the
\* submitter: neither order of "post ready" and "head change" loses it
\* (submitHandler.processPostReady, processHeadChange, submitIfReady).
THEOREM NoSubmissionMissed == Spec => []NoMissedSubmit
<1>1. HandlerInv => NoMissedSubmit
  BY DEF HandlerInv
<1> QED BY <1>1, HandlerInvariant, PTL
=============================================================================
