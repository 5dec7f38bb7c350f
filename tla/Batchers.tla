------------------------------ MODULE Batchers ------------------------------
(***************************************************************************)
(* The batchers of the sealing pipeline: precommits, commits and           *)
(* terminations of several sectors go to the chain in one message          *)
(* (storage/pipeline/precommit_batch.go, commit_batch.go,                  *)
(* terminate_batch.go).  The handler of a sector registers it and waits;   *)
(* one goroutine per batcher wakes up when it is notified, when its timer  *)
(* fires or when the operator forces it, and sends a batch.                *)
(*                                                                         *)
(* The three batchers are one design, and a behaviour is about one of      *)
(* them, kind.  Sectors are numbered.  A message is counted per sector in  *)
(* it.  Time passes in epochs, and the loop of the batcher is quicker than *)
(* an epoch; the cutoff of a sector is kept as the epochs left until it.   *)
(***************************************************************************)
EXTENDS Integers, Sequences, FiniteSets, FiniteSetsExt, Functions

CONSTANTS
    Kinds,          \* the batchers to look at
    Sectors, Callers,
    Partition,      \* of sectors, for terminations
    Deadline,       \* of partitions
    Deadlines,      \* how many there are in a proving period
    SectorsOf,      \* caller -> the sectors it may register
    Ahead,          \* how far ahead of its registration the cutoff of a sector is
    MaxBatch, MinBatch, MaxWait, Slack,     \* configuration
    AddressedSectorsMax, DeclarationsMax,   \* limits of a termination message
    Faults,         \* "api", "push" (calls of the node that fail), "ctx", "gone", "stop"
    MaxFails        \* bound: failures of each kind together

ASSUME BatchersAssumption ==
    /\ Kinds \subseteq {"precommit", "commit", "terminate"} /\ Sectors \subseteq Nat
    /\ IsFiniteSet(DOMAIN Deadline) /\ Partition \in [Sectors -> DOMAIN Deadline]
    /\ \A l \in DOMAIN Deadline : Deadline[l] \in 0..Deadlines - 1
    /\ MaxBatch \in Nat \ {0} /\ MinBatch \in Nat /\ MaxWait \in Nat \ {0} /\ Slack \in Nat /\ Ahead \subseteq Nat
    /\ SectorsOf \in [Callers -> SUBSET Sectors]
    /\ AddressedSectorsMax \in Nat \ {0} /\ DeclarationsMax \in Nat \ {0} /\ Deadlines \in Nat \ {0}
    /\ Faults \subseteq {"api", "push", "ctx", "gone", "stop"} /\ MaxFails \in Nat

VARIABLES
    kind,
    todo,           \* the registered sectors
    waiting,        \* sector -> the callers that wait for it
    left,           \* sector -> epochs to its cutoff; -1 once it has passed
    notify,         \* the channel notify is full
    timer,          \* epochs until the timer fires
    loop,           \* "select", "process", "stopped"
    cause,          \* what woke the loop up
    flush,          \* the operator's Flush: "none", "asked", "taken", "done"
    call,           \* caller -> its call of AddPreCommit, AddCommit or AddTermination
    sent,           \* sector -> the messages that hold it
    deadline,       \* the current deadline of the miner
    seen,           \* the deadline the loop read before it took the lock
    gone,           \* sectors whose precommit has expired, or that are no longer live
    dropped,        \* history: sectors of a bucket too large for one message
    fails

b == <<todo, waiting, left, notify>>
world == <<sent, deadline, gone, fails>>
vars == <<kind, b, timer, loop, cause, flush, call, seen, dropped, world>>

NoCall == [pc |-> "none", sector |-> 0, before |-> 0, after |-> 0, answer |-> "none"]

Init ==
    /\ kind \in Kinds
    /\ todo = {} /\ waiting = [s \in Sectors |-> {}] /\ left = [s \in Sectors |-> 0] /\ notify = FALSE
    /\ timer = MaxWait /\ loop = "select" /\ cause = "none" /\ flush = "none"
    /\ call = [c \in Callers |-> NoCall]
    /\ sent = [s \in Sectors |-> 0] /\ deadline = 0 /\ seen = 0 /\ gone = {} /\ dropped = {} /\ fails = 0

MayFail(f) == f \in Faults /\ fails < MaxFails

-----------------------------------------------------------------------------
(* The callers. *)

\* The channel has one place; a notification that is pending is enough.
notified(s) == TRUE

register(c, s, cut) ==
    /\ call[c].pc = "none"
    /\ todo' = todo \cup {s}
    /\ waiting' = [waiting EXCEPT ![s] = @ \cup {c}]
    /\ left' = [left EXCEPT ![s] = cut]
    /\ notify' = notified(s)
    /\ call' = [call EXCEPT ![c] = [NoCall EXCEPT !.pc = "waits", !.sector = s, !.before = sent[s]]]
    /\ UNCHANGED <<kind, timer, loop, cause, flush, seen, dropped, world>>

\* The ticket expires or a deal starts; a precommit is refused when that has passed.
getPreCommitCutoff == Ahead \ {0}

AddPreCommit(c, s) == kind = "precommit" /\ \E cut \in getPreCommitCutoff : register(c, s, cut)

\* A commit needs its precommit on chain; a cutoff that has passed is now.
getCommitCutoff(s) == IF s \in gone THEN {} ELSE Ahead

AddCommit(c, s) == kind = "commit" /\ \E cut \in getCommitCutoff(s) : register(c, s, cut)

\* A sector that is not live is reported as terminated.
AddTermination(c, s) == kind = "terminate" /\ s \notin gone /\ register(c, s, 0)

\* The context of a caller ends; the sector stays registered.
Leave(c) ==
    /\ call[c].pc = "waits" /\ MayFail("ctx")
    /\ call' = [call EXCEPT ![c].pc = "left"]
    /\ fails' = fails + 1
    /\ UNCHANGED <<kind, b, timer, loop, cause, flush, seen, dropped, sent, deadline, gone>>

Flush ==
    /\ flush = "none" /\ flush' = "asked"
    /\ UNCHANGED <<kind, b, timer, loop, cause, call, seen, dropped, world>>

-----------------------------------------------------------------------------
(* The loop. *)

\* Mutant: the sectors that wait for the next batch are not asked for their cutoff.
batchWaitMax(cuts, reg) == MaxWait

\* How long the loop waits, from the cutoffs of the registered sectors.
batchWait(cuts, reg) ==
    IF reg = {} THEN MaxWait
    ELSE Min({MaxWait, Max({0, Min({cuts[s] : s \in reg}) - Slack})})

Select(why) ==
    /\ loop = "select" /\ loop' = "process" /\ cause' = why
    /\ \/ why = "notify" /\ notify /\ notify' = FALSE /\ UNCHANGED flush
       \/ why = "timer" /\ timer = 0 /\ UNCHANGED <<notify, flush>>
       \/ why = "force" /\ flush = "asked" /\ flush' = "taken" /\ UNCHANGED notify
    /\ seen' = deadline \* the miner's deadline, read before the lock is taken
    /\ UNCHANGED <<kind, todo, waiting, left, timer, call, dropped, world>>

Stop ==
    /\ loop = "select" /\ MayFail("stop")
    /\ loop' = "stopped" /\ fails' = fails + 1
    /\ UNCHANGED <<kind, b, timer, cause, flush, call, seen, dropped, sent, deadline, gone>>

\* Back to the select; a forced batch is reported to who forced it.
again ==
    /\ loop' = "select"
    /\ flush' = IF flush = "taken" THEN "done" ELSE flush
    /\ cause' = "none" /\ seen' = 0
    /\ UNCHANGED <<kind, notify, deadline, gone>>

waitsAgain(cuts, reg) == timer' = IF kind = "terminate" THEN MaxWait ELSE batchWait(cuts, reg)

\* Mutant: only the first of the callers of a sector is told.
toldFirst(s) == IF waiting[s] = {} THEN {} ELSE {Min(waiting[s])}

\* Everybody who waits for the sector is told, in its own channel.
told(s) == waiting[s]

\* Mutant: the map of registered sectors is emptied after a batch.
remainingNone(done, off) == {}

\* What stays registered after a batch.
remaining(done, off) == todo \ (done \cup off)

\* Mutant: the sectors that failed are not told from those in the message.
answerMessage(s, ok) == "message"

\* What a caller is told.
answer(s, ok) == IF s \in ok THEN "message" ELSE "error"

(* The callers of the sectors done are told that the message holds them (ok) or that they *)
(* failed, and the sectors are forgotten, with those of off.                               *)
answers(done, ok, off) ==
    LET reg == remaining(done, off)
        cuts == [s \in Sectors |-> IF s \in done THEN 0 ELSE left[s]]
    IN  /\ sent' = [s \in Sectors |-> sent[s] + IF s \in ok THEN 1 ELSE 0]
        /\ call' = [c \in Callers |->
                      LET s == call[c].sector
                      IN  IF call[c].pc = "waits" /\ s \in done /\ c \in told(s)
                          THEN [call[c] EXCEPT !.pc = "answered", !.after = sent'[s],
                                               !.answer = answer(s, ok)]
                          ELSE call[c]]
        /\ waiting' = [s \in Sectors |-> IF s \in done THEN {} ELSE waiting[s]]
        /\ todo' = reg /\ left' = cuts
        /\ waitsAgain(cuts, reg)
        /\ again

nothing ==
    /\ waitsAgain(left, todo) /\ again
    /\ UNCHANGED <<todo, waiting, left, call, sent, dropped>>

\* A notification starts a batch only when it would be full.
tooSmall(n) == n = 0 \/ (cause = "notify" /\ n < MaxBatch)

StartNothing ==
    /\ loop = "process" /\ kind # "terminate" /\ tooSmall(Cardinality(todo))
    /\ nothing /\ UNCHANGED fails

starts == loop = "process" /\ kind # "terminate" /\ ~tooSmall(Cardinality(todo))

\* The head, the network version or the miner cannot be read: nobody is told, and the batch is tried again.
StartFails ==
    /\ starts /\ MayFail("api")
    /\ nothing /\ fails' = fails + 1

\* One message per sector, some of which are not pushed.
oneByOne(ok, may) ==
    /\ answers(todo, ok, {})
    /\ IF ok = may THEN UNCHANGED fails ELSE MayFail("push") /\ fails' = fails + 1
    /\ UNCHANGED dropped

\* The base fee is low.
PreCommitIndividually == starts /\ kind = "precommit" /\ \E ok \in SUBSET todo : oneByOne(ok, todo)

\* The base fee is low, or there are too few for an aggregate; a sector whose precommit is gone has no collateral.
CommitIndividually == starts /\ kind = "commit" /\ \E ok \in SUBSET (todo \ gone) : oneByOne(ok, todo \ gone)

\* The sectors of a batch: those whose collateral cannot be computed are failed, and do not count.
Batches(bad) ==
    IF kind = "precommit"
    THEN {[good |-> g, bad |-> {}] : g \in {x \in SUBSET todo : Cardinality(x) = Min({MaxBatch, Cardinality(todo)})}}
    ELSE {[good |-> x \ bad, bad |-> x \cap bad] : x \in
             {y \in SUBSET todo : /\ Cardinality(y \ bad) <= MaxBatch
                                  /\ Cardinality(y \ bad) = MaxBatch \/ y = todo}}

\* An aggregate of nothing is not sent, and nobody is told.
sendBatch(p) ==
    IF p.good = {} THEN nothing ELSE answers(p.good \cup p.bad, p.good, {}) /\ UNCHANGED dropped

processBatch ==
    /\ starts /\ (kind = "commit" => Cardinality(todo) >= MinBatch)
    /\ \/ (\E p \in Batches(gone) : sendBatch(p)) /\ UNCHANGED fails
       \/ /\ kind = "commit" /\ MayFail("api") /\ fails' = fails + 1
          /\ \E s \in todo : \E p \in Batches(gone \cup {s}) : sendBatch(p)
       \/ /\ MayFail("push") /\ fails' = fails + 1
          /\ \E p \in Batches(gone) : p.good # {} /\ answers(p.good \cup p.bad, {}, {})
          /\ UNCHANGED dropped

-----------------------------------------------------------------------------
(* Terminations: the registered sectors are in a bucket per partition. *)

bucket(l) == {s \in todo : Partition[s] = l}

\* No terminations in the current deadline, the next one and the one before.
challenged(l) == Deadline[l] \in {seen, (seen + 1) % Deadlines} \/ (Deadline[l] + 1) % Deadlines = seen

lowest(S, n) == {s \in S : Cardinality({x \in S : x < s}) < n}

(* One bucket of the map.  A bucket that does not fit is cut, and what goes in the message *)
(* leaves it at once; a bucket with fewer live sectors than would fit is passed over.      *)
visit(acc, l) ==
    LET n == Cardinality(bucket(l))
        live == bucket(l) \ gone
        room == AddressedSectorsMax - acc.total
        cut == n > room
        take == IF cut THEN lowest(live, room) ELSE live
        total == acc.total + IF cut THEN room ELSE n
    IN  IF acc.full \/ n = 0 \/ challenged(l) \/ (cut /\ Cardinality(live) < room) THEN acc
        ELSE [total |-> total, parts |-> acc.parts \cup {l}, take |-> acc.take \cup take,
              cut |-> acc.cut \cup IF cut THEN take ELSE {},
              over |-> acc.over \cup IF cut THEN bucket(l) ELSE {},
              full |-> total >= AddressedSectorsMax \/ total >= MaxBatch \/ Cardinality(acc.parts) + 1 >= DeclarationsMax]

NothingYet == [total |-> 0, parts |-> {}, take |-> {}, cut |-> {}, over |-> {}, full |-> FALSE]

\* The buckets are visited in some order.
gather(order) ==
    LET upTo[k \in 0..Len(order)] == IF k = 0 THEN NothingYet ELSE visit(upTo[k - 1], order[k])
    IN  upTo[Len(order)]

\* The sectors of the buckets that went in the message.
bucketsOf(parts) == {s \in todo : Partition[s] \in parts}

\* The call for the partitions of a deadline fails, and the bucket is passed over.
PartitionsRead == IF MayFail("api") THEN {DOMAIN Deadline \ {l} : l \in DOMAIN Deadline} ELSE {}

processTermination ==
    /\ loop = "process" /\ kind = "terminate"
    /\ \E parts \in {DOMAIN Deadline} \cup PartitionsRead : \E order \in Bijection(1..Cardinality(parts), parts) :
          LET g == gather(order)
              failed == IF parts = DOMAIN Deadline THEN 0 ELSE 1
              idle == \/ g.parts = {}
                      \/ cause = "notify" /\ g.total < MaxBatch
                      \/ cause = "timer" /\ g.total < MinBatch
          IN  /\ dropped' = dropped \cup g.over
              /\ \/ idle /\ answers({}, {}, g.cut) /\ fails' = fails + failed
                 \/ ~idle /\ MayFail("push") /\ answers({}, {}, g.cut) /\ fails' = fails + 1
                 \/ ~idle /\ answers(g.take, g.take, bucketsOf(g.parts)) /\ fails' = fails + failed

\* The deadline cannot be read.
TerminationFails ==
    /\ loop = "process" /\ kind = "terminate" /\ MayFail("api")
    /\ nothing /\ fails' = fails + 1

-----------------------------------------------------------------------------
(* The chain. *)

\* An epoch passes, while the loop waits for it.
Tick ==
    /\ loop = "select" /\ ~notify /\ flush # "asked" /\ timer > 0
    /\ timer' = timer - 1
    /\ left' = [s \in Sectors |-> IF s \in todo THEN Max({-1, left[s] - 1}) ELSE left[s]]
    /\ deadline' = IF kind = "terminate" THEN (deadline + 1) % Deadlines ELSE deadline
    /\ UNCHANGED <<kind, todo, waiting, notify, loop, cause, flush, call, seen, dropped, sent, gone, fails>>

\* A precommit expires, or a sector is terminated otherwise.
Vanish(s) ==
    /\ MayFail("gone") /\ s \notin gone /\ kind # "precommit"
    /\ gone' = gone \cup {s} /\ fails' = fails + 1
    /\ UNCHANGED <<kind, b, timer, loop, cause, flush, call, seen, dropped, sent, deadline>>

Loop == (\E why \in {"notify", "timer", "force"} : Select(why)) \/ StartNothing \/ StartFails
           \/ PreCommitIndividually \/ CommitIndividually \/ processBatch \/ processTermination \/ TerminationFails

Next ==
    \/ \E c \in Callers : Leave(c) \/ \E s \in SectorsOf[c] : AddPreCommit(c, s) \/ AddCommit(c, s) \/ AddTermination(c, s)
    \/ Flush \/ Stop \/ Loop \/ Tick
    \/ \E s \in Sectors : Vanish(s)

Spec == Init /\ [][Next]_vars

\* The loop is a goroutine, and time passes.
FairSpec == Spec /\ WF_vars(Loop) /\ WF_vars(Tick)

-----------------------------------------------------------------------------
TypeOK ==
    /\ kind \in Kinds /\ todo \subseteq Sectors /\ waiting \in [Sectors -> SUBSET Callers]
    /\ \A s \in Sectors : left[s] \in Ahead \cup -1..Max(Ahead)
    /\ notify \in BOOLEAN /\ timer \in 0..MaxWait
    /\ loop \in {"select", "process", "stopped"} /\ flush \in {"none", "asked", "taken", "done"}

\* A bucket of terminations that was too large for a message has lost sectors.
lost(s) == kind = "terminate" /\ s \in gone \cup dropped

(***************************************************************************)
(* A sector somebody waits for is registered: whichever part of the        *)
(* registered sectors a batch takes, and wherever it fails, no caller is   *)
(* left waiting for a sector no later batch will look at.  A termination   *)
(* that is no longer live, or in a bucket that did not fit in a message,   *)
(* is the exception (terminate_batch.go:175,237).                          *)
(***************************************************************************)
WaitingIsTodo == \A s \in Sectors : waiting[s] # {} /\ ~lost(s) => s \in todo

(***************************************************************************)
(* A caller that is told of a message has its sector in one that was sent  *)
(* since it registered, and in one only; a caller that is told of an error *)
(* has it in none, so a retry by the state machine does not repeat it.     *)
(***************************************************************************)
AnswersMatch ==
    \A c \in Callers :
        call[c].pc = "answered" =>
            call[c].after = call[c].before + IF call[c].answer = "message" THEN 1 ELSE 0

(***************************************************************************)
(* No sector goes to the chain more often than it was registered.          *)
(***************************************************************************)
SentOnce ==
    \A s \in Sectors : sent[s] <= Cardinality({c \in Callers : call[c].pc # "none" /\ call[c].sector = s})

(***************************************************************************)
(* The batcher does not wait for more sectors when one is about to miss    *)
(* its cutoff: no epoch passes while a registered sector has less than the *)
(* slack left, however registrations, notifications and the timer fall,    *)
(* unless something failed.                                                *)
(***************************************************************************)
CutoffKept == [][Tick /\ kind # "terminate" /\ fails = 0 => \A s \in todo : left[s] > Slack]_vars

\* Somebody waits for an answer.
Unanswered(c) ==
    call[c].pc = "waits" /\ loop # "stopped" /\ call[c].sector \notin gone /\ ~lost(call[c].sector)

(***************************************************************************)
(* Every caller is answered in the end: each makes one call, so from some  *)
(* point on nobody waits, unless the batcher was stopped, or the sector    *)
(* went away or was lost.                                                  *)
(***************************************************************************)
EveryCallAnswered == <>[](\A c \in Callers : ~Unanswered(c))
=============================================================================
