---------------------------- MODULE CallTracker ----------------------------
(***************************************************************************)
(* How the storage manager follows the calls it makes to workers           *)
(* (storage/sealer/manager_calltracker.go).  A caller asks for a piece of  *)
(* work, which is recorded on disk; a worker starts it and gives it a call *)
(* identifier; the result comes back in a call of its own, possibly before *)
(* the manager has noted the identifier, twice, or after a restart of the  *)
(* manager.  Several callers may ask for the same work.  Simple calls      *)
(* (fetching, adding a piece) are followed in memory only.                 *)
(*                                                                         *)
(* Results are told apart by the call they come from.  A caller is one     *)
(* invocation of a method of the manager; a retry is another caller.       *)
(***************************************************************************)
EXTENDS Naturals, FiniteSets

CONSTANTS
    Works,
    Callers,
    Demands,        \* what callers may ask for: functions from callers to the work, or "simple"
    MaxCalls,       \* bound: calls to workers
    MaxCrashes,     \* bound: restarts of the manager
    Faults          \* "call" (a call to a worker fails), "abort" (the operator aborts a call),
                    \* "cancel" (the context of a caller that waits ends)

Calls == 1..MaxCalls
NoCall == 0

\* What the constants are.
CallTrackerConstants ==
    /\ Demands \subseteq [Callers -> Works \cup {"simple"}]
    /\ "simple" \notin Works
    /\ MaxCalls \in Nat /\ MaxCrashes \in Nat
    /\ Faults \subseteq {"call", "abort", "cancel"}

VARIABLES
    work,       \* on disk: work -> status and WorkerCall
    callToWork, \* call -> work, "none"
    results,    \* work -> the call whose result it has, NoCall
    callRes,    \* call -> "none", or the channel: "empty", "full"
    sends,      \* the calls whose result a goroutine is sending to callRes
    waitRes,    \* the works somebody waits for
    calls,      \* call -> its state at the worker, and its work
    caller,     \* caller -> where it is, whether it began the work, its call and outcome
    crashes

vars == <<work, callToWork, results, callRes, sends, waitRes, calls, caller, crashes>>
tracker == <<work, callToWork, results, callRes, sends, waitRes>>

NoWork == [status |-> "none", call |-> NoCall]
NewCaller(w) == [pc |-> "idle", work |-> w, owner |-> FALSE, call |-> NoCall, out |-> "none", got |-> NoCall]

Init ==
    /\ work = [w \in Works |-> NoWork]
    /\ callToWork = [c \in Calls |-> "none"] /\ results = [w \in Works |-> NoCall]
    /\ callRes = [c \in Calls |-> "none"] /\ sends = {} /\ waitRes = {}
    /\ calls = [c \in Calls |-> [state |-> "none", work |-> "none"]]
    /\ \E d \in Demands : caller = [k \in Callers |-> NewCaller(d[k])]
    /\ crashes = 0

at(k, pc) == caller[k].pc = pc
ends(k, out) == caller' = [caller EXCEPT ![k] = [@ EXCEPT !.pc = "ending", !.out = out]]
gets(k, c) == caller' = [caller EXCEPT ![k] = [@ EXCEPT !.pc = "ending", !.out = "result", !.got = c]]

-----------------------------------------------------------------------------
(* The manager *)

\* getWork: the caller begins the work, or waits for it if it is tracked
GetWork(k) ==
    LET w == caller[k].work IN
    /\ at(k, "idle")
    /\ IF w = "simple"
       THEN caller' = [caller EXCEPT ![k].pc = "scheduled"] /\ UNCHANGED work
       ELSE IF work[w].status # "none"
       THEN caller' = [caller EXCEPT ![k].pc = "await"] /\ UNCHANGED work
       ELSE /\ work' = [work EXCEPT ![w] = [status |-> "started", call |-> NoCall]]
            /\ caller' = [caller EXCEPT ![k] = [@ EXCEPT !.pc = "scheduled", !.owner = TRUE]]
    /\ UNCHANGED <<callToWork, results, callRes, sends, waitRes, calls, crashes>>

\* Schedule fails before the worker is called
ScheduleFails(k) ==
    /\ at(k, "scheduled")
    /\ ends(k, "error")
    /\ UNCHANGED <<tracker, calls, crashes>>

\* The worker is called and returns an identifier, or the call or its answer
\* is lost.
CallWorker(k) ==
    /\ at(k, "scheduled")
    /\ \/ \E c \in Calls :
            /\ calls[c].state = "none" /\ \A d \in 1..(c - 1) : calls[d].state # "none"
            /\ calls' = [calls EXCEPT ![c] = [state |-> "running", work |-> caller[k].work]]
            /\ \/ caller' = [caller EXCEPT ![k] = [@ EXCEPT !.pc = "called", !.call = c]]
               \/ "call" \in Faults /\ caller' = [caller EXCEPT ![k].pc = "called"]
       \/ /\ "call" \in Faults
          /\ caller' = [caller EXCEPT ![k].pc = "called"] /\ UNCHANGED calls
    /\ UNCHANGED <<tracker, crashes>>

\* startWork
StartWork(k) ==
    LET w == caller[k].work c == caller[k].call IN
    /\ at(k, "called") /\ w # "simple"
    /\ \/ /\ work[w].status = "none"     \* Mutate fails
          /\ ends(k, "error") /\ UNCHANGED <<work, callToWork>>
       \/ /\ work[w].status # "none" /\ c = NoCall
          /\ work' = [work EXCEPT ![w].status = "done"]
          /\ ends(k, "error") /\ UNCHANGED callToWork
       \/ /\ work[w].status # "none" /\ c # NoCall
          /\ work' = [work EXCEPT ![w] = [status |-> IF results[w] # NoCall THEN "done" ELSE "running", call |-> c]]
          /\ callToWork' = [callToWork EXCEPT ![c] = w]
          /\ caller' = [caller EXCEPT ![k].pc = "await"]
    /\ UNCHANGED <<results, callRes, sends, waitRes, calls, crashes>>

\* the function done of waitWork, applied to the call c the work had
done(w, c) ==
    /\ results' = [results EXCEPT ![w] = NoCall]
    /\ callToWork' = [callToWork EXCEPT ![c] = "none"]
    /\ work' = [work EXCEPT ![w] = NoWork]

\* the sanity check of waitWork
mapped(w) == work[w].call # NoCall /\ callToWork[work[w].call] = w

WaitWork(k) ==
    LET w == caller[k].work c == work[w].call IN
    /\ at(k, "await")
    /\ \/ /\ work[w].status \in {"none", "started"} \/ ~ mapped(w)
          /\ ends(k, "error") /\ UNCHANGED tracker
       \/ /\ work[w].status \notin {"none", "started"} /\ mapped(w)
          /\ \/ /\ callRes[c] # "none"
                /\ callToWork' = [callToWork EXCEPT ![c] = "none"]
                /\ \/ /\ callRes[c] = "full"
                      /\ work' = [work EXCEPT ![w] = NoWork] /\ callRes' = [callRes EXCEPT ![c] = "none"]
                      /\ gets(k, c)
                   \/ /\ callRes[c] = "empty"   \* "something else in waiting on callRes"
                      /\ ends(k, "busy") /\ UNCHANGED <<work, callRes>>
                /\ UNCHANGED <<results, sends, waitRes>>
             \/ /\ callRes[c] = "none" /\ results[w] # NoCall
                /\ done(w, c)
                /\ gets(k, results[w])
                /\ UNCHANGED <<callRes, sends, waitRes>>
             \/ /\ callRes[c] = "none" /\ results[w] = NoCall
                /\ waitRes' = waitRes \cup {w}
                /\ caller' = [caller EXCEPT ![k] = [@ EXCEPT !.pc = "waiting", !.call = c]]
                /\ UNCHANGED <<work, callToWork, results, callRes, sends>>
    /\ UNCHANGED <<calls, crashes>>

\* waitWork, after the channel was closed
Woken(k) ==
    LET w == caller[k].work IN
    /\ at(k, "woken")
    /\ IF results[w] = NoCall THEN ends(k, "empty") ELSE gets(k, results[w])
    /\ done(w, caller[k].call)
    /\ UNCHANGED <<callRes, sends, waitRes, calls, crashes>>

\* waitSimpleCall
WaitCall(k) ==
    LET c == caller[k].call IN
    /\ at(k, "called") /\ caller[k].work = "simple"
    /\ IF c = NoCall THEN ends(k, "error") /\ UNCHANGED callRes
       ELSE IF callToWork[c] # "none" THEN ends(k, "error") /\ UNCHANGED callRes
       ELSE /\ callRes' = [callRes EXCEPT ![c] = IF @ = "none" THEN "empty" ELSE @]
            /\ caller' = [caller EXCEPT ![k].pc = "receiving"]
    /\ UNCHANGED <<work, callToWork, results, sends, waitRes, calls, crashes>>

Receive(k) ==
    LET c == caller[k].call IN
    /\ at(k, "receiving") /\ callRes[c] = "full"
    /\ callRes' = [callRes EXCEPT ![c] = "none"]
    /\ gets(k, c)
    /\ UNCHANGED <<work, callToWork, results, sends, waitRes, calls, crashes>>

\* waitWork and waitCall, when the context ends: waitCall removes the channel,
\* waitWork leaves everything as it is.
Cancelled(k) ==
    /\ "cancel" \in Faults
    /\ at(k, "waiting") \/ at(k, "receiving")
    /\ ends(k, "error")
    /\ callRes' = IF at(k, "receiving") THEN [callRes EXCEPT ![caller[k].call] = "none"] ELSE callRes
    /\ UNCHANGED <<work, callToWork, results, sends, waitRes, calls, crashes>>

\* Mutant: the one that began the work leaves it behind.
cancelsNothing(k) == FALSE

\* whether the function cancel, deferred by the caller, ends the work
cancels(k) == caller[k].owner /\ work[caller[k].work].status = "started"

End(k) ==
    /\ at(k, "ending")
    /\ caller' = [caller EXCEPT ![k].pc = "returned"]
    /\ work' = IF cancels(k) THEN [work EXCEPT ![caller[k].work] = NoWork] ELSE work
    /\ UNCHANGED <<callToWork, results, callRes, sends, waitRes, calls, crashes>>

\* Mutant: those that wait are not told.
wokenNot(w) == caller

wokenUp(w) == [k \in Callers |->
    IF caller[k].work = w /\ at(k, "waiting") THEN [caller[k] EXCEPT !.pc = "woken"] ELSE caller[k]]

returnedStatus(st) == IF st = "none" THEN "none" ELSE "done"

\* returnResult: whether it accepts a result of call c, and what it does then
accepts(c) ==
    IF callToWork[c] = "none" THEN callRes[c] # "full" ELSE results[callToWork[c]] = NoCall
returnResult(c) ==
    LET w == callToWork[c] IN
    \/ /\ w = "none"
       /\ callRes' = [callRes EXCEPT ![c] = "empty"]
       /\ sends' = sends \cup {c}
       /\ UNCHANGED <<results, work, caller, waitRes, callToWork>>
    \/ /\ w # "none"
       /\ results' = [results EXCEPT ![w] = c]
       /\ work' = [work EXCEPT ![w].status = returnedStatus(@)]
       /\ caller' = IF w \in waitRes THEN wokenUp(w) ELSE caller
       /\ waitRes' = waitRes \ {w}
       /\ UNCHANGED <<callRes, sends, callToWork>>

\* the goroutine of returnResult sends the result
SendResult(c) ==
    /\ c \in sends /\ callRes[c] # "full"
    /\ sends' = sends \ {c}
    /\ callRes' = [callRes EXCEPT ![c] = IF @ = "empty" THEN "full" ELSE @]
    /\ UNCHANGED <<work, callToWork, results, waitRes, calls, caller, crashes>>

-----------------------------------------------------------------------------
(* The worker *)

\* The work ends, in success, failure or by a restart of the worker.
WorkerDone(c) ==
    /\ calls[c].state = "running"
    /\ calls' = [calls EXCEPT ![c].state = "finished"]
    /\ UNCHANGED <<tracker, caller, crashes>>

\* doReturn repeats the call until it succeeds; the answer may be lost.
ReturnResult(c) ==
    /\ calls[c].state = "finished" /\ accepts(c)
    /\ returnResult(c)
    /\ \/ calls' = [calls EXCEPT ![c].state = "returned"]
       \/ "call" \in Faults /\ UNCHANGED calls
    /\ UNCHANGED crashes

\* Abort
Abort(c) ==
    /\ "abort" \in Faults
    /\ calls[c].state = "running" /\ accepts(c)
    /\ returnResult(c)
    /\ UNCHANGED <<calls, crashes>>

\* The manager restarts: what is in memory is lost, and setupWorkTracker reads
\* the records.  Callers that had not returned ask again.
Restart ==
    /\ crashes < MaxCrashes
    /\ crashes' = crashes + 1
    /\ work' = [w \in Works |-> IF work[w].status = "running" THEN work[w] ELSE NoWork]
    /\ callToWork' = [c \in Calls |->
          IF \E w \in Works : work'[w].status = "running" /\ work'[w].call = c
          THEN CHOOSE w \in Works : work'[w].status = "running" /\ work'[w].call = c ELSE "none"]
    /\ results' = [w \in Works |-> NoCall] /\ callRes' = [c \in Calls |-> "none"]
    /\ sends' = {} /\ waitRes' = {}
    /\ caller' = [k \in Callers |-> IF at(k, "returned") THEN caller[k] ELSE NewCaller(caller[k].work)]
    /\ UNCHANGED calls

CallerStep(k) ==
    GetWork(k) \/ ScheduleFails(k) \/ CallWorker(k) \/ StartWork(k) \/ WaitWork(k) \/ Woken(k)
    \/ WaitCall(k) \/ Receive(k) \/ End(k)
CallStep(c) == SendResult(c) \/ WorkerDone(c) \/ ReturnResult(c)

Next ==
    \/ \E k \in Callers : CallerStep(k) \/ Cancelled(k)
    \/ \E c \in Calls : CallStep(c) \/ Abort(c)
    \/ Restart

Spec == Init /\ [][Next]_vars

\* Goroutines run and workers end their work and keep returning it.
FairSpec ==
    /\ Spec
    /\ \A k \in Callers : WF_vars(CallerStep(k))
    /\ \A c \in Calls : WF_vars(CallStep(c))

-----------------------------------------------------------------------------
CallOrNone == Calls \cup {NoCall}
Statuses == {"none", "started", "running", "done"}
Pcs == {"idle", "scheduled", "called", "await", "waiting", "woken", "receiving", "ending", "returned"}
Outs == {"none", "error", "busy", "empty", "result"}
CallType == [state : {"none", "running", "finished", "returned"}, work : Works \cup {"none", "simple"}]
CallerType ==
    [pc : Pcs, work : Works \cup {"simple"}, owner : BOOLEAN, call : CallOrNone, out : Outs, got : CallOrNone]

TypeOK ==
    /\ work \in [Works -> [status : Statuses, call : CallOrNone]]
    /\ callToWork \in [Calls -> Works \cup {"none"}] /\ results \in [Works -> CallOrNone]
    /\ callRes \in [Calls -> {"none", "empty", "full"}] /\ sends \subseteq Calls /\ waitRes \subseteq Works
    /\ calls \in [Calls -> CallType]
    /\ caller \in [Callers -> CallerType]
    /\ crashes \in 0..MaxCrashes

\* A record that says a piece of work was started has an owner that will still
\* run or cancel it: otherwise the work could not be asked for again.
StartedHasOwner ==
    \A w \in Works : work[w].status = "started" =>
        \E k \in Callers : caller[k].work = w /\ caller[k].owner /\ caller[k].pc \in {"scheduled", "called", "ending"}

awaiting(k) == caller[k].pc \in {"waiting", "receiving"}

\* Who waits for a piece of work is told when its result comes, whatever calls
\* failed or were aborted, as long as the manager does not restart.
WaitingEnds == \A k \in Callers : awaiting(k) ~> (~ awaiting(k) \/ crashes > 0)

\* "something else in waiting on callRes" (manager_calltracker.go:264) is only
\* said when somebody else waits for the call, who could not be the caller of
\* this work.
NobodyElseWaits == \A k \in Callers : caller[k].out # "busy"

\* A caller that finds the work "already in progress" (manager.go:526) waits for
\* its result: no caller returns without an error and without a result.
NoEmptyResult == \A k \in Callers : caller[k].out # "empty"

\* "returns wait=true when the task is already tracked/running"
\* (manager_calltracker.go:104): a caller is not made to wait for work that no
\* call is doing and that nobody will start.
WaitsForRunning ==
    [][\A k \in Callers : at(k, "idle") /\ caller'[k].pc = "await" /\ work[caller[k].work].status = "done"
         => work[caller[k].work].call # NoCall]_vars
=============================================================================
