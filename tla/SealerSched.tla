---------------------------- MODULE SealerSched ----------------------------
(***************************************************************************)
(* The sealing scheduler: the goroutine runSched (storage/sealer/sched.go, *)
(* sched1.go) that assigns queued requests to the windows workers opened,  *)
(* one goroutine handleWorker per worker (sched_worker.go) that starts the *)
(* requests of its windows, and the goroutines of the requests themselves, *)
(* which prepare, wait for resources (sched_resources.go), work and        *)
(* answer.                                                                 *)
(*                                                                         *)
(*  - Tasks are requests, numbered in the order of the queue.  Which       *)
(*    workers a request may go to depends on answers of the workers and on *)
(*    stored counters; trySched1 may find any of them, or none.            *)
(*  - A worker runs MaxConcurrent tasks of a class at a time: those that   *)
(*    need a GPU share its GPUs, the P1 tasks have a limit of their own.   *)
(*  - A goroutine may be slow to reach a channel: an iteration of runSched *)
(*    takes all buffered window requests, and any of the workers that wait *)
(*    to be disabled.                                                      *)
(***************************************************************************)
EXTENDS Integers, Sequences, SequencesExt, FiniteSets, FiniteSetsExt

CONSTANTS
    Tasks,          \* a set of numbers
    Workers,
    SchedWindows,   \* 2
    MaxConcurrent,
    Scenarios       \* records of the kind of each task ("none" if it is not asked for) and of the
                    \* faults: "session" (a call fails), "restart" (a worker goes), "remove" (a forced state)

ASSUME SealerSchedAssumption ==
    /\ Tasks \subseteq Nat
    /\ SchedWindows \in Nat \ {0} /\ MaxConcurrent \in Nat \ {0}
    /\ Scenarios \subseteq [kind : [Tasks -> {"p1", "ready", "other", "none"}],
                            faults : SUBSET {"session", "restart", "remove"}]

VARIABLES
    scenario,       \* one of Scenarios, which does not change
    queue,          \* SchedQueue: the sorted sequence of tasks
    index,          \* task -> IndexHeap (from 1)
    removed,        \* record.RemoveSectors
    marked,         \* record.Wselect: workers that were selected for a P1 task
    openWindows,    \* OpenWindows: a sequence of workers
    windowRequests, \* the channel
    initialised,
    workers,        \* worker -> its schedWorker and WorkerHandle
    tasks,          \* task -> what became of the request, and the worker
    overflow,       \* a window did not fit into its channel
    crashed         \* an index was out of range

sched == <<queue, index, removed, marked, openWindows, windowRequests, initialised, overflow, crashed>>
vars == <<scenario, sched, workers, tasks>>

\* AddPiece and PreCommit1, of which a worker gets one at a time; Commit1 and
\* Commit2, which need no preparation; all tasks that are asked for
P1Tasks == {t \in Tasks : scenario.kind[t] = "p1"}
ReadyTasks == {t \in Tasks : scenario.kind[t] = "ready"}
Asked == {t \in Tasks : scenario.kind[t] # "none"}

\* ActiveResources, counted by class
Classes == {"gpu", "cpu"}
class(t) == IF t \in P1Tasks THEN "cpu" ELSE "gpu"
NoneUsed == [c \in Classes |-> 0]
add(used, t) == [used EXCEPT ![class(t)] = @ + 1]

free(used, t) == [used EXCEPT ![class(t)] = @ - 1]
CanHandleRequest(used, t) == used[class(t)] < MaxConcurrent

Init ==
    /\ scenario \in Scenarios
    /\ queue = <<>> /\ index = [t \in Tasks |-> 1] /\ removed = {} /\ marked = {}
    /\ openWindows = <<>> /\ windowRequests = <<>>
    /\ initialised = FALSE /\ overflow = FALSE /\ crashed = FALSE
    /\ workers = [w \in Workers |->
          [pc |-> "absent", enabled |-> FALSE, requested |-> 0, scheduled |-> <<>>,
           windows |-> <<>>, taskDone |-> FALSE, preparing |-> NoneUsed, active |-> NoneUsed]]
    /\ tasks = [t \in Tasks |-> [state |-> "new", worker |-> "none"]]

-----------------------------------------------------------------------------
(* runSched *)

\* RequestQueue.Push
push(q, t) == SortSeq(Append(q, t), <)
pushAll(q, ts) == FoldLeft(push, q, ts)

\* the requests of the windows of worker w, which workerDisable hands back
todos(w) == FlattenSeq([i \in DOMAIN workers[w].windows |-> workers[w].windows[i].todo])

\* Mutant: the requests of a disabled worker are forgotten.
handedBackNothing(d) == <<>>

\* runSched, lines 346-351
handedBack(d) == FlattenSeq([i \in DOMAIN SetToSeq(d) |-> todos(SetToSeq(d)[i])])

\* trySched1, step 1: a choice gives every queued task that is not removed its
\* first acceptable window, or 0.  Selecting a worker for a P1 task marks it,
\* and a marked worker is not selected for another.
acceptable(q, opn, ws, choice) ==
    \A i \in DOMAIN q : choice[i] # 0 =>
        /\ q[i] \notin removed
        /\ ws[opn[choice[i]]].enabled
        /\ q[i] \in P1Tasks => /\ opn[choice[i]] \notin marked
                               /\ \A j \in DOMAIN q : q[j] \in P1Tasks /\ choice[j] # 0
                                     /\ opn[choice[j]] = opn[choice[i]] => i = j

position(q, t) == SelectInSeq(q, LAMBDA u : u = t)

\* step 1 stores in IndexHeap the position of the tasks that are not removed
newIndex(q) == [t \in Tasks |-> IF t \in ToSet(q) /\ t \notin removed
                                THEN position(q, t) ELSE index[t]]

\* step 2: SchedQueue.Remove of the positions ps, given in descending order
removeAll(q, ps) ==
    FoldLeft(LAMBDA acc, p : IF p > Len(acc) THEN acc ELSE RemoveAt(acc, p), q, ps)

\* the numbers in 1..n that satisfy P, in order
numbers(n, P(_)) == SelectSeq([k \in 1..n |-> k], P)

\* trySched1 on queue q and open windows opn, with the workers ws
trySched1(q, opn, ws) ==
    \E choice \in [DOMAIN q -> 0..Len(opn)] :
      /\ acceptable(q, opn, ws, choice)
      /\ index' = newIndex(q)
      /\ IF \E i \in DOMAIN q : index'[q[i]] > Len(q)
         THEN crashed' = TRUE /\ UNCHANGED <<queue, marked, openWindows, workers, tasks, overflow>>
         ELSE
         LET \* step 2: the window selected for the task at position i
             sel(i) == choice[newIndex(q)[q[i]]]
             todo(k) == LET is == numbers(Len(q), LAMBDA i : sel(i) = k) IN [j \in DOMAIN is |-> q[is[j]]]
             dropped == {i \in DOMAIN q : q[i] \in removed}
             assigned == {i \in DOMAIN q : sel(i) # 0}
             \* rmQueue: a position that is dropped and assigned is there twice
             rmQueue == SortSeq(SetToSeq(dropped) \o SetToSeq(assigned), >)
             \* step 3
             filled(k) == todo(k) # <<>>
             fits(k) == Len(ws[opn[k]].scheduled)
                          + Cardinality({j \in 1..(k - 1) : opn[j] = opn[k] /\ filled(j)}) < SchedWindows
             window(k) == [todo |-> todo(k), allocated |-> FoldLeft(add, NoneUsed, todo(k))]
             sent(w) == numbers(Len(opn), LAMBDA k : opn[k] = w /\ filled(k) /\ fits(k))
             left == numbers(Len(opn), LAMBDA k : ~ filled(k))
         IN  /\ queue' = removeAll(q, rmQueue)
             /\ crashed' = (Len(queue') # Len(q) - Len(rmQueue))
             /\ marked' = marked \cup {opn[choice[i]] : i \in {j \in DOMAIN q : q[j] \in P1Tasks /\ choice[j] # 0}}
             /\ openWindows' = [k \in DOMAIN left |-> opn[left[k]]]
             /\ workers' = [w \in Workers |-> [ws[w] EXCEPT !.scheduled =
                               @ \o [k \in DOMAIN sent(w) |-> window(sent(w)[k])]]]
             /\ overflow' = (overflow \/ \E k \in DOMAIN opn : filled(k) /\ ~ fits(k))
             /\ tasks' = [t \in Tasks |->
                   IF t \notin ToSet(q) THEN tasks[t]
                   ELSE IF position(q, t) \in assigned
                        THEN [state |-> "window", worker |-> opn[sel(position(q, t))]]
                        ELSE [state |-> "queued", worker |-> "none"]]

\* Schedule of at most one request reaches the scheduler, and the workers in d
\* are disabled: an iteration of runSched once it is initialised.
Iteration(ts, d) ==
    /\ initialised /\ ~ crashed
    /\ LET q == pushAll(queue, SetToSeq(ts) \o handedBack(d))
           opn == SelectSeq(openWindows \o windowRequests, LAMBDA w : w \notin d)
           ws == [w \in Workers |->
                    IF w \in d
                    THEN [workers[w] EXCEPT !.enabled = FALSE, !.windows = <<>>, !.requested = 0,
                             !.pc = IF @ = "leaving" THEN "gone"
                                    ELSE IF @ = "disabling" THEN "disabled" ELSE "check"]
                    ELSE workers[w]]
       IN  trySched1(q, opn, ws)
    /\ windowRequests' = <<>>
    /\ UNCHANGED <<removed, initialised>>

waiting == {w \in Workers : workers[w].pc \in {"disabling", "redisabling", "leaving"}}

\* the scheduler takes something up before it is initialised: a worker that
\* asks to be disabled is forgotten and waits for ever
Uninitialised ==
    /\ ~ initialised
    /\ \/ /\ \E t \in Asked :
             /\ tasks[t].state = "new"
             /\ queue' = push(queue, t)
             /\ tasks' = [tasks EXCEPT ![t].state = "queued"]
          /\ UNCHANGED <<workers, openWindows, windowRequests>>
       \/ /\ windowRequests # <<>>
          /\ openWindows' = Append(openWindows, Head(windowRequests))
          /\ windowRequests' = Tail(windowRequests)
          /\ UNCHANGED <<workers, queue, tasks>>
       \/ /\ \E w \in waiting : workers' = [workers EXCEPT ![w].pc = "stuck"]
          /\ UNCHANGED <<queue, tasks, openWindows, windowRequests>>
    /\ UNCHANGED <<index, removed, marked, initialised, overflow, crashed>>

\* InitWait is over; the iteration it starts is Iteration({}, {})
InitWaitOver ==
    /\ ~ initialised
    /\ initialised' = TRUE
    /\ UNCHANGED <<queue, index, removed, marked, openWindows, windowRequests, overflow, crashed, workers, tasks>>

RunSched ==
    \E ts \in {{}} \cup {{t} : t \in {u \in Asked : tasks[u].state = "new"}}, d \in SUBSET waiting :
        Iteration(ts, d)

\* removeRequest
RemoveRequest(t) ==
    /\ ~ crashed /\ t \in ToSet(queue)
    /\ queue' = SelectSeq(queue, LAMBDA u : u # t)
    /\ tasks' = [tasks EXCEPT ![t].state = "answered"]
    /\ UNCHANGED <<index, removed, marked, openWindows, windowRequests, initialised, overflow, crashed, workers>>

\* SectorForceState moves the sector of task t to a state of SubmitCommit: what is
\* queued for it is not to be done any more.
RemoveSector(t) ==
    /\ "remove" \in scenario.faults /\ ~ crashed
    /\ t \in Asked \ removed
    /\ removed' = removed \cup {t}
    /\ UNCHANGED <<queue, index, marked, openWindows, windowRequests, initialised, overflow, crashed, workers, tasks>>

\* The manager resets the marks from time to time.
ResetMarks ==
    /\ marked # {} /\ ~ crashed
    /\ marked' = {}
    /\ UNCHANGED <<queue, index, removed, openWindows, windowRequests, initialised, overflow, crashed, workers, tasks>>

-----------------------------------------------------------------------------
(* handleWorker *)

at(w, pc) == workers[w].pc = pc /\ ~ crashed
rest == <<queue, index, removed, marked, openWindows, initialised, overflow, crashed, tasks>>

\* runWorker
Join(w) ==
    /\ at(w, "absent")
    /\ workers' = [workers EXCEPT ![w].pc = "top", ![w].enabled = TRUE]
    /\ UNCHANGED <<rest, windowRequests>>

\* requestWindows: how many more, with n requested
missing(n) == SchedWindows - n

RequestWindows(w) ==
    /\ at(w, "top")
    /\ LET n == IF workers[w].enabled THEN Max({0, missing(workers[w].requested)}) ELSE 0
       IN  /\ windowRequests' = windowRequests \o [i \in 1..n |-> w]
           /\ workers' = [workers EXCEPT ![w].pc = "check", ![w].requested = @ + n]
    /\ UNCHANGED rest

\* checkSession: the session is the worker's
SessionOk(w) ==
    /\ at(w, "check")
    /\ workers' = [workers EXCEPT ![w].pc = IF workers[w].enabled THEN "wait" ELSE "process",
                                  ![w].enabled = TRUE]
    /\ UNCHANGED <<rest, windowRequests>>

\* checkSession: the call failed, or another session answers and the deferred
\* functions of handleWorker run
SessionFails(w) ==
    /\ at(w, "check")
    /\ \/ "session" \in scenario.faults /\ workers' = [workers EXCEPT ![w].pc = "disabling"]
       \/ "restart" \in scenario.faults /\ workers' = [workers EXCEPT ![w].pc = "leaving"]
    /\ UNCHANGED <<rest, windowRequests>>

\* checkSession, lines 215-226
Disabled(w) ==
    /\ at(w, "disabled")
    /\ \/ workers' = [workers EXCEPT ![w].pc = "check"]
       \/ /\ workers[w].scheduled # <<>>
          /\ workers' = [workers EXCEPT ![w].pc = "redisabling", ![w].scheduled = Tail(@),
                                        ![w].windows = Append(@, Head(workers[w].scheduled))]
    /\ UNCHANGED <<rest, windowRequests>>

\* waitForUpdates
Heartbeat(w) ==
    /\ at(w, "wait")
    /\ workers' = [workers EXCEPT ![w].pc = "check"]
    /\ UNCHANGED <<rest, windowRequests>>

WindowArrives(w) ==
    /\ at(w, "wait") /\ workers[w].scheduled # <<>>
    /\ workers' = [workers EXCEPT ![w].pc = "process", ![w].scheduled = Tail(@),
                                  ![w].windows = Append(@, Head(workers[w].scheduled))]
    /\ UNCHANGED <<rest, windowRequests>>

TaskDone(w) ==
    /\ at(w, "wait") /\ workers[w].taskDone
    /\ workers' = [workers EXCEPT ![w].pc = "process", ![w].taskDone = FALSE]
    /\ UNCHANGED <<rest, windowRequests>>

\* workerCompactWindows: the tasks of window i + 1 that window i has room for
\* move there
moveDown(acc, t) ==
    IF CanHandleRequest(acc.lower.allocated, t)
    THEN [lower |-> [todo |-> Append(acc.lower.todo, t), allocated |-> add(acc.lower.allocated, t)],
          upper |-> [acc.upper EXCEPT !.allocated = free(@, t)]]
    ELSE [acc EXCEPT !.upper.todo = Append(@, t)]
compact(ws, i) ==
    LET r == FoldLeft(moveDown, [lower |-> ws[i], upper |-> [ws[i + 1] EXCEPT !.todo = <<>>]], ws[i + 1].todo)
    IN  [ws EXCEPT ![i] = r.lower, ![i + 1] = r.upper]
compacted(ws) == SelectSeq(FoldLeft(compact, ws, [i \in 1..(Len(ws) - 1) |-> i]),
                           LAMBDA wd : wd.todo # <<>>)

\* assignReadyWork and assignPreparingWork go through the windows and start the
\* tasks in kind that the resources used have room for.  They stop after the
\* first window that has a task left, and drop those that are empty.
startTask(acc, t) ==
    IF t \in acc.kind /\ CanHandleRequest(acc.used, t)
    THEN [acc EXCEPT !.started = @ \cup {t}, !.used = add(@, t)] ELSE acc
assignWindow(acc, wd) ==
    IF acc.left # <<>> THEN [acc EXCEPT !.left = Append(@, wd)]
    ELSE LET a == FoldLeft(startTask, acc, wd.todo)
             todo == SelectSeq(wd.todo, LAMBDA t : t \notin a.started)
         IN  IF todo = <<>> THEN a ELSE [a EXCEPT !.left = <<[wd EXCEPT !.todo = todo]>>]
assign(ws, kind, used) ==
    FoldLeft(assignWindow, [kind |-> kind, used |-> used, started |-> {}, left |-> <<>>], ws)

hasWorkWaiting(w) == \E t \in Tasks : tasks[t] = [state |-> "waiting", worker |-> w]

\* assignReadyWork, lines 397-400
readyKind(w) == IF hasWorkWaiting(w) THEN {} ELSE ReadyTasks

\* The end of the loop of handleWorker: workerCompactWindows and
\* processAssignedWindows
Process(w) ==
    /\ at(w, "process")
    /\ LET ready == assign(compacted(workers[w].windows), readyKind(w), workers[w].active)
           prep == assign(ready.left, Tasks, workers[w].preparing)
       IN  /\ workers' = [workers EXCEPT ![w].pc = "top", ![w].windows = prep.left,
                              ![w].requested = @ - (Len(workers[w].windows) - Len(prep.left)),
                              ![w].active = ready.used, ![w].preparing = prep.used]
           /\ tasks' = [t \in Tasks |->
                 IF t \in ready.started THEN [state |-> "ready", worker |-> w]
                 ELSE IF t \in prep.started THEN [state |-> "preparing", worker |-> w] ELSE tasks[t]]
    /\ UNCHANGED sched

-----------------------------------------------------------------------------
(* startProcessingTask and startProcessingReadyTask *)

\* The outcome of prepare: an answer with the error, or the task waits for the
\* resources to work, if they are not there.
Prepared(t) ==
    LET w == tasks[t].worker IN
    /\ tasks[t].state = "preparing" /\ ~ crashed
    /\ \/ /\ tasks' = [tasks EXCEPT ![t].state = "answered"]
          /\ workers' = [workers EXCEPT ![w].preparing = free(@, t), ![w].taskDone = TRUE]
       \/ /\ CanHandleRequest(workers[w].active, t)
          /\ tasks' = [tasks EXCEPT ![t].state = "active"]
          /\ workers' = [workers EXCEPT ![w].active = add(@, t), ![w].preparing = free(@, t), ![w].taskDone = TRUE]
       \/ /\ ~ CanHandleRequest(workers[w].active, t)
          /\ tasks' = [tasks EXCEPT ![t].state = "waiting"]
          /\ UNCHANGED workers
    /\ UNCHANGED sched

\* Mutant: the resources are not looked at again after the wait.
wakesAnyway(w, t) == TRUE

\* Mutant: nobody wakes those that wait.
wakesNever(w, t) == FALSE

\* withResources, line 31
wakes(w, t) == CanHandleRequest(workers[w].active, t)

\* withResources: Free has broadcast and there is room now
Wake(t) ==
    LET w == tasks[t].worker IN
    /\ tasks[t].state = "waiting" /\ wakes(w, t) /\ ~ crashed
    /\ tasks' = [tasks EXCEPT ![t].state = "active"]
    /\ workers' = [workers EXCEPT ![w].active = add(@, t), ![w].preparing = free(@, t), ![w].taskDone = TRUE]
    /\ UNCHANGED sched

\* The work is done, in success or failure, and the request answered.
Done(t) ==
    LET w == tasks[t].worker IN
    /\ tasks[t].state \in {"active", "ready"} /\ ~ crashed
    /\ tasks' = [tasks EXCEPT ![t].state = "answered"]
    \* a prepared task has notified when it began to work
    /\ workers' = [workers EXCEPT ![w].active = free(@, t), ![w].taskDone = @ \/ tasks[t].state = "ready"]
    /\ UNCHANGED sched

WorkerStep(w) ==
    Join(w) \/ RequestWindows(w) \/ SessionOk(w) \/ SessionFails(w) \/ Disabled(w)
    \/ Heartbeat(w) \/ WindowArrives(w) \/ TaskDone(w) \/ Process(w)
TaskStep(t) == Prepared(t) \/ Wake(t) \/ Done(t)

Step ==
    \/ Uninitialised \/ InitWaitOver \/ RunSched \/ ResetMarks
    \/ \E t \in Tasks : RemoveRequest(t) \/ RemoveSector(t) \/ TaskStep(t)
    \/ \E w \in Workers : WorkerStep(w)

Next == Step /\ UNCHANGED scenario

Spec == Init /\ [][Next]_vars

\* Goroutines are scheduled, and select chooses at random among the channels
\* that are ready, so that none of them is passed over for ever.  Requests are
\* prepared and done in finite time.
FairSpec ==
    /\ Spec
    /\ \A w \in Workers :
        /\ WF_vars(RequestWindows(w) /\ UNCHANGED scenario) /\ WF_vars(SessionOk(w) /\ UNCHANGED scenario)
        /\ WF_vars(Process(w) /\ UNCHANGED scenario) /\ WF_vars(Heartbeat(w) /\ UNCHANGED scenario)
        /\ WF_vars(Disabled(w) /\ UNCHANGED scenario)
        /\ SF_vars(WindowArrives(w) /\ UNCHANGED scenario) /\ SF_vars(TaskDone(w) /\ UNCHANGED scenario)
    /\ \A t \in Tasks :
        /\ WF_vars(Prepared(t) /\ UNCHANGED scenario) /\ WF_vars(Done(t) /\ UNCHANGED scenario)
        /\ SF_vars(Wake(t) /\ UNCHANGED scenario)

\* The scheduler's goroutine runs too, and InitWait ends.
FairSchedSpec == FairSpec /\ WF_vars(InitWaitOver /\ UNCHANGED scenario) /\ WF_vars(RunSched /\ UNCHANGED scenario)

-----------------------------------------------------------------------------
Used == [Classes -> Nat]
Window == [todo : Seq(Tasks), allocated : Used]
running == {"preparing", "waiting", "active", "ready"}

TypeOK ==
    /\ queue \in Seq(Tasks) /\ index \in [Tasks -> Nat]
    /\ removed \subseteq Tasks /\ marked \subseteq Workers
    /\ openWindows \in Seq(Workers) /\ windowRequests \in Seq(Workers)
    /\ {initialised, overflow, crashed} \subseteq BOOLEAN
    /\ workers \in [Workers -> [pc : {"absent", "top", "check", "wait", "process", "disabling", "redisabling",
                                      "disabled", "leaving", "gone", "stuck"},
                                enabled : BOOLEAN, requested : Int, scheduled : Seq(Window),
                                windows : Seq(Window), taskDone : BOOLEAN, preparing : Used, active : Used]]
    /\ tasks \in [Tasks -> [state : {"new", "queued", "window", "answered"} \cup running,
                            worker : Workers \cup {"none"}]]

\* how often task t is in the windows ws
inWindows(t, ws) ==
    Cardinality({<<i, j>> \in (DOMAIN ws) \X (1..Cardinality(Tasks)) :
                    j <= Len(ws[i].todo) /\ ws[i].todo[j] = t})
inQueue(t) == Cardinality({i \in DOMAIN queue : queue[i] = t})
\* windows on the way to a worker that is gone are nowhere
held(t) == FoldSet(LAMBDA w, n : n + inWindows(t, IF workers[w].pc = "gone" THEN <<>> ELSE workers[w].scheduled)
                                   + inWindows(t, workers[w].windows),
                   inQueue(t), Workers)

\* A request that was accepted and is not answered is in exactly one place, in
\* the queue, in one window, or running, whichever workers were disabled while
\* windows were on their way to them, unless a window did not fit into a channel,
\* a worker restarted or the sector was taken out of sealing.
InOnePlace ==
    scenario.faults \cap {"restart", "remove"} = {} /\ ~ overflow =>
        \A t \in Tasks : held(t) = IF tasks[t].state \in {"queued", "window"} THEN 1 ELSE 0

\* The resources in use are those of the tasks that run, and never more than
\* the worker has.
ResourcesInUse ==
    \A w \in Workers, c \in Classes :
        LET n(S) == Cardinality({t \in Tasks : class(t) = c /\ tasks[t].worker = w /\ tasks[t].state \in S}) IN
        /\ workers[w].preparing[c] = n({"preparing", "waiting"}) /\ workers[w].preparing[c] <= MaxConcurrent
        /\ workers[w].active[c] = n({"active", "ready"}) /\ workers[w].active[c] <= MaxConcurrent

\* "prepared tasks have priority" (sched_worker.go:398): while a prepared task
\* waits for a worker's resources, no ready task of the worker is started.
PreparedFirst ==
    [][\A t \in Tasks : tasks[t].state # "ready" /\ tasks'[t].state = "ready"
            => ~ \E u \in Tasks : tasks[u].state = "waiting" /\ tasks[u].worker = tasks'[t].worker]_vars

\* As long as no session check fails, a worker has as many windows asked for,
\* open, on their way or at work as windowsRequested says, and at most
\* SchedWindows: the room in its channel.
WindowsCounted ==
    "session" \notin scenario.faults /\ ~ crashed => \A w \in {v \in Workers : workers[v].pc # "gone"} :
        LET count(s) == Cardinality({i \in DOMAIN s : s[i] = w}) IN
        /\ workers[w].requested = count(windowRequests) + count(openWindows)
                                   + Len(workers[w].scheduled) + Len(workers[w].windows)
        /\ workers[w].requested \in 0..SchedWindows

\* "expected sh.OpenWindows[wnd].done to be buffered" (sched1.go:386)
DoneBuffered == ~ overflow

\* "assign task to first acceptable window" (sched1.go:27): a request is only
\* assigned when windows were looked for, which they are not for the sectors
\* being removed.
AssignedAcceptable ==
    [][\A t \in removed : tasks[t].state # "window" => tasks'[t].state # "window"]_vars

lostSession == {"disabling", "redisabling", "disabled", "leaving", "gone", "stuck"}

\* A request that was handed to a worker is answered or back in the queue, as
\* long as the worker keeps its session: no window and no request is forgotten,
\* and no one waits for resources for ever.  (Finitely many requests are made:
\* none is left over for good if time and again all of them are done with.)
HandedOverAnswered ==
    []<>(\/ \A t \in Tasks : tasks[t].state \notin {"window"} \cup running
         \/ overflow \/ crashed \/ \E w \in Workers : workers[w].pc \in lostSession)

\* "wait for cleanup to complete" (sched_worker.go:187): a worker that asks the
\* scheduler to disable it is told when that is done.
DisableCompletes ==
    \A w \in Workers : workers[w].pc \in {"disabling", "stuck"} ~> workers[w].pc \notin {"disabling", "stuck"}
=============================================================================
