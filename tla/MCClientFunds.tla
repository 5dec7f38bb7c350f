--------------------------- MODULE MCClientFunds ---------------------------
(***************************************************************************)
(* The two parts of a client that keep its funds and share no state, in    *)
(* one instance for TLC: FundManager, which keeps escrow in the storage    *)
(* market, and Paych, which keeps payment channels.  The variable part     *)
(* says which of the two moves.                                            *)
(***************************************************************************)
EXTENDS FundManager, TLC

CONSTANTS q1, q2, w1, w2, Payments, Scenarios

VARIABLES part, want, pst, ctxDone, pgot, from, ready, queue, pprocs, job, chans, info, wait, pmsgs,
          balance, settled, crashed, pfaults

PM == INSTANCE Paych WITH Requests <- Payments, st <- pst, got <- pgot, procs <- pprocs, msgs <- pmsgs,
                          faults <- pfaults

ASSUME PaychAssumption == PM!PaychConstants

MCReqs == {q1, q2}
MCWallets == {w1, w2}

R(k, w, a) == [kind |-> k, wallet |-> w, amt |-> a]

\* Amounts 1 and 2: requests that fit together, and ones that do not; two
\* wallets, so that batches are split.
MCRequests == { R("reserve", w1, 1), R("reserve", w2, 2), R("withdraw", w1, 1) }

MCRegimes == {{"push", "exec", "crash"}, {"push", "avail", "wait", "midcrash", "save"}}

\* A payment that adds available funds, one that reserves, and one that only
\* reserves what is there.
Fund(a) == [amt |-> a, reserve |-> FALSE, offChain |-> FALSE]
Keep(a) == [amt |-> a, reserve |-> TRUE, offChain |-> FALSE]
Off(a) == [amt |-> a, reserve |-> TRUE, offChain |-> TRUE]

S(w, f) == [want |-> [r \in {"r1", "r2", "r3"} \cap DOMAIN w |-> w[r]], faults |-> f]

MCScenarios == {
    S([r1 |-> Fund(2), r2 |-> Keep(1), r3 |-> Off(2)], {"exec", "crash"}),
    S([r1 |-> Keep(1), r2 |-> Fund(1), r3 |-> Off(1)], {"race"}),
    S([r1 |-> Fund(3), r2 |-> Off(1), r3 |-> Off(2)], {"push"}),
    S([r1 |-> Fund(0), r2 |-> Keep(1), r3 |-> Fund(1)], {}),
    S([r1 |-> Keep(1), r2 |-> Fund(1)], {"settle", "exec", "state"}),
    S([r1 |-> Keep(1), r2 |-> Keep(2)], {"push", "wait", "midcrash"}) }

payVars == <<want, pst, ctxDone, pgot, from, ready, queue, pprocs, job, chans, info, wait, pmsgs,
             balance, settled, crashed, pfaults>>
allVars == <<vars, payVars, part>>

Kinds == <<R("reserve", w1, 1), R("reserve", w2, 2), R("withdraw", w1, 1)>>

\* The two calls of FundManager are interchangeable: of two assignments that
\* only swap them one is enough.  The part that does not move has one initial
\* state.
MCInit ==
    /\ Init /\ PM!Init
    /\ \E i, j \in 1..3 : i <= j /\ req[q1] = Kinds[i] /\ req[q2] = Kinds[j]
    /\ part \in {"market", "paych"}
    /\ part = "market" => pfaults = {"race"}
    /\ part = "paych" => faults = {"push", "exec", "crash"} /\ avail = 0 /\ req[q2] = Kinds[1]

FundManagerStep == part = "market" /\ Next /\ UNCHANGED <<part, payVars>>
PaychStep == part = "paych" /\ PM!Next /\ UNCHANGED <<part, vars>>

\* Goroutines run and the chain executes what was pushed.
MCSpec ==
    /\ MCInit /\ [][FundManagerStep \/ PaychStep]_allVars
    /\ WF_allVars(part = "market" /\ ProcessStep /\ UNCHANGED <<faults, part, payVars>>)
    /\ \A i \in 1..Cardinality(Reqs) :
          WF_allVars(part = "market" /\ i \in DOMAIN msgs /\ Execute(i) /\ UNCHANGED <<faults, part, payVars>>)
    /\ WF_allVars(part = "paych" /\ PM!JobRuns /\ UNCHANGED <<pfaults, part, vars>>)
    /\ \A m \in 1..Cardinality(Payments) :
          WF_allVars(part = "paych" /\ PM!MsgRuns(m) /\ UNCHANGED <<pfaults, part, vars>>)

\* The store knows what a payment channel holds on chain and which message will
\* change that.
StoreMatchesChain == PM!StoreMatchesChain

\* What callers were told is reserved for them in a channel is on chain and not
\* available to anybody else.
ReservedBacked == PM!ReservedBacked

\* Every GetPaych and GetPaychWaitReady call returns.
CallsReturn == PM!CallsReturn
=============================================================================
