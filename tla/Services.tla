------------------------------ MODULE Services ------------------------------
(***************************************************************************)
(* What runs around the business of the members: the market data jobs and  *)
(* their readers, and the gateway of the HTTP APIs.  The two share no      *)
(* state, so one of them runs, chosen at the start.                        *)
(***************************************************************************)
EXTENDS MarketData, Gateway

VARIABLE part  \* "jobs" or "gateway"

vars == <<part, now, enabled, proc, starts, job, store, cached, published, rate,
          faults, asked, rpc, flight, effects, answers>>

Init == MarketInit /\ GatewayInit /\ part \in {"jobs", "gateway"}

Next ==
    /\ UNCHANGED part
    /\ \/ part = "jobs" /\ MarketNext /\ UNCHANGED gatewayVars
       \/ part = "gateway" /\ GatewayNext /\ UNCHANGED marketVars

InJobs(A) == part = "jobs" /\ A /\ UNCHANGED <<part, gatewayVars>>
InGateway(A) == part = "gateway" /\ A /\ UNCHANGED <<part, marketVars>>

\* Goroutines run, every call returns (it has a timeout), tickers tick, and a select
\* that finds both its channels ready again and again takes each of them.  A handler
\* that can go on does, and timers expire; no service has to answer.
Fairness ==
    /\ \A j \in Jobs : WF_vars(InJobs(Tick(j))) /\ SF_vars(InJobs(Done(j)))
    /\ \A j \in Periods : WF_vars(InJobs(Step(j) \/ CallFails(j)))
    /\ WF_vars(InJobs(RateStep \/ CallFails(RateJob)))
    /\ WF_vars(InJobs(Close)) /\ WF_vars(InJobs(Exit))
    /\ WF_vars(InGateway(GatewayStep)) /\ WF_vars(InGateway(Deadline))

Spec == Init /\ [][Next]_vars /\ Fairness
=============================================================================
