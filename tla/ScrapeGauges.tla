---------------------------- MODULE ScrapeGauges ----------------------------
(***************************************************************************)
(* What the gauges up and last_scrape_error promise, of scrapes that       *)
(* overlap: each scrape ends with every DSN of its list scraped, failed or *)
(* refused, and then sets first up and then last_scrape_error from its own *)
(* results.  How it comes by its list, its servers and its results is left *)
(* open.                                                                   *)
(*                                                                         *)
(* Exporter.tla, the detailed model of Exporter.scrape, implements this    *)
(* module.                                                                 *)
(***************************************************************************)
CONSTANTS
    Scrape,  \* the requests
    DSN      \* the data source names

VARIABLES
    stage,   \* where a scrape is: "idle", "working" or "reporting"
    result,  \* what became of each DSN: "out" is not on the scrape's list
    psqlUp,  \* the gauge up
    errors   \* the gauge last_scrape_error

gaugeVars == <<stage, result, psqlUp, errors>>

Results == {"out", "todo", "scraped", "failed", "refused"}

GaugeInit ==
    /\ stage = [c \in Scrape |-> "idle"]
    /\ result = [c \in Scrape |-> [d \in DSN |-> "out"]]
    /\ psqlUp = 0
    /\ errors = 0

Start(c, list) ==
    /\ stage[c] = "idle"
    /\ stage' = [stage EXCEPT ![c] = "working"]
    /\ result' = [result EXCEPT ![c] = [d \in DSN |-> IF d \in list THEN "todo" ELSE "out"]]
    /\ UNCHANGED <<psqlUp, errors>>

Settle(c, d, r) ==
    /\ stage[c] = "working"
    /\ result[c][d] = "todo"
    /\ r \in {"scraped", "failed", "refused"}
    /\ result' = [result EXCEPT ![c] = [@ EXCEPT ![d] = r]]
    /\ UNCHANGED <<stage, psqlUp, errors>>

\* "able to connect": to one of its DSNs, and not if it has none.
ReportUp(c) ==
    /\ stage[c] = "working"
    /\ \A d \in DSN : result[c][d] # "todo"
    /\ stage' = [stage EXCEPT ![c] = "reporting"]
    /\ psqlUp' = IF \E d \in DSN : result[c][d] \in {"scraped", "failed"} THEN 1 ELSE 0
    /\ UNCHANGED <<result, errors>>

\* "resulted in an error": of any of its DSNs.
ReportErrors(c) ==
    /\ stage[c] = "reporting"
    /\ stage' = [stage EXCEPT ![c] = "idle"]
    /\ errors' = IF \E d \in DSN : result[c][d] \in {"failed", "refused"} THEN 1 ELSE 0
    /\ result' = [result EXCEPT ![c] = [d \in DSN |-> "out"]]
    /\ UNCHANGED psqlUp

GaugeNext ==
    \E c \in Scrape :
        \/ \E list \in SUBSET DSN : Start(c, list)
        \/ \E d \in DSN, r \in Results : Settle(c, d, r)
        \/ ReportUp(c)
        \/ ReportErrors(c)

GaugeSpec == GaugeInit /\ [][GaugeNext]_gaugeVars
=============================================================================
