------------------------------ MODULE HitStats ----------------------------
(***************************************************************************)
(* How well the router predicts the engines' caches                        *)
(* (crates/router-server/src/metrics.rs, engine_metrics.rs and             *)
(* prometheus_text.rs): the block counters and the per-worker statistics   *)
(* that finished requests feed, and the scraper that sets the engine's hit *)
(* rate beside the predicted one. A rate is kept as the fraction it is, a  *)
(* prediction error as its two rates.                                      *)
(***************************************************************************)
EXTENDS MockEngine

CONSTANTS Expositions,    \* what GET /metrics of an engine may answer
          MetricName,     \* engine_cache_hit_metric
          None

ASSUME HitStatsAssumption == None \notin [hits : Nat, prompts : Nat]

VARIABLES hit_blocks,       \* kvrouter_cache_hit_blocks
          prompt_blocks,    \* kvrouter_prompt_blocks_total
          hit_stats,        \* worker -> cumulative hit and prompt blocks
          gauges,           \* worker -> the three hit rate gauges
          scraper           \* the scraper's locals

counterVars == <<hit_blocks, prompt_blocks, hit_stats>>
gaugeVars == <<gauges, scraper>>
statsVars == <<counterVars, gaugeVars>>

(***************************************************************************)
(* metrics.rs                                                              *)
(***************************************************************************)
record_cache_hit_blocks(n) ==
    hit_blocks' = hit_blocks + n /\ UNCHANGED <<prompt_blocks, hit_stats>>

record_prompt_blocks(n) ==
    prompt_blocks' = prompt_blocks + n /\ UNCHANGED <<hit_blocks, hit_stats>>

HitStatsOverwritten(w, matched, blocks) ==
    /\ hit_stats' = [hit_stats EXCEPT ![w] = [hits |-> matched, prompts |-> blocks]]
    /\ UNCHANGED <<hit_blocks, prompt_blocks>>

\* One lock over both numbers.
record_hit_stats(w, matched, blocks) ==
    /\ hit_stats' = [hit_stats EXCEPT ![w] = [hits |-> @.hits + matched,
                                              prompts |-> @.prompts + blocks]]
    /\ UNCHANGED <<hit_blocks, prompt_blocks>>

predicted_cache_hit_rate(w) ==
    IF hit_stats[w].prompts > 0 THEN hit_stats[w] ELSE None

(***************************************************************************)
(* prometheus_text.rs: a line is a name and what follows it: nothing       *)
(* ("bare"), something that is not a number ("text"), or a number.         *)
(***************************************************************************)
find_metric(text) ==
    LET series == SelectSeq(text, LAMBDA line : line.name = MetricName)
        values == SelectSeq(series, LAMBDA line : line.kind = "number")
    IN IF values = <<>> \/ \E i \in DOMAIN series : series[i].kind = "bare"
       THEN None
       ELSE [sum |-> FoldSeq(LAMBDA line, s : s + line.value, 0, values),
             count |-> Len(values)]

(***************************************************************************)
(* engine_metrics.rs: rounds over a snapshot of the registry, in id order  *)
(***************************************************************************)
Sleeping == [pc |-> "next", left |-> {}, worker |-> None, rate |-> None]

ScrapeRound ==
    /\ scraper.pc = "next" /\ scraper.left = {}
    /\ scraper' = [Sleeping EXCEPT !.left = Workers]
    /\ UNCHANGED <<counterVars, gauges>>

\* Workers that are not healthy are skipped.
ScrapeNext(healthy) ==
    /\ scraper.pc = "next" /\ scraper.left # {}
    /\ LET w == Min(scraper.left)
       IN scraper' = [Sleeping EXCEPT !.left = scraper.left \ {w},
                                      !.pc = IF w \in healthy THEN "answer" ELSE "next",
                                      !.worker = IF w \in healthy THEN w ELSE None]
    /\ UNCHANGED <<counterVars, gauges>>

NextWorker == scraper' = [Sleeping EXCEPT !.left = scraper.left]

\* The engine answers, and its rate, if the answer has one, is set at once; an
\* engine that is down or answers with an error is passed over.
ScrapeAnswer ==
    /\ scraper.pc = "answer"
    /\ LET w == scraper.worker
       IN \/ NextWorker /\ UNCHANGED gauges
          \/ /\ w \in up
             /\ \E text \in Expositions :
                  /\ find_metric(text) # None
                  /\ gauges' = [gauges EXCEPT ![w].engine = find_metric(text)]
                  /\ scraper' = [scraper EXCEPT !.pc = "predict", !.rate = find_metric(text)]
    /\ UNCHANGED counterVars

\* Without traffic there is no prediction and no error to set.
ScrapePredict ==
    /\ scraper.pc = "predict"
    /\ LET w == scraper.worker
           predicted == predicted_cache_hit_rate(w)
       IN IF predicted = None
          THEN NextWorker /\ UNCHANGED gauges
          ELSE /\ gauges' = [gauges EXCEPT ![w].predicted = predicted]
               /\ scraper' = [scraper EXCEPT !.pc = "error"]
    /\ UNCHANGED counterVars

ScrapeErrorRereads ==
    /\ scraper.pc = "error"
    /\ gauges' = [gauges EXCEPT ![scraper.worker].error =
                    <<predicted_cache_hit_rate(scraper.worker), scraper.rate>>]
    /\ NextWorker
    /\ UNCHANGED counterVars

\* set_hit_rate_prediction_error(predicted - rate)
ScrapeError ==
    /\ scraper.pc = "error"
    /\ gauges' = [gauges EXCEPT ![scraper.worker].error =
                    <<gauges[scraper.worker].predicted, scraper.rate>>]
    /\ NextWorker
    /\ UNCHANGED counterVars

ScrapeSteps(healthy) ==
    ScrapeNext(healthy) \/ ScrapeAnswer \/ ScrapePredict \/ ScrapeError

StatsInit ==
    /\ hit_blocks = 0 /\ prompt_blocks = 0
    /\ hit_stats = [w \in Workers |-> [hits |-> 0, prompts |-> 0]]
    /\ gauges = [w \in Workers |-> [engine |-> None, predicted |-> None, error |-> None]]
    /\ scraper = Sleeping
===========================================================================
