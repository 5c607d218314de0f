----------------------------- MODULE Evaluation -----------------------------
(***************************************************************************)
(* `agent eval run` and `agent eval baseline` (GSagent/main.py) over one   *)
(* dataset and its baseline: load_dataset, run_dataset, compute_metrics,   *)
(* compare_baseline and the baseline's file (GSagent/core/eval), in any    *)
(* number of processes, while somebody edits the dataset.                  *)
(*                                                                         *)
(* A case is its set of tags.  A rate is a pair, numerator and             *)
(* denominator.  The baseline's file is written by opening, which empties  *)
(* it, and by filling it.                                                  *)
(***************************************************************************)
EXTENDS Integers, Sequences, FiniteSets

CONSTANTS
  Jobs,        \* processes
  Datasets     \* contents of the dataset: sequences of sets of tags

Tags == {"normal", "boundary", "error"}
Verdicts == {"pass", "hallucination", "false_reject", "error"}

ASSUME EvaluationAssumption == Datasets \subseteq Seq(SUBSET (Tags \cup {"other"}))

\* _validate: what one case may break, every other rule of it may as well
Accepted(cs) == \A i \in DOMAIN cs : cs[i] \subseteq Tags

VARIABLES
  cases,      \* what the dataset holds
  baseline,   \* the baseline's file
  job         \* what each process is doing

evalVars == <<cases, baseline, job>>

\* what the model says to a case, as judge_actual tells replies apart
Reply == [raises : BOOLEAN, empty : BOOLEAN, refuses : BOOLEAN, expected : BOOLEAN]

\* a refusing word anywhere decides before the expected text is looked for
Judge(r) ==
  CASE r.raises -> "error"
    [] ~r.raises /\ (r.empty \/ r.refuses) -> "false_reject"
    [] ~r.raises /\ ~r.empty /\ ~r.refuses /\ r.expected -> "pass"
    [] OTHER -> "hallucination"

Rate(some, all) == <<Cardinality(some), IF all = {} THEN 1 ELSE Cardinality(all)>>

Tagged(cs, tag) == {i \in DOMAIN cs : tag \in cs[i]}
Judged(vs, v) == {i \in DOMAIN vs : vs[i] = v}

MetricsOfAll(cs, vs) ==                \* mutant: boundary cases count as well
  [completion    |-> Rate(Tagged(cs, "normal") \cap Judged(vs, "pass"), Tagged(cs, "normal")),
   hallucination |-> Rate(Judged(vs, "hallucination"), DOMAIN cs),
   reject        |-> Rate(Judged(vs, "false_reject"), DOMAIN cs)]

Metrics(cs, vs) ==
  LET plain == DOMAIN cs \ Tagged(cs, "boundary")
  IN  [completion    |-> Rate(Tagged(cs, "normal") \cap Judged(vs, "pass"),
                              Tagged(cs, "normal")),
       hallucination |-> Rate(plain \cap Judged(vs, "hallucination"), plain),
       reject        |-> Rate(Judged(vs, "false_reject"), DOMAIN cs)]

\* r < s - 0.001
Below(r, s) == 1000 * (s[1] * r[2] - r[1] * s[2]) > r[2] * s[2]

Regressions(now, base) ==
  {m \in {"completion", "hallucination", "reject"} :
     IF m = "completion" THEN Below(now[m], base[m]) ELSE Below(base[m], now[m])}

-----------------------------------------------------------------------------
NoJob == [pc |-> "idle"]

\* metrics are those of the verdicts vs on the cases cs
File(state, cs, vs) == [state |-> state, cases |-> cs, verdicts |-> vs, metrics |-> Metrics(cs, vs)]
NoFile == File("missing", <<>>, <<>>)
Emptied == File("torn", <<>>, <<>>)

Metric == Nat \X (Nat \ {0})

Job ==
  [pc : {"ask", "compare", "open", "fill"}, cases : Datasets, verdicts : Seq(Verdicts)]

EvalTypeOK ==
  /\ cases \in Datasets
  /\ baseline.state \in {"missing", "torn", "whole"}
  /\ baseline.cases \in Datasets \cup {<<>>} /\ baseline.verdicts \in Seq(Verdicts)
  /\ \A m \in DOMAIN baseline.metrics : baseline.metrics[m] \in Metric
  /\ job \in [Jobs -> {NoJob} \cup Job]

EvalInit ==
  /\ cases \in Datasets
  /\ baseline = NoFile
  /\ job = [j \in Jobs |-> NoJob]

Moves(j, to) == job' = [job EXCEPT ![j] = to]

\* load_dataset; one that is not accepted ends the command
LoadCases(j) ==
  /\ job[j] = NoJob /\ Accepted(cases)
  /\ Moves(j, [pc |-> "ask", cases |-> cases, verdicts |-> <<>>])
  /\ UNCHANGED <<cases, baseline>>

\* run_dataset: a case that raises does not end the others
AskAll(j, to) ==
  /\ job[j].pc = "ask"
  /\ \E vs \in [DOMAIN job[j].cases -> {Judge(r) : r \in Reply}] :
       Moves(j, [pc |-> to, cases |-> job[j].cases, verdicts |-> vs])
  /\ UNCHANGED <<cases, baseline>>

\* load_baseline, compare_baseline and the report of `agent eval run`
Told(j) ==
  IF baseline.state # "whole" THEN "no_baseline"
  ELSE IF Regressions(Metrics(job[j].cases, job[j].verdicts), baseline.metrics) = {}
       THEN "none" ELSE "regressed"

ReportRun(j) ==
  /\ job[j].pc = "compare" /\ Moves(j, NoJob)
  /\ UNCHANGED <<cases, baseline>>

\* save_baseline
OpenBaseline(j) ==
  /\ job[j].pc = "open" /\ Moves(j, [job[j] EXCEPT !.pc = "fill"])
  /\ baseline' = Emptied
  /\ UNCHANGED cases

\* what another has written since stays behind what is shorter
FillBaseline(j) ==
  /\ job[j].pc = "fill" /\ Moves(j, NoJob)
  /\ \/ baseline' = File("whole", job[j].cases, job[j].verdicts)
     \/ baseline.state = "whole" /\ baseline' = Emptied
  /\ UNCHANGED cases

JobDies(j) ==
  /\ job[j] # NoJob /\ Moves(j, NoJob)
  /\ UNCHANGED <<cases, baseline>>

Edit ==
  /\ cases' \in Datasets
  /\ UNCHANGED <<baseline, job>>

EvalNext ==
  \/ Edit
  \/ \E j \in Jobs :
       \/ LoadCases(j) \/ ReportRun(j) \/ OpenBaseline(j) \/ FillBaseline(j) \/ JobDies(j)
       \/ \E to \in {"compare", "open"} : AskAll(j, to)

EvalSpec == EvalInit /\ [][EvalNext]_evalVars

-----------------------------------------------------------------------------
(* Properties.                                                             *)

\* what docs/requirements.md:175 has the three rates measure
Faults(cs, vs) ==
  {<<"unsolved", i>> : i \in Tagged(cs, "normal") \ Judged(vs, "pass")}
    \cup {<<"invented", i>> : i \in Judged(vs, "hallucination") \ Tagged(cs, "boundary")}
    \cup {<<"refused", i>> : i \in Judged(vs, "false_reject")}

\* Whoever else writes the baseline, and whatever dies: of a run over the
\* cases its baseline was taken from, a regression is told when it has all
\* the faults of that run and more, and none is when it has no new fault
\* (compute_metrics and compare_baseline, metrics.py:43-128; main.py:1476-1481).
RegressionTold ==
  \A j \in Jobs :
    job[j].pc = "compare" /\ baseline.state = "whole" /\ baseline.cases = job[j].cases =>
      LET before == Faults(baseline.cases, baseline.verdicts)
          now == Faults(job[j].cases, job[j].verdicts)
      IN  /\ before \subseteq now /\ before # now => Told(j) = "regressed"
          /\ now \subseteq before => Told(j) = "none"

-----------------------------------------------------------------------------
(* What the code says of itself and does not do.                           *)

\* runner.py:7: a reply that holds what its case expects passes.
\* eval/datasets/customs.yaml:90-93 expects a refusal, which cannot.
ExpectedPasses ==
  \A r \in Reply : ~r.raises /\ ~r.empty /\ r.expected => Judge(r) = "pass"
=============================================================================
