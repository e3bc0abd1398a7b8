-------------------------- MODULE MCAlertPipeline --------------------------
(* Instance of AlertPipeline for TLC: the rules of AlertTestMain and TrendlineTest. *)
EXTENDS AlertPipeline

CONSTANT eth

OneMarket == {eth}

AllRules == {
    [kind |-> "above", num |-> 1, rate |-> 12],
    [kind |-> "below", num |-> 1, rate |-> 9],
    [kind |-> "volatility", num |-> 2, percent |-> 20],
    [kind |-> "trendline", num |-> 1, above |-> TRUE, from |-> 1, to |-> 3, rate |-> 10, slope |-> 1],
    [kind |-> "average", num |-> 3, quick |-> 1],
    [kind |-> "difference", num |-> 3, quick |-> 2, percent |-> 10]}
=============================================================================
