-------------------------- MODULE MCCombinePipeline --------------------------
(* Instance of CombinePipeline for TLC. *)
EXTENDS CombinePipeline, TLC

CONSTANTS container1, container2, monday, tuesday, profit, stopped

TwoContainers == {container1, container2}
TwoTimes == {monday, tuesday}
TwoByTwo == Permutations(TwoContainers) \cup Permutations(TwoTimes)
TwoMeasures == {profit, stopped}
SecondLacksOne == <<{TwoMeasures}, {TwoMeasures, {profit}}>>
OneWrittenTwice == [results |-> <<1, 1>>, grid |-> <<1, 2>>]
=============================================================================
