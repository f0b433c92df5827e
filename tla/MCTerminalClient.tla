--------------------------- MODULE MCTerminalClient ---------------------------
(* A small instance of TerminalClient for TLC.                              *)
EXTENDS TerminalClient, TLC

(* Words are negative, so that a number is itself: eleven names, one that   *)
(* begins with a digit, "-", and three expressions.                          *)
Names(n)  == [i \in 1..n |-> -i]
digit_x   == -12
unclosed  == -13      \* (x*x
full      == -14      \* of 1000 bytes
long      == -15      \* of 1001
MCWords   == -15..-1

MCSpelling ==
    [word \in MCWords |->
        CASE word = -1      -> <<"_">>
          [] word = digit_x -> <<"digit", "letter">>
          [] word \in {unclosed, full, long} -> <<"letter", "other", "letter">>
          [] OTHER          -> <<"letter", "digit", "_">>]

All(n, bound)  == [i \in 1..n |-> bound]
LastName(word) == [Names(10) EXCEPT ![10] = word]

(* Blank; one number; and what lies at either side of a limit: eleven, two  *)
(* equal or ill-spelled names, bounds that are words, too few or equal.     *)
MCTexts ==
    0 :> {<<>>, <<0>>, <<7>>, <<unclosed>>, <<full>>, <<long>>}
    @@ 1 :> {<<>>, Names(10), Names(11), LastName(-1), LastName(digit_x), LastName(unclosed)}
    @@ 2 :> {<<>>, <<0, 3>>, Names(10), All(10, 0), All(11, 0)}
    @@ 3 :> {<<>>, [All(10, 1) EXCEPT ![7] = 0], All(10, 1), All(11, 1)}
    @@ 4 :> {<<>>, <<1>>, <<2>>, <<100000000>>, <<100000001>>}
    @@ 5 :> {<<>>, <<2000000001>>}
    @@ 6 :> {<<>>, <<0>>, <<1>>, <<1024>>, <<1025>>}

MCBytes       == [text \in MCTexts[0] |-> CASE text = <<full>> -> 1000
                                            [] text = <<long>> -> 1001
                                            [] OTHER           -> 4]
MCExpressions == {<<0>>, <<7>>, <<full>>, <<long>>}

(* For forms of pi.                                                         *)
FewTexts       == [field \in 0..6 |-> {<<>>, <<0>>, <<7>>}]
FewBytes       == [text \in FewTexts[0] |-> 1]
FewExpressions == {<<0>>, <<7>>}

(* A finished integration takes more lines than an estimate of pi, an       *)
(* intentional_failure has the JSON of its input.                           *)
Answer(task, variables, input_json, done) ==
    [task |-> task, variables |-> variables, input_json |-> input_json, result_json |-> 0,
     progress |-> task = "monte_carlo_integration", result |-> done]

MCAnswers ==
    {Answer("monte_carlo_pi", 0, 0, TRUE), Answer("monte_carlo_integration", 2, 0, TRUE),
     Answer("intentional_failure", 0, 3, FALSE)}
=============================================================================
