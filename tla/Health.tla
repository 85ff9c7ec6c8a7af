------------------------------- MODULE Health -------------------------------
(***************************************************************************)
(* What executor.ts promises of a deployed integration (its header, lines  *)
(* 8-12): the state follows the outcomes of the newest runs.  A clean run  *)
(* makes it Running, three runs in a row that are not clean Degraded, and  *)
(* anything less leaves it alone.                                          *)
(***************************************************************************)
EXTENDS Naturals, Sequences

VARIABLES health, window    \* the state; at most the three newest outcomes

Init == health = "Deployed" /\ window = <<"succeeded">>

Newest3(s) == SubSeq(s, IF Len(s) > 3 THEN Len(s) - 2 ELSE 1, Len(s))

Record(outcome) ==
    /\ window' = Newest3(Append(window, outcome))
    /\ health' = IF outcome = "succeeded" THEN "Running"
                 ELSE IF Len(window') = 3 /\ \A i \in 1 .. 3 : window'[i] # "succeeded"
                 THEN "Degraded" ELSE health

Next == \E outcome \in {"succeeded", "failed", "timeout"} : Record(outcome)

Spec == Init /\ [][Next]_<<health, window>>
=============================================================================
