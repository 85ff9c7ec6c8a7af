------------------------------ MODULE Lifecycle ------------------------------
(***************************************************************************)
(* What the row of an integration promises to those who only read it (the  *)
(* API, the runner, the user interface), whichever TemporalClient the      *)
(* control plane was given: Tested means that a version came through the   *)
(* sandbox, a state in which the runner fires comes with a version to      *)
(* fire, and versions and their clean runs never go away.                  *)
(***************************************************************************)
CONSTANTS Versions, NoVersion

VARIABLES
    state,      \* integrations.state
    current,    \* integrations.current_version_id
    known,      \* the versions of the integration
    passed      \* those with a run that succeeded

Init == state = "Draft" /\ current = NoVersion /\ known = {} /\ passed = {}

Generate(v) ==
    /\ known' = known \cup {v}
    /\ UNCHANGED <<state, current, passed>>

Pass(v) ==
    /\ v \in known
    /\ passed' = passed \cup {v}
    /\ UNCHANGED <<state, current, known>>

Pin(v) ==
    /\ v \in known
    /\ current' = v
    /\ UNCHANGED <<state, known, passed>>

Enter(s) ==
    /\ s = "Tested" => passed # {}
    /\ s \in {"Deployed", "Running", "Degraded"} => current # NoVersion
    /\ state' = s
    /\ UNCHANGED <<current, known, passed>>

States == {"Draft", "Generating", "Tested", "Approved", "Building",
           "Deployed", "Running", "Degraded", "Retired"}

Next == \/ \E v \in Versions : Generate(v) \/ Pass(v) \/ Pin(v)
        \/ \E s \in States : Enter(s)

Spec == Init /\ [][Next]_<<state, current, known, passed>>
=============================================================================
