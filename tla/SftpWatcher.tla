---------------------------- MODULE SftpWatcher ----------------------------
(***************************************************************************)
(* The SFTP file-drop watcher of the runner                                *)
(* (packages/runner/src/sftp-watcher.ts): the timer that starts a tick, the*)
(* ticks as the chains of awaits they are, and the set of names seen, kept *)
(* in memory only.  The SFTP server and the row's state are external.      *)
(***************************************************************************)
EXTENDS Naturals, FiniteSets

CONSTANTS
    Integrations,   \* those with an sftp trigger
    Files,          \* names that match the pattern of the trigger
    Ticks           \* bound: ticks that could be in progress at one time

VARIABLES
    files,      \* what the server lists for each integration
    firable,    \* integrations whose row is Deployed, Running or Degraded
    primed,     \* the keys of the map seen
    seen,       \* its values
    inFlight,   \* the flag of startSftpWatcher
    ticks,      \* the ticks in progress
    fired,      \* history: how often a file fired in this life of the runner
    rows        \* history: the files that have a run row

vars == <<files, firable, primed, seen, inFlight, ticks, fired, rows>>
memory == <<primed, seen, inFlight, ticks, fired>>

Nothing == [i \in Integrations |-> {}]
Never   == [i \in Integrations |-> [f \in Files |-> 0]]

(* A tick: its pc, the integrations it has not checked, and of the one it  *)
(* checks the entries of the listing that are left and the one it fires.   *)
Tick(pc, todo, at, left, now) ==
    [pc |-> pc, todo |-> todo, at |-> at, left |-> left, now |-> now]

NoTick == Tick("idle", {}, {}, {}, {})

GoTo(k, t) == ticks' = [ticks EXCEPT ![k] = t]
-----------------------------------------------------------------------------
(* tick *)

(* Mutant of StartTick: ticks may overlap.                                 *)
StartTickAnyway(k) ==
    /\ ticks[k].pc = "idle"
    /\ inFlight' = TRUE
    /\ GoTo(k, Tick("list", {}, {}, {}, {}))
    /\ UNCHANGED <<files, firable, primed, seen, fired, rows>>

(* The timer, or a caller of tick: the list of integrations is awaited.    *)
StartTick(k) ==
    /\ ticks[k].pc = "idle"
    /\ ~inFlight
    /\ inFlight' = TRUE
    /\ GoTo(k, Tick("list", {}, {}, {}, {}))
    /\ UNCHANGED <<files, firable, primed, seen, fired, rows>>

ListIntegrations(k) ==
    /\ ticks[k].pc = "list"
    /\ GoTo(k, Tick("loop", firable, {}, {}, {}))
    /\ UNCHANGED <<files, firable, primed, seen, inFlight, fired, rows>>

(* finally: also when listIntegrations threw.                              *)
EndTick(k) ==
    /\ \/ ticks[k].pc = "loop" /\ ticks[k].todo = {}
       \/ ticks[k].pc = "list"
    /\ inFlight' = FALSE
    /\ GoTo(k, NoTick)
    /\ UNCHANGED <<files, firable, primed, seen, fired, rows>>

(* Mutant of List: every listing is taken for the first one.               *)
ListAlwaysPrimes(k, i) ==
    /\ ticks[k].pc = "loop" /\ i \in ticks[k].todo
    /\ primed' = primed \cup {i}
    /\ seen' = [seen EXCEPT ![i] = files[i]]
    /\ GoTo(k, Tick("loop", ticks[k].todo \ {i}, {}, {}, {}))
    /\ UNCHANGED <<files, firable, inFlight, fired, rows>>

(* checkOne got the listing.  The first one of an integration only primes. *)
List(k, i) ==
    /\ ticks[k].pc = "loop" /\ i \in ticks[k].todo
    /\ IF i \in primed
       THEN /\ GoTo(k, Tick("files", ticks[k].todo \ {i}, {i}, files[i], {}))
            /\ UNCHANGED <<primed, seen>>
       ELSE /\ primed' = primed \cup {i}
            /\ seen' = [seen EXCEPT ![i] = files[i]]
            /\ GoTo(k, Tick("loop", ticks[k].todo \ {i}, {}, {}, {}))
    /\ UNCHANGED <<files, firable, inFlight, fired, rows>>

(* No credentials, no connection, no listing: checkOne returns or throws.  *)
CheckFails(k, i) ==
    /\ ticks[k].pc = "loop" /\ i \in ticks[k].todo
    /\ GoTo(k, Tick("loop", ticks[k].todo \ {i}, {}, {}, {}))
    /\ UNCHANGED <<files, firable, primed, seen, inFlight, fired, rows>>

(* The next entry of the listing: a name not seen is fired.                *)
StartFire(k, i, f) ==
    /\ ticks[k].pc = "files" /\ i \in ticks[k].at /\ f \in ticks[k].left
    /\ IF f \in seen[i]
       THEN /\ GoTo(k, [ticks[k] EXCEPT !.left = @ \ {f}])
            /\ UNCHANGED fired
       ELSE /\ fired' = [fired EXCEPT ![i][f] = @ + 1]
            /\ GoTo(k, [ticks[k] EXCEPT !.pc = "firing", !.left = @ \ {f}, !.now = {f}])
    /\ UNCHANGED <<files, firable, primed, seen, inFlight, rows>>

(* fireIntegration ended, well or not, and finally marks the name.  A row  *)
(* is inserted only past the guards of fireIntegration.                    *)
EndFire(k, i, f) ==
    /\ ticks[k].pc = "firing" /\ i \in ticks[k].at /\ f \in ticks[k].now
    /\ rows' = IF i \in firable THEN rows \cup {<<i, f>>} ELSE rows
    /\ seen' = [seen EXCEPT ![i] = @ \cup {f}]
    /\ GoTo(k, [ticks[k] EXCEPT !.pc = "files", !.now = {}])
    /\ UNCHANGED <<files, firable, primed, inFlight, fired>>

EndCheck(k) ==
    /\ ticks[k].pc = "files" /\ ticks[k].left = {}
    /\ GoTo(k, Tick("loop", ticks[k].todo, {}, {}, {}))
    /\ UNCHANGED <<files, firable, primed, seen, inFlight, fired, rows>>

(* The process dies and starts again.                                      *)
Restart ==
    /\ primed' = {} /\ seen' = Nothing /\ inFlight' = FALSE
    /\ ticks' = [k \in Ticks |-> NoTick]
    /\ fired' = Never
    /\ UNCHANGED <<files, firable, rows>>
-----------------------------------------------------------------------------
(* Files come and go, integrations are deployed and taken back.            *)
Drop(i, f) ==
    /\ files' = [files EXCEPT ![i] = (@ \cup {f}) \ (@ \cap {f})]
    /\ UNCHANGED <<firable, rows, memory>>

Deploy(i) ==
    /\ firable' = (firable \cup {i}) \ (firable \cap {i})
    /\ UNCHANGED <<files, rows, memory>>

Init ==
    /\ files \in [Integrations -> SUBSET Files]
    /\ firable = {} /\ primed = {} /\ seen = Nothing
    /\ inFlight = FALSE
    /\ ticks = [k \in Ticks |-> NoTick]
    /\ fired = Never /\ rows = {}

TickStep(k) ==
    \/ ListIntegrations(k) \/ EndTick(k) \/ EndCheck(k)
    \/ \E i \in Integrations : CheckFails(k, i)

FireStep(k) == \E i \in Integrations, f \in Files : StartFire(k, i, f) \/ EndFire(k, i, f)

Next ==
    \/ \E k \in Ticks : StartTick(k) \/ TickStep(k) \/ FireStep(k)
                        \/ \E i \in Integrations : List(k, i)
    \/ Restart
    \/ \E i \in Integrations : Deploy(i) \/ \E f \in Files : Drop(i, f)

Spec == Init /\ [][Next]_vars

(* The timer keeps firing and Node goes on with a tick; a query or a       *)
(* connection that is tried again and again works now and then.            *)
Fairness ==
    /\ WF_vars(\E k \in Ticks : StartTick(k))
    /\ \A k \in Ticks :
        /\ WF_vars(TickStep(k)) /\ WF_vars(FireStep(k)) /\ SF_vars(ListIntegrations(k))
        /\ \A i \in Integrations : SF_vars(List(k, i))

FairSpec == Spec /\ Fairness
-----------------------------------------------------------------------------
TypeOK ==
    /\ files \in [Integrations -> SUBSET Files]
    /\ firable \subseteq Integrations /\ primed \subseteq Integrations
    /\ seen \in [Integrations -> SUBSET Files]
    /\ inFlight \in BOOLEAN
    /\ ticks \in [Ticks -> [pc : {"idle", "list", "loop", "files", "firing"},
                            todo : SUBSET Integrations, at : SUBSET Integrations,
                            left : SUBSET Files, now : SUBSET Files]]
    /\ fired \in [Integrations -> [Files -> 0 .. 2]]
    /\ rows \subseteq Integrations \X Files

(* Between two restarts a file name fires at most once, also when its fire *)
(* failed, the name went away and came back, the integration was demoted   *)
(* and deployed again, or a tick took longer than the interval.            *)
FiresAtMostOnce == \A i \in Integrations, f \in Files : fired[i][f] <= 1

(* A file that shows up after the first listing, and stays while the       *)
(* integration is firable, fires in the end unless the runner restarts.    *)
NewFileFires ==
    \A i \in Integrations, f \in Files :
        i \in primed /\ f \in files[i] \ seen[i]
            ~> \/ fired[i][f] > 0
               \/ f \notin files[i] \/ i \notin firable \/ i \notin primed
=============================================================================
