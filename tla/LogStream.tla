------------------------------ MODULE LogStream ------------------------------
(***************************************************************************)
(* The live log of one integration: the server-sent event stream of the    *)
(* API (packages/api/src/routes/runs.ts) and the component of the UI that  *)
(* reads it (packages/ui/components/LogStream.tsx).                        *)
(*                                                                         *)
(* The rows it reads are written by the workflow and the runner at any     *)
(* moment.  The browser's EventSource is external: a connection may break, *)
(* one that ends is opened again, an answer other than 200 is not retried. *)
(***************************************************************************)
EXTENDS Naturals, Sequences, FiniteSets

CONSTANTS
    Runs,      \* bound: the runs of the integration, oldest first
    Streams    \* bound: generators of the server that exist at one time

ASSUME RunsAssumption    == Runs \subseteq Nat
ASSUME StreamsAssumption == Streams \subseteq Nat \ {0}

VARIABLES
    active,    \* integrations.state is in ACTIVE_STATES
    rows,      \* runs: status; stdout comes with the final one
    streams,   \* the generators
    sent,      \* cursors: what each generator has sent of each run
    ui,        \* the component: mounted, its state, its EventSource
    calm       \* from now on connections hold and queries are answered

vars == <<active, rows, streams, sent, ui, calm>>

Statuses == {"absent", "running", "finished"}
Nobody   == [r \in Runs |-> "absent"]
Nothing  == [r \in Runs |-> <<>>]
NoStream == 0

(* A generator: the await it has reached, the state and the rows it read,  *)
(* the rows still to be compared with its cursors, whether req was closed, *)
(* and, as history, which runs were finished when it read the state.       *)
Gen(pc, act, list, todo, stopped, before) ==
    [pc |-> pc, act |-> act, list |-> list, todo |-> todo, stopped |-> stopped,
     before |-> before]

Fresh == Gen("start", TRUE, Nobody, {}, FALSE, {})

Over(s) == streams[s].pc \in {"free", "done", "cut"}

Continue(s, g) == streams' = [streams EXCEPT ![s] = g]

(* The generator is gone, and its cursors with it.                         *)
Cut(s) ==
    /\ Continue(s, Gen("cut", TRUE, Nobody, {}, FALSE, {}))
    /\ sent' = [sent EXCEPT ![s] = Nothing]
    /\ UNCHANGED <<active, rows, ui, calm>>

Finished == {r \in Runs : rows[r] = "finished"}
-----------------------------------------------------------------------------
(* The rows *)

CreateRun(r) ==
    /\ rows[r] = "absent"
    /\ \A q \in Runs : q < r => rows[q] # "absent"
    /\ rows' = [rows EXCEPT ![r] = "running"]
    /\ UNCHANGED <<active, streams, sent, ui, calm>>

(* updateRun: status, stdout and stderr in one statement.                  *)
FinishRun(r) ==
    /\ rows[r] = "running"
    /\ rows' = [rows EXCEPT ![r] = "finished"]
    /\ UNCHANGED <<active, streams, sent, ui, calm>>

SetState ==
    /\ active' = ~active
    /\ UNCHANGED <<rows, streams, sent, ui, calm>>
-----------------------------------------------------------------------------
(* The generator *)

(* Mutant of Expire: there is no cap.                                      *)
ExpireNever(s) ==
    /\ streams[s].pc \in {"start", "head"} /\ streams[s].stopped
    /\ Cut(s)

(* The loop ends: the client has gone, or MAX_STREAM_MS are over, which    *)
(* they are not before the first pass.                                     *)
Expire(s) ==
    /\ \/ streams[s].pc = "head"
       \/ streams[s].pc = "start" /\ streams[s].stopped
    /\ Cut(s)

(* getIntegration                                                          *)
ReadState(s) ==
    /\ streams[s].pc \in {"start", "head"} /\ ~streams[s].stopped
    /\ Continue(s, Gen("list", active, Nobody, {}, FALSE, Finished))
    /\ UNCHANGED <<active, rows, sent, ui, calm>>

(* Mutant of List: only the newest run is read.                            *)
ListNewest(s) ==
    /\ streams[s].pc = "list"
    /\ Continue(s, [streams[s] EXCEPT !.pc = "emit", !.list = rows,
            !.todo = {r \in Runs : rows[r] # "absent" /\ \A q \in Runs :
                                        q > r => rows[q] = "absent"}])
    /\ UNCHANGED <<active, rows, sent, ui, calm>>

(* listRunsForIntegration                                                  *)
List(s) ==
    /\ streams[s].pc = "list"
    /\ Continue(s, [streams[s] EXCEPT !.pc = "emit", !.list = rows,
                        !.todo = {r \in Runs : rows[r] # "absent"}])
    /\ UNCHANGED <<active, rows, sent, ui, calm>>

(* One of the two queries throws, and the generator with it.               *)
QueryFails(s) ==
    /\ ~calm
    /\ streams[s].pc \in {"start", "head", "list"}
    /\ Cut(s)

(* Mutant of News: the cursor of the output is not kept.                   *)
NewsAgain(before, status) ==
    (IF status = "finished" THEN <<"output">> ELSE <<>>)
    \o (IF before # <<>> /\ before[Len(before)] = status THEN <<>> ELSE <<status>>)

(* What a run row has to say after what was sent of it before.             *)
News(before, status) ==
    IF before # <<>> /\ before[Len(before)] = status THEN <<>>
    ELSE IF status = "finished" THEN <<"output", "finished">> ELSE <<status>>

(* The newest row left is compared with its cursor.                        *)
Emit(s, r) ==
    /\ streams[s].pc = "emit" /\ r \in streams[s].todo
    /\ \A q \in streams[s].todo : q <= r
    /\ sent' = [sent EXCEPT ![s][r] = @ \o News(@, streams[s].list[r])]
    /\ Continue(s, [streams[s] EXCEPT !.todo = @ \ {r}])
    /\ UNCHANGED <<active, rows, ui, calm>>

(* done, if the state that was read is not an active one; or sleep.        *)
EndOfPass(s) ==
    /\ streams[s].pc = "emit" /\ streams[s].todo = {}
    /\ Continue(s, IF streams[s].act
                   THEN Gen("head", TRUE, Nobody, {}, streams[s].stopped, {})
                   ELSE Gen("done", FALSE, Nobody, {}, FALSE, streams[s].before))
    /\ UNCHANGED <<active, rows, sent, ui, calm>>

(* Nobody takes the events of a closed connection any more.                *)
Abandon(s) ==
    /\ streams[s].pc = "emit" /\ streams[s].stopped
    /\ Cut(s)

Pass(s) == \/ ReadState(s) \/ List(s) \/ EndOfPass(s)
           \/ \E r \in Runs : Emit(s, r)
-----------------------------------------------------------------------------
(* The component *)

(* listRuns for the lines shown first; its failure is swallowed.  A        *)
(* component that was unmounted meanwhile goes on only if it failed.       *)
Seed ==
    /\ ui.es = "seeding"
    /\ \/ ui' = [ui EXCEPT !.es = IF ui.mounted THEN "opening" ELSE "none"]
       \/ ui' = [ui EXCEPT !.es = "opening"]
    /\ UNCHANGED <<active, rows, streams, sent, calm>>

(* Mutant of Unmount: the EventSource is forgotten without being closed.   *)
UnmountOpen ==
    /\ ui.mounted
    /\ ui' = [ui EXCEPT !.mounted = FALSE, !.stream = NoStream]
    /\ UNCHANGED <<active, rows, streams, sent, calm>>

(* The clean-up of the effect.                                             *)
Unmount ==
    /\ ui.mounted
    /\ ui' = [ui EXCEPT !.mounted = FALSE,
                        !.es = IF ui.es = "seeding" THEN @ ELSE "none",
                        !.stream = NoStream]
    /\ streams' = [s \in Streams |->
            IF s = ui.stream /\ ~Over(s) THEN [streams[s] EXCEPT !.stopped = TRUE]
            ELSE streams[s]]
    /\ UNCHANGED <<active, rows, sent, calm>>

(* The request of the EventSource: the handler finds the integration and   *)
(* starts a generator, which says connected.                               *)
Connect(s) ==
    /\ ui.es = "opening"
    /\ Over(s)
    /\ Continue(s, Fresh)
    /\ sent' = [sent EXCEPT ![s] = Nothing]
    /\ ui' = [ui EXCEPT !.es = "open", !.stream = s,
                        !.conn = IF ui.mounted THEN "live" ELSE @]
    /\ UNCHANGED <<active, rows, calm>>

(* The request did not get an answer: it is made again.  The handler threw *)
(* and answered 500: it is not.                                            *)
ConnectFails ==
    /\ ~calm
    /\ ui.es = "opening"
    /\ \E next \in {"opening", "dead"} :
        ui' = [ui EXCEPT !.es = next, !.conn = IF ui.mounted THEN "lost" ELSE @]
    /\ UNCHANGED <<active, rows, streams, sent, calm>>

Lost == [ui EXCEPT !.es = "opening", !.stream = NoStream,
                   !.conn = IF ui.mounted THEN "lost" ELSE @]

(* Mutant of Receive: the listener does not close the EventSource.         *)
ReceiveKeepsOpen(s) ==
    /\ ui.es = "open" /\ ui.stream = s
    /\ streams[s].pc \in {"done", "cut"}
    /\ ui' = Lost
    /\ UNCHANGED <<active, rows, streams, sent, calm>>

(* The end of the stream arrives: after done the component closes, unless  *)
(* it was unmounted; otherwise the browser reconnects.                     *)
Receive(s) ==
    /\ ui.es = "open" /\ ui.stream = s
    /\ streams[s].pc \in {"done", "cut"}
    /\ ui' = IF streams[s].pc = "done" /\ ui.mounted
             THEN [ui EXCEPT !.es = "none", !.stream = NoStream, !.conn = "idle"]
             ELSE Lost
    /\ UNCHANGED <<active, rows, streams, sent, calm>>

(* The connection breaks; the server notices.                              *)
Break(s) ==
    /\ ~calm
    /\ ui.es = "open" /\ ui.stream = s
    /\ ~Over(s)
    /\ ui' = Lost
    /\ Continue(s, [streams[s] EXCEPT !.stopped = TRUE])
    /\ UNCHANGED <<active, rows, sent, calm>>
-----------------------------------------------------------------------------
Settle ==
    /\ ~calm
    /\ calm' = TRUE
    /\ UNCHANGED <<active, rows, streams, sent, ui>>

Init ==
    /\ active \in BOOLEAN
    /\ rows = Nobody
    /\ streams = [s \in Streams |-> [Fresh EXCEPT !.pc = "free"]]
    /\ sent = [s \in Streams |-> Nothing]
    /\ ui = [mounted |-> TRUE, conn |-> "connecting", es |-> "seeding",
             stream |-> NoStream]
    /\ calm = FALSE

Next ==
    \/ \E r \in Runs : CreateRun(r) \/ FinishRun(r)
    \/ SetState
    \/ \E s \in Streams : \/ Pass(s) \/ Expire(s) \/ QueryFails(s) \/ Abandon(s)
                          \/ Connect(s) \/ Receive(s) \/ Break(s)
    \/ Seed \/ ConnectFails \/ Unmount \/ Settle

Spec == Init /\ [][Next]_vars

(* Node goes on with every generator, and the cap comes to each of them;   *)
(* the browser goes on, and from some time on connections hold and queries *)
(* are answered.                                                           *)
Fairness ==
    /\ \A s \in Streams : WF_vars(Pass(s)) /\ SF_vars(Expire(s)) /\ WF_vars(Receive(s))
    /\ WF_vars(Seed)
    /\ WF_vars(\E s \in Streams : Connect(s))
    /\ WF_vars(Settle)

FairSpec == Spec /\ Fairness
-----------------------------------------------------------------------------
TypeOK ==
    /\ active \in BOOLEAN
    /\ rows \in [Runs -> Statuses]
    /\ streams \in [Streams -> [pc : {"free", "start", "head", "list", "emit", "done", "cut"},
                                act : BOOLEAN, list : [Runs -> Statuses],
                                todo : SUBSET Runs, stopped : BOOLEAN,
                                before : SUBSET Runs]]
    /\ sent \in [Streams -> [Runs -> Seq({"running", "output", "finished"})]]
    /\ ui \in [mounted : BOOLEAN, conn : {"connecting", "live", "idle", "lost"},
               es : {"seeding", "opening", "open", "none", "dead"},
               stream : Streams \cup {NoStream}]
    /\ ui.es = "open" <=> ui.stream # NoStream
    /\ calm \in BOOLEAN

(* Whatever is written between two polls, a stream tells the story of each *)
(* run once and in order: running at most once, then the output, then the  *)
(* final status, and nothing after it.                                     *)
TellsEachRunOnce ==
    \A s \in Streams, r \in Runs :
        sent[s][r] \in {<<>>, <<"running">>, <<"output", "finished">>,
                        <<"running", "output", "finished">>}

(* A stream that says done has sent the output of every run that was       *)
(* finished when the integration left its active states: the state is read *)
(* before the runs, so nothing is lost between the two queries.            *)
DoneIsComplete ==
    \A s \in Streams : streams[s].pc = "done" =>
        \A r \in streams[s].before : sent[s][r] # <<>> /\ sent[s][r][Len(sent[s][r])] = "finished"

(* No generator outlives its client and its cap: a stuck integration does  *)
(* not keep a stream open for ever.                                        *)
EveryStreamEnds == \A s \in Streams : ~Over(s) ~> Over(s)

(* Once the integration stays idle, the component comes to rest: whatever  *)
(* broke before, it gets its done and does not reconnect any more.         *)
ComponentComesToRest ==
    <>[](~active /\ ui.mounted) => <>[](ui.es \in {"none", "dead"})
=============================================================================
