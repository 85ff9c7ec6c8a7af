------------------------------ MODULE LogProofs ------------------------------
(***************************************************************************)
(* The log tab for any runs and streams, alone or in the page of the       *)
(* integration: what a stream tells of a run, and what done promises.      *)
(***************************************************************************)
EXTENDS DetailPage, SequenceTheorems, TLAPS

Stories == {<<>>, <<"running">>, <<"output", "finished">>,
            <<"running", "output", "finished">>}

Told(story) == story # <<>> /\ story[Len(story)] = "finished"

GenType == [pc : {"free", "start", "head", "list", "emit", "done", "cut"},
            act : BOOLEAN, list : [Runs -> Statuses], todo : SUBSET Runs,
            stopped : BOOLEAN, before : SUBSET Runs]

LogTyped ==
    /\ active \in BOOLEAN
    /\ rows \in [Runs -> Statuses]
    /\ streams \in [Streams -> GenType]
    /\ sent \in [Streams -> [Runs -> Stories]]

(* Rows only go forward, so what a generator has read and told is never    *)
(* ahead of them; a run that was finished when the state was read is still *)
(* to be compared, or has been told.                                       *)
GenOK(s) ==
    LET g == streams[s] IN
    /\ \A r \in Runs : Told(sent[s][r]) => rows[r] = "finished"
    /\ \A r \in g.before : rows[r] = "finished"
    /\ g.pc = "emit" =>
        /\ \A r \in g.todo : /\ g.list[r] \in {"running", "finished"}
                             /\ Told(sent[s][r]) => g.list[r] = "finished"
        /\ \A r \in Runs : g.list[r] = "finished" => rows[r] = "finished"
        /\ \A r \in g.before : /\ g.list[r] = "finished"
                               /\ r \in g.todo \/ Told(sent[s][r])
    /\ g.pc = "done" => \A r \in g.before : Told(sent[s][r])

LogInv == LogTyped /\ \A s \in Streams : GenOK(s)
-----------------------------------------------------------------------------
LEMMA ToldIs ==
    /\ ~Told(<<>>) /\ ~Told(<<"running">>)
    /\ Told(<<"output", "finished">>) /\ Told(<<"running", "output", "finished">>)
  BY DEF Told

(* What a row adds to the story of a run.                                  *)
LEMMA NewsContinue ==
  ASSUME NEW story \in Stories, NEW status \in {"running", "finished"},
         Told(story) => status = "finished"
  PROVE  /\ story \o News(story, status) \in Stories
         /\ Told(story \o News(story, status)) <=> status = "finished"
  <1>1. CASE story = <<>>
    <2>1. CASE status = "running"
      <3>1. News(story, status) = <<"running">> BY <1>1, <2>1 DEF News
      <3>2. <<>> \o <<"running">> = <<"running">> OBVIOUS
      <3>3. QED BY <1>1, <2>1, <3>1, <3>2, ToldIs DEF Stories
    <2>2. CASE status = "finished"
      <3>1. News(story, status) = <<"output", "finished">> BY <1>1, <2>2 DEF News
      <3>2. <<>> \o <<"output", "finished">> = <<"output", "finished">> OBVIOUS
      <3>3. QED BY <1>1, <2>2, <3>1, <3>2, ToldIs DEF Stories
    <2>3. QED BY <2>1, <2>2
  <1>2. CASE story = <<"running">>
    <2>1. CASE status = "running"
      <3>1. News(story, status) = <<>> BY <1>2, <2>1 DEF News
      <3>2. <<"running">> \o <<>> = <<"running">> OBVIOUS
      <3>3. QED BY <1>2, <2>1, <3>1, <3>2, ToldIs DEF Stories
    <2>2. CASE status = "finished"
      <3>1. News(story, status) = <<"output", "finished">> BY <1>2, <2>2 DEF News
      <3> DEFINE x == <<"running">> \o <<"output", "finished">>
                 y == <<"running", "output", "finished">>
      <3>a. /\ <<"running">> \in Seq({"running", "output", "finished"})
            /\ <<"output", "finished">> \in Seq({"running", "output", "finished"})
            /\ y \in Seq({"running", "output", "finished"}) /\ Len(y) = 3
            /\ y[1] = "running" /\ y[2] = "output" /\ y[3] = "finished"
        OBVIOUS
      <3>b. /\ x \in Seq({"running", "output", "finished"}) /\ Len(x) = 3
            /\ x[1] = "running" /\ x[2] = "output" /\ x[3] = "finished"
        BY <3>a, ConcatProperties
      <3> HIDE DEF x, y
      <3>2. x = y BY <3>a, <3>b, SeqEqual
      <3> USE DEF x, y
      <3>3. QED BY <1>2, <2>2, <3>1, <3>2, ToldIs DEF Stories
    <2>3. QED BY <2>1, <2>2
  <1>3. CASE story = <<"output", "finished">>
    <2>1. status = "finished" BY <1>3, ToldIs
    <2>2. News(story, status) = <<>> BY <1>3, <2>1 DEF News
    <2>3. <<"output", "finished">> \o <<>> = <<"output", "finished">> OBVIOUS
    <2>4. QED BY <1>3, <2>1, <2>2, <2>3, ToldIs DEF Stories
  <1>4. CASE story = <<"running", "output", "finished">>
    <2>1. status = "finished" BY <1>4, ToldIs
    <2>2. News(story, status) = <<>> BY <1>4, <2>1 DEF News
    <2>3. <<"running", "output", "finished">> \o <<>> = <<"running", "output", "finished">>
      OBVIOUS
    <2>4. QED BY <1>4, <2>1, <2>2, <2>3, ToldIs DEF Stories
  <1>5. QED BY <1>1, <1>2, <1>3, <1>4 DEF Stories

LEMMA Empties == Nobody \in [Runs -> Statuses] /\ Nothing \in [Runs -> Stories]
                 /\ \A r \in Runs : Nothing[r] = <<>> /\ ~Told(Nothing[r])
  BY ToldIs DEF Nobody, Nothing, Statuses, Stories

LEMMA GenIs ==
  ASSUME NEW p, NEW act, NEW list, NEW todo, NEW stopped, NEW before
  PROVE  LET g == Gen(p, act, list, todo, stopped, before)
         IN  /\ g.pc = p /\ g.act = act /\ g.list = list /\ g.todo = todo
             /\ g.stopped = stopped /\ g.before = before
  BY DEF Gen

(* One generator goes on, or starts anew; the rows stay.                   *)
LEMMA GeneratorMoves ==
  ASSUME LogInv, UNCHANGED <<active, rows>>, NEW s \in Streams,
         NEW g \in GenType, NEW tells \in [Runs -> Stories],
         streams' = [streams EXCEPT ![s] = g], sent' = [sent EXCEPT ![s] = tells],
         \A r \in Runs : Told(tells[r]) => rows[r] = "finished",
         \A r \in g.before : rows[r] = "finished",
         g.pc = "emit" =>
            /\ \A r \in g.todo : /\ g.list[r] \in {"running", "finished"}
                                 /\ Told(tells[r]) => g.list[r] = "finished"
            /\ \A r \in Runs : g.list[r] = "finished" => rows[r] = "finished"
            /\ \A r \in g.before : /\ g.list[r] = "finished"
                                   /\ r \in g.todo \/ Told(tells[r]),
         g.pc = "done" => \A r \in g.before : Told(tells[r])
  PROVE  LogInv'
  <1>1. /\ streams'[s] = g /\ sent'[s] = tells
        /\ \A u \in Streams : u # s => streams'[u] = streams[u] /\ sent'[u] = sent[u]
    BY DEF LogInv, LogTyped
  <1>2. LogTyped' BY DEF LogInv, LogTyped
  <1>3. ASSUME NEW u \in Streams PROVE GenOK(u)'
    <2>1. CASE u = s BY <1>1, <2>1 DEF GenOK
    <2>2. CASE u # s BY <1>1, <2>2 DEF LogInv, GenOK
    <2>3. QED BY <2>1, <2>2
  <1>4. QED BY <1>2, <1>3 DEF LogInv

(* Nothing is known of a generator that has read no rows.                  *)
LEMMA GeneratorRests ==
  ASSUME LogInv, UNCHANGED <<active, rows>>, NEW s \in Streams,
         NEW g \in GenType, streams' = [streams EXCEPT ![s] = g],
         g.pc \notin {"emit", "done"}, g.before = {},
         sent' = [sent EXCEPT ![s] = Nothing] \/ UNCHANGED sent
  PROVE  LogInv'
  <1>1. PICK tells \in {Nothing, sent[s]} : sent' = [sent EXCEPT ![s] = tells]
    BY DEF LogInv, LogTyped
  <1>2. tells \in [Runs -> Stories] BY Empties DEF LogInv, LogTyped
  <1>3. \A r \in Runs : Told(tells[r]) => rows[r] = "finished"
    BY Empties DEF LogInv, GenOK
  <1>4. QED BY <1>1, <1>2, <1>3, GeneratorMoves

LEMMA CutKeeps ==
  ASSUME LogInv, NEW s \in Streams, Cut(s)
  PROVE  LogInv'
  <1> DEFINE g == Gen("cut", TRUE, Nobody, {}, FALSE, {})
  <1>1. g \in GenType /\ g.pc = "cut" /\ g.before = {} BY Empties DEF Gen, GenType
  <1>2. /\ streams' = [streams EXCEPT ![s] = g] /\ sent' = [sent EXCEPT ![s] = Nothing]
        /\ UNCHANGED <<active, rows>>
    BY DEF Cut, Continue
  <1> HIDE DEF g
  <1>3. QED BY <1>1, <1>2, GeneratorRests

LEMMA LogNext ==
  ASSUME LogInv, [Next]_vars
  PROVE  LogInv'
  <1>t. /\ active \in BOOLEAN /\ rows \in [Runs -> Statuses]
        /\ streams \in [Streams -> GenType] /\ sent \in [Streams -> [Runs -> Stories]]
    BY DEF LogInv, LogTyped
  <1>i. ASSUME NEW s \in Streams PROVE GenOK(s) /\ streams[s] \in GenType
    BY <1>t DEF LogInv
  (* The rows go forward. *)
  <1>1. ASSUME NEW r \in Runs, CreateRun(r) \/ FinishRun(r) PROVE LogInv'
    <2>1. /\ rows' \in [Runs -> Statuses] /\ UNCHANGED <<active, streams, sent>>
          /\ \A q \in Runs : rows[q] = "finished" => rows'[q] = "finished"
      BY <1>t, <1>1 DEF CreateRun, FinishRun, Statuses
    <2>2. LogTyped' BY <1>t, <2>1 DEF LogTyped
    <2>3. ASSUME NEW s \in Streams PROVE GenOK(s)'
      <3>1. streams[s].before \subseteq Runs BY <1>i DEF GenType
      <3>2. QED BY <1>i, <2>1, <3>1 DEF GenOK
    <2>4. QED BY <2>2, <2>3 DEF LogInv
  <1>2. CASE SetState \/ Seed \/ ConnectFails \/ Settle \/ UNCHANGED vars
    <2>1. active' \in BOOLEAN /\ UNCHANGED <<rows, streams, sent>>
      BY <1>t, <1>2 DEF SetState, Seed, ConnectFails, Settle, vars
    <2>2. QED BY <2>1 DEF LogInv, LogTyped, GenOK
  <1>3. ASSUME NEW s \in Streams, Expire(s) \/ QueryFails(s) \/ Abandon(s) PROVE LogInv'
    BY <1>3, CutKeeps DEF Expire, QueryFails, Abandon
  <1>4. ASSUME NEW s \in Streams, ReadState(s) PROVE LogInv'
    <2> DEFINE g == Gen("list", active, Nobody, {}, FALSE, Finished)
    <2>1. /\ g \in GenType /\ g.pc = "list" /\ g.before = Finished
      BY <1>t, Empties DEF Gen, GenType, Finished
    <2>2. /\ streams' = [streams EXCEPT ![s] = g] /\ sent' = [sent EXCEPT ![s] = sent[s]]
          /\ UNCHANGED <<active, rows>>
      BY <1>4, <1>t DEF ReadState, Continue
    <2>3. \A r \in g.before : rows[r] = "finished" BY <2>1 DEF Finished
    <2>4. \A r \in Runs : Told(sent[s][r]) => rows[r] = "finished" BY <1>i DEF GenOK
    <2>5. sent[s] \in [Runs -> Stories] BY <1>t
    <2> HIDE DEF g
    <2>6. QED BY <2>1, <2>2, <2>3, <2>4, <2>5, GeneratorMoves
  <1>5. ASSUME NEW s \in Streams, List(s) PROVE LogInv'
    <2>0. PICK todo \in SUBSET Runs : todo = {r \in Runs : rows[r] # "absent"} OBVIOUS
    <2> DEFINE g == [streams[s] EXCEPT !.pc = "emit", !.list = rows, !.todo = todo]
    <2>1. /\ g \in GenType /\ g.pc = "emit" /\ g.list = rows /\ g.todo = todo
          /\ g.before = streams[s].before
      BY <1>t, <1>i DEF GenType
    <2>2. /\ streams' = [streams EXCEPT ![s] = g] /\ sent' = [sent EXCEPT ![s] = sent[s]]
          /\ UNCHANGED <<active, rows>>
      BY <1>5, <1>t, <2>0 DEF List, Continue
    <2> HIDE DEF g
    <2>3. /\ \A r \in g.before : r \in Runs /\ rows[r] = "finished"
          /\ \A r \in Runs : Told(sent[s][r]) => rows[r] = "finished"
      BY <1>i, <2>1 DEF GenOK, GenType
    <2>4. /\ todo \subseteq Runs /\ \A r \in todo : rows[r] \in {"running", "finished"}
          /\ \A r \in Runs : rows[r] = "finished" => r \in todo
      BY <1>t, <2>0 DEF Statuses
    <2>5. sent[s] \in [Runs -> Stories] BY <1>t
    <2>6. QED BY <2>1, <2>2, <2>3, <2>4, <2>5, GeneratorMoves
  <1>6. ASSUME NEW s \in Streams, NEW r \in Runs, Emit(s, r) PROVE LogInv'
    <2> DEFINE story == sent[s][r] \o News(sent[s][r], streams[s].list[r])
               tells == [sent[s] EXCEPT ![r] = story]
               g == [streams[s] EXCEPT !.todo = @ \ {r}]
    <2>1. /\ streams' = [streams EXCEPT ![s] = g] /\ sent' = [sent EXCEPT ![s] = tells]
          /\ UNCHANGED <<active, rows>>
          /\ streams[s].pc = "emit" /\ r \in streams[s].todo
      BY <1>6, <1>t DEF Emit, Continue
    <2>2. /\ g \in GenType /\ g.pc = "emit" /\ g.list = streams[s].list
          /\ g.todo = streams[s].todo \ {r} /\ g.before = streams[s].before
          /\ g.todo \subseteq Runs /\ g.before \subseteq Runs
      BY <1>i, <2>1 DEF GenType
    <2>3. /\ streams[s].list[r] \in {"running", "finished"}
          /\ Told(sent[s][r]) => streams[s].list[r] = "finished"
          /\ sent[s][r] \in Stories
      BY <1>i, <1>t, <2>1 DEF GenOK
    <2>4. story \in Stories /\ (Told(story) <=> streams[s].list[r] = "finished")
      BY <2>3, NewsContinue
    <2> HIDE DEF story, g
    <2>5. /\ tells \in [Runs -> Stories] /\ tells[r] = story
          /\ \A q \in Runs : q # r => tells[q] = sent[s][q]
      BY <1>t, <2>4
    <2> HIDE DEF tells
    <2>6. /\ \A q \in Runs : Told(sent[s][q]) => rows[q] = "finished"
          /\ \A q \in streams[s].before : rows[q] = "finished"
          /\ \A q \in streams[s].todo : /\ streams[s].list[q] \in {"running", "finished"}
                                        /\ Told(sent[s][q]) => streams[s].list[q] = "finished"
          /\ \A q \in Runs : streams[s].list[q] = "finished" => rows[q] = "finished"
          /\ \A q \in streams[s].before : /\ streams[s].list[q] = "finished"
                                          /\ q \in streams[s].todo \/ Told(sent[s][q])
      BY <1>i, <2>1 DEF GenOK
    <2>7. \A q \in Runs : Told(tells[q]) => rows[q] = "finished" BY <2>4, <2>5, <2>6
    <2>8. \A q \in g.before : g.list[q] = "finished" /\ (q \in g.todo \/ Told(tells[q]))
      <3> SUFFICES ASSUME NEW q \in g.before
                   PROVE  g.list[q] = "finished" /\ (q \in g.todo \/ Told(tells[q]))
        OBVIOUS
      <3>1. q \in Runs /\ g.list[q] = "finished" BY <2>2, <2>6
      <3>2. CASE q = r BY <2>2, <2>4, <2>5, <3>1, <3>2
      <3>3. CASE q # r BY <2>2, <2>5, <2>6, <3>1, <3>3
      <3>4. QED BY <3>2, <3>3
    <2>9. \A q \in g.todo : /\ g.list[q] \in {"running", "finished"}
                            /\ Told(tells[q]) => g.list[q] = "finished"
      BY <2>2, <2>5, <2>6
    <2>10. /\ \A q \in g.before : rows[q] = "finished"
           /\ \A q \in Runs : g.list[q] = "finished" => rows[q] = "finished"
           /\ g.pc # "done"
      BY <2>2, <2>6
    <2>11. g.pc = "emit" =>
              /\ \A q \in g.todo : /\ g.list[q] \in {"running", "finished"}
                                   /\ Told(tells[q]) => g.list[q] = "finished"
              /\ \A q \in Runs : g.list[q] = "finished" => rows[q] = "finished"
              /\ \A q \in g.before : /\ g.list[q] = "finished"
                                     /\ q \in g.todo \/ Told(tells[q])
      BY <2>8, <2>9, <2>10
    <2>12. g \in GenType /\ tells \in [Runs -> Stories] BY <2>2, <2>5
    <2>13. QED BY ONLY <2>1, <2>7, <2>10, <2>11, <2>12, LogInv, GeneratorMoves
  <1>7. ASSUME NEW s \in Streams, EndOfPass(s) PROVE LogInv'
    <2>0. UNCHANGED <<active, rows, sent>> /\ streams[s].pc = "emit" /\ streams[s].todo = {}
      BY <1>7 DEF EndOfPass
    <2>1. CASE streams[s].act
      <3> DEFINE g == Gen("head", TRUE, Nobody, {}, streams[s].stopped, {})
      <3>1. g \in GenType /\ g.pc = "head" /\ g.before = {}
        <4>1. streams[s].stopped \in BOOLEAN BY <1>i DEF GenType
        <4>2. QED BY <4>1, Empties DEF Gen, GenType
      <3>2. streams' = [streams EXCEPT ![s] = g] BY <1>7, <2>1 DEF EndOfPass, Continue
      <3> HIDE DEF g
      <3>3. QED BY <2>0, <3>1, <3>2, GeneratorRests
    <2>2. CASE ~streams[s].act
      <3> DEFINE g == Gen("done", FALSE, Nobody, {}, FALSE, streams[s].before)
      <3>1. g \in GenType /\ g.pc = "done" /\ g.before = streams[s].before
        <4>1. streams[s].before \in SUBSET Runs BY <1>i DEF GenType
        <4>2. QED BY <4>1, Empties DEF Gen, GenType
      <3>2. streams' = [streams EXCEPT ![s] = g] BY <1>7, <2>2 DEF EndOfPass, Continue
      <3>3. sent' = [sent EXCEPT ![s] = sent[s]] /\ sent[s] \in [Runs -> Stories]
        BY <1>t, <2>0
      <3>4. /\ \A r \in g.before : rows[r] = "finished" /\ Told(sent[s][r])
            /\ \A r \in Runs : Told(sent[s][r]) => rows[r] = "finished"
        BY <1>i, <2>0, <3>1 DEF GenOK
      <3> HIDE DEF g
      <3>5. QED BY <2>0, <3>1, <3>2, <3>3, <3>4, GeneratorMoves
    <2>3. QED BY <2>1, <2>2
  <1>8. ASSUME NEW s \in Streams, Connect(s) PROVE LogInv'
    <2>1. Fresh \in GenType /\ Fresh.pc = "start" /\ Fresh.before = {}
      BY Empties DEF Fresh, Gen, GenType
    <2>2. /\ streams' = [streams EXCEPT ![s] = Fresh] /\ sent' = [sent EXCEPT ![s] = Nothing]
          /\ UNCHANGED <<active, rows>>
      BY <1>8 DEF Connect, Continue
    <2>3. QED BY <2>1, <2>2, GeneratorRests
  <1>9. ASSUME NEW s \in Streams, Receive(s) PROVE LogInv'
    BY <1>9 DEF Receive, LogInv, LogTyped, GenOK
  (* The server notices that its client is gone. *)
  <1>s. ASSUME UNCHANGED <<active, rows, sent>>, streams' \in [Streams -> GenType],
               \A s \in Streams : streams'[s] = streams[s]
                                  \/ streams'[s] = [streams[s] EXCEPT !.stopped = TRUE]
        PROVE  LogInv'
    <2>1. ASSUME NEW s \in Streams
          PROVE  /\ streams'[s].pc = streams[s].pc /\ streams'[s].list = streams[s].list
                 /\ streams'[s].todo = streams[s].todo /\ streams'[s].before = streams[s].before
      <3>1. LET g == [streams[s] EXCEPT !.stopped = TRUE]
            IN  /\ g.pc = streams[s].pc /\ g.list = streams[s].list
                /\ g.todo = streams[s].todo /\ g.before = streams[s].before
        BY <1>i DEF GenType
      <3>2. QED BY <1>s, <3>1
    <2>2. LogTyped' BY <1>t, <1>s DEF LogTyped
    <2>3. ASSUME NEW s \in Streams PROVE GenOK(s)'
      BY <1>i, <1>s, <2>1, <2>3 DEF GenOK
    <2>4. QED BY <2>2, <2>3 DEF LogInv
  <1>10. ASSUME NEW s \in Streams, Break(s) PROVE LogInv'
    <2>1. streams' = [streams EXCEPT ![s] = [streams[s] EXCEPT !.stopped = TRUE]]
          /\ UNCHANGED <<active, rows, sent>>
      BY <1>10 DEF Break, Continue
    <2>2. [streams[s] EXCEPT !.stopped = TRUE] \in GenType BY <1>i DEF GenType
    <2>3. QED BY <1>t, <1>s, <2>1, <2>2
  <1>11. CASE Unmount
    <2>1. /\ UNCHANGED <<active, rows, sent>>
          /\ streams' = [s \in Streams |->
                IF s = ui.stream /\ ~Over(s) THEN [streams[s] EXCEPT !.stopped = TRUE]
                ELSE streams[s]]
      BY <1>11 DEF Unmount
    <2>2. \A s \in Streams : [streams[s] EXCEPT !.stopped = TRUE] \in GenType
      BY <1>t DEF GenType
    <2>3. \A s \in Streams : streams'[s] = streams[s]
                             \/ streams'[s] = [streams[s] EXCEPT !.stopped = TRUE]
      BY <2>1
    <2>4. streams' \in [Streams -> GenType] BY <1>t, <2>1, <2>2
    <2>5. QED BY <1>s, <2>1, <2>3, <2>4
  <1>12. QED
    BY <1>1, <1>2, <1>3, <1>4, <1>5, <1>6, <1>7, <1>8, <1>9, <1>10, <1>11
       DEF Next, Pass

LEMMA LogStarts ==
  ASSUME active \in BOOLEAN, rows = Nobody,
         streams = [s \in Streams |-> [Fresh EXCEPT !.pc = "free"]],
         sent = [s \in Streams |-> Nothing]
  PROVE  LogInv
  <1> DEFINE g == [Fresh EXCEPT !.pc = "free"]
  <1>1. g \in GenType /\ g.pc = "free" /\ g.before = {} BY Empties DEF Fresh, Gen, GenType
  <1>2. streams = [s \in Streams |-> g] OBVIOUS
  <1> HIDE DEF g
  <1>3. LogTyped BY <1>1, <1>2, Empties DEF LogTyped
  <1>4. \A s \in Streams : GenOK(s) BY <1>1, <1>2, Empties DEF GenOK
  <1>5. QED BY <1>3, <1>4 DEF LogInv

(* A step of the page or of the rows does not touch the tab.               *)
LEMMA StepIsOfTab == ASSUME [PageNext]_pageVars PROVE [Next]_vars
  BY DEF PageNext, pageVars, Tab, Next, Page, Rows, Create, TestAndOpen, Load, Reload, Tick,
         ReadRow, Arrive, onApprove, onDeploy, onRegenerate, Test, Walk, Fail, Fire

LEMMA PageLogInvariant == PageSpec => []LogInv
  <1>1. PageInit => LogInv
    <2> SUFFICES ASSUME PageInit PROVE LogInv OBVIOUS
    <2>1. active \in BOOLEAN BY DEF PageInit
    <2>2. QED BY <2>1, LogStarts DEF PageInit
  <1>2. LogInv /\ [PageNext]_pageVars => LogInv'
    <2> SUFFICES ASSUME LogInv, [PageNext]_pageVars PROVE LogInv' OBVIOUS
    <2>1. QED BY StepIsOfTab, LogNext
  <1>3. QED BY <1>1, <1>2, PTL DEF PageSpec

(* A stream tells of each run running at most once, its output once and    *)
(* its final status last, whatever is written between two polls.           *)
THEOREM StoriesAreTold == PageSpec => []TellsEachRunOnce
  <1>1. LogInv => TellsEachRunOnce BY DEF LogInv, LogTyped, TellsEachRunOnce, Stories
  <1>2. QED BY <1>1, PageLogInvariant, PTL

(* Before a stream says done it has told the end of every run that was     *)
(* finished when it read that the integration is idle.                     *)
THEOREM DoneTellsAll == PageSpec => []DoneIsComplete
  <1>1. LogInv => DoneIsComplete BY DEF LogInv, GenOK, DoneIsComplete, Told
  <1>2. QED BY <1>1, PageLogInvariant, PTL
-----------------------------------------------------------------------------
UiType == [mounted : BOOLEAN, conn : {"connecting", "live", "idle", "lost"},
           es : {"seeding", "opening", "open", "none", "dead"},
           stream : Streams \cup {NoStream}]

UiInv == ui \in UiType /\ (ui.es = "open" <=> ui.stream # NoStream) /\ calm \in BOOLEAN

(* An EventSource is open exactly when it has a stream.                    *)
LEMMA UiNext ==
  ASSUME UiInv, [Next]_vars
  PROVE  UiInv'
  <1>n. NoStream \notin Streams BY StreamsAssumption DEF NoStream
  <1>1. CASE UNCHANGED <<ui, calm>> BY <1>1 DEF UiInv
  <1>2. CASE Seed BY <1>2 DEF Seed, UiInv, UiType
  <1>3. CASE ConnectFails BY <1>3 DEF ConnectFails, UiInv, UiType
  <1>4. CASE Unmount BY <1>4 DEF Unmount, UiInv, UiType
  <1>5. CASE Settle BY <1>5 DEF Settle, UiInv
  <1>l. ui.es = "open" => Lost \in UiType /\ Lost.es = "opening" /\ Lost.stream = NoStream
    BY DEF UiInv, UiType, Lost
  <1>6. ASSUME NEW s \in Streams, Connect(s) PROVE UiInv'
    BY <1>6, <1>n DEF Connect, UiInv, UiType
  <1>7. ASSUME NEW s \in Streams, Receive(s) PROVE UiInv'
    <2>1. CASE ui' = Lost BY <1>7, <1>l, <2>1 DEF Receive, UiInv
    <2>2. CASE ui' = [ui EXCEPT !.es = "none", !.stream = NoStream, !.conn = "idle"]
      BY <1>7, <2>2 DEF Receive, UiInv, UiType
    <2>3. QED BY <1>7, <2>1, <2>2 DEF Receive
  <1>8. ASSUME NEW s \in Streams, Break(s) PROVE UiInv'
    BY <1>8, <1>l DEF Break, UiInv
  <1>9. ASSUME NEW s \in Streams, Pass(s) \/ Expire(s) \/ QueryFails(s) \/ Abandon(s)
        PROVE  UNCHANGED <<ui, calm>>
    BY <1>9 DEF Pass, ReadState, List, EndOfPass, Emit, Expire, QueryFails, Abandon, Cut
  <1>10. ASSUME NEW r \in Runs, CreateRun(r) \/ FinishRun(r) PROVE UNCHANGED <<ui, calm>>
    BY <1>10 DEF CreateRun, FinishRun
  <1>11. CASE SetState BY <1>1, <1>11 DEF SetState
  <1>12. CASE UNCHANGED vars BY <1>1, <1>12 DEF vars
  <1>13. QED
    BY <1>1, <1>2, <1>3, <1>4, <1>5, <1>6, <1>7, <1>8, <1>9, <1>10, <1>11, <1>12 DEF Next

PageType == [at : {"form", "created", "loading", "detail", "gone"},
             shown : RowStates, refresh : {"no", "sent", "read"}, read : RowStates]

WorkflowType == [at : {"closed", "started", "walking"}, tests : 0 .. MaxTests,
                 approved : BOOLEAN]

(* The form has no execution yet, so the test it starts is within bounds.  *)
PageInv ==
    /\ view \in {"tab", "page"} /\ (view = "page" => ~ui.mounted)
    /\ row \in RowStates /\ workflow \in WorkflowType /\ page \in PageType
    /\ page.at \in {"form", "created"} => workflow = NoWorkflow

(* Every button, answer and write keeps the page and the row well formed.  *)
LEMMA PageNextTyped ==
  ASSUME PageInv, [PageNext]_pageVars
  PROVE  PageInv'
  <1>n. NoWorkflow \in WorkflowType /\ NoWorkflow.at = "closed"
    BY TestsAssumption DEF NoWorkflow, WorkflowType
  <1>s. workflow.tests < MaxTests => Started \in WorkflowType
    BY TestsAssumption DEF PageInv, WorkflowType, Started
  <1>1. CASE Tab BY <1>1 DEF Tab, Settle, PageInv
  <1>2. CASE TestAndOpen
    <2>1. workflow = NoWorkflow BY <1>2 DEF TestAndOpen, At, PageInv
    <2>2. workflow.tests < MaxTests BY <2>1, TestsAssumption DEF NoWorkflow
    <2>3. workflow' \in WorkflowType BY <1>2, <1>s, <2>2 DEF TestAndOpen, PageInv
    <2>4. page' \in PageType /\ page'.at = "loading"
      BY <1>2 DEF TestAndOpen, PageInv, PageType
    <2>5. QED BY <1>2, <2>3, <2>4 DEF TestAndOpen, PageInv, vars
  <1>3. ASSUME Create \/ Load \/ Reload \/ Tick \/ ReadRow \/ Arrive \/ onDeploy
        PROVE  PageInv'
    <2>1. /\ page' \in PageType /\ UNCHANGED <<vars, view, row, workflow>>
          /\ page'.at \in {"form", "created"} => page.at \in {"form", "created"}
      BY <1>3 DEF Create, Load, Reload, Tick, ReadRow, Arrive, onDeploy, CanRefresh, Refresh,
                  At, PageInv, PageType
    <2>2. QED BY <2>1 DEF PageInv, vars
  <1>4. CASE onApprove
    <2>1. page' \in PageType /\ page'.at = "detail"
      BY <1>4 DEF onApprove, CanRefresh, Refresh, At, PageInv, PageType
    <2>2. workflow' \in WorkflowType BY <1>4 DEF onApprove, PageInv, WorkflowType
    <2>3. QED BY <1>4, <2>1, <2>2 DEF onApprove, PageInv, vars
  <1>5. CASE onRegenerate
    <2>1. page' \in PageType BY <1>5 DEF onRegenerate, PageInv, PageType
    <2>2. QED BY <1>5, <1>n, <2>1 DEF onRegenerate, PageInv, RowStates, vars
  <1>6. CASE Test
    BY <1>6, <1>s DEF Test, PageInv, vars
  <1>7. ASSUME Walk \/ Fail PROVE PageInv'
    <2>1. workflow.at # "closed" BY <1>7 DEF Walk, Fail
    <2>2. page.at \notin {"form", "created"} BY <1>n, <2>1 DEF PageInv
    <2>3. workflow' \in WorkflowType /\ row' \in RowStates
      BY <1>7 DEF Walk, Fail, PageInv, WorkflowType, RowStates
    <2>4. QED BY <1>7, <2>2, <2>3 DEF Walk, Fail, PageInv, vars
  <1>8. CASE Fire BY <1>8 DEF Fire, PageInv, RowStates, vars
  <1>9. CASE UNCHANGED pageVars BY <1>9 DEF pageVars, vars, PageInv
  <1>10. QED
    BY <1>1, <1>2, <1>3, <1>4, <1>5, <1>6, <1>7, <1>8, <1>9 DEF PageNext, Page, Rows

(* The tab and the page stay well formed: an EventSource is open exactly   *)
(* when it has a stream, a page that is looked at has no tab mounted, and  *)
(* there are no more executions than tests.                                *)
THEOREM PageTypes == PageSpec => []PageTypeOK
  <1>1. PageInit => UiInv /\ PageInv
    <2> SUFFICES ASSUME PageInit PROVE UiInv /\ PageInv OBVIOUS
    <2>1. UiInv BY DEF PageInit, UiInv, UiType
    <2>2. view \in {"tab", "page"} /\ (view = "page" => ~ui.mounted) BY DEF PageInit
    <2>3. NoWorkflow \in WorkflowType BY TestsAssumption DEF NoWorkflow, WorkflowType
    <2>4. row \in RowStates /\ page \in PageType BY DEF PageInit, RowStates, PageType
    <2>5. QED BY <2>1, <2>2, <2>3, <2>4 DEF PageInit, PageInv
  <1>2. UiInv /\ PageInv /\ [PageNext]_pageVars => UiInv' /\ PageInv'
    BY UiNext, PageNextTyped, StepIsOfTab
  <1>3. LogInv /\ UiInv /\ PageInv => PageTypeOK
    <2> SUFFICES ASSUME LogInv, UiInv, PageInv PROVE PageTypeOK OBVIOUS
    <2>1. Stories \subseteq Seq({"running", "output", "finished"}) BY DEF Stories
    <2>2. sent \in [Streams -> [Runs -> Seq({"running", "output", "finished"})]]
      BY <2>1 DEF LogInv, LogTyped
    <2>3. TypeOK BY <2>2 DEF LogInv, LogTyped, GenType, UiInv, UiType, TypeOK
    <2>4. QED BY <2>3 DEF PageInv, WorkflowType, PageType, PageTypeOK
  <1>4. QED BY <1>1, <1>2, <1>3, PageLogInvariant, PTL DEF PageSpec

=============================================================================
