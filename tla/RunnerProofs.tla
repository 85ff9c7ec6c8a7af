---------------------------- MODULE RunnerProofs ----------------------------
(***************************************************************************)
(* Type correctness of Runner, its invariants, and that it implements      *)
(* Health, for any number of calls of fireIntegration and of executions of *)
(* the workflow.                                                           *)
(***************************************************************************)
EXTENDS Runner, FiniteSetTheorems, SequenceTheorems, TLAPS

RowType  == [fire : Fires \cup {0}, version : Versions, status : Results \cup {"absent", "running"}]
FireType == [pc : Steps, seen : Firable, version : Versions \cup {0}, result : Results,
             amid : BOOLEAN]
CycleType == [pc : Phases, version : Versions \cup {0}, captured : Versions \cup {0}, row : Nat]

(* A clean test run of version v or a later one lies before row i.         *)
Clean(r, v) == r.fire = 0 /\ r.status = "succeeded" /\ r.version >= v

TestedBefore(v, i, rows) == \E j \in 1 .. i - 1 : Clean(rows[j], v)

Tested(v, rows) == TestedBefore(v, Len(rows) + 1, rows)

(* The steps before a call has a version, and those before it has a row.   *)
Unread  == {"idle", "read"}
Rowless == {"idle", "read", "stamp"}
Judged  == {"audit", "judge", "promote", "recheck", "degrade", "done"}

(* What an execution knows at each step: the row of its test run, that the *)
(* run was clean, what was approved, that a version is pinned.             *)
CycleKnows ==
    /\ cycle.pc # "none" => cycle.version # 0
    /\ cycle.pc = "testing" => /\ cycle.row \in 1 .. Len(runs)
                               /\ runs[cycle.row] = Row(0, cycle.version, "running")
    /\ cycle.pc \in {"passed", "gate"} => Tested(cycle.version, runs)
    /\ cycle.pc \in {"build", "pin", "deploy"} => cycle.captured \in approved
    /\ cycle.pc \in {"deploy", "settle"} => current # 0

(* Approvals come after a clean test run; the pinned version was approved, *)
(* and so was that of a call, which is set when the call reads the row.    *)
VersionsApproved ==
    /\ \A v \in approved : Tested(v, runs)
    /\ current # 0 => current \in approved
    /\ \A f \in Fires : fires[f].pc \notin Unread \cup {"gone"} =>
            fires[f].version \in approved /\ current # 0

(* Each row of a fire has an approved version and comes after a clean test *)
(* run of it or of a later one.                                            *)
RowsTested ==
    \A i \in 1 .. Len(runs) : runs[i].fire # 0 =>
        /\ fires[runs[i].fire].pc \notin Rowless
        /\ runs[i].version = fires[runs[i].fire].version
        /\ runs[i].version \in approved
        /\ TestedBefore(runs[i].version, i, runs)

(* A call has no row, then one, which has its result once it was judged.   *)
RowOf(f, i, rows) == i \in 1 .. Len(rows) /\ rows[i].fire = f

OneRowEach ==
    \A f \in Fires :
        /\ fires[f].pc \notin Rowless \cup {"gone"} =>
            \E i \in 1 .. Len(runs) : RowOf(f, i, runs) /\ \A j \in 1 .. Len(runs) : RowOf(f, j, runs) => j = i
        /\ fires[f].pc \in Judged =>
            \A i \in 1 .. Len(runs) : RowOf(f, i, runs) => runs[i].status = fires[f].result

PinInv == TypeOK /\ FirableIsPinned /\ CycleKnows /\ VersionsApproved

RowInv == PinInv /\ RowsTested /\ OneRowEach
-----------------------------------------------------------------------------
(* The list of runs only grows, and its test runs stay what they are, or   *)
(* at least the clean ones do.                                             *)
KeepsTests(old, new) ==
    /\ Len(old) <= Len(new)
    /\ \A i \in 1 .. Len(old) : old[i].fire = 0 => new[i] = old[i]

KeepsClean(old, new) ==
    /\ Len(old) <= Len(new)
    /\ \A i \in 1 .. Len(old) : old[i].fire = 0 /\ old[i].status = "succeeded" => new[i] = old[i]

LEMMA TestsAreClean ==
  ASSUME NEW old, NEW new, KeepsTests(old, new)
  PROVE  KeepsClean(old, new)
  BY DEF KeepsTests, KeepsClean

LEMMA TestedStays ==
  ASSUME NEW old \in Seq(RowType), NEW new \in Seq(RowType), KeepsClean(old, new),
         NEW v, NEW i \in 1 .. Len(old) + 1, TestedBefore(v, i, old)
  PROVE  TestedBefore(v, i, new)
  <1>1. PICK j \in 1 .. i - 1 : Clean(old[j], v)
    BY DEF TestedBefore
  <1>2. j \in 1 .. Len(old) OBVIOUS
  <1>3. new[j] = old[j]
    BY <1>1, <1>2 DEF KeepsClean, Clean
  <1>4. QED BY <1>1, <1>3 DEF TestedBefore

LEMMA TestedKept ==
  ASSUME NEW old \in Seq(RowType), NEW new \in Seq(RowType), KeepsClean(old, new),
         NEW v, Tested(v, old)
  PROVE  Tested(v, new)
  <1>1. PICK j \in 1 .. (Len(old) + 1) - 1 : Clean(old[j], v)
    BY DEF Tested, TestedBefore
  <1>2. j \in 1 .. Len(old) OBVIOUS
  <1>3. j \in 1 .. (Len(new) + 1) - 1 /\ new[j] = old[j]
    BY <1>1, <1>2 DEF KeepsClean, Clean
  <1>4. QED BY <1>1, <1>3 DEF Tested, TestedBefore

LEMMA AppendKeeps ==
  ASSUME NEW old \in Seq(RowType), NEW r \in RowType
  PROVE  LET new == Append(old, r)
         IN  /\ new \in Seq(RowType) /\ KeepsTests(old, new)
             /\ Len(new) = Len(old) + 1
             /\ new[Len(old) + 1] = r
             /\ \A i \in 1 .. Len(old) : new[i] = old[i]
  BY DEF KeepsTests

LEMMA RowFire ==
  ASSUME NEW rows \in Seq(RowType), NEW i \in 1 .. Len(rows)
  PROVE  rows[i].fire \in Fires \cup {0}
  <1>1. rows[i] \in RowType OBVIOUS
  <1>2. QED BY <1>1 DEF RowType

(* SetStatus changes the status of the rows of one call.                   *)
LEMMA StatusKeeps ==
  ASSUME runs \in Seq(RowType), NEW f \in Fires,
         NEW s \in Results \cup {"absent", "running"}, SetStatus(f, s)
  PROVE  /\ runs' \in Seq(RowType) /\ KeepsTests(runs, runs') /\ Len(runs') = Len(runs)
         /\ \A i \in 1 .. Len(runs) :
                /\ runs'[i].fire = runs[i].fire /\ runs'[i].version = runs[i].version
                /\ runs[i].fire = f => runs'[i].status = s
                /\ runs[i].fire # f => runs'[i] = runs[i]
  <1>0. f # 0 BY DEF Fires
  <1>1. runs' = [i \in 1 .. Len(runs) |->
                IF runs[i].fire = f THEN [runs[i] EXCEPT !.status = s] ELSE runs[i]]
    BY DEF SetStatus
  <1>2. \A i \in 1 .. Len(runs) : runs[i] \in RowType
    OBVIOUS
  <1>3. \A i \in 1 .. Len(runs) : [runs[i] EXCEPT !.status = s] \in RowType
    BY <1>2 DEF RowType
  <1>4. \A i \in 1 .. Len(runs) : runs'[i] \in RowType
    BY <1>1, <1>2, <1>3
  <1>5. Len(runs) \in Nat OBVIOUS
  <1>6. runs' \in Seq(RowType) /\ Len(runs') = Len(runs)
    BY <1>1, <1>4, <1>5
  <1>7. \A i \in 1 .. Len(runs) :
            /\ runs'[i].fire = runs[i].fire /\ runs'[i].version = runs[i].version
            /\ runs[i].fire = f => runs'[i].status = s
            /\ runs[i].fire # f => runs'[i] = runs[i]
    BY <1>1, <1>2 DEF RowType
  <1>8. KeepsTests(runs, runs') BY <1>0, <1>6, <1>7 DEF KeepsTests
  <1>9. QED BY <1>6, <1>7, <1>8

(* The end of a test sets the status of one row, which was running.        *)
LEMMA TestEndKeeps ==
  ASSUME runs \in Seq(RowType), NEW k \in 1 .. Len(runs), NEW v,
         runs[k] = Row(0, v, "running"),
         NEW r \in Results, runs' = [runs EXCEPT ![k].status = r]
  PROVE  /\ runs' \in Seq(RowType) /\ KeepsClean(runs, runs') /\ Len(runs') = Len(runs)
         /\ runs'[k] = Row(0, v, r)
         /\ \A i \in 1 .. Len(runs) : i # k => runs'[i] = runs[i]
  <1>1. runs[k] \in RowType OBVIOUS
  <1>2. [runs[k] EXCEPT !.status = r] = Row(0, v, r) BY DEF Row
  <1>3. runs' = [runs EXCEPT ![k] = Row(0, v, r)] BY <1>2
  <1>4. Row(0, v, r) \in RowType BY <1>1 DEF Row, RowType
  <1>5. /\ runs' \in Seq(RowType) /\ Len(runs') = Len(runs) /\ runs'[k] = Row(0, v, r)
        /\ \A i \in 1 .. Len(runs) : i # k => runs'[i] = runs[i]
    BY <1>3, <1>4
  <1>6. runs[k].status # "succeeded" BY DEF Row
  <1>7. KeepsClean(runs, runs') BY <1>5, <1>6 DEF KeepsClean
  <1>8. QED BY <1>5, <1>7
-----------------------------------------------------------------------------
(* What a step of a call may change without disturbing what is known.      *)
LEMMA PinInvKeeps ==
  ASSUME PinInv, TypeOK', runs' \in Seq(RowType), KeepsTests(runs, runs'),
         UNCHANGED flow,
         state' \in Firable => current # 0,
         \A f \in Fires : fires'[f].pc \notin Unread \cup {"gone"} =>
            fires'[f].version \in approved /\ current # 0
  PROVE  PinInv'
  <1>1. runs \in Seq(RowType) BY DEF PinInv, TypeOK, RowType
  <1>2. \A v : Tested(v, runs) => Tested(v, runs') BY <1>1, TestsAreClean, TestedKept
  <1>3. VersionsApproved' BY <1>2 DEF PinInv, VersionsApproved, flow
  <1>4. FirableIsPinned' BY DEF FirableIsPinned, flow
  <1>5. CycleKnows'
    <2>1. cycle.pc = "testing" => /\ cycle.row \in 1 .. Len(runs')
                                  /\ runs'[cycle.row] = Row(0, cycle.version, "running")
      BY <1>1 DEF PinInv, CycleKnows, KeepsTests, Row
    <2>2. QED BY <1>2, <2>1 DEF PinInv, CycleKnows, flow
  <1>6. QED BY <1>3, <1>4, <1>5 DEF PinInv

(* A call goes on to the next await.                                       *)
LEMMA GoToPc ==
  ASSUME TypeOK, NEW f \in Fires, NEW pc \in Steps, GoTo(f, pc)
  PROVE  /\ fires' \in [Fires -> FireType]
         /\ \A g \in Fires : g # f => fires'[g] = fires[g]
         /\ fires'[f].pc = pc /\ fires'[f].version = fires[f].version
         /\ fires'[f].result = fires[f].result /\ fires'[f].amid = fires[f].amid
  <1>1. fires \in [Fires -> FireType] BY DEF TypeOK, FireType
  <1>2. fires' = [fires EXCEPT ![f] = [fires[f] EXCEPT !.pc = pc]] BY DEF GoTo
  <1>3. [fires[f] EXCEPT !.pc = pc] \in FireType BY <1>1 DEF FireType
  <1>4. QED BY <1>1, <1>2, <1>3 DEF FireType

LEMMA PinInit ==
  ASSUME Init
  PROVE  RowInv
  <1>1. cycle = NoCycle(cycle.version) /\ cycle.version \in Versions \cup {0} /\ cycle.pc = "none"
    BY RunnerAssumption DEF Init, NoCycle, Versions
  <1>2. TypeOK
    <2>1. cycle \in CycleType
      BY <1>1 DEF NoCycle, CycleType, Phases
    <2>2. fires \in [Fires -> FireType]
      BY DEF Init, NoFire, FireType, Steps, Firable, Results
    <2>3. Row(0, 1, "succeeded") \in RowType
      BY RunnerAssumption DEF Row, RowType, Versions, Results
    <2>4. runs \in Seq(RowType) BY <2>3 DEF Init
    <2>5. approved \subseteq Versions BY RunnerAssumption DEF Init, Versions
    <2>6. QED BY <1>1, <2>1, <2>2, <2>4, <2>5 DEF Init, TypeOK, RowType, FireType, CycleType, Firable
  <1>3. \A f \in Fires : fires[f].pc = "idle" BY DEF Init, NoFire
  <1>c. CycleKnows BY <1>1 DEF CycleKnows
  <1>4. CASE quiet
    <2>1. runs = <<Row(0, 1, "succeeded")>> /\ current = 1 /\ approved = {1}
      BY <1>4 DEF Init, NoCycle
    <2>2. Tested(1, runs)
      <3>1. Clean(runs[1], 1) /\ 1 \in 1 .. (Len(runs) + 1) - 1 BY <2>1 DEF Clean, Row
      <3>2. QED BY <3>1 DEF Tested, TestedBefore
    <2>3. PinInv
      BY <1>2, <1>3, <1>c, <2>1, <2>2 DEF PinInv, FirableIsPinned, VersionsApproved, Unread
    <2>4. RowsTested /\ OneRowEach
      BY <1>3, <2>1 DEF RowsTested, OneRowEach, Row, Rowless, Judged
    <2>5. QED BY <2>3, <2>4 DEF RowInv
  <1>5. CASE ~quiet
    <2>1. runs = <<>> /\ current = 0 /\ approved = {} /\ state = "Draft"
      BY <1>5 DEF Init, NoCycle
    <2>2. PinInv
      BY <1>2, <1>3, <1>c, <2>1 DEF PinInv, FirableIsPinned, VersionsApproved, Unread, Firable
    <2>3. RowsTested /\ OneRowEach
      BY <1>3, <2>1 DEF RowsTested, OneRowEach, Rowless, Judged
    <2>4. QED BY <2>2, <2>3 DEF RowInv
  <1>6. QED BY <1>4, <1>5 DEF Init

(* Steps that leave the list of runs alone.                                *)
LEMMA SameRuns ==
  ASSUME TypeOK, UNCHANGED runs
  PROVE  runs' \in Seq(RowType) /\ KeepsTests(runs, runs')
  BY DEF TypeOK, RowType, KeepsTests

(* A call that goes on without touching the rows, or only the state.       *)
LEMMA StepPin ==
  ASSUME PinInv, NEW f \in Fires, NEW pc \in Steps, GoTo(f, pc),
         pc \in Unread \cup {"gone"} \/ fires[f].pc \notin Unread \cup {"gone"},
         UNCHANGED <<quiet, flow, runs>>,
         state' = state \/ (state' \in Firable /\ fires[f].pc \notin Unread \cup {"gone"})
  PROVE  PinInv'
  <1>t. TypeOK BY DEF PinInv
  <1>1. /\ fires' \in [Fires -> FireType]
        /\ \A g \in Fires : g # f => fires'[g] = fires[g]
        /\ fires'[f].pc = pc /\ fires'[f].version = fires[f].version
    BY <1>t, GoToPc
  <1>2. TypeOK' BY <1>t, <1>1 DEF TypeOK, FireType, Firable, flow
  <1>3. state' \in Firable => current # 0
    BY DEF PinInv, FirableIsPinned, VersionsApproved
  <1>4. ASSUME NEW g \in Fires, fires'[g].pc \notin Unread \cup {"gone"}
        PROVE  fires'[g].version \in approved /\ current # 0
    <2>1. CASE g = f
      <3>1. fires[f].pc \notin Unread \cup {"gone"} BY <2>1, <1>1, <1>4
      <3>2. QED BY <2>1, <3>1, <1>1 DEF PinInv, VersionsApproved
    <2>2. CASE g # f BY <2>2, <1>1, <1>4 DEF PinInv, VersionsApproved
    <2>3. QED BY <2>1, <2>2
  <1>5. QED BY <1>2, <1>3, <1>4, <1>t, SameRuns, PinInvKeeps
-----------------------------------------------------------------------------
LEMMA FirePin ==
  ASSUME PinInv, NEW f \in Fires, Trigger(f) \/ FireStep(f)
  PROVE  PinInv'
  <1>t. TypeOK /\ runs \in Seq(RowType) BY DEF PinInv, TypeOK, RowType
  <1>f. fires \in [Fires -> FireType] BY <1>t DEF TypeOK, FireType
  <1>1. CASE Trigger(f)
    <2>1. PICK pc \in Steps : pc \in Unread \cup {"gone"} /\ GoTo(f, pc)
      BY <1>1 DEF Trigger, Steps, Unread
    <2>2. UNCHANGED <<quiet, flow, runs>> /\ state' = state
      BY <1>1 DEF Trigger
    <2>3. QED BY <2>1, <2>2, StepPin
  <1>2. CASE Read(f)
    <2>1. CASE state \in Firable /\ current # 0
      <3>1. /\ fires' = [fires EXCEPT ![f] = [fires[f] EXCEPT !.pc = "stamp", !.seen = state,
                                !.version = current, !.amid = cycle.pc # "none"]]
            /\ UNCHANGED <<quiet, state, flow, runs>>
        BY <1>2, <2>1 DEF Read
      <3>2. current \in Versions \cup {0} BY <1>t DEF TypeOK
      <3>3. /\ fires' \in [Fires -> FireType]
            /\ \A g \in Fires : g # f => fires'[g] = fires[g]
            /\ fires'[f].pc = "stamp" /\ fires'[f].version = current
        BY ZenonT(30), <1>f, <2>1, <3>1, <3>2 DEF FireType, Steps
      <3>4. TypeOK' BY <1>t, <3>1, <3>3 DEF TypeOK, FireType, flow
      <3>5. current \in approved BY <2>1 DEF PinInv, VersionsApproved
      <3>6. \A g \in Fires : fires'[g].pc \notin Unread \cup {"gone"} =>
                fires'[g].version \in approved /\ current # 0
        BY <2>1, <3>3, <3>5 DEF PinInv, VersionsApproved
      <3>7. QED BY <1>t, <2>1, <3>1, <3>4, <3>6, SameRuns, PinInvKeeps
    <2>2. CASE ~(state \in Firable /\ current # 0)
      <3>1. PICK pc \in Steps : pc \in Unread \cup {"gone"} /\ GoTo(f, pc)
        BY <1>2, <2>2 DEF Read, GoTo, Steps
      <3>2. UNCHANGED <<quiet, flow, runs>> /\ state' = state
        BY <1>2 DEF Read
      <3>3. QED BY <3>1, <3>2, StepPin
    <2>3. QED BY <2>1, <2>2
  <1>3. CASE Stamp(f) \/ Insert(f) \/ Finish(f)
    <2>1. PICK pc \in {"insert", "sandbox", "audit"} : GoTo(f, pc)
      BY <1>3 DEF Stamp, Insert, Finish
    <2>2. /\ fires[f].pc \in {"stamp", "insert", "finish"}
          /\ UNCHANGED <<quiet, state, flow>>
      BY <1>3 DEF Stamp, Insert, Finish
    <2>3. /\ fires' \in [Fires -> FireType]
          /\ \A g \in Fires : g # f => fires'[g] = fires[g]
          /\ fires'[f].pc = pc /\ fires'[f].version = fires[f].version
      BY <1>t, <2>1, GoToPc DEF Steps
    <2>4. fires[f].version \in approved /\ current # 0
      BY <2>2 DEF PinInv, VersionsApproved, Unread
    <2>5. runs' \in Seq(RowType) /\ KeepsTests(runs, runs')
      <3>1. CASE Stamp(f)
        <4>1. Row(f, fires[f].version, "absent") \in RowType
          BY <1>t, <2>4 DEF Row, RowType, TypeOK
        <4>2. QED BY <1>t, <3>1, <4>1, AppendKeeps DEF Stamp
      <3>2. CASE Insert(f) BY <1>t, <3>2, StatusKeeps DEF Insert
      <3>3. CASE Finish(f)
        <4>1. fires[f].result \in Results BY <1>f DEF FireType
        <4>2. QED BY <1>t, <3>3, <4>1, StatusKeeps DEF Finish
      <3>4. QED BY <1>3, <3>1, <3>2, <3>3
    <2>6. TypeOK' BY <1>t, <2>2, <2>3, <2>5 DEF TypeOK, RowType, FireType, flow
    <2>7. \A g \in Fires : fires'[g].pc \notin Unread \cup {"gone"} =>
            fires'[g].version \in approved /\ current # 0
      BY <2>3, <2>4 DEF PinInv, VersionsApproved
    <2>8. QED BY <2>2, <2>4, <2>5, <2>6, <2>7, PinInvKeeps
  <1>4. CASE Sandbox(f)
    <2>1. PICK r \in Results :
            fires' = [fires EXCEPT ![f] = [fires[f] EXCEPT !.pc = "finish", !.result = r]]
      BY <1>4 DEF Sandbox
    <2>2. fires[f].pc = "sandbox" /\ UNCHANGED <<quiet, state, flow, runs>>
      BY <1>4 DEF Sandbox
    <2>3. /\ fires' \in [Fires -> FireType]
          /\ \A g \in Fires : g # f => fires'[g] = fires[g]
          /\ fires'[f].pc = "finish" /\ fires'[f].version = fires[f].version
      BY <1>f, <2>1 DEF FireType, Steps
    <2>4. TypeOK' BY <1>t, <2>2, <2>3 DEF TypeOK, FireType, flow
    <2>5. fires[f].version \in approved /\ current # 0
      BY <2>2 DEF PinInv, VersionsApproved, Unread
    <2>6. \A g \in Fires : fires'[g].pc \notin Unread \cup {"gone"} =>
            fires'[g].version \in approved /\ current # 0
      BY <2>3, <2>5 DEF PinInv, VersionsApproved
    <2>7. QED BY <1>t, <2>2, <2>4, <2>5, <2>6, SameRuns, PinInvKeeps
  <1>5. CASE Audit(f) \/ Judge(f) \/ Recheck(f)
    <2>1. /\ fires[f].pc \in {"audit", "judge", "recheck"}
          /\ UNCHANGED <<quiet, state, flow, runs>>
          /\ \E pc \in Steps : GoTo(f, pc)
      BY <1>5 DEF Audit, Judge, Recheck, Steps
    <2>2. QED BY <2>1, StepPin DEF Unread
  <1>6. CASE Promote(f) \/ Degrade(f)
    <2>1. /\ fires[f].pc \in {"promote", "degrade"} /\ state' \in Firable
          /\ UNCHANGED <<quiet, flow, runs>> /\ GoTo(f, "done") /\ "done" \in Steps
      BY <1>6 DEF Promote, Degrade, Firable, Steps
    <2>2. QED BY <2>1, StepPin DEF Unread
  <1>7. QED BY <1>1, <1>2, <1>3, <1>4, <1>5, <1>6 DEF FireStep

(* What a step of the workflow leaves behind, given what it writes.        *)
LEMMA WorkflowPinKeeps ==
  ASSUME PinInv, UNCHANGED <<quiet, fires>>, runs' \in Seq(RowType), KeepsClean(runs, runs'),
         state' \in Firable \cup {"Draft", "Generating", "Tested", "Approved", "Building"},
         state' \in Firable => current' # 0,
         current # 0 => current' # 0, current' # 0 => current' \in approved',
         current' \in Versions \cup {0}, approved \subseteq approved', approved' \subseteq Versions,
         \A v \in approved' : v \in approved \/ Tested(v, runs'),
         cycle' \in CycleType, CycleKnows'
  PROVE  PinInv'
  <1>t. TypeOK /\ runs \in Seq(RowType) BY DEF PinInv, TypeOK, RowType
  <1>1. \A v : Tested(v, runs) => Tested(v, runs') BY <1>t, TestedKept
  <1>2. TypeOK' BY <1>t DEF TypeOK, RowType, CycleType
  <1>3. VersionsApproved'
    <2>1. \A v \in approved' : Tested(v, runs') BY <1>1 DEF PinInv, VersionsApproved
    <2>2. \A f \in Fires : fires[f].pc \notin Unread \cup {"gone"} =>
                fires[f].version \in approved' /\ current' # 0
      BY DEF PinInv, VersionsApproved
    <2>3. QED BY <2>1, <2>2 DEF VersionsApproved
  <1>4. QED BY <1>2, <1>3 DEF PinInv, FirableIsPinned

LEMMA WorkflowPin ==
  ASSUME PinInv, Workflow
  PROVE  PinInv'
  <1>t. TypeOK /\ runs \in Seq(RowType) BY DEF PinInv, TypeOK, RowType
  <1>c. cycle \in CycleType /\ Versions \cup {0} = 0 .. MaxCycles /\ MaxCycles \in Nat
    BY <1>t, RunnerAssumption DEF TypeOK, CycleType, Versions
  <1>s. \A pc \in Phases : /\ [cycle EXCEPT !.pc = pc] \in CycleType
                            /\ [cycle EXCEPT !.pc = pc].pc = pc
                            /\ [cycle EXCEPT !.pc = pc].version = cycle.version
                            /\ [cycle EXCEPT !.pc = pc].captured = cycle.captured
    BY <1>c DEF CycleType
  <1>n. \A v \in Versions \cup {0} : NoCycle(v) \in CycleType /\ NoCycle(v).pc = "none"
    BY DEF NoCycle, CycleType, Phases
  <1>a. /\ current \in Versions \cup {0} /\ approved \subseteq Versions
        /\ state \in Firable \cup {"Draft", "Generating", "Tested", "Approved", "Building"}
        /\ (state \in Firable => current # 0) /\ (current # 0 => current \in approved)
    BY <1>t DEF PinInv, TypeOK, FirableIsPinned, VersionsApproved
  <1>r. UNCHANGED runs => runs' \in Seq(RowType) /\ KeepsClean(runs, runs')
    BY <1>t, SameRuns, TestsAreClean
  <1>1. CASE Begin
    <2>1. /\ cycle' = [NoCycle(cycle.version + 1) EXCEPT !.pc = "test"]
          /\ cycle.version < MaxCycles /\ state' = "Generating"
          /\ UNCHANGED <<quiet, current, approved, runs, fires>>
      BY <1>1 DEF Begin
    <2>2. cycle.version + 1 \in Versions BY <1>c, <2>1 DEF CycleType, Versions
    <2>3. cycle' \in CycleType /\ cycle'.pc = "test" /\ cycle'.version # 0
      BY <2>1, <2>2 DEF NoCycle, CycleType, Phases, Versions
    <2>4. CycleKnows' BY <2>3 DEF CycleKnows
    <2>5. state' \notin Firable BY <2>1 DEF Firable
    <2>6. QED BY <1>a, <1>r, <2>1, <2>3, <2>4, <2>5, WorkflowPinKeeps
  <1>2. CASE TestStarts
    <2>1. /\ runs' = Append(runs, Row(0, cycle.version, "running"))
          /\ cycle' = [cycle EXCEPT !.pc = "testing", !.row = Len(runs) + 1]
          /\ cycle.pc = "test" /\ UNCHANGED <<quiet, state, current, approved, fires>>
      BY <1>2 DEF TestStarts
    <2>2. cycle.version \in Versions BY <1>c, <2>1 DEF PinInv, CycleKnows, CycleType
    <2>3. Row(0, cycle.version, "running") \in RowType BY <2>2 DEF Row, RowType
    <2>4. /\ runs' \in Seq(RowType) /\ KeepsClean(runs, runs') /\ Len(runs') = Len(runs) + 1
          /\ runs'[Len(runs) + 1] = Row(0, cycle.version, "running")
      BY <1>t, <2>1, <2>3, AppendKeeps, TestsAreClean
    <2>5. /\ cycle' \in CycleType /\ cycle'.pc = "testing" /\ cycle'.version = cycle.version
          /\ cycle'.row = Len(runs) + 1
      <3>1. Len(runs) + 1 \in Nat BY <1>t
      <3>2. "testing" \in Phases BY DEF Phases
      <3>3. QED BY <1>c, <2>1, <3>1, <3>2 DEF CycleType
    <2>6. CycleKnows'
      BY <1>t, <1>c, <2>2, <2>4, <2>5 DEF CycleKnows, Versions
    <2>7. QED BY <1>a, <2>1, <2>4, <2>5, <2>6, WorkflowPinKeeps
  <1>3. CASE TestEnds
    <2>1. PICK r \in Results :
            /\ runs' = [runs EXCEPT ![cycle.row].status = r]
            /\ cycle' = [cycle EXCEPT !.pc = IF r = "succeeded" THEN "passed" ELSE "failed"]
      BY <1>3 DEF TestEnds, Step
    <2>2. cycle.pc = "testing" /\ UNCHANGED <<quiet, state, current, approved, fires>>
      BY <1>3 DEF TestEnds
    <2>3. /\ cycle.row \in 1 .. Len(runs) /\ cycle.version # 0
          /\ runs[cycle.row] = Row(0, cycle.version, "running")
      BY <2>2 DEF PinInv, CycleKnows
    <2>4. /\ runs' \in Seq(RowType) /\ KeepsClean(runs, runs') /\ Len(runs') = Len(runs)
          /\ runs'[cycle.row] = Row(0, cycle.version, r)
      BY ZenonT(30), <1>t, <2>1, <2>3, TestEndKeeps
    <2>5. r = "succeeded" => Tested(cycle.version, runs')
      <3>1. cycle.version \in Nat BY <1>c DEF CycleType
      <3>2. ASSUME r = "succeeded" PROVE Clean(runs'[cycle.row], cycle.version)
        BY <2>4, <3>1, <3>2 DEF Clean, Row
      <3>3. cycle.row \in 1 .. (Len(runs') + 1) - 1 BY <1>t, <2>3, <2>4
      <3>4. QED BY <3>2, <3>3 DEF Tested, TestedBefore
    <2>6. /\ cycle' \in CycleType /\ cycle'.version = cycle.version
          /\ cycle'.pc \in {"passed", "failed"} /\ (cycle'.pc = "passed" => r = "succeeded")
      BY <1>s, <2>1 DEF Phases
    <2>7. CycleKnows' BY <2>3, <2>5, <2>6 DEF CycleKnows
    <2>8. QED BY <1>a, <2>2, <2>4, <2>6, <2>7, WorkflowPinKeeps
  <1>4. CASE WriteTested
    <2>1. /\ cycle.pc = "passed" /\ state' = "Tested" /\ cycle' = [cycle EXCEPT !.pc = "gate"]
          /\ UNCHANGED <<quiet, current, approved, runs, fires>>
      BY <1>4 DEF WriteTested, Step
    <2>2. cycle' \in CycleType /\ cycle'.pc = "gate" /\ cycle'.version = cycle.version
      BY <1>s, <2>1 DEF Phases
    <2>3. CycleKnows' BY <2>1, <2>2 DEF PinInv, CycleKnows
    <2>4. state' \notin Firable BY <2>1 DEF Firable
    <2>5. QED BY <1>a, <1>r, <2>1, <2>2, <2>3, <2>4, WorkflowPinKeeps
  <1>5. CASE Gate
    <2>1. PICK v \in 1 .. cycle.version :
            /\ cycle' = [cycle EXCEPT !.pc = "build", !.captured = v]
            /\ approved' = approved \cup {v}
      BY <1>5 DEF Gate
    <2>2. /\ cycle.pc = "gate" /\ state' = "Approved"
          /\ UNCHANGED <<quiet, current, runs, fires>>
      BY <1>5 DEF Gate
    <2>3. v \in Versions /\ v <= cycle.version /\ v \in Nat /\ cycle.version \in Nat
      BY <1>c DEF CycleType, Versions
    <2>4. /\ cycle' \in CycleType /\ cycle'.pc = "build" /\ cycle'.captured = v
          /\ cycle'.version = cycle.version
      BY <1>c, <2>1, <2>3 DEF CycleType, Phases
    <2>5. CycleKnows' BY <2>1, <2>2, <2>4 DEF PinInv, CycleKnows
    <2>6. Tested(v, runs)
      <3>1. PICK j \in 1 .. (Len(runs) + 1) - 1 : Clean(runs[j], cycle.version)
        BY <2>2 DEF PinInv, CycleKnows, Tested, TestedBefore
      <3>2. runs[j] \in RowType BY <1>t
      <3>3. Clean(runs[j], v) BY <2>3, <3>1, <3>2 DEF Clean, RowType, Versions
      <3>4. QED BY <3>3 DEF Tested, TestedBefore
    <2>7. state' \notin Firable BY <2>2 DEF Firable
    <2>8. QED BY <1>a, <1>r, <2>1, <2>2, <2>3, <2>4, <2>5, <2>6, <2>7, WorkflowPinKeeps
  <1>6. CASE Build
    <2>1. /\ cycle.pc = "build" /\ state' = "Building" /\ cycle' = [cycle EXCEPT !.pc = "pin"]
          /\ UNCHANGED <<quiet, current, approved, runs, fires>>
      BY <1>6 DEF Build, Step
    <2>2. /\ cycle' \in CycleType /\ cycle'.pc = "pin" /\ cycle'.captured = cycle.captured
          /\ cycle'.version = cycle.version
      BY <1>s, <2>1 DEF Phases
    <2>3. CycleKnows' BY <2>1, <2>2 DEF PinInv, CycleKnows
    <2>4. state' \notin Firable BY <2>1 DEF Firable
    <2>5. QED BY <1>a, <1>r, <2>1, <2>2, <2>3, <2>4, WorkflowPinKeeps
  <1>7. CASE PinVersion
    <2>1. /\ cycle.pc = "pin" /\ current' = cycle.captured
          /\ cycle' = [cycle EXCEPT !.pc = "deploy"]
          /\ UNCHANGED <<quiet, state, approved, runs, fires>>
      BY <1>7 DEF PinVersion, Step
    <2>2. /\ cycle' \in CycleType /\ cycle'.pc = "deploy" /\ cycle'.captured = cycle.captured
          /\ cycle'.version = cycle.version
      BY <1>s, <2>1 DEF Phases
    <2>3. current' \in approved /\ current' \in Versions /\ current' # 0
      BY <1>a, <2>1 DEF PinInv, CycleKnows, Versions
    <2>4. CycleKnows' BY <2>1, <2>2, <2>3 DEF PinInv, CycleKnows
    <2>5. QED BY <1>a, <1>r, <2>1, <2>2, <2>3, <2>4, WorkflowPinKeeps
  <1>8. CASE Deploy
    <2>1. /\ cycle.pc = "deploy" /\ state' = "Deployed" /\ cycle' = [cycle EXCEPT !.pc = "settle"]
          /\ UNCHANGED <<quiet, current, approved, runs, fires>>
      BY <1>8 DEF Deploy, Step
    <2>2. cycle' \in CycleType /\ cycle'.pc = "settle" /\ cycle'.version = cycle.version
      BY <1>s, <2>1 DEF Phases
    <2>3. CycleKnows' BY <2>1, <2>2 DEF PinInv, CycleKnows
    <2>4. current # 0 BY <2>1 DEF PinInv, CycleKnows
    <2>5. state' \in Firable BY <2>1 DEF Firable
    <2>6. QED BY <1>a, <1>r, <2>1, <2>2, <2>3, <2>4, <2>5, WorkflowPinKeeps
  <1>9. CASE Settle \/ GiveUp
    <2>1. /\ cycle' = NoCycle(cycle.version)
          /\ UNCHANGED <<quiet, current, approved, runs, fires>>
      BY <1>9 DEF Settle, GiveUp
    <2>2. cycle' \in CycleType /\ cycle'.pc = "none" BY <1>c, <1>n, <2>1 DEF CycleType
    <2>3. CycleKnows' BY <2>2 DEF CycleKnows
    <2>4. /\ state' \in Firable \cup {"Draft", "Generating", "Tested", "Approved", "Building"}
          /\ state' \in Firable => current # 0
      <3>1. CASE Settle BY <3>1 DEF Settle, Firable, PinInv, CycleKnows
      <3>2. CASE GiveUp BY <1>a, <3>2 DEF GiveUp, Firable
      <3>3. QED BY <1>9, <3>1, <3>2
    <2>5. QED BY <1>a, <1>r, <2>1, <2>2, <2>3, <2>4, WorkflowPinKeeps
  <1>10. QED BY <1>1, <1>2, <1>3, <1>4, <1>5, <1>6, <1>7, <1>8, <1>9 DEF Workflow

LEMMA NextPin ==
  ASSUME PinInv, [Next]_vars
  PROVE  PinInv'
  <1>t. TypeOK BY DEF PinInv
  <1>1. ASSUME NEW f \in Fires, Trigger(f) \/ FireStep(f) PROVE PinInv'
    BY <1>1, FirePin
  <1>2. CASE Workflow BY <1>2, WorkflowPin
  <1>3. ASSUME NEW f \in Fires, Throws(f) PROVE PinInv'
    <2>1. PICK pc \in Steps : pc \in Unread \cup {"gone"} /\ GoTo(f, pc)
      BY <1>3 DEF Throws, Steps
    <2>2. UNCHANGED <<quiet, flow, runs>> /\ state' = state
      BY <1>3 DEF Throws
    <2>3. QED BY <2>1, <2>2, StepPin
  <1>4. CASE RunnerCrash
    <2>1. /\ fires' = [f \in Fires |-> IF Over(f) THEN fires[f] ELSE [fires[f] EXCEPT !.pc = "gone"]]
          /\ UNCHANGED <<quiet, state, flow, runs>>
      BY <1>4 DEF RunnerCrash
    <2>2. fires \in [Fires -> FireType] BY <1>t DEF TypeOK, FireType
    <2>3. /\ fires' \in [Fires -> FireType]
          /\ \A f \in Fires : fires'[f] = fires[f] \/ fires'[f].pc = "gone"
      BY <2>1, <2>2 DEF FireType, Steps
    <2>4. TypeOK' BY <1>t, <2>1, <2>3 DEF TypeOK, FireType, flow
    <2>5. \A g \in Fires : fires'[g].pc \notin Unread \cup {"gone"} =>
                fires'[g].version \in approved /\ current # 0
      BY <2>3 DEF PinInv, VersionsApproved
    <2>6. QED BY <1>t, <2>1, <2>4, <2>5, SameRuns, PinInvKeeps DEF PinInv, FirableIsPinned
  <1>5. CASE UNCHANGED vars
    BY <1>5 DEF vars, flow, PinInv, TypeOK, FirableIsPinned, CycleKnows, VersionsApproved
  <1>6. QED BY <1>1, <1>2, <1>3, <1>4, <1>5 DEF Next
-----------------------------------------------------------------------------
(* The version and the result of a call stay what they are, once they are  *)
(* there, and what is recorded is recorded.                                *)
Onward(f) ==
    /\ fires[f].pc \notin Rowless => /\ fires'[f].pc \notin Rowless
                                     /\ fires'[f].version = fires[f].version
    /\ fires'[f].pc \in Rowless \cup {"gone"} \/ fires[f].pc \notin Rowless \cup {"gone"}
    /\ fires'[f].pc \in Judged => fires[f].pc \in Judged /\ fires'[f].result = fires[f].result

(* Steps that add no row of a fire and change none.                        *)
SameFires(old, new) ==
    /\ KeepsClean(old, new)
    /\ \A i \in 1 .. Len(new) : new[i].fire # 0 => i \in 1 .. Len(old) /\ new[i] = old[i]
    /\ \A i \in 1 .. Len(old) : old[i].fire # 0 => new[i] = old[i]

LEMMA RowsKeep ==
  ASSUME RowInv, PinInv', \A f \in Fires : Onward(f), SameFires(runs, runs'),
         approved \subseteq approved'
  PROVE  RowInv'
  <1>1. /\ runs \in Seq(RowType) /\ runs' \in Seq(RowType)
        /\ Len(runs) <= Len(runs') /\ KeepsClean(runs, runs')
    BY DEF RowInv, PinInv, TypeOK, RowType, SameFires, KeepsClean
  <1>3. 0 \notin Fires /\ Len(runs) \in Nat /\ Len(runs') \in Nat BY <1>1 DEF Fires
  <1>4. \A i \in 1 .. Len(runs) : runs[i].fire \in Fires \cup {0} BY <1>1, RowFire
  <1>5. RowsTested'
    <2> SUFFICES ASSUME NEW i \in 1 .. Len(runs'), runs'[i].fire # 0
                 PROVE  /\ fires'[runs'[i].fire].pc \notin Rowless
                        /\ runs'[i].version = fires'[runs'[i].fire].version
                        /\ runs'[i].version \in approved'
                        /\ TestedBefore(runs'[i].version, i, runs')
      BY DEF RowsTested
    <2>1. i \in 1 .. Len(runs) /\ runs'[i] = runs[i] BY DEF SameFires
    <2>2. /\ fires[runs[i].fire].pc \notin Rowless
          /\ runs[i].version = fires[runs[i].fire].version
          /\ runs[i].version \in approved
          /\ TestedBefore(runs[i].version, i, runs)
      BY <2>1 DEF RowInv, RowsTested
    <2>3. TestedBefore(runs[i].version, i, runs')
      BY <1>1, <1>3, <2>1, <2>2, TestedStays
    <2>4. QED BY <1>4, <2>1, <2>2, <2>3 DEF Onward
  <1>6. OneRowEach'
    <2>1. \A f \in Fires : \A i : RowOf(f, i, runs') <=> RowOf(f, i, runs)
      BY <1>1, <1>3 DEF RowOf, SameFires
    <2> SUFFICES ASSUME NEW f \in Fires
                 PROVE  /\ fires'[f].pc \notin Rowless \cup {"gone"} =>
                            \E i \in 1 .. Len(runs') :
                                RowOf(f, i, runs') /\ \A j \in 1 .. Len(runs') : RowOf(f, j, runs') => j = i
                        /\ fires'[f].pc \in Judged =>
                            \A i \in 1 .. Len(runs') : RowOf(f, i, runs') => runs'[i].status = fires'[f].result
      BY DEF OneRowEach
    <2>2. ASSUME fires'[f].pc \notin Rowless \cup {"gone"}
          PROVE  \E i \in 1 .. Len(runs') :
                    RowOf(f, i, runs') /\ \A j \in 1 .. Len(runs') : RowOf(f, j, runs') => j = i
      <3>1. fires[f].pc \notin Rowless \cup {"gone"} BY <2>2 DEF Onward
      <3>2. PICK i \in 1 .. Len(runs) :
                RowOf(f, i, runs) /\ \A j \in 1 .. Len(runs) : RowOf(f, j, runs) => j = i
        BY <3>1 DEF RowInv, OneRowEach
      <3>3. i \in 1 .. Len(runs') BY <1>1, <1>3
      <3>4. \A j \in 1 .. Len(runs') : RowOf(f, j, runs') => j = i
        BY <2>1, <3>2 DEF RowOf
      <3>5. QED BY <2>1, <3>2, <3>3, <3>4
    <2>3. ASSUME fires'[f].pc \in Judged, NEW i \in 1 .. Len(runs'), RowOf(f, i, runs')
          PROVE  runs'[i].status = fires'[f].result
      <3>1. RowOf(f, i, runs) /\ i \in 1 .. Len(runs) BY <2>1, <2>3 DEF RowOf
      <3>2. fires[f].pc \in Judged /\ fires'[f].result = fires[f].result BY <2>3 DEF Onward
      <3>3. runs'[i] = runs[i] BY <1>3, <3>1 DEF RowOf, SameFires
      <3>4. QED BY <3>1, <3>2, <3>3 DEF RowInv, OneRowEach
    <2>4. QED BY <2>2, <2>3
  <1>7. QED BY <1>5, <1>6 DEF RowInv

LEMMA StampRows ==
  ASSUME RowInv, PinInv', NEW f \in Fires, Stamp(f)
  PROVE  RowInv'
  <1>t. TypeOK /\ runs \in Seq(RowType) BY DEF RowInv, PinInv, TypeOK, RowType
  <1>1. /\ fires[f].pc = "stamp" /\ GoTo(f, "insert") /\ "insert" \in Steps
        /\ runs' = Append(runs, Row(f, fires[f].version, "absent")) /\ approved' = approved
    BY DEF Stamp, Steps, flow
  <1>2. /\ \A g \in Fires : g # f => fires'[g] = fires[g]
        /\ fires'[f].pc = "insert" /\ fires'[f].version = fires[f].version
    BY <1>t, <1>1, GoToPc
  <1>3. fires[f].version \in approved /\ Tested(fires[f].version, runs)
    BY <1>1 DEF RowInv, PinInv, VersionsApproved, Unread
  <1>4. Row(f, fires[f].version, "absent") \in RowType
    BY <1>t, <1>3 DEF Row, RowType, TypeOK
  <1>5. /\ runs' \in Seq(RowType) /\ Len(runs') = Len(runs) + 1 /\ Len(runs) \in Nat
        /\ KeepsClean(runs, runs')
        /\ runs'[Len(runs) + 1] = Row(f, fires[f].version, "absent")
        /\ \A i \in 1 .. Len(runs) : runs'[i] = runs[i]
    BY <1>t, <1>1, <1>4, AppendKeeps, TestsAreClean
  <1>6. \A i \in 1 .. Len(runs) : runs[i].fire \in Fires \cup {0} /\ runs[i].fire # f
    BY <1>t, <1>1, RowFire DEF RowInv, RowsTested, Rowless, Fires
  <1>7. RowsTested'
    <2> SUFFICES ASSUME NEW i \in 1 .. Len(runs'), runs'[i].fire # 0
                 PROVE  /\ fires'[runs'[i].fire].pc \notin Rowless
                        /\ runs'[i].version = fires'[runs'[i].fire].version
                        /\ runs'[i].version \in approved'
                        /\ TestedBefore(runs'[i].version, i, runs')
      BY DEF RowsTested
    <2>1. CASE i \in 1 .. Len(runs)
      <3>1. /\ fires[runs[i].fire].pc \notin Rowless
            /\ runs[i].version = fires[runs[i].fire].version
            /\ runs[i].version \in approved
          /\ TestedBefore(runs[i].version, i, runs)
        BY <1>5, <2>1 DEF RowInv, RowsTested
      <3>2. TestedBefore(runs[i].version, i, runs')
        BY <1>t, <1>5, <2>1, <3>1, TestedStays
      <3>3. QED BY <1>1, <1>2, <1>5, <1>6, <2>1, <3>1, <3>2
    <2>2. CASE i = Len(runs) + 1
      <3>1. runs'[i] = Row(f, fires[f].version, "absent") BY <1>5, <2>2
      <3>2. TestedBefore(fires[f].version, i, runs')
        <4>1. TestedBefore(fires[f].version, i, runs) BY <1>3, <2>2 DEF Tested
        <4>2. QED BY <1>t, <1>5, <2>2, <4>1, TestedStays
      <3>3. QED BY <1>1, <1>2, <1>3, <3>1, <3>2 DEF Row, Rowless
    <2>3. QED BY <1>5, <2>1, <2>2
  <1>8. OneRowEach'
    <2>1. \A g \in Fires : \A i : RowOf(g, i, runs') <=>
                (RowOf(g, i, runs) \/ (g = f /\ i = Len(runs) + 1))
      BY <1>5, <1>6 DEF RowOf, Row
    <2>2. \A i : ~RowOf(f, i, runs) BY <1>6 DEF RowOf
    <2> SUFFICES ASSUME NEW g \in Fires
                 PROVE  /\ fires'[g].pc \notin Rowless \cup {"gone"} =>
                            \E i \in 1 .. Len(runs') :
                                RowOf(g, i, runs') /\ \A j \in 1 .. Len(runs') : RowOf(g, j, runs') => j = i
                        /\ fires'[g].pc \in Judged =>
                            \A i \in 1 .. Len(runs') : RowOf(g, i, runs') => runs'[i].status = fires'[g].result
      BY DEF OneRowEach
    <2>3. CASE g = f
      <3>1. Len(runs) + 1 \in 1 .. Len(runs') BY <1>5
      <3>2. QED BY <1>2, <2>1, <2>2, <2>3, <3>1 DEF Judged
    <2>4. CASE g # f
      <3>1. fires'[g] = fires[g] BY <1>2, <2>4
      <3>2. ASSUME fires[g].pc \notin Rowless \cup {"gone"}
            PROVE  \E i \in 1 .. Len(runs') :
                    RowOf(g, i, runs') /\ \A j \in 1 .. Len(runs') : RowOf(g, j, runs') => j = i
        <4>1. PICK i \in 1 .. Len(runs) :
                RowOf(g, i, runs) /\ \A j \in 1 .. Len(runs) : RowOf(g, j, runs) => j = i
          BY <3>2 DEF RowInv, OneRowEach
        <4>2. i \in 1 .. Len(runs') BY <1>5
        <4>3. \A j \in 1 .. Len(runs') : RowOf(g, j, runs') => j = i
          BY <2>1, <2>4, <4>1 DEF RowOf
        <4>4. QED BY <2>1, <4>1, <4>2, <4>3
      <3>3. ASSUME fires[g].pc \in Judged, NEW i \in 1 .. Len(runs'), RowOf(g, i, runs')
            PROVE  runs'[i].status = fires[g].result
        <4>1. RowOf(g, i, runs) /\ i \in 1 .. Len(runs) BY <2>1, <2>4, <3>3 DEF RowOf
        <4>2. QED BY <1>5, <3>3, <4>1 DEF RowInv, OneRowEach
      <3>4. QED BY <3>1, <3>2, <3>3
    <2>5. QED BY <2>3, <2>4
  <1>9. QED BY <1>7, <1>8 DEF RowInv

(* Insert and Finish set the status of the row of the call.                *)
LEMMA StatusRows ==
  ASSUME RowInv, PinInv', NEW f \in Fires, Insert(f) \/ Finish(f)
  PROVE  RowInv'
  <1>t. TypeOK /\ runs \in Seq(RowType) BY DEF RowInv, PinInv, TypeOK, RowType
  <1>f. fires \in [Fires -> FireType] BY <1>t DEF TypeOK, FireType
  <1>1. /\ fires[f].pc \in {"insert", "finish"}
        /\ \E pc \in {"sandbox", "audit"} : GoTo(f, pc) /\ pc \in Steps
        /\ \E s \in Results \cup {"absent", "running"} : SetStatus(f, s)
        /\ Finish(f) => SetStatus(f, fires[f].result)
        /\ Insert(f) => GoTo(f, "sandbox") /\ "sandbox" \in Steps
        /\ approved' = approved
    <2>1. CASE Insert(f) /\ ~Finish(f) BY <2>1 DEF Insert, Steps, Results, flow
    <2>2. CASE Finish(f)
      <3>1. fires[f].result \in Results BY <1>f DEF FireType
      <3>2. ~Insert(f) BY <2>2 DEF Insert, Finish
      <3>3. QED BY <2>2, <3>1, <3>2 DEF Finish, Steps, flow
    <2>3. QED BY <2>1, <2>2
  <1>2. /\ \A g \in Fires : g # f => fires'[g] = fires[g]
        /\ fires'[f].pc \in {"sandbox", "audit"} /\ fires'[f].version = fires[f].version
        /\ fires'[f].result = fires[f].result
        /\ Insert(f) => fires'[f].pc = "sandbox"
    BY <1>t, <1>1, GoToPc
  <1>3. /\ runs' \in Seq(RowType) /\ Len(runs') = Len(runs) /\ KeepsTests(runs, runs')
        /\ \A i \in 1 .. Len(runs) :
                /\ runs'[i].fire = runs[i].fire /\ runs'[i].version = runs[i].version
                /\ runs[i].fire # f => runs'[i] = runs[i]
        /\ Finish(f) => \A i \in 1 .. Len(runs) : runs[i].fire = f => runs'[i].status = fires[f].result
    <2>1. fires[f].result \in Results \cup {"absent", "running"} BY <1>f DEF FireType
    <2>2. QED BY <1>t, <1>1, <2>1, StatusKeeps
  <1>4. \A i \in 1 .. Len(runs) : runs[i].fire \in Fires \cup {0} BY <1>t, RowFire
  <1>5. RowsTested'
    <2> SUFFICES ASSUME NEW i \in 1 .. Len(runs), runs[i].fire # 0
                 PROVE  /\ fires'[runs[i].fire].pc \notin Rowless
                        /\ runs[i].version = fires'[runs[i].fire].version
                        /\ runs[i].version \in approved'
                      /\ TestedBefore(runs[i].version, i, runs')
      BY <1>3 DEF RowsTested
    <2>1. /\ fires[runs[i].fire].pc \notin Rowless
          /\ runs[i].version = fires[runs[i].fire].version
          /\ runs[i].version \in approved
          /\ TestedBefore(runs[i].version, i, runs)
      BY DEF RowInv, RowsTested
    <2>2. i \in 1 .. Len(runs) + 1 BY <1>t
    <2>3. KeepsClean(runs, runs') BY <1>3, TestsAreClean
    <2>4. TestedBefore(runs[i].version, i, runs')
      BY <1>t, <1>3, <2>1, <2>2, <2>3, TestedStays
    <2>5. QED BY <1>1, <1>2, <1>4, <2>1, <2>4 DEF Rowless
  <1>6. OneRowEach'
    <2>1. \A g \in Fires : \A i : RowOf(g, i, runs') <=> RowOf(g, i, runs) BY <1>3 DEF RowOf
    <2>2. ASSUME NEW g \in Fires, fires'[g].pc \notin Rowless \cup {"gone"}
          PROVE  fires[g].pc \notin Rowless \cup {"gone"}
      BY <1>1, <1>2, <2>2 DEF Rowless
    <2>3. ASSUME NEW g \in Fires, fires'[g].pc \in Judged, NEW i \in 1 .. Len(runs),
                 RowOf(g, i, runs)
          PROVE  runs'[i].status = fires'[g].result
      <3>1. CASE g = f
        <4>1. ~Insert(f) BY <1>2, <2>3, <3>1 DEF Judged
        <4>2. QED BY <4>1, <1>2, <1>3, <2>3, <3>1 DEF RowOf
      <3>2. CASE g # f
        BY <1>2, <1>3, <2>3, <3>2 DEF RowOf, RowInv, OneRowEach
      <3>3. QED BY <3>1, <3>2
    <2>4. QED BY <1>3, <2>1, <2>2, <2>3 DEF RowInv, OneRowEach
  <1>7. QED BY <1>5, <1>6 DEF RowInv

LEMMA NextRows ==
  ASSUME RowInv, PinInv', [Next]_vars
  PROVE  RowInv'
  <1>t. TypeOK BY DEF RowInv, PinInv
  <1>f. fires \in [Fires -> FireType] BY <1>t DEF TypeOK, FireType
  <1>1. ASSUME NEW f \in Fires, Stamp(f) PROVE RowInv' BY <1>1, StampRows
  <1>2. ASSUME NEW f \in Fires, Insert(f) \/ Finish(f) PROVE RowInv' BY <1>2, StatusRows
  <1>u. UNCHANGED runs => SameFires(runs, runs') BY DEF SameFires, KeepsClean
  <1>o. ASSUME NEW f \in Fires, \A g \in Fires : g # f => fires'[g] = fires[g], Onward(f),
               UNCHANGED <<runs, flow>>
        PROVE  RowInv'
    <2>1. \A g \in Fires : Onward(g) BY <1>o DEF Onward, Rowless, Judged
    <2>2. QED BY <1>o, <1>u, <2>1, RowsKeep DEF flow
  <1>g. ASSUME NEW f \in Fires, NEW pc \in Steps, GoTo(f, pc), UNCHANGED <<runs, flow>>,
               \/ fires[f].pc \in Rowless /\ pc \in Rowless
               \/ pc = "gone"
               \/ fires[f].pc \in Judged /\ pc \in Judged
        PROVE  RowInv'
    <2>1. /\ \A g \in Fires : g # f => fires'[g] = fires[g]
          /\ fires'[f].pc = pc /\ fires'[f].version = fires[f].version
          /\ fires'[f].result = fires[f].result
      BY <1>t, <1>g, GoToPc
    <2>2. Onward(f) BY <1>g, <2>1 DEF Onward, Rowless, Judged
    <2>3. QED BY <1>g, <1>o, <2>1, <2>2
  <1>3. ASSUME NEW f \in Fires, Trigger(f) PROVE RowInv'
    <2>1. /\ fires[f].pc \in Rowless /\ "read" \in Steps /\ "read" \in Rowless
          /\ GoTo(f, "read") /\ UNCHANGED <<runs, flow>>
      BY <1>3 DEF Trigger, Steps, Rowless
    <2>2. QED BY <1>g, <2>1
  <1>4. ASSUME NEW f \in Fires, Read(f) PROVE RowInv'
    <2>1. /\ \A g \in Fires : g # f => fires'[g] = fires[g]
          /\ fires[f].pc = "read" /\ fires'[f].pc \in {"stamp", "gone"} /\ UNCHANGED <<runs, flow>>
      BY <1>4, <1>f DEF Read, FireType
    <2>2. Onward(f) BY <2>1 DEF Onward, Rowless, Judged
    <2>3. QED BY <1>o, <2>1, <2>2
  <1>5. ASSUME NEW f \in Fires, Sandbox(f) PROVE RowInv'
    <2>1. /\ \A g \in Fires : g # f => fires'[g] = fires[g]
          /\ fires[f].pc = "sandbox" /\ fires'[f].pc = "finish"
          /\ fires'[f].version = fires[f].version /\ UNCHANGED <<runs, flow>>
      BY <1>5, <1>f DEF Sandbox, FireType
    <2>2. Onward(f) BY <2>1 DEF Onward, Rowless, Judged
    <2>3. QED BY <1>o, <2>1, <2>2
  <1>6. ASSUME NEW f \in Fires,
               Audit(f) \/ Judge(f) \/ Recheck(f) \/ Promote(f) \/ Degrade(f)
        PROVE  RowInv'
    <2>1. /\ fires[f].pc \in Judged /\ UNCHANGED <<runs, flow>>
          /\ \E pc \in Steps : pc \in Judged /\ GoTo(f, pc)
      BY <1>6 DEF Audit, Judge, Recheck, Promote, Degrade, Steps, Judged
    <2>2. QED BY <1>g, <2>1
  <1>7. ASSUME NEW f \in Fires, Throws(f) PROVE RowInv'
    <2>1. "gone" \in Steps /\ GoTo(f, "gone") /\ UNCHANGED <<runs, flow>>
      BY <1>7 DEF Throws, Steps
    <2>2. QED BY <1>g, <2>1
  <1>8. CASE RunnerCrash
    <2>1. /\ \A f \in Fires : \/ fires'[f] = fires[f]
                              \/ /\ fires[f].pc # "idle" /\ fires'[f].pc = "gone"
                                 /\ fires'[f].version = fires[f].version
          /\ UNCHANGED <<runs, flow>>
      BY <1>8, <1>f DEF RunnerCrash, FireType, Over
    <2>2. \A f \in Fires : Onward(f) BY <2>1 DEF Onward, Rowless, Judged
    <2>3. QED BY <1>u, <2>1, <2>2, RowsKeep DEF flow
  <1>9. CASE Workflow
    <2>1. UNCHANGED fires /\ approved \subseteq approved'
      BY <1>9 DEF Workflow, Begin, TestStarts, TestEnds, WriteTested, Gate, Build, PinVersion,
                  Deploy, Settle, GiveUp
    <2>2. \A f \in Fires : Onward(f) BY <2>1 DEF Onward, Rowless, Judged
    <2>r. runs \in Seq(RowType) BY <1>t DEF TypeOK, RowType
    <2>3. CASE TestStarts
      <3>1. runs' = Append(runs, Row(0, cycle.version, "running")) BY <2>3 DEF TestStarts
      <3>2. cycle.version \in Versions
        BY <1>t, <2>3 DEF TestStarts, RowInv, PinInv, CycleKnows, TypeOK
      <3>3. Row(0, cycle.version, "running") \in RowType /\ Row(0, cycle.version, "running").fire = 0
        BY <3>2 DEF Row, RowType
      <3>4. SameFires(runs, runs')
        <4>1. /\ KeepsClean(runs, runs') /\ Len(runs') = Len(runs) + 1
              /\ runs'[Len(runs) + 1].fire = 0
              /\ \A i \in 1 .. Len(runs) : runs'[i] = runs[i]
          BY <2>r, <3>1, <3>3, AppendKeeps, TestsAreClean
        <4>2. QED BY <2>r, <4>1 DEF SameFires
      <3>5. QED BY <2>1, <2>2, <3>4, RowsKeep
    <2>4. CASE TestEnds
      <3>1. PICK r \in Results : runs' = [runs EXCEPT ![cycle.row].status = r]
        BY <2>4 DEF TestEnds
      <3>2. /\ cycle.row \in 1 .. Len(runs)
            /\ runs[cycle.row] = Row(0, cycle.version, "running")
        BY <2>4 DEF TestEnds, RowInv, PinInv, CycleKnows
      <3>3. /\ KeepsClean(runs, runs') /\ Len(runs') = Len(runs)
            /\ runs'[cycle.row] = Row(0, cycle.version, r)
            /\ \A i \in 1 .. Len(runs) : i # cycle.row => runs'[i] = runs[i]
        BY ZenonT(30), <2>r, <3>1, <3>2, TestEndKeeps
      <3>4. SameFires(runs, runs') BY <3>2, <3>3 DEF SameFires, Row
      <3>5. QED BY <2>1, <2>2, <3>4, RowsKeep
    <2>5. CASE ~TestStarts /\ ~TestEnds
      <3>1. UNCHANGED runs
        BY <1>9, <2>5 DEF Workflow, Begin, WriteTested, Gate, Build, PinVersion, Deploy, Settle, GiveUp
      <3>2. QED BY <1>u, <2>1, <2>2, <3>1, RowsKeep
    <2>6. QED BY <2>3, <2>4, <2>5
  <1>10. CASE UNCHANGED vars
    <2>1. \A f \in Fires : Onward(f) BY <1>10 DEF vars, Onward, Rowless, Judged
    <2>2. QED BY <1>10, <1>u, <2>1, RowsKeep DEF vars, flow
  <1>11. QED
    BY <1>1, <1>2, <1>3, <1>4, <1>5, <1>6, <1>7, <1>8, <1>9, <1>10 DEF Next, FireStep
-----------------------------------------------------------------------------
LEMMA PinInvariant == Spec => []PinInv
  <1>1. Init => PinInv BY PinInit DEF RowInv
  <1>2. PinInv /\ [Next]_vars => PinInv' BY NextPin
  <1>3. QED BY <1>1, <1>2, PTL DEF Spec

LEMMA RowInvariant == Spec => []RowInv
  <1>1. Init => RowInv BY PinInit
  <1>2. RowInv /\ [Next]_vars => RowInv'
    <2>1. RowInv => PinInv BY DEF RowInv
    <2>2. QED BY <2>1, NextPin, NextRows
  <1>3. QED BY <1>1, <1>2, PTL DEF Spec

(* The types of all variables, for any number of fires and executions.     *)
THEOREM TypesHold == Spec => []TypeOK
  <1>1. PinInv => TypeOK BY DEF PinInv
  <1>2. QED BY <1>1, PinInvariant, PTL

(* No interleaving of fires, of their late promotions and demotions, and of*)
(* redeployments puts an integration without a pinned version among those  *)
(* the runner fires: who writes Running or Degraded has read a pinned one. *)
THEOREM FirableAlwaysPinned == Spec => []FirableIsPinned
  <1>1. PinInv => FirableIsPinned BY DEF PinInv
  <1>2. QED BY <1>1, PinInvariant, PTL

(* Whatever fires was approved, although the version was read awaits ago   *)
(* and the integration may be at another one by now, and nothing fires     *)
(* before an execution of that version or a later one was tested cleanly.  *)
THEOREM FiredWereApproved == Spec => []FiredVersionsWereApproved
  <1>1. RowInv => FiredVersionsWereApproved
    <2> SUFFICES ASSUME RowInv, NEW i \in DOMAIN runs, runs[i].fire # 0
                 PROVE  /\ runs[i].version = fires[runs[i].fire].version
                        /\ runs[i].version \in approved
                        /\ \E j \in 1 .. i - 1 : /\ runs[j].fire = 0 /\ runs[j].status = "succeeded"
                                                 /\ runs[j].version >= runs[i].version
      BY DEF FiredVersionsWereApproved
    <2>1. i \in 1 .. Len(runs) BY DEF RowInv, PinInv, TypeOK
    <2>2. QED BY <2>1 DEF RowInv, RowsTested, TestedBefore, Clean
  <1>2. QED BY <1>1, RowInvariant, PTL

(* A call that came to its end left one row with its result, whatever else *)
(* inserts and updates rows meanwhile.                                     *)
THEOREM DoneAreRecorded == Spec => []DoneIsRecorded
  <1>1. RowInv => DoneIsRecorded
    <2> SUFFICES ASSUME RowInv, NEW f \in Fires, fires[f].pc = "done"
                 PROVE  \E i \in DOMAIN runs :
                            /\ runs[i] = Row(f, fires[f].version, fires[f].result)
                            /\ \A j \in DOMAIN runs : runs[j].fire = f => j = i
      BY DEF DoneIsRecorded
    <2>1. DOMAIN runs = 1 .. Len(runs) /\ runs \in Seq(RowType)
      BY DEF RowInv, PinInv, TypeOK, RowType
    <2>2. PICK i \in 1 .. Len(runs) :
            RowOf(f, i, runs) /\ \A j \in 1 .. Len(runs) : RowOf(f, j, runs) => j = i
      BY DEF RowInv, OneRowEach, Rowless
    <2>3. runs[i].fire = f /\ runs[i].status = fires[f].result
      BY <2>2 DEF RowInv, OneRowEach, Judged, RowOf
    <2>4. runs[i].version = fires[f].version
      <3>1. f # 0 BY DEF Fires
      <3>2. QED BY <2>3, <3>1 DEF RowInv, RowsTested
    <2>5. runs[i] \in RowType BY <2>1
    <2>6. runs[i] = Row(f, fires[f].version, fires[f].result)
      BY <2>3, <2>4, <2>5 DEF Row, RowType
    <2>7. QED BY <2>1, <2>2, <2>6 DEF RowOf
  <1>2. QED BY <1>1, RowInvariant, PTL
-----------------------------------------------------------------------------
(* The newest three runs *)

(* Of the rows 1 .. n, slice(0, 3) takes the last three.                   *)
LEMMA NewestThree ==
  ASSUME NEW n \in Nat, n >= 3, NEW V \in SUBSET (1 .. n), n - 2 .. n \subseteq V
  PROVE  /\ {i \in V : Cardinality({j \in V : j > i}) < 3} = n - 2 .. n
         /\ Cardinality(n - 2 .. n) = 3
  <1> DEFINE Later(i) == {j \in V : j > i}
  <1>1. IsFiniteSet(V)
    <2>1. IsFiniteSet(1 .. n) BY FS_Interval
    <2>2. QED BY <2>1, FS_Subset
  <1>2. \A i \in V : IsFiniteSet(Later(i))
    BY <1>1, FS_Subset
  <1>3. IsFiniteSet(n - 2 .. n) /\ Cardinality(n - 2 .. n) = 3
    <2>1. n - 2 \in Int /\ n \in Int /\ ~(n - 2 > n) /\ n - (n - 2) + 1 = 3
      OBVIOUS
    <2>2. QED BY <2>1, FS_Interval
  <1>4. ASSUME NEW i \in V, i \in n - 2 .. n
        PROVE  Cardinality(Later(i)) < 3
    <2>1. Later(i) = i + 1 .. n
      <3>1. \A j \in V : j \in Nat /\ j <= n
        OBVIOUS
      <3>2. \A j \in i + 1 .. n : j \in n - 2 .. n /\ j > i
        BY <1>4
      <3>3. \A j \in V : j > i => j \in i + 1 .. n
        BY <1>4, <3>1
      <3>4. n - 2 .. n \subseteq V
        OBVIOUS
      <3> QED BY <3>2, <3>3, <3>4
    <2>2. i + 1 \in Int /\ n \in Int
      OBVIOUS
    <2>3. Cardinality(i + 1 .. n) = IF i + 1 > n THEN 0 ELSE n - (i + 1) + 1
      BY <2>2, FS_Interval
    <2>4. Cardinality(i + 1 .. n) < 3
      BY <1>4, <2>3
    <2> QED BY <2>1, <2>4
  <1>5. ASSUME NEW i \in V, i \notin n - 2 .. n
        PROVE  ~(Cardinality(Later(i)) < 3)
    <2>1. n - 2 .. n \in SUBSET Later(i)
      BY <1>5
    <2>2. Cardinality(n - 2 .. n) <= Cardinality(Later(i))
      BY <1>2, <2>1, FS_Subset
    <2>3. Cardinality(Later(i)) \in Nat
      BY <1>2, FS_CardinalityType
    <2> QED BY <1>3, <2>2, <2>3
  <1>6. {i \in V : Cardinality(Later(i)) < 3} = n - 2 .. n
    <2> HIDE DEF Later
    <2> QED BY <1>4, <1>5
  <1> QED BY <1>3, <1>6

(* maybeDegrade finds three bad runs iff the last three rows are bad, if   *)
(* all rows are inserted, or at least the last three of four and more.     *)
LEMMA ThreeBadIs ==
  ASSUME NEW n \in Nat, DOMAIN runs = 1 .. n, n >= 3,
         \A i \in n - 2 .. n : runs[i].status # "absent"
  PROVE  ThreeBad <=> \A i \in n - 2 .. n : runs[i].status # "succeeded"
  <1>1. Visible \in SUBSET (1 .. n) /\ n - 2 .. n \subseteq Visible
    BY DEF Visible
  <1>2. Recent = n - 2 .. n /\ Cardinality(n - 2 .. n) = 3
    BY <1>1, NewestThree DEF Recent
  <1>3. QED BY <1>2 DEF ThreeBad

(* Fewer than three runs are never enough.                                 *)
LEMMA TooFewRuns ==
  ASSUME NEW n \in Nat, DOMAIN runs = 1 .. n, n < 3
  PROVE  ~ThreeBad
  <1>1. IsFiniteSet(1 .. n) /\ Cardinality(1 .. n) < 3
    <2>1. 1 \in Int /\ n \in Int OBVIOUS
    <2>2. IsFiniteSet(1 .. n) /\ Cardinality(1 .. n) = IF 1 > n THEN 0 ELSE n - 1 + 1
      BY <2>1, FS_Interval
    <2>3. QED BY <2>2
  <1>2. Recent \in SUBSET (1 .. n)
    BY DEF Recent, Visible
  <1>3. Cardinality(Recent) <= Cardinality(1 .. n) /\ Cardinality(Recent) \in Nat /\ Cardinality(1 .. n) \in Nat
    BY <1>1, <1>2, FS_Subset, FS_CardinalityType
  <1>4. QED BY <1>1, <1>3 DEF ThreeBad

(* What a call knows of its result when it judges, promotes or degrades.   *)
ResultsKnown ==
    \A f \in Fires :
        /\ fires[f].pc \in {"judge", "recheck", "degrade"} => fires[f].result # "succeeded"
        /\ fires[f].pc = "promote" => fires[f].result = "succeeded"

(* Until the first version is deployed nothing fires, and its test run is  *)
(* the first row; until the second one is tested the others are of calls.  *)
(* Until the first execution is over, every call has read it under way.    *)
FirstCycle ==
    ~quiet =>
    /\ \A f \in Fires : f > MaxBusy => fires[f].pc = "idle"
    /\ cycle.version = 0 => cycle.pc = "none"
    /\ cycle.version = 0 \/ (cycle.version = 1 /\ cycle.pc \notin {"none", "settle"}) =>
        /\ state \notin Firable
        /\ \A f \in Fires : fires[f].pc \in {"idle", "read", "gone"}
    /\ cycle.version = 0 \/ (cycle.version = 1 /\ cycle.pc = "test") => runs = <<>>
    /\ cycle.version = 1 =>
        /\ Len(runs) >= 1 => runs[1].fire = 0
        /\ \A i \in 2 .. Len(runs) : runs[i].fire # 0
        /\ cycle.pc # "none" =>
            \A f \in Fires : fires[f].pc \in {"idle", "read", "gone"} \/ fires[f].amid

(* When the last of the calls has listed the runs and all were bad, the    *)
(* integration is Degraded or about to be.                                 *)
AllJudged ==
    \A f \in 1 .. MaxBusy : /\ fires[f].pc \in {"recheck", "degrade", "done"}
                             /\ fires[f].result # "succeeded"

OneVersion == ~quiet /\ MaxBusy >= 3 /\ cycle.pc = "none" /\ cycle.version = 1

LastJudges ==
    OneVersion /\ AllJudged /\ (\E f \in 1 .. MaxBusy : ~fires[f].amid) =>
        state = "Degraded" \/ \E f \in 1 .. MaxBusy : fires[f].pc \in {"recheck", "degrade"}

DegradeInv == RowInv /\ ResultsKnown /\ FirstCycle /\ LastJudges

(* The only changes a call makes outside fires and runs.                   *)
LEMMA StepOfCall ==
  ASSUME TypeOK, NEW f \in Fires, Trigger(f) \/ FireStep(f) \/ Throws(f)
  PROVE  /\ UNCHANGED <<quiet, current, cycle, approved>>
         /\ fires' \in [Fires -> FireType] /\ \A g \in Fires : g # f => fires'[g] = fires[g]
         /\ state' = state \/ fires[f].pc \in {"promote", "degrade"}
         /\ fires[f].pc \notin {"done", "gone"}
  <1>f. fires \in [Fires -> FireType] BY DEF TypeOK, FireType
  <1>1. ASSUME NEW pc \in Steps, GoTo(f, pc)
        PROVE  fires' \in [Fires -> FireType] /\ \A g \in Fires : g # f => fires'[g] = fires[g]
    BY <1>1, GoToPc
  <1>2. CASE Trigger(f) \/ Throws(f)
    <2>1. \E pc \in Steps : GoTo(f, pc) BY <1>2 DEF Trigger, Throws, Steps
    <2>2. QED BY <1>1, <1>2, <2>1 DEF Trigger, Throws, Over, flow
  <1>3. CASE Read(f)
    <2>1. current \in Versions \cup {0} /\ "stamp" \in Steps /\ "gone" \in Steps BY DEF TypeOK, Steps
    <2>2. PICK c \in FireType : fires' = [fires EXCEPT ![f] = c]
      <3>1. CASE state \in Firable /\ current # 0
        <4>1. [fires[f] EXCEPT !.pc = "stamp", !.seen = state, !.version = current,
                               !.amid = cycle.pc # "none"] \in FireType
          BY <1>f, <2>1, <3>1 DEF FireType
        <4>2. QED BY <1>3, <3>1, <4>1 DEF Read
      <3>2. CASE ~(state \in Firable /\ current # 0)
        <4>1. [fires[f] EXCEPT !.pc = "gone"] \in FireType
          BY <1>f, <2>1 DEF FireType
        <4>2. QED BY <1>3, <3>2, <4>1 DEF Read
      <3>3. QED BY <3>1, <3>2
    <2>3. QED BY <1>3, <1>f, <2>2 DEF Read, flow
  <1>4. CASE Sandbox(f)
    <2>1. PICK r \in Results : fires' = [fires EXCEPT ![f] = [fires[f] EXCEPT !.pc = "finish", !.result = r]]
      BY <1>4 DEF Sandbox
    <2>2. [fires[f] EXCEPT !.pc = "finish", !.result = r] \in FireType
      BY <1>f DEF FireType, Steps
    <2>3. QED BY <1>4, <1>f, <2>1, <2>2 DEF Sandbox, flow
  <1>5. CASE Stamp(f) \/ Insert(f) \/ Finish(f) \/ Audit(f) \/ Promote(f) \/ Judge(f) \/ Recheck(f) \/ Degrade(f)
    <2>1. \E pc \in Steps : GoTo(f, pc)
      BY <1>5 DEF Stamp, Insert, Finish, Audit, Promote, Judge, Recheck, Degrade, Steps
    <2>2. QED
      BY <1>1, <1>5, <2>1 DEF Stamp, Insert, Finish, Audit, Promote, Judge, Recheck, Degrade, flow
  <1>6. QED BY <1>2, <1>3, <1>4, <1>5 DEF FireStep

(* Whether calls overlap is decided at first.                              *)
LEMMA QuietStays ==
  ASSUME [Next]_vars
  PROVE  quiet' = quiet
  BY DEF Next, Trigger, FireStep, Read, Stamp, Insert, Sandbox, Finish, Audit, Promote, Judge,
         Recheck, Degrade, RunnerCrash, Workflow, Begin, TestStarts, TestEnds, WriteTested, Gate,
         Build, PinVersion, Deploy, Settle, GiveUp, Throws, vars

LEMMA ResultsKnownKept == RowInv /\ ResultsKnown /\ [Next]_vars => ResultsKnown'
  <1> SUFFICES ASSUME RowInv, ResultsKnown, [Next]_vars PROVE ResultsKnown'
    OBVIOUS
  <1>t. TypeOK BY DEF RowInv, PinInv
  <1>f. fires \in [Fires -> FireType] BY <1>t DEF TypeOK, FireType
  <1>1. ASSUME NEW f \in Fires, Trigger(f) \/ FireStep(f) \/ Throws(f) PROVE ResultsKnown'
    <2>1. \A g \in Fires : g # f => fires'[g] = fires[g] BY <1>t, <1>1, StepOfCall
    <2>2. /\ fires'[f].pc \in {"judge", "recheck", "degrade"} => fires'[f].result # "succeeded"
          /\ fires'[f].pc = "promote" => fires'[f].result = "succeeded"
      <3>0. CASE Read(f)
        <4>1. fires'[f].pc \in {"stamp", "gone"} BY <1>f, <3>0 DEF Read, FireType
        <4>2. QED BY <4>1
      <3>1. CASE Sandbox(f)
        <4>1. fires'[f].pc = "finish" BY <1>f, <3>1 DEF Sandbox, FireType
        <4>2. QED BY <4>1
      <3>2. CASE Audit(f)
        BY <1>f, <3>2 DEF Audit, GoTo, FireType
      <3>3. CASE Judge(f) \/ Recheck(f)
        BY <1>f, <3>3 DEF Judge, Recheck, GoTo, FireType, ResultsKnown
      <3>4. CASE Trigger(f) \/ Stamp(f) \/ Insert(f) \/ Finish(f) \/ Promote(f) \/ Degrade(f) \/ Throws(f)
        BY <1>f, <3>4 DEF Trigger, Stamp, Insert, Finish, Promote, Degrade, Throws, GoTo, FireType
      <3>5. QED BY <1>1, <3>0, <3>1, <3>2, <3>3, <3>4 DEF FireStep
    <2>3. QED BY <2>1, <2>2 DEF ResultsKnown
  <1>2. CASE RunnerCrash
    <2>1. \A g \in Fires : fires'[g] = fires[g] \/ fires'[g].pc = "gone"
      BY <1>f, <1>2 DEF RunnerCrash, FireType
    <2>2. QED BY <2>1 DEF ResultsKnown
  <1>3. CASE Workflow \/ UNCHANGED vars
    <2>1. UNCHANGED fires
      BY <1>3 DEF Workflow, Begin, TestStarts, TestEnds, WriteTested, Gate, Build, PinVersion,
                  Deploy, Settle, GiveUp, vars
    <2>2. QED BY <2>1 DEF ResultsKnown
  <1>4. QED BY <1>1, <1>2, <1>3 DEF Next

(* The rows of calls come after the test run of the first version.         *)
LEMMA FirstCycleKept == RowInv /\ FirstCycle /\ [Next]_vars => FirstCycle'
  <1> SUFFICES ASSUME RowInv, FirstCycle, ~quiet', [Next]_vars PROVE FirstCycle'
    BY DEF FirstCycle
  <1>t. TypeOK /\ runs \in Seq(RowType) BY DEF RowInv, PinInv, TypeOK, RowType
  <1>f. fires \in [Fires -> FireType] BY <1>t DEF TypeOK, FireType
  <1>q. quiet' = quiet BY QuietStays
  <1>m. MaxBusy \in Nat BY RunnerAssumption
  <1>1. ASSUME NEW f \in Fires, Trigger(f) \/ FireStep(f) \/ Throws(f) PROVE FirstCycle'
    <2>1. /\ UNCHANGED <<current, cycle>> /\ \A g \in Fires : g # f => fires'[g] = fires[g]
          /\ state' = state \/ fires[f].pc \in {"promote", "degrade"}
          /\ fires[f].pc \notin {"done", "gone"}
      BY <1>t, <1>1, StepOfCall
    <2>2. f > MaxBusy => fires'[f].pc = "idle"
      <3>1. ASSUME f > MaxBusy PROVE FALSE
        <4>1. fires[f].pc = "idle" BY <1>q, <3>1 DEF FirstCycle
        <4>2. Trigger(f)
          BY <1>1, <4>1 DEF FireStep, Read, Stamp, Insert, Sandbox, Finish, Audit, Promote, Judge,
                            Recheck, Degrade, Throws, Over
        <4>3. f <= MaxBusy BY <1>q, <4>2 DEF Trigger
        <4>4. QED BY <1>m, <3>1, <4>3 DEF Fires
      <3>2. QED BY <3>1
    <2>3. ASSUME cycle.version = 0 \/ (cycle.version = 1 /\ cycle.pc \notin {"none", "settle"})
          PROVE  /\ state' \notin Firable /\ fires'[f].pc \in {"idle", "read", "gone"} /\ runs' = runs
      <3>1. /\ state \notin Firable /\ fires[f].pc \in {"idle", "read"}
        BY <1>q, <2>1, <2>3 DEF FirstCycle
      <3>2. Trigger(f) \/ Read(f) \/ Throws(f)
        BY <1>1, <3>1 DEF FireStep, Stamp, Insert, Sandbox, Finish, Audit, Promote, Judge, Recheck, Degrade
      <3>3. fires'[f].pc \in {"read", "gone"}
        BY <1>f, <3>1, <3>2 DEF Trigger, Read, Throws, GoTo, FireType
      <3>4. QED BY <2>1, <3>1, <3>2, <3>3 DEF Trigger, Read, Throws
    <2>4. ASSUME cycle.version = 1
          PROVE  /\ Len(runs') >= 1 => runs'[1].fire = 0
                 /\ \A i \in 2 .. Len(runs') : runs'[i].fire # 0
      <3>1. /\ Len(runs) >= 1 => runs[1].fire = 0
            /\ Len(runs) \in Nat
            /\ \A i \in 2 .. Len(runs) : runs[i].fire # 0
        BY <1>t, <1>q, <2>4 DEF FirstCycle
      <3>2. CASE Stamp(f)
        <4>1. Row(f, fires[f].version, "absent") \in RowType
          <5>1. fires[f].version \in approved
            BY <3>2 DEF Stamp, RowInv, PinInv, VersionsApproved, Unread
          <5>2. QED BY <1>t, <5>1 DEF Row, RowType, TypeOK
        <4>2. /\ Len(runs') = Len(runs) + 1 /\ runs'[Len(runs) + 1].fire = f
              /\ \A i \in 1 .. Len(runs) : runs'[i] = runs[i]
          BY <1>t, <3>2, <4>1, AppendKeeps DEF Stamp, Row
        <4>3. f # 0 BY DEF Fires
        <4>4. Len(runs) >= 1
          <5>1. Tested(fires[f].version, runs)
            BY <3>2 DEF Stamp, RowInv, PinInv, VersionsApproved, Unread
          <5>2. PICK k \in 1 .. (Len(runs) + 1) - 1 : Clean(runs[k], fires[f].version)
            BY <5>1 DEF Tested, TestedBefore
          <5>3. QED BY <3>1, <5>2
        <4>5. QED BY <3>1, <4>2, <4>3, <4>4
      <3>3. CASE Insert(f) \/ Finish(f)
        <4>1. \E st \in Results \cup {"absent", "running"} : SetStatus(f, st)
          <5>1. fires[f].result \in Results BY <1>f DEF FireType
          <5>2. QED BY <3>3, <5>1 DEF Insert, Finish
        <4>2. Len(runs') = Len(runs) /\ \A i \in 1 .. Len(runs) : runs'[i].fire = runs[i].fire
          BY <1>t, <4>1, StatusKeeps
        <4>3. QED BY <3>1, <4>2
      <3>4. CASE runs' = runs BY <3>1, <3>4
      <3>5. Stamp(f) \/ Insert(f) \/ Finish(f) \/ runs' = runs
        BY <1>1 DEF Trigger, FireStep, Read, Sandbox, Audit, Promote, Judge, Recheck, Degrade, Throws
      <3>6. QED BY <3>2, <3>3, <3>4, <3>5
    <2>5. ASSUME cycle.version = 1, cycle.pc # "none"
          PROVE  fires'[f].pc \in {"idle", "read", "gone"} \/ fires'[f].amid
      <3>1. fires[f].pc \in {"idle", "read", "gone"} \/ fires[f].amid
        BY <1>q, <2>5 DEF FirstCycle
      <3>2. CASE Read(f)
        <4>1. CASE state \in Firable /\ current # 0
          BY <1>f, <2>5, <3>2, <4>1 DEF Read, FireType
        <4>2. CASE ~(state \in Firable /\ current # 0)
          BY <1>f, <3>2, <4>2 DEF Read, FireType
        <4>3. QED BY <4>1, <4>2
      <3>3. CASE Sandbox(f)
        <4>1. fires[f].pc = "sandbox" /\ fires'[f].amid = fires[f].amid
          BY <1>f, <3>3 DEF Sandbox, FireType
        <4>2. QED BY <3>1, <4>1
      <3>4. CASE Trigger(f) \/ Throws(f)
        BY <1>f, <3>4 DEF Trigger, Throws, GoTo, FireType
      <3>5. ASSUME ~Read(f), ~Sandbox(f), ~Trigger(f), ~Throws(f)
            PROVE  fires'[f].amid
        <4>1. /\ fires[f].pc \notin {"idle", "read", "gone"}
              /\ \E pc \in Steps : GoTo(f, pc)
          BY <1>1, <3>5 DEF FireStep, Stamp, Insert, Finish, Audit, Promote, Judge, Recheck, Degrade, Steps
        <4>2. fires'[f].amid = fires[f].amid BY <1>t, <4>1, GoToPc
        <4>3. QED BY <3>1, <4>1, <4>2
      <3>6. QED BY <3>2, <3>3, <3>4, <3>5
    <2>6. cycle.version = 0 \/ (cycle.version = 1 /\ cycle.pc = "test") => runs' = runs
      BY <2>3
    <2>7. QED BY <1>q, <2>1, <2>2, <2>3, <2>4, <2>5, <2>6 DEF FirstCycle
  <1>2. CASE RunnerCrash
    <2>1. UNCHANGED <<state, current, cycle, runs>> BY <1>2 DEF RunnerCrash, flow
    <2>2. \A f \in Fires : fires'[f] = fires[f] \/ (fires[f].pc # "idle" /\ fires'[f].pc = "gone")
      BY <1>f, <1>2 DEF RunnerCrash, FireType, Over
    <2>3. QED BY <1>q, <2>1, <2>2 DEF FirstCycle
  <1>3. CASE Workflow
    <2>c. /\ cycle \in CycleType /\ cycle.version \in Nat
          /\ cycle.pc # "none" => cycle.version # 0
          /\ fires' = fires
      <3>1. cycle \in CycleType BY <1>t DEF TypeOK, CycleType
      <3>2. cycle.version \in Nat BY <3>1 DEF CycleType, Versions
      <3>3. cycle.pc # "none" => cycle.version # 0 BY DEF RowInv, PinInv, CycleKnows
      <3>4. fires' = fires
        BY <1>3 DEF Workflow, Begin, TestStarts, TestEnds, WriteTested, Gate, Build, PinVersion,
                    Deploy, Settle, GiveUp
      <3>5. QED BY <3>1, <3>2, <3>3, <3>4
    <2>1. CASE Begin
      <3>1. /\ cycle' = [NoCycle(cycle.version + 1) EXCEPT !.pc = "test"]
            /\ state' = "Generating" /\ runs' = runs
        BY <2>1 DEF Begin
      <3>2. cycle'.version = cycle.version + 1 /\ cycle'.pc = "test"
        BY <3>1 DEF NoCycle
      <3>3. cycle'.version = 1 => cycle.version = 0 BY <2>c, <3>2
      <3>4. QED BY <1>q, <2>c, <3>1, <3>2, <3>3 DEF FirstCycle, Firable
    <2>2. CASE TestStarts
      <3>1. /\ runs' = Append(runs, Row(0, cycle.version, "running"))
            /\ state' = state /\ cycle.pc = "test"
            /\ cycle' = [cycle EXCEPT !.pc = "testing", !.row = Len(runs) + 1]
        BY <2>2 DEF TestStarts
      <3>2. cycle'.version = cycle.version /\ cycle'.pc = "testing" /\ cycle.version # 0
        BY <2>c, <3>1 DEF CycleType
      <3>3. cycle.version = 1 => runs' = <<Row(0, 1, "running")>>
        BY <1>q, <3>1 DEF FirstCycle
      <3>4. cycle.version = 1 => runs'[1].fire = 0 /\ Len(runs') = 1
        BY <3>3 DEF Row
      <3>5. QED BY <1>q, <2>c, <3>1, <3>2, <3>4 DEF FirstCycle
    <2>3. CASE TestEnds
      <3>1. PICK r \in Results :
              /\ runs' = [runs EXCEPT ![cycle.row].status = r]
              /\ cycle' = [cycle EXCEPT !.pc = IF r = "succeeded" THEN "passed" ELSE "failed"]
        BY <2>3 DEF TestEnds, Step
      <3>2. /\ cycle.pc = "testing" /\ state' = state /\ cycle.row \in 1 .. Len(runs)
            /\ runs[cycle.row] = Row(0, cycle.version, "running")
        BY <2>3 DEF TestEnds, RowInv, PinInv, CycleKnows
      <3>3. /\ Len(runs') = Len(runs) /\ runs'[cycle.row] = Row(0, cycle.version, r)
            /\ \A i \in 1 .. Len(runs) : i # cycle.row => runs'[i] = runs[i]
        BY ZenonT(30), <1>t, <3>1, <3>2, TestEndKeeps
      <3>4. \A i \in 1 .. Len(runs) : runs'[i].fire = runs[i].fire
        BY <3>2, <3>3 DEF Row
      <3>5. /\ cycle'.version = cycle.version /\ cycle'.pc \in {"passed", "failed"}
            /\ cycle.version # 0
        BY <2>c, <3>1, <3>2 DEF CycleType
      <3>6. Len(runs) \in Nat BY <1>t
      <3>7. cycle.version = 1 => /\ Len(runs') >= 1 => runs'[1].fire = 0
                                 /\ \A i \in 2 .. Len(runs') : runs'[i].fire # 0
        BY <1>q, <3>3, <3>4, <3>6 DEF FirstCycle
      <3>8. QED BY <1>q, <2>c, <3>2, <3>5, <3>7 DEF FirstCycle
    <2>4. CASE WriteTested \/ Gate \/ Build
      <3>1. /\ runs' = runs /\ state' \in {"Tested", "Approved", "Building"}
            /\ cycle.pc \notin {"none", "settle"} /\ cycle'.pc \in {"gate", "build", "pin"}
            /\ cycle'.version = cycle.version
        BY <2>4, <2>c DEF WriteTested, Gate, Build, Step, CycleType
      <3>2. QED BY <1>q, <2>c, <3>1 DEF FirstCycle, Firable
    <2>5. CASE PinVersion
      <3>1. /\ runs' = runs /\ state' = state /\ cycle.pc = "pin" /\ cycle'.pc = "deploy"
            /\ cycle'.version = cycle.version
        BY <2>5, <2>c DEF PinVersion, Step, CycleType
      <3>2. QED BY <1>q, <2>c, <3>1 DEF FirstCycle
    <2>6. CASE Deploy
      <3>1. /\ runs' = runs /\ cycle.pc = "deploy" /\ cycle'.pc = "settle"
            /\ cycle'.version = cycle.version
        BY <2>6, <2>c DEF Deploy, Step, CycleType
      <3>2. QED BY <1>q, <2>c, <3>1 DEF FirstCycle
    <2>7. CASE Settle \/ GiveUp
      <3>1. /\ runs' = runs /\ cycle.pc # "none" /\ cycle'.pc = "none"
            /\ cycle'.version = cycle.version
        BY <2>7 DEF Settle, GiveUp, NoCycle
      <3>2. QED BY <1>q, <2>c, <3>1 DEF FirstCycle
    <2>8. QED BY <1>3, <2>1, <2>2, <2>3, <2>4, <2>5, <2>6, <2>7 DEF Workflow
  <1>4. CASE UNCHANGED vars
    BY <1>q, <1>4 DEF vars, flow, FirstCycle
  <1>5. QED BY <1>1, <1>2, <1>3, <1>4 DEF Next

(* The last call to list the runs finds three rows of calls at the end,    *)
(* all of them with a bad result.                                          *)
LEMMA LastSeesThree ==
  ASSUME RowInv, FirstCycle, OneVersion,
         \A f \in 1 .. MaxBusy : fires[f].pc \in Judged /\ fires[f].result # "succeeded"
  PROVE  ThreeBad
  <1> DEFINE n == Len(runs)
  <1>1. runs \in Seq(RowType) /\ n \in Nat /\ DOMAIN runs = 1 .. n
    BY DEF RowInv, PinInv, TypeOK, RowType
  <1>2. fires \in [Fires -> FireType] /\ MaxBusy \in Nat /\ 1 .. MaxBusy \subseteq Fires
        /\ {1, 2, 3} \subseteq 1 .. MaxBusy
    BY RunnerAssumption DEF RowInv, PinInv, TypeOK, FireType, OneVersion, Fires
  <1>3. \A i \in 2 .. n : runs[i].fire # 0
    BY DEF FirstCycle, OneVersion
  <1>4. n >= 1 => runs[1].fire = 0
    BY DEF FirstCycle, OneVersion
  <1>5. ASSUME NEW i \in 2 .. n
        PROVE  runs[i].status # "absent" /\ runs[i].status # "succeeded"
    <2>1. i \in 1 .. n /\ runs[i].fire # 0
      BY <1>1, <1>3
    <2>2. runs[i].fire \in Fires
      BY <1>1, <2>1, RowFire
    <2>3. runs[i].fire \in 1 .. MaxBusy
      <3>1. fires[runs[i].fire].pc # "idle"
        BY <2>1 DEF RowInv, RowsTested, Rowless
      <3>2. ~(runs[i].fire > MaxBusy)
        BY <2>2, <3>1 DEF FirstCycle, OneVersion
      <3>3. QED BY <1>2, <2>2, <3>2 DEF Fires
    <2>4. runs[i].status = fires[runs[i].fire].result
      BY <1>2, <2>1, <2>3 DEF RowInv, OneRowEach, RowOf
    <2>5. fires[runs[i].fire].result \in Results
      BY <1>2, <2>2 DEF FireType
    <2>6. QED BY <2>3, <2>4, <2>5 DEF Results
  <1>6. ASSUME NEW f \in {1, 2, 3} PROVE \E i \in 2 .. n : runs[i].fire = f
    <2>1. f \in Fires /\ fires[f].pc \in Judged BY <1>2
    <2>2. PICK i \in 1 .. n : runs[i].fire = f
      BY <2>1 DEF RowInv, OneRowEach, RowOf, Judged, Rowless
    <2>3. i # 1
      <3>1. f # 0 OBVIOUS
      <3>2. QED BY <1>1, <1>4, <2>2, <3>1
    <2>4. QED BY <1>1, <2>2, <2>3
  <1>7. n >= 4
    <2>1. PICK i \in 2 .. n : runs[i].fire = 1 BY <1>6
    <2>2. PICK j \in 2 .. n : runs[j].fire = 2 BY <1>6
    <2>3. PICK k \in 2 .. n : runs[k].fire = 3 BY <1>6
    <2>4. i # j /\ j # k /\ i # k BY <2>1, <2>2, <2>3
    <2>5. QED BY <1>1, <2>4
  <1>8. \A i \in n - 2 .. n : i \in 2 .. n
    BY <1>1, <1>7
  <1> HIDE DEF n
  <1>9. QED BY <1>1, <1>5, <1>7, <1>8, ThreeBadIs

LEMMA LastJudgesKept ==
    RowInv /\ ResultsKnown /\ FirstCycle /\ LastJudges /\ RowInv' /\ FirstCycle' /\ [Next]_vars
    => LastJudges'
  <1> SUFFICES ASSUME RowInv, ResultsKnown, FirstCycle, LastJudges, [Next]_vars,
                      OneVersion', AllJudged', \E f \in 1 .. MaxBusy : ~fires'[f].amid
               PROVE  state' = "Degraded" \/ \E f \in 1 .. MaxBusy : fires'[f].pc \in {"recheck", "degrade"}
    BY DEF LastJudges
  <1>t. TypeOK BY DEF RowInv, PinInv
  <1>f. fires \in [Fires -> FireType] BY <1>t DEF TypeOK, FireType
  <1>m. MaxBusy \in Nat /\ 1 .. MaxBusy \subseteq Fires /\ 1 \in 1 .. MaxBusy
    BY RunnerAssumption DEF OneVersion, Fires
  <1>q. quiet' = quiet /\ ~quiet
    BY QuietStays DEF OneVersion
  <1>1. ASSUME NEW f \in Fires, Trigger(f) \/ FireStep(f) \/ Throws(f)
        PROVE  state' = "Degraded" \/ \E g \in 1 .. MaxBusy : fires'[g].pc \in {"recheck", "degrade"}
    <2>1. /\ UNCHANGED <<current, cycle>> /\ \A g \in Fires : g # f => fires'[g] = fires[g]
          /\ state' = state \/ fires[f].pc \in {"promote", "degrade"}
          /\ fires[f].pc \notin {"done", "gone"}
      BY <1>t, <1>1, StepOfCall
    <2>2. OneVersion BY <1>q, <2>1 DEF OneVersion
    <2>3. f \in 1 .. MaxBusy
      <3>1. ASSUME f > MaxBusy PROVE FALSE
        <4>1. fires[f].pc = "idle" BY <1>q, <3>1 DEF FirstCycle
        <4>2. Trigger(f)
          BY <1>1, <4>1 DEF FireStep, Read, Stamp, Insert, Sandbox, Finish, Audit, Promote, Judge,
                            Recheck, Degrade, Throws, Over
        <4>3. f <= MaxBusy BY <1>q, <4>2 DEF Trigger
        <4>4. QED BY <1>m, <3>1, <4>3 DEF Fires
      <3>2. QED BY <1>m, <3>1 DEF Fires
    <2>4. fires'[f].pc \in {"recheck", "degrade", "done"} /\ fires'[f].result # "succeeded"
      BY <2>3 DEF AllJudged
    <2>5. CASE Judge(f)
      <3>1. fires[f].pc = "judge" /\ fires'[f].result = fires[f].result
            /\ fires'[f].pc = IF ThreeBad THEN "recheck" ELSE "done"
        BY <1>f, <2>5 DEF Judge, GoTo, FireType
      <3>2. \A g \in 1 .. MaxBusy : fires[g].pc \in Judged /\ fires[g].result # "succeeded"
        BY <1>m, <2>1, <2>4, <3>1 DEF AllJudged, Judged
      <3>3. ThreeBad BY <2>2, <3>2, LastSeesThree
      <3>4. QED BY <2>3, <3>1, <3>3
    <2>6. CASE Recheck(f)
      <3>1. fires'[f].pc = IF state # "Degraded" THEN "degrade" ELSE "done"
        BY <1>f, <2>6 DEF Recheck, GoTo, FireType
      <3>2. state' = state BY <2>6 DEF Recheck
      <3>3. QED BY <2>3, <3>1, <3>2
    <2>7. CASE Degrade(f)
      BY <2>7 DEF Degrade
    <2>8. CASE Promote(f)
      <3>1. fires'[f].result = "succeeded"
        BY <1>f, <2>8 DEF Promote, GoTo, FireType, ResultsKnown
      <3>2. QED BY <2>4, <3>1
    <2>9. CASE Audit(f)
      <3>1. /\ fires'[f].result = fires[f].result
            /\ fires'[f].pc = IF fires[f].result # "succeeded" THEN "judge"
               ELSE IF fires[f].seen # "Running" THEN "promote" ELSE "done"
        BY <1>f, <2>9 DEF Audit, GoTo, FireType
      <3>2. QED BY <2>4, <3>1
    <2>10. CASE Read(f)
      <3>1. fires'[f].pc \in {"stamp", "gone"} BY <1>f, <2>10 DEF Read, FireType
      <3>2. QED BY <2>4, <3>1
    <2>11. CASE Sandbox(f)
      <3>1. fires'[f].pc = "finish" BY <1>f, <2>11 DEF Sandbox, FireType
      <3>2. QED BY <2>4, <3>1
    <2>12. CASE Trigger(f) \/ Stamp(f) \/ Insert(f) \/ Finish(f) \/ Throws(f)
      <3>1. fires'[f].pc \in {"read", "insert", "sandbox", "audit", "gone"}
        BY <1>f, <2>12 DEF Trigger, Stamp, Insert, Finish, Throws, GoTo, FireType
      <3>2. QED BY <2>4, <3>1
    <2>13. QED
      BY <1>1, <2>5, <2>6, <2>7, <2>8, <2>9, <2>10, <2>11, <2>12 DEF FireStep
  <1>2. CASE Workflow
    <2>1. cycle \in CycleType
      BY <1>t DEF TypeOK, CycleType
    <2>2. Settle \/ GiveUp
      <3>1. Begin => cycle'.pc = "test" BY DEF Begin, NoCycle
      <3>2. TestStarts => cycle'.pc = "testing" BY <2>1 DEF TestStarts, CycleType
      <3>3. TestEnds \/ WriteTested \/ Build \/ PinVersion \/ Deploy =>
                cycle'.pc \in {"passed", "failed", "gate", "pin", "deploy", "settle"}
        BY <2>1 DEF TestEnds, WriteTested, Build, PinVersion, Deploy, Step, CycleType
      <3>4. Gate => cycle'.pc = "build" BY <2>1 DEF Gate, CycleType
      <3>5. cycle'.pc = "none" BY DEF OneVersion
      <3>6. QED BY <1>2, <3>1, <3>2, <3>3, <3>4, <3>5 DEF Workflow
    <2>3. cycle.version = 1 /\ cycle.pc # "none" /\ fires' = fires
      BY <2>2 DEF Settle, GiveUp, NoCycle, OneVersion
    <2>4. \A f \in 1 .. MaxBusy : fires[f].amid
      BY <1>q, <1>m, <2>3 DEF FirstCycle, AllJudged
    <2>5. QED BY <2>3, <2>4
  <1>3. CASE RunnerCrash
    <2>1. /\ UNCHANGED <<quiet, state, cycle, runs>>
          /\ \A f \in Fires : fires'[f] = fires[f] \/ fires'[f].pc = "gone"
      BY <1>f, <1>3 DEF RunnerCrash, FireType, flow
    <2>2. \A f \in 1 .. MaxBusy : fires'[f] = fires[f]
      BY <1>m, <2>1 DEF AllJudged
    <2>3. OneVersion /\ AllJudged BY <2>1, <2>2 DEF OneVersion, AllJudged
    <2>4. QED BY <2>1, <2>2, <2>3 DEF LastJudges
  <1>4. CASE UNCHANGED vars
    BY <1>4 DEF vars, flow, LastJudges, OneVersion, AllJudged
  <1>5. QED BY <1>1, <1>2, <1>3, <1>4 DEF Next

LEMMA DegradeInvariant == Spec => []DegradeInv
  <1>1. ASSUME Init PROVE DegradeInv
    <2>1. RowInv BY <1>1, PinInit
    <2>2. \A f \in Fires : fires[f].pc = "idle" BY <1>1 DEF Init, NoFire
    <2>3. ResultsKnown BY <2>2 DEF ResultsKnown
    <2>4. FirstCycle
      BY <1>1, <2>2 DEF Init, NoCycle, FirstCycle, Firable
    <2>5. LastJudges
      <3>1. ~quiet => cycle.version = 0 BY <1>1 DEF Init, NoCycle
      <3>2. QED BY <3>1 DEF LastJudges, OneVersion
    <2>6. QED BY <2>1, <2>3, <2>4, <2>5 DEF DegradeInv
  <1>2. DegradeInv /\ RowInv' /\ [Next]_vars => DegradeInv'
    BY ResultsKnownKept, FirstCycleKept, LastJudgesKept DEF DegradeInv
  <1>3. QED BY <1>1, <1>2, RowInvariant, PTL DEF Spec

(* When all calls have come to a bad end, however they overlapped, neither *)
(* a clean run nor a redeployment came between, and one of the calls began *)
(* after the deployment was over, maybeDegrade has left the integration    *)
(* Degraded: the call that lists the runs last finds three bad ones, and   *)
(* nothing takes Degraded back.                                            *)
THEOREM BadRunsAlwaysDegrade == Spec => []BadRunsDegrade
  <1>1. DegradeInv => BadRunsDegrade
    <2> SUFFICES ASSUME DegradeInv, AllFiredBadly PROVE state = "Degraded"
      BY DEF BadRunsDegrade
    <2>1. /\ OneVersion /\ AllJudged /\ \A f \in 1 .. MaxBusy : fires[f].pc = "done"
          /\ \E f \in 1 .. MaxBusy : ~fires[f].amid
      BY DEF AllFiredBadly, OneVersion, AllJudged
    <2>2. QED BY <2>1 DEF DegradeInv, LastJudges
  <1>2. QED BY <1>1, DegradeInvariant, PTL
-----------------------------------------------------------------------------
(* One call after the other *)

(* Call k is the last that was made: those before it are over, each row    *)
(* lies behind those of earlier calls, and what k read of the state is     *)
(* still so.                                                               *)
LastCall(k) ==
    /\ \A f \in Fires : (f > k => fires[f].pc = "idle") /\ (f < k => fires[f].pc = "done")
    /\ Len(runs) = IF k > 0 /\ fires[k].pc \in Rowless THEN k ELSE k + 1
    /\ \A i \in 1 .. Len(runs) : runs[i].fire = i - 1
    /\ k > 0 =>
        /\ fires[k].pc \notin {"idle", "gone"}
        /\ fires[k].pc \notin {"read", "done"} => fires[k].seen = state
        /\ fires[k].pc \in {"recheck", "degrade"} => ThreeBad

OneByOne ==
    quiet => /\ state \in Firable /\ current = 1
             /\ \E k \in 0 .. MaxFires : LastCall(k)

HealthInv == RowInv /\ ResultsKnown /\ OneByOne

LEMMA OneByOneKept == RowInv /\ OneByOne /\ [Next]_vars => OneByOne'
  <1> SUFFICES ASSUME RowInv, OneByOne, quiet', [Next]_vars PROVE OneByOne'
    BY DEF OneByOne
  <1>t. TypeOK /\ runs \in Seq(RowType) BY DEF RowInv, PinInv, TypeOK, RowType
  <1>f. fires \in [Fires -> FireType] BY <1>t DEF TypeOK, FireType
  <1>q. quiet' = quiet /\ quiet
    <2>1. quiet' = quiet BY QuietStays
    <2>2. QED BY <2>1
  <1>k. PICK k \in 0 .. MaxFires : LastCall(k)
    BY <1>q DEF OneByOne
  <1>m. MaxFires \in Nat /\ Len(runs) \in Nat /\ (k > 0 => k \in Fires)
    BY <1>t, RunnerAssumption DEF Fires
  <1>s. state \in Firable /\ current = 1 BY <1>q DEF OneByOne
  <1>1. ASSUME NEW f \in Fires, Trigger(f) PROVE OneByOne'
    <2>1. fires[f].pc = "idle" /\ (\A g \in 1 .. f - 1 : fires[g].pc # "idle") /\ \A g \in Fires : Over(g)
      BY <1>1, <1>q DEF Trigger
    <2>2. /\ fires' \in [Fires -> FireType] /\ \A g \in Fires : g # f => fires'[g] = fires[g]
          /\ fires'[f].pc = "read" /\ UNCHANGED <<state, current, runs>>
      <3>1. "read" \in Steps /\ GoTo(f, "read") BY <1>1 DEF Trigger, Steps
      <3>2. QED BY <1>t, <1>1, <3>1, GoToPc DEF Trigger, flow
    <2>3. f = k + 1
      <3>1. ~(f <= k)
        BY <1>k, <1>m, <2>1 DEF LastCall, Fires
      <3>2. ~(f > k + 1)
        <4>1. f > k + 1 => k + 1 \in 1 .. f - 1 /\ k + 1 \in Fires BY <1>m DEF Fires
        <4>2. k + 1 \in Fires => fires[k + 1].pc = "idle" BY <1>k, <1>m DEF LastCall, Fires
        <4>3. QED BY <2>1, <4>1, <4>2
      <3>3. QED BY <1>m, <3>1, <3>2 DEF Fires
    <2>4. k > 0 => fires[k].pc = "done"
      BY <1>k, <1>m, <2>1 DEF LastCall, Over
    <2>5. Len(runs) = k + 1
      BY <1>k, <2>4 DEF LastCall, Rowless
    <2>6. \A g \in Fires : (g > f => fires'[g].pc = "idle") /\ (g < f => fires'[g].pc = "done")
      BY SMTT(30), <1>k, <1>m, <2>2, <2>3, <2>4 DEF LastCall, Fires
    <2>7. LastCall(f)'
      BY <1>k, <1>m, <2>2, <2>3, <2>5, <2>6 DEF LastCall, Rowless
    <2>8. f \in 0 .. MaxFires BY DEF Fires
    <2>9. QED BY <1>q, <1>s, <2>2, <2>7, <2>8 DEF OneByOne
  <1>2. ASSUME NEW f \in Fires, FireStep(f) PROVE OneByOne'
    <2>1. f = k /\ k > 0 /\ k \in Fires
      <3>1. fires[f].pc \notin {"idle", "done"}
        BY <1>2 DEF FireStep, Read, Stamp, Insert, Sandbox, Finish, Audit, Promote, Judge,
                    Recheck, Degrade
      <3>2. ~(f > k) /\ ~(f < k) BY <1>k, <3>1 DEF LastCall
      <3>3. QED BY <3>2 DEF Fires
    <2>2. UNCHANGED <<quiet, current, cycle>> /\ \A g \in Fires : g # k => fires'[g] = fires[g]
      BY <1>t, <1>2, <2>1, StepOfCall
    <2>3. \A g \in Fires : (g > k => fires'[g].pc = "idle") /\ (g < k => fires'[g].pc = "done")
      BY <1>k, <2>2 DEF LastCall, Fires
    <2>4. /\ \A i \in 1 .. Len(runs) : runs[i].fire = i - 1
          /\ fires[k].pc \in Rowless => Len(runs) = k
          /\ fires[k].pc \notin Rowless => Len(runs) = k + 1
          /\ fires[k].pc \notin {"read", "done"} => fires[k].seen = state
          /\ fires[k].pc \in {"recheck", "degrade"} => ThreeBad
      BY <1>k, <2>1 DEF LastCall
    <2>u. ASSUME runs' = runs, state' = state, fires[k].pc \notin {"read", "done"},
                 fires'[k].seen = fires[k].seen, fires'[k].pc \notin {"idle", "gone", "read"},
                 fires[k].pc \in Rowless <=> fires'[k].pc \in Rowless,
                 fires'[k].pc \in {"recheck", "degrade"} => ThreeBad
          PROVE  OneByOne'
      <3>1. ThreeBad' <=> ThreeBad BY <2>u DEF ThreeBad, Recent, Visible
      <3>2. LastCall(k)'
        <4>1. Len(runs') = IF k > 0 /\ fires'[k].pc \in Rowless THEN k ELSE k + 1
          BY <2>1, <2>4, <2>u
        <4>2. fires'[k].pc \notin {"read", "done"} => fires'[k].seen = state'
          BY <2>4, <2>u DEF Rowless
        <4>3. QED BY <2>3, <2>4, <2>u, <3>1, <4>1, <4>2 DEF LastCall
      <3>3. QED BY <1>q, <1>s, <2>2, <2>u, <3>2 DEF OneByOne
    <2>v. ASSUME fires'[k].pc \in {"insert", "sandbox", "audit"}, state' = state,
                 fires'[k].seen = fires[k].seen, fires[k].pc \notin {"read", "done"},
                 Len(runs') = k + 1, \A i \in 1 .. k + 1 : runs'[i].fire = i - 1
          PROVE  OneByOne'
      <3>1. LastCall(k)' BY <2>3, <2>4, <2>v DEF LastCall, Rowless
      <3>2. QED BY <1>q, <1>s, <2>2, <2>v, <3>1 DEF OneByOne
    <2>w. ASSUME fires[k].pc \in {"promote", "degrade"}, state' \in Firable,
                 fires'[k].pc = "done", runs' = runs
          PROVE  OneByOne'
      <3>1. LastCall(k)' BY <2>1, <2>3, <2>4, <2>w DEF LastCall, Rowless
      <3>2. QED BY <1>q, <1>s, <2>2, <2>w, <3>1 DEF OneByOne
    <2>5. CASE Read(k)
      <3>1. fires'[k].pc = "stamp" /\ fires'[k].seen = state /\ fires[k].pc = "read"
            /\ UNCHANGED <<state, runs>>
        BY <1>f, <1>s, <2>1, <2>5 DEF Read, FireType
      <3>2. LastCall(k)' BY <2>1, <2>3, <2>4, <3>1 DEF LastCall, Rowless
      <3>3. QED BY <1>q, <1>s, <2>2, <3>1, <3>2 DEF OneByOne
    <2>6. CASE Stamp(k)
      <3>1. /\ fires[k].pc = "stamp" /\ fires'[k].pc = "insert" /\ fires'[k].seen = fires[k].seen
            /\ state' = state /\ runs' = Append(runs, Row(k, fires[k].version, "absent"))
        BY <1>f, <2>1, <2>6 DEF Stamp, GoTo, FireType
      <3>2. Row(k, fires[k].version, "absent") \in RowType
        <4>1. fires[k].version \in approved
          BY <2>1, <3>1 DEF RowInv, PinInv, VersionsApproved, Unread
        <4>2. QED BY <1>t, <2>1, <4>1 DEF Row, RowType, TypeOK
      <3>3. /\ Len(runs') = Len(runs) + 1 /\ runs'[Len(runs) + 1].fire = k
            /\ \A i \in 1 .. Len(runs) : runs'[i] = runs[i]
        BY <1>t, <3>1, <3>2, AppendKeeps DEF Row
      <3>4. Len(runs) = k BY <2>4, <3>1 DEF Rowless
      <3>5. \A i \in 1 .. k + 1 : runs'[i].fire = i - 1
        <4>1. \A i \in 1 .. k : runs'[i].fire = i - 1 BY <2>4, <3>3, <3>4
        <4>2. runs'[k + 1].fire = (k + 1) - 1 BY <1>m, <3>3, <3>4
        <4>3. \A i \in 1 .. k + 1 : i \in 1 .. k \/ i = k + 1 BY <1>m
        <4>4. QED BY <4>1, <4>2, <4>3
      <3>6. QED BY <2>v, <3>1, <3>3, <3>4, <3>5
    <2>7. CASE Insert(k) \/ Finish(k)
      <3>1. /\ fires[k].pc \in {"insert", "finish"} /\ fires'[k].pc \in {"sandbox", "audit"}
            /\ fires'[k].seen = fires[k].seen /\ state' = state
        BY ZenonT(30), <1>f, <2>1, <2>7 DEF Insert, Finish, GoTo, FireType
      <3>2. \E st \in Results \cup {"absent", "running"} : SetStatus(k, st)
        <4>1. fires[k].result \in Results BY <1>f, <2>1 DEF FireType
        <4>2. QED BY <2>7, <4>1 DEF Insert, Finish
      <3>3. Len(runs') = Len(runs) /\ \A i \in 1 .. Len(runs) : runs'[i].fire = runs[i].fire
        BY <1>t, <2>1, <3>2, StatusKeeps
      <3>4. Len(runs) = k + 1 BY <2>4, <3>1 DEF Rowless
      <3>5. QED BY <2>v, <2>4, <3>1, <3>3, <3>4
    <2>8. CASE Sandbox(k)
      <3>1. fires[k].pc = "sandbox" /\ fires'[k].pc = "finish" /\ fires'[k].seen = fires[k].seen
            /\ UNCHANGED <<state, runs>>
        BY <1>f, <2>1, <2>8 DEF Sandbox, FireType
      <3>2. QED BY <2>u, <3>1 DEF Rowless
    <2>9. CASE Audit(k) \/ Judge(k) \/ Recheck(k)
      <3>1. /\ fires[k].pc \in {"audit", "judge", "recheck"} /\ fires'[k].seen = fires[k].seen
            /\ fires'[k].pc \in {"judge", "promote", "done", "recheck", "degrade"}
            /\ UNCHANGED <<state, runs>>
        <4>1. CASE Audit(k) BY <1>f, <2>1, <4>1 DEF Audit, GoTo, FireType
        <4>2. CASE Judge(k) BY <1>f, <2>1, <4>2 DEF Judge, GoTo, FireType
        <4>3. CASE Recheck(k) BY <1>f, <2>1, <4>3 DEF Recheck, GoTo, FireType
        <4>4. QED BY <2>9, <4>1, <4>2, <4>3
      <3>2. fires'[k].pc \in {"recheck", "degrade"} => ThreeBad
        BY ZenonT(30), <1>f, <2>1, <2>4, <2>9 DEF Audit, Judge, Recheck, GoTo, FireType
      <3>3. QED BY <2>u, <3>1, <3>2 DEF Rowless
    <2>10. CASE Promote(k) \/ Degrade(k)
      BY <1>f, <2>1, <2>w, <2>10 DEF Promote, Degrade, GoTo, FireType, Firable
    <2>11. QED
      BY <1>2, <2>1, <2>5, <2>6, <2>7, <2>8, <2>9, <2>10 DEF FireStep
  <1>3. CASE UNCHANGED vars
    BY <1>3 DEF vars, flow, OneByOne, LastCall, ThreeBad, Recent, Visible
  <1>4. QED BY <1>1, <1>2, <1>3, <1>q DEF Next

LEMMA HealthInvariant == Spec => []HealthInv
  <1>1. ASSUME Init PROVE HealthInv
    <2>1. RowInv BY <1>1, PinInit
    <2>2. \A f \in Fires : fires[f].pc = "idle" BY <1>1 DEF Init, NoFire
    <2>3. ResultsKnown BY <2>2 DEF ResultsKnown
    <2>4. ASSUME quiet PROVE LastCall(0)
      <3>1. runs = <<Row(0, 1, "succeeded")>> BY <1>1, <2>4 DEF Init
      <3>2. Len(runs) = 1 /\ runs[1].fire = 0 BY <3>1 DEF Row
      <3>3. QED BY <2>2, <3>2 DEF LastCall, Fires
    <2>5. OneByOne
      <3>1. 0 \in 0 .. MaxFires BY RunnerAssumption
      <3>2. QED BY <1>1, <2>4, <3>1 DEF Init, NoCycle, OneByOne, Firable
    <2>6. QED BY <2>1, <2>3, <2>5 DEF HealthInv
  <1>2. HealthInv /\ RowInv' /\ [Next]_vars => HealthInv'
    BY ResultsKnownKept, OneByOneKept DEF HealthInv
  <1>3. QED BY <1>1, <1>2, RowInvariant, PTL DEF Spec
-----------------------------------------------------------------------------
(* The state follows the newest runs *)

(* The outcomes of rows 1 .. n, at most three of them.                     *)
Newest(n) == Follows!Newest3([i \in 1 .. n |-> runs[i].status])

LEMMA NewestIs ==
  ASSUME NEW S, NEW s \in Seq(S)
  PROVE  LET t == Follows!Newest3(s)
         IN  /\ t \in Seq(S)
             /\ Len(s) <= 3 => t = s
             /\ Len(s) > 3 => Len(t) = 3 /\ \A i \in 1 .. 3 : t[i] = s[Len(s) - 3 + i]
  <1> DEFINE t == Follows!Newest3(s)
             m == IF Len(s) > 3 THEN Len(s) - 2 ELSE 1
  <1>0. Len(s) \in Nat OBVIOUS
  <1>1. t = SubSeq(s, m, Len(s)) BY DEF Follows!Newest3
  <1>2. m \in 1 .. Len(s) + 1 /\ Len(s) \in m - 1 .. Len(s) BY <1>0
  <1>3. /\ t \in Seq(S) /\ Len(t) = Len(s) - m + 1
        /\ \A i \in 1 .. Len(s) - m + 1 : t[i] = s[m + i - 1]
    <2> HIDE DEF m
    <2>1. QED BY <1>1, <1>2, SubSeqProperties
  <1>4. CASE Len(s) <= 3
    <2>1. Len(t) = Len(s) /\ \A i \in 1 .. Len(s) : t[i] = s[i] BY <1>0, <1>3, <1>4
    <2>2. t = s
      <3> HIDE DEF t
      <3>1. t \in Seq(S) BY <1>3
      <3>2. QED BY <2>1, <3>1, SeqEqual
    <2>3. QED BY <1>0, <1>3, <1>4, <2>2
  <1>5. CASE Len(s) > 3
    <2>1. Len(t) = 3 /\ \A i \in 1 .. 3 : t[i] = s[Len(s) - 3 + i] BY <1>0, <1>3, <1>5
    <2>2. QED BY <1>0, <1>3, <1>5, <2>1
  <1>6. QED BY <1>0, <1>4, <1>5

(* Of a longer sequence the new element and the two before it are kept.    *)
LEMMA NewestOfLong ==
  ASSUME NEW S, NEW s \in Seq(S), NEW x \in S, Len(s) >= 3
  PROVE  LET t == Follows!Newest3(Append(s, x))
         IN  /\ t \in Seq(S) /\ Len(t) = 3
             /\ t[1] = s[Len(s) - 1] /\ t[2] = s[Len(s)] /\ t[3] = x
  <1> DEFINE a == Append(s, x)
             t == Follows!Newest3(a)
  <1>0. Len(s) \in Nat OBVIOUS
  <1>1. /\ a \in Seq(S)
        /\ Len(a) = Len(s) + 1
        /\ \A i \in 1 .. Len(s) : a[i] = s[i]
        /\ a[Len(s) + 1] = x
    BY AppendProperties
  <1> HIDE DEF a
  <1>2. /\ t \in Seq(S)
        /\ Len(a) > 3 => Len(t) = 3 /\ \A i \in 1 .. 3 : t[i] = a[Len(a) - 3 + i]
    BY <1>1, NewestIs
  <1> HIDE DEF t
  <1>3. Len(t) = 3 /\ t[1] = a[Len(s) - 1] /\ t[2] = a[Len(s)] /\ t[3] = a[Len(s) + 1]
    BY <1>0, <1>1, <1>2
  <1>4. a[Len(s) - 1] = s[Len(s) - 1] /\ a[Len(s)] = s[Len(s)]
    BY <1>0, <1>1
  <1>5. QED BY <1>1, <1>2, <1>3, <1>4 DEF t, a

(* A further outcome moves the window on by one.                           *)
LEMMA NewestStep ==
  ASSUME NEW S, NEW s \in Seq(S), NEW x \in S
  PROVE  Follows!Newest3(Append(Follows!Newest3(s), x)) = Follows!Newest3(Append(s, x))
  <1> DEFINE w == Follows!Newest3(s)
             l == Follows!Newest3(Append(w, x))
             r == Follows!Newest3(Append(s, x))
  <1>0. Len(s) \in Nat OBVIOUS
  <1>1. /\ w \in Seq(S)
        /\ Len(s) <= 3 => w = s
        /\ Len(s) > 3 => Len(w) = 3 /\ \A i \in 1 .. 3 : w[i] = s[Len(s) - 3 + i]
    BY NewestIs
  <1>2. CASE Len(s) <= 3 BY <1>1, <1>2
  <1>3. CASE Len(s) > 3
    <2>1. Len(w) = 3 /\ w[2] = s[Len(s) - 1] /\ w[3] = s[Len(s)]
      <3> HIDE DEF w
      <3>1. QED BY <1>0, <1>1, <1>3
    <2>2. w \in Seq(S) /\ Len(w) >= 3 BY <1>1, <2>1
    <2>3. /\ l \in Seq(S) /\ Len(l) = 3
          /\ l[1] = w[Len(w) - 1] /\ l[2] = w[Len(w)] /\ l[3] = x
      <3> HIDE DEF w
      <3>1. QED BY <2>2, NewestOfLong
    <2>4. /\ r \in Seq(S) /\ Len(r) = 3
          /\ r[1] = s[Len(s) - 1] /\ r[2] = s[Len(s)] /\ r[3] = x
      BY <1>0, <1>3, NewestOfLong
    <2>5. \A i \in 1 .. 3 : l[i] = r[i]
      <3> HIDE DEF l, r, w
      <3>1. l[1] = r[1] /\ l[2] = r[2] /\ l[3] = r[3] BY <2>1, <2>3, <2>4
      <3>2. QED BY <3>1
    <2>6. l = r
      <3> HIDE DEF l, r
      <3>1. QED BY <2>3, <2>4, <2>5, SeqEqual
    <2>7. QED BY <2>6
  <1>4. QED BY <1>0, <1>2, <1>3

LEMMA CardinalityUpTo ==
  ASSUME NEW n \in Nat
  PROVE  Cardinality(1 .. n) = n
  <1>1. 1 \in Int /\ n \in Int OBVIOUS
  <1>2. Cardinality(1 .. n) = IF 1 > n THEN 0 ELSE n - 1 + 1 BY <1>1, FS_Interval
  <1>3. QED BY <1>2

(* Rows of calls that are over, when calls come one at a time.             *)
Counted(k) == IF k = 0 \/ fires[k].pc = "done" THEN k + 1 ELSE k

LEMMA PastIs ==
  ASSUME TypeOK, NEW k \in 0 .. MaxFires, LastCall(k)
  PROVE  /\ Past = 1 .. Counted(k) /\ Cardinality(Past) = Counted(k)
         /\ Counted(k) \in Nat /\ Counted(k) <= Len(runs)
  <1>m. MaxFires \in Nat /\ k \in Nat /\ Len(runs) \in Nat
        /\ DOMAIN runs = 1 .. Len(runs) /\ (k > 0 => k \in Fires)
    BY RunnerAssumption DEF TypeOK, Fires
  <1>1. /\ \A f \in Fires : f < k => fires[f].pc = "done"
        /\ Len(runs) = IF k > 0 /\ fires[k].pc \in Rowless THEN k ELSE k + 1
        /\ \A i \in 1 .. Len(runs) : runs[i].fire = i - 1
    BY DEF LastCall
  <1>2. Past = {i \in 1 .. Len(runs) : i = 1 \/ fires[i - 1].pc = "done"}
    BY <1>m, <1>1 DEF Past
  <1>3. \A i \in 2 .. k : fires[i - 1].pc = "done"
    BY <1>m, <1>1 DEF Fires
  <1>4. Counted(k) \in Nat /\ Counted(k) <= Len(runs)
    BY <1>m, <1>1 DEF Counted, Rowless
  <1>5. Past = 1 .. Counted(k)
    <2>1. ASSUME NEW i \in 1 .. Len(runs)
          PROVE  (i = 1 \/ fires[i - 1].pc = "done") <=> i <= Counted(k)
      <3>1. i \in Nat /\ 1 <= i /\ i <= k + 1 BY <1>m, <1>1
      <3>2. CASE i = 1
        <4>1. Counted(k) >= 1 BY <1>m DEF Counted
        <4>2. QED BY <3>2, <4>1
      <3>3. CASE i \in 2 .. k
        <4>1. Counted(k) >= k BY <1>m DEF Counted
        <4>2. QED BY <1>m, <1>3, <1>4, <3>3, <4>1
      <3>4. CASE i = k + 1 /\ k > 0
        <4>1. i - 1 = k BY <1>m, <3>4
        <4>2. QED BY <1>m, <3>4, <4>1 DEF Counted
      <3>5. QED BY <1>m, <3>1, <3>2, <3>3, <3>4
    <2>2. QED BY <1>m, <1>2, <1>4, <2>1
  <1>6. Cardinality(1 .. Counted(k)) = Counted(k)
    BY <1>4, CardinalityUpTo
  <1>7. QED BY <1>4, <1>5, <1>6

(* The outcomes change only with a call that comes to its end.             *)
LEMMA OutcomesStay ==
  ASSUME TypeOK, NEW k \in 0 .. MaxFires, LastCall(k), Past' = Past,
         \A i \in Past : runs'[i].status = runs[i].status
  PROVE  Outcomes' = Outcomes
  <1>1. Past = 1 .. Cardinality(Past) BY PastIs
  <1>2. [i \in 1 .. Cardinality(Past) |-> runs'[i].status] = [i \in 1 .. Cardinality(Past) |-> runs[i].status]
    BY <1>1
  <1>3. Cardinality(Past') = Cardinality(Past) OBVIOUS
  <1>4. QED BY <1>2, <1>3 DEF Outcomes

LEMMA OutcomesAre ==
  ASSUME NEW n \in Nat, n = Cardinality(Past)
  PROVE  Outcomes = Newest(n)
  <1> DEFINE s == [i \in 1 .. n |-> runs[i].status]
  <1>1. Len(s) = n BY LenProperties
  <1>2. QED BY <1>1 DEF Outcomes, Newest, Follows!Newest3

LEMMA OutcomesNext ==
  ASSUME NEW n \in Nat, n = Cardinality(Past'), runs' = runs
  PROVE  Outcomes' = Newest(n)
  <1> DEFINE s == [i \in 1 .. n |-> runs[i].status]
  <1>1. Len(s) = n BY LenProperties
  <1>2. [i \in 1 .. n |-> runs'[i].status] = s OBVIOUS
  <1>3. QED BY <1>1, <1>2 DEF Outcomes, Newest, Follows!Newest3

(* When the last call has its row, the newest three outcomes are all bad   *)
(* iff maybeDegrade finds three bad runs.                                  *)
LEMMA WindowIsJudged ==
  ASSUME TypeOK, NEW n \in Nat, Len(runs) = n, \A i \in 1 .. n : runs[i].status # "absent"
  PROVE  ThreeBad <=> Len(Newest(n)) = 3 /\ \A i \in 1 .. 3 : Newest(n)[i] # "succeeded"
  <1> DEFINE s == [i \in 1 .. n |-> runs[i].status]
             S == Results \cup {"absent", "running"}
  <1>0. DOMAIN runs = 1 .. n /\ \A i \in 1 .. n : runs[i].status \in S
    <2>1. runs \in Seq(RowType) BY DEF TypeOK, RowType
    <2>2. \A i \in 1 .. n : runs[i] \in RowType BY <2>1
    <2>3. QED BY <2>1, <2>2 DEF RowType
  <1>1. s \in Seq(S) /\ Len(s) = n /\ \A i \in 1 .. n : s[i] = runs[i].status
    <2>1. \A i \in 1 .. n : runs[i].status \in S BY <1>0
    <2>2. s \in [1 .. n -> S] BY <2>1
    <2> HIDE DEF S
    <2>3. QED BY <2>2, SeqDef
  <1> HIDE DEF s, S
  <1>2. /\ n <= 3 => Newest(n) = s
        /\ n > 3 => Len(Newest(n)) = 3 /\ \A i \in 1 .. 3 : Newest(n)[i] = s[n - 3 + i]
    <2>1. Newest(n) = Follows!Newest3(s) BY DEF Newest, s
    <2>2. /\ Len(s) <= 3 => Follows!Newest3(s) = s
          /\ Len(s) > 3 => /\ Len(Follows!Newest3(s)) = 3
                           /\ \A i \in 1 .. 3 : Follows!Newest3(s)[i] = s[Len(s) - 3 + i]
      BY <1>1, NewestIs
    <2>3. QED BY <1>1, <2>1, <2>2
  <1>3. CASE n < 3 BY <1>0, <1>1, <1>2, <1>3, TooFewRuns
  <1>4. CASE n >= 3
    <2>1. ThreeBad <=> \A i \in n - 2 .. n : runs[i].status # "succeeded"
      BY <1>0, <1>4, ThreeBadIs
    <2>2. Len(Newest(n)) = 3 /\ \A i \in 1 .. 3 : Newest(n)[i] = runs[n - 3 + i].status
      <3>1. CASE n = 3
        <4>1. \A i \in 1 .. 3 : n - 3 + i = i BY <3>1
        <4>2. QED BY <1>1, <1>2, <3>1, <4>1
      <3>2. CASE n > 3
        <4>1. \A i \in 1 .. 3 : n - 3 + i \in 1 .. n BY <3>2
        <4>2. QED BY <1>1, <1>2, <3>2, <4>1
      <3>3. QED BY <1>4, <3>1, <3>2
    <2>3. (\A i \in n - 2 .. n : runs[i].status # "succeeded")
            <=> \A i \in 1 .. 3 : runs[n - 3 + i].status # "succeeded"
      <3>1. \A i \in 1 .. 3 : n - 3 + i \in n - 2 .. n BY <1>4
      <3>2. \A i \in n - 2 .. n : i - n + 3 \in 1 .. 3 /\ n - 3 + (i - n + 3) = i BY <1>4
      <3>3. QED BY <3>1, <3>2
    <2>4. QED BY <2>1, <2>2, <2>3
  <1>5. QED BY <1>3, <1>4

(* When the last call has its result, so has its row, and no row is        *)
(* missing.                                                                *)
LEMMA AllRowsIn ==
  ASSUME HealthInv, quiet, NEW k \in Fires, LastCall(k), fires[k].pc \in Judged
  PROVE  /\ Len(runs) = k + 1 /\ runs[k + 1].status = fires[k].result
         /\ \A i \in 1 .. k + 1 : runs[i].status \in Results
  <1>t. /\ TypeOK /\ runs \in Seq(RowType) /\ OneRowEach /\ VersionsApproved /\ current = 1
        /\ k \in Nat /\ k > 0
    BY DEF HealthInv, RowInv, PinInv, TypeOK, RowType, OneByOne, Fires
  <1>f. fires \in [Fires -> FireType] BY <1>t DEF TypeOK, FireType
  <1>1. /\ Len(runs) = k + 1 /\ \A i \in 1 .. k + 1 : runs[i].fire = i - 1
        /\ \A f \in Fires : f < k => fires[f].pc = "done"
    BY <1>t DEF LastCall, Judged, Rowless
  <1>2. \A f \in 1 .. k : f \in Fires /\ fires[f].pc \in Judged
    <2>1. \A f \in 1 .. k : f \in Fires /\ (f < k \/ f = k)
      BY <1>t, RunnerAssumption DEF Fires
    <2>2. "done" \in Judged BY DEF Judged
    <2>3. QED BY <1>1, <2>1, <2>2
  <1>3. \A f \in 1 .. k : runs[f + 1].status = fires[f].result
    <2>1. ASSUME NEW f \in 1 .. k PROVE runs[f + 1].status = fires[f].result
      <3>1. f + 1 \in 1 .. Len(runs) /\ runs[f + 1].fire = f BY <1>t, <1>1
      <3>2. QED BY <1>t, <1>2, <3>1 DEF OneRowEach, RowOf
    <2>2. QED BY <2>1
  <1>4. runs[1].status = "succeeded"
    <2>1. PICK j \in 1 .. Len(runs) + 1 - 1 : Clean(runs[j], current)
      BY <1>t DEF VersionsApproved, Tested, TestedBefore
    <2>2. runs[j].fire = 0 /\ j \in 1 .. k + 1 BY <1>t, <1>1, <2>1 DEF Clean
    <2>3. j = 1 BY <1>t, <1>1, <2>2
    <2>4. QED BY <2>1, <2>3 DEF Clean
  <1>5. \A i \in 1 .. k + 1 : runs[i].status \in Results
    <2>1. ASSUME NEW i \in 1 .. k + 1 PROVE runs[i].status \in Results
      <3>1. CASE i = 1 BY <1>4, <3>1 DEF Results
      <3>2. CASE i > 1
        <4>1. i - 1 \in 1 .. k /\ (i - 1) + 1 = i BY <1>t, <3>2
        <4>2. runs[i].status = fires[i - 1].result BY <1>3, <4>1
        <4>3. QED BY <1>f, <1>2, <4>1, <4>2 DEF FireType
      <3>3. QED BY <1>t, <3>1, <3>2
    <2>2. QED BY <2>1
  <1>6. QED BY <1>t, <1>1, <1>3, <1>5

(* A call that comes to its end records its outcome.                       *)
LEMMA EndRecords ==
  ASSUME HealthInv, quiet, NEW k \in Fires, LastCall(k), fires[k].pc \in Judged \ {"done"},
         GoTo(k, "done"), runs' = runs, NEW x, x = fires[k].result,
         state' = IF x = "succeeded" THEN "Running" ELSE IF ThreeBad THEN "Degraded" ELSE state
  PROVE  /\ Outcomes' = Follows!Newest3(Append(Outcomes, x))
         /\ state' = IF x = "succeeded" THEN "Running"
                     ELSE IF Len(Outcomes') = 3 /\ \A i \in 1 .. 3 : Outcomes'[i] # "succeeded"
                     THEN "Degraded" ELSE state
  <1>t. /\ TypeOK /\ k \in Nat /\ k > 0 /\ k \in 0 .. MaxFires
    BY RunnerAssumption DEF HealthInv, RowInv, PinInv, Fires
  <1>f. fires \in [Fires -> FireType] BY <1>t DEF TypeOK, FireType
  <1>1. /\ Len(runs) = k + 1 /\ runs[k + 1].status = x /\ DOMAIN runs = 1 .. k + 1
        /\ \A i \in 1 .. k + 1 : runs[i].status \in Results
    <2>1. DOMAIN runs = 1 .. Len(runs) BY <1>t DEF TypeOK
    <2>2. QED BY <2>1, AllRowsIn
  <1>2. /\ \A i \in 1 .. k + 1 : runs[i].fire = i - 1
        /\ \A f \in Fires : f < k => fires[f].pc = "done"
    BY <1>1 DEF LastCall
  <1>3. Outcomes = Newest(k)
    <2>1. Cardinality(Past) = k BY <1>t, PastIs DEF Counted
    <2>2. QED BY <1>t, <2>1, OutcomesAre
  <1>4. Outcomes' = Newest(k + 1)
    <2>1. \A f \in 1 .. k : fires'[f].pc = "done"
      <3>1. \A f \in 1 .. k : f \in Fires /\ (f < k \/ f = k)
        BY <1>t, RunnerAssumption DEF Fires
      <3>2. fires'[k].pc = "done" /\ \A f \in Fires : f # k => fires'[f] = fires[f]
        BY <1>f DEF GoTo, FireType
      <3>3. QED BY <1>t, <1>2, <3>1, <3>2
    <2>2. \A i \in 1 .. k + 1 : runs[i].fire = 0 \/ fires'[runs[i].fire].pc = "done"
      BY <1>t, <1>2, <2>1
    <2>3. Past' = 1 .. k + 1 BY <1>1, <2>2 DEF Past
    <2>4. Cardinality(1 .. k + 1) = k + 1
      <3>1. k + 1 \in Nat BY <1>t
      <3>2. QED BY <3>1, CardinalityUpTo
    <2>5. Cardinality(Past') = k + 1 BY <2>3, <2>4
    <2>6. k + 1 \in Nat BY <1>t
    <2>7. QED BY <2>5, <2>6, OutcomesNext
  <1>5. Newest(k + 1) = Follows!Newest3(Append(Newest(k), x))
    <2> DEFINE s == [i \in 1 .. k |-> runs[i].status]
               t == [i \in 1 .. k + 1 |-> runs[i].status]
    <2>1. s \in Seq(Results) /\ Len(s) = k /\ (\A i \in 1 .. k : s[i] = runs[i].status) /\ x \in Results
      <3>1. \A i \in 1 .. k : runs[i].status \in Results BY <1>t, <1>1
      <3>2. s \in [1 .. k -> Results] BY <3>1
      <3>3. x \in Results BY <1>t, <1>1
      <3>4. QED BY <1>t, <3>2, <3>3, SeqDef
    <2>2. t = Append(s, x)
      <3>1. t \in Seq(Results) /\ Len(t) = k + 1 /\ \A i \in 1 .. k + 1 : t[i] = runs[i].status
        <4>1. t \in [1 .. k + 1 -> Results] BY <1>1
        <4>2. k + 1 \in Nat BY <1>t
        <4>3. QED BY <4>1, <4>2, SeqDef
      <3> HIDE DEF s, t
      <3>2. /\ Append(s, x) \in Seq(Results)
            /\ Len(Append(s, x)) = k + 1
            /\ \A i \in 1 .. k : Append(s, x)[i] = s[i]
            /\ Append(s, x)[k + 1] = x
        BY <2>1, AppendProperties
      <3>3. \A i \in 1 .. k + 1 : t[i] = Append(s, x)[i]
        <4>1. \A i \in 1 .. k + 1 : i \in 1 .. k \/ i = k + 1 BY <1>t
        <4>2. \A i \in 1 .. k : t[i] = Append(s, x)[i] BY <1>t, <2>1, <3>1, <3>2
        <4>3. t[k + 1] = x BY <1>t, <1>1, <3>1
        <4>4. QED BY <3>2, <4>1, <4>2, <4>3
      <3>4. QED BY <3>1, <3>2, <3>3, SeqEqual
    <2>3. Follows!Newest3(Append(Follows!Newest3(s), x)) = Follows!Newest3(Append(s, x))
      <3> HIDE DEF s
      <3>1. QED BY <2>1, NewestStep
    <2>4. QED BY <2>2, <2>3 DEF Newest
  <1>6. ThreeBad <=> Len(Outcomes') = 3 /\ \A i \in 1 .. 3 : Outcomes'[i] # "succeeded"
    <2>1. k + 1 \in Nat /\ \A i \in 1 .. k + 1 : runs[i].status # "absent"
      BY <1>t, <1>1 DEF Results
    <2>2. QED BY <1>t, <1>1, <1>4, <2>1, WindowIsJudged
  <1>7. QED BY <1>3, <1>4, <1>5, <1>6

(* Rows of calls that are over stay as they are while no call ends.        *)
LEMMA PastStays ==
  ASSUME TypeOK, fires' \in [Fires -> FireType],
         \A f \in Fires : fires'[f].pc = "done" <=> fires[f].pc = "done",
         \/ runs' = runs
         \/ \E f \in Fires, st \in Results \cup {"absent", "running"} :
                SetStatus(f, st) /\ fires[f].pc # "done"
         \/ \E f \in Fires, v \in Versions, st \in Results \cup {"absent", "running"} :
                runs' = Append(runs, Row(f, v, st)) /\ fires[f].pc # "done"
  PROVE  Past' = Past /\ \A i \in Past : runs'[i].status = runs[i].status
  <1>t. runs \in Seq(RowType) /\ Len(runs) \in Nat /\ DOMAIN runs = 1 .. Len(runs)
    BY DEF TypeOK, RowType
  <1>r. \A i \in 1 .. Len(runs) : runs[i].fire = 0 \/ runs[i].fire \in Fires
    <2>1. \A i \in 1 .. Len(runs) : runs[i] \in RowType BY <1>t
    <2>2. QED BY <2>1 DEF RowType
  <1>1. CASE runs' = runs
    <2>1. Past' = Past BY <1>t, <1>r, <1>1 DEF Past
    <2>2. QED BY <1>1, <2>1
  <1>2. ASSUME NEW f \in Fires, NEW st \in Results \cup {"absent", "running"},
               SetStatus(f, st), fires[f].pc # "done"
        PROVE  Past' = Past /\ \A i \in Past : runs'[i].status = runs[i].status
    <2>1. DOMAIN runs' = DOMAIN runs /\ \A i \in DOMAIN runs : runs'[i].fire = runs[i].fire
      <3>1. Len(runs') = Len(runs) /\ \A i \in 1 .. Len(runs) : runs'[i].fire = runs[i].fire
        BY <1>t, <1>2, StatusKeeps
      <3>2. DOMAIN runs' = DOMAIN runs BY <1>2 DEF SetStatus
      <3>3. QED BY <1>t, <3>1, <3>2
    <2>2. Past' = Past BY <1>t, <1>r, <2>1 DEF Past
    <2>3. \A i \in Past : runs[i].fire # f /\ i \in DOMAIN runs
      BY <1>2 DEF Past, Fires
    <2>4. \A i \in DOMAIN runs : runs[i].fire # f => runs'[i] = runs[i]
      BY <1>2 DEF SetStatus
    <2>5. QED BY <2>2, <2>3, <2>4
  <1>3. ASSUME NEW f \in Fires, NEW v \in Versions, NEW st \in Results \cup {"absent", "running"},
               runs' = Append(runs, Row(f, v, st)), fires[f].pc # "done"
        PROVE  Past' = Past /\ \A i \in Past : runs'[i].status = runs[i].status
    <2>1. Row(f, v, st) \in RowType BY DEF Row, RowType
    <2>2. /\ Len(runs') = Len(runs) + 1 /\ runs'[Len(runs) + 1] = Row(f, v, st)
          /\ \A i \in 1 .. Len(runs) : runs'[i] = runs[i]
          /\ DOMAIN runs' = 1 .. Len(runs) + 1
      <3> DEFINE r == Row(f, v, st)
      <3>1. r \in RowType /\ runs' = Append(runs, r) BY <1>3, <2>1
      <3> HIDE DEF r
      <3>2. /\ runs' \in Seq(RowType)
            /\ Len(runs') = Len(runs) + 1
            /\ \A i \in 1 .. Len(runs) : runs'[i] = runs[i]
            /\ runs'[Len(runs) + 1] = r
        BY <1>t, <3>1, AppendKeeps
      <3>3. DOMAIN runs' = 1 .. Len(runs) + 1 BY <3>2
      <3>4. QED BY <3>2, <3>3 DEF r
    <2>3. runs'[Len(runs) + 1].fire = f /\ f # 0 BY <2>2 DEF Row, Fires
    <2>4. ASSUME NEW i \in 1 .. Len(runs)
          PROVE  (runs'[i].fire = 0 \/ fires'[runs'[i].fire].pc = "done")
                 <=> (runs[i].fire = 0 \/ fires[runs[i].fire].pc = "done")
      BY <1>r, <2>2
    <2>5. ~(runs'[Len(runs) + 1].fire = 0 \/ fires'[runs'[Len(runs) + 1].fire].pc = "done")
      BY <1>3, <2>3
    <2>6. \A i \in 1 .. Len(runs) + 1 : i \in 1 .. Len(runs) \/ i = Len(runs) + 1
      BY <1>t
    <2>7. \A i \in 1 .. Len(runs) : i \in 1 .. Len(runs) + 1 BY <1>t
    <2>8. Past' = Past BY <1>t, <2>2, <2>4, <2>5, <2>6, <2>7 DEF Past
    <2>9. \A i \in Past : i \in 1 .. Len(runs) BY <1>t DEF Past
    <2>10. QED BY <2>2, <2>8, <2>9
  <1>4. QED BY <1>1, <1>2, <1>3

(* A step in which some call ends and Health records its outcome.          *)
Records ==
    \E x \in Results :
        /\ Outcomes' = Follows!Newest3(Append(Outcomes, x))
        /\ state' = IF x = "succeeded" THEN "Running"
                    ELSE IF Len(Outcomes') = 3 /\ \A i \in 1 .. 3 : Outcomes'[i] # "succeeded"
                    THEN "Degraded" ELSE state

(* Every step of the calls, one after the other, is one of Health or       *)
(* changes nothing that Health sees.                                       *)
LEMMA HealthStep ==
  ASSUME HealthInv, [Next]_vars, quiet
  PROVE  UNCHANGED <<state, Outcomes>> \/ Records
  <1>t. TypeOK BY DEF HealthInv, RowInv, PinInv
  <1>f. fires \in [Fires -> FireType] BY <1>t DEF TypeOK, FireType
  <1>k. PICK k \in 0 .. MaxFires : LastCall(k) BY DEF HealthInv, OneByOne
  <1>u. ASSUME state' = state, Past' = Past, \A i \in Past : runs'[i].status = runs[i].status
        PROVE  UNCHANGED <<state, Outcomes>>
    BY <1>t, <1>k, <1>u, OutcomesStay
  <1>1. ASSUME NEW f \in Fires, Trigger(f) PROVE UNCHANGED <<state, Outcomes>>
    <2>1. "read" \in Steps /\ GoTo(f, "read") BY <1>1 DEF Trigger, Steps
    <2>2. /\ fires' \in [Fires -> FireType] /\ \A g \in Fires : g # f => fires'[g] = fires[g]
          /\ fires'[f].pc = "read"
      BY <1>t, <2>1, GoToPc
    <2>3. fires[f].pc = "idle" /\ UNCHANGED <<state, runs>> BY <1>1 DEF Trigger
    <2>4. \A g \in Fires : fires'[g].pc = "done" <=> fires[g].pc = "done" BY <2>2, <2>3
    <2>5. QED BY <1>t, <1>u, <2>2, <2>3, <2>4, PastStays
  <1>2. ASSUME NEW f \in Fires, FireStep(f)
        PROVE  UNCHANGED <<state, Outcomes>> \/ Records
    <2>1. f = k /\ k \in Fires /\ fires[k].pc \notin {"idle", "done"}
      <3>1. fires[f].pc \notin {"idle", "done"}
        BY <1>2 DEF FireStep, Read, Stamp, Insert, Sandbox, Finish, Audit, Promote, Judge,
                    Recheck, Degrade
      <3>2. ~(f > k) /\ ~(f < k) BY <1>k, <3>1 DEF LastCall
      <3>3. f = k BY <3>2, RunnerAssumption DEF Fires
      <3>4. QED BY <3>1, <3>3
    <2>2. /\ fires' \in [Fires -> FireType] /\ \A g \in Fires : g # k => fires'[g] = fires[g]
      BY <1>t, <1>2, <2>1, StepOfCall
    <2>e. ASSUME fires[k].pc \in Judged, GoTo(k, "done"), runs' = runs,
                 state' = IF fires[k].result = "succeeded" THEN "Running"
                          ELSE IF ThreeBad THEN "Degraded" ELSE state
          PROVE  Records
      <3>1. fires[k].pc \in Judged \ {"done"} BY <2>1, <2>e
      <3>2. fires[k].result \in Results BY <1>f, <2>1 DEF FireType
      <3> DEFINE x == fires[k].result
      <3>3. /\ Outcomes' = Follows!Newest3(Append(Outcomes, x))
            /\ state' = IF x = "succeeded" THEN "Running"
                        ELSE IF Len(Outcomes') = 3 /\ \A i \in 1 .. 3 : Outcomes'[i] # "succeeded"
                        THEN "Degraded" ELSE state
        BY <1>k, <2>1, <2>e, <3>1, EndRecords
      <3>4. QED BY <3>2, <3>3 DEF Records
    <2>n. ASSUME fires'[k].pc # "done", state' = state,
                 \/ runs' = runs
                 \/ \E st \in Results \cup {"absent", "running"} : SetStatus(k, st)
                 \/ \E v \in Versions, st \in Results \cup {"absent", "running"} :
                        runs' = Append(runs, Row(k, v, st))
          PROVE  UNCHANGED <<state, Outcomes>>
      <3>1. \A g \in Fires : fires'[g].pc = "done" <=> fires[g].pc = "done"
        BY <2>1, <2>2, <2>n
      <3>2. Past' = Past /\ \A i \in Past : runs'[i].status = runs[i].status
        BY <1>t, <2>1, <2>2, <2>n, <3>1, PastStays
      <3>3. QED BY <1>u, <2>n, <3>2
    <2>3. CASE Read(k) \/ Sandbox(k)
      <3>1. fires'[k].pc # "done"
        <4>1. CASE Read(k) BY <1>f, <2>1, <4>1 DEF Read, FireType
        <4>2. CASE Sandbox(k) BY <1>f, <2>1, <4>2 DEF Sandbox, FireType
        <4>3. QED BY <2>3, <4>1, <4>2
      <3>2. UNCHANGED <<state, runs>> BY <2>3 DEF Read, Sandbox
      <3>3. QED BY <2>n, <3>1, <3>2
    <2>4. CASE Stamp(k)
      <3>1. fires'[k].pc = "insert" /\ state' = state
            /\ runs' = Append(runs, Row(k, fires[k].version, "absent"))
        BY <1>f, <2>1, <2>4 DEF Stamp, GoTo, FireType
      <3>2. fires[k].version \in Versions
        <4>1. fires[k].version \in approved
          BY <2>1, <2>4 DEF Stamp, HealthInv, RowInv, PinInv, VersionsApproved, Unread
        <4>2. approved \subseteq Versions BY DEF HealthInv, RowInv, PinInv, TypeOK
        <4>3. QED BY <4>1, <4>2
      <3>3. QED BY <2>n, <3>1, <3>2
    <2>5. CASE Insert(k) \/ Finish(k)
      <3>1. fires'[k].pc # "done" /\ state' = state
        BY <1>f, <2>1, <2>5 DEF Insert, Finish, GoTo, FireType
      <3>2. \E st \in Results \cup {"absent", "running"} : SetStatus(k, st)
        <4>1. fires[k].result \in Results BY <1>f, <2>1 DEF FireType
        <4>2. QED BY <2>5, <4>1 DEF Insert, Finish
      <3>3. QED BY <2>n, <3>1, <3>2
    <2>r. state = fires[k].seen \/ fires[k].pc \in {"read", "done"}
      BY <1>k, <2>1 DEF HealthInv, LastCall, Fires
    <2>6. CASE Audit(k)
      <3>1. UNCHANGED <<state, runs>> /\ fires[k].pc = "audit" BY <2>6 DEF Audit
      <3>2. CASE fires[k].result = "succeeded" /\ fires[k].seen = "Running"
        <4>1. GoTo(k, "done") BY <2>6, <3>2 DEF Audit
        <4>2. state = "Running" BY <2>r, <3>1, <3>2
        <4>3. QED BY <2>e, <3>1, <3>2, <4>1, <4>2 DEF Judged
      <3>3. CASE ~(fires[k].result = "succeeded" /\ fires[k].seen = "Running")
        <4>1. fires'[k].pc # "done" BY <1>f, <2>1, <2>6, <3>3 DEF Audit, GoTo, FireType
        <4>2. QED BY <2>n, <3>1, <4>1
      <3>4. QED BY <3>2, <3>3
    <2>7. CASE Promote(k)
      <3>1. fires[k].pc = "promote" /\ GoTo(k, "done") /\ runs' = runs /\ state' = "Running"
        BY <2>7 DEF Promote
      <3>2. fires[k].result = "succeeded" BY <2>1, <3>1 DEF HealthInv, ResultsKnown
      <3>3. QED BY <2>e, <3>1, <3>2 DEF Judged
    <2>8. CASE Judge(k)
      <3>1. UNCHANGED <<state, runs>> /\ fires[k].pc = "judge" BY <2>8 DEF Judge
      <3>2. fires[k].result # "succeeded" BY <2>1, <3>1 DEF HealthInv, ResultsKnown
      <3>3. CASE ThreeBad
        <4>1. fires'[k].pc # "done" BY <1>f, <2>1, <2>8, <3>3 DEF Judge, GoTo, FireType
        <4>2. QED BY <2>n, <3>1, <4>1
      <3>4. CASE ~ThreeBad
        <4>1. GoTo(k, "done") BY <2>8, <3>4 DEF Judge
        <4>2. QED BY <2>e, <3>1, <3>2, <3>4, <4>1 DEF Judged
      <3>5. QED BY <3>3, <3>4
    <2>9. CASE Recheck(k)
      <3>1. UNCHANGED <<state, runs>> /\ fires[k].pc = "recheck" BY <2>9 DEF Recheck
      <3>2. fires[k].result # "succeeded" BY <2>1, <3>1 DEF HealthInv, ResultsKnown
      <3>3. CASE state # "Degraded"
        <4>1. fires'[k].pc # "done" BY <1>f, <2>1, <2>9, <3>3 DEF Recheck, GoTo, FireType
        <4>2. QED BY <2>n, <3>1, <4>1
      <3>4. CASE state = "Degraded"
        <4>1. GoTo(k, "done") BY <2>9, <3>4 DEF Recheck
        <4>2. ThreeBad BY <1>k, <2>1, <3>1 DEF LastCall, Fires
        <4>3. QED BY <2>e, <3>1, <3>2, <3>4, <4>1, <4>2 DEF Judged
      <3>5. QED BY <3>3, <3>4
    <2>10. CASE Degrade(k)
      <3>1. fires[k].pc = "degrade" /\ GoTo(k, "done") /\ runs' = runs /\ state' = "Degraded"
        BY <2>10 DEF Degrade
      <3>2. fires[k].result # "succeeded" BY <2>1, <3>1 DEF HealthInv, ResultsKnown
      <3>3. ThreeBad BY <1>k, <2>1, <3>1 DEF LastCall, Fires
      <3>4. QED BY <2>e, <3>1, <3>2, <3>3 DEF Judged
    <2>11. QED
      BY <1>2, <2>1, <2>3, <2>4, <2>5, <2>6, <2>7, <2>8, <2>9, <2>10 DEF FireStep
  <1>3. CASE UNCHANGED vars
    <2>1. UNCHANGED <<state, runs, fires>> BY <1>3 DEF vars
    <2>2. UNCHANGED Past BY <2>1 DEF Past
    <2>3. QED BY <1>u, <2>1, <2>2
  <1>4. QED BY <1>1, <1>2, <1>3 DEF Next

(* While no calls overlap and nothing else touches the row, a deployed     *)
(* integration follows its newest runs exactly as executor.ts promises: a  *)
(* clean run makes it Running, three bad runs in a row Degraded, anything  *)
(* less leaves it alone.                                                   *)
THEOREM StateFollowsRuns == Spec => HealthFollowsRuns
  <1> DEFINE bar == <<IF quiet THEN state ELSE "Deployed",
                      IF quiet THEN Outcomes ELSE <<"succeeded">> >>
  <1>1. Init => Follows!Init
    <2> SUFFICES ASSUME Init, quiet PROVE Follows!Init
      BY DEF Init, Follows!Init
    <2>1. state = "Deployed" /\ runs = <<Row(0, 1, "succeeded")>> BY DEF Init
    <2>2. Len(runs) = 1 /\ DOMAIN runs = 1 .. 1 /\ runs[1].fire = 0 /\ runs[1].status = "succeeded"
      BY <2>1 DEF Row
    <2>3. Past = 1 .. 1 BY <2>2 DEF Past
    <2>4. Cardinality(Past) = 1 BY <2>3, CardinalityUpTo
    <2>5. Outcomes = Newest(1) BY <2>4, OutcomesAre
    <2>6. Newest(1) = <<"succeeded">>
      <3> DEFINE s == [i \in 1 .. 1 |-> runs[i].status]
      <3>1. s \in Seq(Results) /\ Len(s) = 1 /\ s[1] = "succeeded"
        <4>1. s \in [1 .. 1 -> Results] BY <2>2 DEF Results
        <4>2. QED BY <2>2, <4>1, SeqDef
      <3> HIDE DEF s
      <3>2. Follows!Newest3(s) = s BY <3>1, NewestIs
      <3>3. s = <<"succeeded">> BY <3>1
      <3>4. QED BY <3>2, <3>3 DEF Newest, s
    <2>7. QED BY <2>1, <2>5, <2>6 DEF Follows!Init
  <1>2. HealthInv /\ [Next]_vars => [Follows!Next]_bar
    <2> SUFFICES ASSUME HealthInv, [Next]_vars PROVE [Follows!Next]_bar
      OBVIOUS
    <2>q. quiet' = quiet BY QuietStays
    <2>1. CASE ~quiet BY <2>q, <2>1
    <2>2. CASE quiet
      <3>1. CASE UNCHANGED <<state, Outcomes>> BY <2>q, <2>2, <3>1
      <3>2. CASE Records BY <2>q, <2>2, <3>2 DEF Records, Results, Follows!Next, Follows!Record
      <3>3. QED BY <2>2, <3>1, <3>2, HealthStep
    <2>3. QED BY <2>1, <2>2
  <1>3. QED BY <1>1, <1>2, HealthInvariant, PTL DEF Spec, HealthFollowsRuns, Follows!Spec
-----------------------------------------------------------------------------
(* What the refinement says of a single state *)

(* Degraded stands for three bad runs in a row, neither more nor less.     *)
DegradedIffThreeBad ==
    quiet => (state = "Degraded" <=>
                /\ Len(Outcomes) = 3
                /\ \A i \in 1 .. 3 : Outcomes[i] # "succeeded")

Health3 == IF quiet THEN state ELSE "Deployed"
Window3 == IF quiet THEN Outcomes ELSE <<"succeeded">>

ThreeBadOf(w) == Len(w) = 3 /\ \A i \in 1 .. 3 : w[i] # "succeeded"

WindowInv ==
    /\ Window3 \in Seq(Results) /\ Len(Window3) \in 0 .. 3
    /\ Health3 = "Degraded" <=> ThreeBadOf(Window3)

LEMMA UpToThree ==
  ASSUME NEW n \in 0 .. 3
  PROVE  n < 3 \/ n = 3
  OBVIOUS

(* A further outcome makes three bad ones of what were three bad ones, or  *)
(* of fewer; a clean one never does.                                       *)
LEMMA WindowMoves ==
  ASSUME NEW w \in Seq(Results), Len(w) \in 0 .. 3, NEW x \in Results
  PROVE  LET t == Follows!Newest3(Append(w, x))
         IN  /\ t \in Seq(Results) /\ Len(t) \in 0 .. 3
             /\ ThreeBadOf(t) => x # "succeeded"
             /\ ThreeBadOf(w) /\ x # "succeeded" => ThreeBadOf(t)
  <1> DEFINE a == Append(w, x)
             t == Follows!Newest3(a)
  <1>0. Len(w) \in Nat OBVIOUS
  <1>1. CASE Len(w) < 3
    <2>1. a \in Seq(Results) /\ Len(a) = Len(w) + 1 /\ a[Len(w) + 1] = x BY AppendProperties
    <2> HIDE DEF a
    <2>2. t = a BY <1>0, <1>1, <2>1, NewestIs
    <2> HIDE DEF t
    <2>3. t \in Seq(Results) /\ Len(t) \in 0 .. 3 BY <1>0, <1>1, <2>1, <2>2
    <2>4. ThreeBadOf(t) => x # "succeeded" BY <1>0, <1>1, <2>1, <2>2 DEF ThreeBadOf
    <2>5. ~ThreeBadOf(w) BY <1>1 DEF ThreeBadOf
    <2>6. QED BY <2>3, <2>4, <2>5 DEF t, a
  <1>2. CASE Len(w) = 3
    <2>1. /\ t \in Seq(Results) /\ Len(t) = 3
          /\ t[1] = w[Len(w) - 1] /\ t[2] = w[Len(w)] /\ t[3] = x
      <3>1. Len(w) >= 3 BY <1>2
      <3>2. QED BY <3>1, NewestOfLong
    <2>2. Len(t) \in 0 .. 3 BY <2>1
    <2> HIDE DEF a, t
    <2>3. t[1] = w[2] /\ t[2] = w[3] BY <1>2, <2>1
    <2>4. ThreeBadOf(t) => x # "succeeded" BY <2>1 DEF ThreeBadOf
    <2>5. ThreeBadOf(w) /\ x # "succeeded" => ThreeBadOf(t) BY <2>1, <2>3 DEF ThreeBadOf
    <2>6. QED BY <2>1, <2>2, <2>4, <2>5 DEF t, a
  <1>3. Len(w) < 3 \/ Len(w) = 3 BY UpToThree
  <1> HIDE DEF a, t
  <1>4. QED BY <1>1, <1>2, <1>3 DEF a, t

(* While no calls overlap and nothing else touches the row, the row says   *)
(* Degraded exactly when the last three runs that came to their end were   *)
(* all bad: maybeDegrade never degrades too early, never forgets to, and a *)
(* promotion never hides three bad runs.                                   *)
THEOREM DegradedFollowsThreeBad == Spec => []DegradedIffThreeBad
  <1> DEFINE bar == <<IF quiet THEN state ELSE "Deployed",
                      IF quiet THEN Outcomes ELSE <<"succeeded">> >>
  <1>1. Follows!Init => WindowInv
    <2> SUFFICES ASSUME Follows!Init PROVE WindowInv
      OBVIOUS
    <2>1. Health3 = "Deployed" /\ Window3 = <<"succeeded">>
      BY DEF Follows!Init, Health3, Window3
    <2>2. QED BY <2>1 DEF WindowInv, ThreeBadOf, Results
  <1>2. WindowInv /\ [Follows!Next]_bar => WindowInv'
    <2> SUFFICES ASSUME WindowInv, [Follows!Next]_bar PROVE WindowInv'
      OBVIOUS
    <2>1. CASE UNCHANGED bar
      <3>1. Health3' = Health3 /\ Window3' = Window3 BY <2>1 DEF Health3, Window3
      <3>2. QED BY <3>1 DEF WindowInv, ThreeBadOf
    <2>2. CASE Follows!Next
      <3>1. PICK x \in Results : Follows!Record(x) BY <2>2 DEF Follows!Next, Results
      <3>2. /\ Window3' = Follows!Newest3(Append(Window3, x))
            /\ Health3' = IF x = "succeeded" THEN "Running"
                          ELSE IF ThreeBadOf(Window3') THEN "Degraded" ELSE Health3
        BY <3>1 DEF Follows!Record, Health3, Window3, ThreeBadOf
      <3>3. /\ Window3' \in Seq(Results) /\ Len(Window3') \in 0 .. 3
            /\ ThreeBadOf(Window3') => x # "succeeded"
            /\ ThreeBadOf(Window3) /\ x # "succeeded" => ThreeBadOf(Window3')
        BY <3>2, WindowMoves DEF WindowInv
      <3>4. QED BY <3>2, <3>3 DEF WindowInv, ThreeBadOf
    <2>3. QED BY <2>1, <2>2
  <1>3. WindowInv => DegradedIffThreeBad
    BY DEF WindowInv, DegradedIffThreeBad, ThreeBadOf, Health3, Window3
  <1>4. Follows!Spec => []WindowInv
    BY <1>1, <1>2, PTL DEF Follows!Spec
  <1>5. QED BY <1>3, <1>4, StateFollowsRuns, PTL DEF HealthFollowsRuns
=============================================================================
