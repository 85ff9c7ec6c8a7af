----------------------------- MODULE CronProofs -----------------------------
(***************************************************************************)
(* Type correctness of CronTriggers, and that no reconcile loses a         *)
(* schedule, for any tenants, integrations and overlapping reconciles.     *)
(***************************************************************************)
EXTENDS CronTriggers, TLAPS

RecType == [pc : {"idle", "query", "answer"}, todo : SUBSET Tenants,
            found : SUBSET Crons, wanted : SUBSET Crons]

(* What was firable all along is wanted, was just found, or belongs to a   *)
(* tenant that is still to be asked.                                       *)
Accounted(k) ==
    /\ stable[k] \subseteq firable
    /\ recs[k].pc \in {"query", "answer"} =>
        \A i \in stable[k] :
            \/ i \in recs[k].wanted
            \/ TenantOf[i] \in recs[k].todo
            \/ recs[k].pc = "answer" /\ i \in recs[k].found

CronInv == TypeOK /\ \A k \in Reconciles : Accounted(k)

LEMMA RecFields ==
  ASSUME NEW pc \in {"idle", "query", "answer"}, NEW todo \in SUBSET Tenants,
         NEW found \in SUBSET Crons, NEW wanted \in SUBSET Crons
  PROVE  /\ Rec(pc, todo, found, wanted) \in RecType
         /\ Rec(pc, todo, found, wanted).pc = pc
         /\ Rec(pc, todo, found, wanted).todo = todo
         /\ Rec(pc, todo, found, wanted).found = found
         /\ Rec(pc, todo, found, wanted).wanted = wanted
  BY DEF Rec, RecType

LEMMA NoRecIdle == NoRec \in RecType /\ NoRec.pc = "idle"
  BY DEF NoRec, Rec, RecType

LEMMA CronInit ==
  ASSUME Init
  PROVE  CronInv
  <1>1. recs \in [Reconciles -> RecType] /\ \A k \in Reconciles : recs[k].pc = "idle"
    BY NoRecIdle DEF Init
  <1>2. \A k \in Reconciles : Accounted(k) BY <1>1 DEF Init, Accounted
  <1>3. TypeOK BY <1>1 DEF Init, TypeOK, RecType
  <1>4. QED BY <1>2, <1>3 DEF CronInv

(* Reconcile k goes on to r, the others and what is firable stay.          *)
LEMMA RecGoesOn ==
  ASSUME CronInv, NEW k \in Reconciles, NEW r \in RecType,
         recs' = [recs EXCEPT ![k] = r],
         UNCHANGED <<firable, process, answering>>,
         tasks' \subseteq Valid,
         stable' \in [Reconciles -> SUBSET Crons],
         \A l \in Reconciles : l # k => stable'[l] = stable[l],
         stable'[k] \subseteq firable,
         r.pc \in {"query", "answer"} =>
            \A i \in stable'[k] : \/ i \in r.wanted \/ TenantOf[i] \in r.todo
                                  \/ r.pc = "answer" /\ i \in r.found
  PROVE  CronInv'
  <1>1. recs \in [Reconciles -> RecType] BY DEF CronInv, TypeOK, RecType
  <1>2. /\ recs' \in [Reconciles -> RecType] /\ recs'[k] = r
        /\ \A l \in Reconciles : l # k => recs'[l] = recs[l]
    BY <1>1
  <1>3. TypeOK' BY <1>2 DEF CronInv, TypeOK, RecType
  <1>4. ASSUME NEW l \in Reconciles PROVE Accounted(l)'
    <2>1. CASE l = k BY <2>1, <1>2 DEF Accounted
    <2>2. CASE l # k BY <2>2, <1>2 DEF CronInv, Accounted
    <2>3. QED BY <2>1, <2>2
  <1>5. QED BY <1>3, <1>4 DEF CronInv

(* What Resume does, once its LET is gone.                                 *)
LEMMA ResumeIs ==
  ASSUME NEW k \in Reconciles, Resume(k)
  PROVE  /\ recs[k].pc = "answer"
         /\ UNCHANGED <<firable, process, stable, answering>>
         /\ \/ /\ recs[k].todo = {}
               /\ tasks' = (tasks \cup (recs[k].found \cap Valid))
                                \cap (recs[k].wanted \cup recs[k].found)
               /\ recs' = [recs EXCEPT ![k] = NoRec]
            \/ /\ recs[k].todo # {}
               /\ tasks' = tasks \cup (recs[k].found \cap Valid)
               /\ recs' = [recs EXCEPT ![k] =
                        Rec("query", recs[k].todo, {}, recs[k].wanted \cup recs[k].found)]
  BY DEF Resume

LEMMA CronNext ==
  ASSUME CronInv, [Next]_vars
  PROVE  CronInv'
  <1>t. /\ recs \in [Reconciles -> RecType] /\ tasks \subseteq Valid /\ firable \subseteq Crons
        /\ stable \in [Reconciles -> SUBSET Crons]
    BY DEF CronInv, TypeOK, RecType
  <1>r. \A k \in Reconciles :
            /\ recs[k].todo \subseteq Tenants /\ recs[k].found \subseteq Crons
            /\ recs[k].wanted \subseteq Crons
    BY <1>t DEF RecType
  <1>1. ASSUME NEW k \in Reconciles, StartReconcile(k) PROVE CronInv'
    <2> DEFINE r == Rec("query", Tenants, {}, {})
    <2>1. r \in RecType /\ r.todo = Tenants /\ r.pc = "query" BY RecFields
    <2>2. /\ recs' = [recs EXCEPT ![k] = r] /\ stable' = [stable EXCEPT ![k] = firable]
          /\ UNCHANGED <<firable, tasks, process, answering>>
      BY <1>1 DEF StartReconcile
    <2> HIDE DEF r
    <2>3. /\ stable' \in [Reconciles -> SUBSET Crons] /\ stable'[k] = firable
          /\ \A l \in Reconciles : l # k => stable'[l] = stable[l]
      BY <1>t, <2>2
    <2>4. \A i \in stable'[k] : TenantOf[i] \in r.todo
      BY <1>t, <2>1, <2>3, CronAssumption
    <2>5. QED BY <1>t, <2>1, <2>2, <2>3, <2>4, RecGoesOn
  <1>2. ASSUME NEW k \in Reconciles, NEW t \in Tenants, Query(k, t) PROVE CronInv'
    <2> DEFINE found == {i \in firable : TenantOf[i] = t}
               r == Rec("answer", recs[k].todo \ {t}, found, recs[k].wanted)
    <2>0. found \subseteq Crons BY <1>t
    <2>1. /\ r \in RecType /\ r.pc = "answer" /\ r.todo = recs[k].todo \ {t}
          /\ r.found = found /\ r.wanted = recs[k].wanted
      BY <1>r, <2>0, RecFields
    <2>2. /\ recs[k].pc = "query" /\ recs' = [recs EXCEPT ![k] = r]
          /\ UNCHANGED <<firable, tasks, process, stable, answering>>
      BY <1>t, <1>2 DEF Query
    <2>3. \A i \in stable[k] : /\ i \in firable
                               /\ i \in recs[k].wanted \/ TenantOf[i] \in recs[k].todo
      BY <2>2 DEF CronInv, Accounted
    <2>4. \A i \in stable[k] : i \in r.wanted \/ TenantOf[i] \in r.todo \/ i \in r.found
      BY <2>1, <2>3
    <2> HIDE DEF r
    <2>5. QED BY <1>t, <2>1, <2>2, <2>3, <2>4, RecGoesOn
  <1>3. ASSUME NEW k \in Reconciles, Resume(k) PROVE CronInv'
    <2>1. CASE recs[k].todo = {}
      <3>1. /\ recs' = [recs EXCEPT ![k] = NoRec]
            /\ tasks' \subseteq Valid
            /\ UNCHANGED <<firable, process, stable, answering>>
        BY <1>t, <1>3, <2>1, ResumeIs
      <3>2. QED BY <1>t, <3>1, NoRecIdle, RecGoesOn DEF CronInv, Accounted
    <2>2. CASE recs[k].todo # {}
      <3> DEFINE r == Rec("query", recs[k].todo, {}, recs[k].wanted \cup recs[k].found)
      <3>1. /\ recs' = [recs EXCEPT ![k] = r] /\ tasks' \subseteq Valid
            /\ recs[k].pc = "answer"
            /\ UNCHANGED <<firable, process, stable, answering>>
        BY <1>t, <1>3, <2>2, ResumeIs
      <3>2. /\ r \in RecType /\ r.pc = "query" /\ r.todo = recs[k].todo
            /\ r.wanted = recs[k].wanted \cup recs[k].found
        BY <1>r, RecFields
      <3> HIDE DEF r
      <3>3. \A i \in stable[k] : i \in r.wanted \/ TenantOf[i] \in r.todo
        BY <3>1, <3>2 DEF CronInv, Accounted
      <3>4. stable'[k] \subseteq firable BY <3>1 DEF CronInv, Accounted
      <3>5. QED BY <1>t, <3>1, <3>2, <3>3, <3>4, RecGoesOn
    <2>3. QED BY <2>1, <2>2
  <1>4. ASSUME NEW k \in Reconciles, QueryFails(k) PROVE CronInv'
    <2>1. /\ recs' = [recs EXCEPT ![k] = NoRec]
          /\ UNCHANGED <<firable, tasks, process, stable, answering>>
      BY <1>4 DEF QueryFails
    <2>2. QED BY <1>t, <2>1, NoRecIdle, RecGoesOn DEF CronInv, Accounted
  <1>5. CASE Shutdown
    BY <1>5 DEF Shutdown, CronInv, TypeOK, Accounted
  <1>6. CASE Restart
    <2>1. recs' = [k \in Reconciles |-> NoRec] BY <1>6 DEF Restart
    <2>2. /\ recs' \in [Reconciles -> RecType]
          /\ \A k \in Reconciles : recs'[k].pc = "idle"
      BY <2>1, NoRecIdle
    <2>3. TypeOK' BY <1>6, <2>2 DEF Restart, CronInv, TypeOK, RecType
    <2>4. QED BY <1>6, <2>2, <2>3 DEF Restart, CronInv, Accounted
  <1>7. CASE Recover
    BY <1>7 DEF Recover, CronInv, TypeOK, Accounted
  <1>8. ASSUME NEW i \in Crons, Deploy(i) PROVE CronInv'
    <2>1. /\ firable' \subseteq Crons
          /\ stable' = [k \in Reconciles |-> stable[k] \cap firable']
          /\ UNCHANGED <<tasks, recs, process, answering>>
      BY <1>t, <1>8 DEF Deploy
    <2>2. TypeOK' BY <1>t, <2>1 DEF CronInv, TypeOK
    <2>3. \A k \in Reconciles : stable'[k] = stable[k] \cap firable' BY <2>1
    <2>4. \A k \in Reconciles : Accounted(k)' BY <2>1, <2>3 DEF CronInv, Accounted
    <2>5. QED BY <2>2, <2>4 DEF CronInv
  <1>9. CASE UNCHANGED vars
    BY <1>9 DEF vars, CronInv, TypeOK, Accounted
  <1>10. QED
    BY <1>1, <1>2, <1>3, <1>4, <1>5, <1>6, <1>7, <1>8, <1>9 DEF Next

LEMMA CronInvariant == Spec => []CronInv
  BY CronInit, CronNext, PTL DEF Spec

(* The types, for any number of overlapping reconciles.                    *)
THEOREM CronTypes == Spec => []TypeOK
  <1>1. CronInv => TypeOK BY DEF CronInv
  <1>2. QED BY <1>1, CronInvariant, PTL

(* No reconcile, however slow, overlapped or broken off, deregisters what  *)
(* was firable from its beginning to its end: the argument is Accounted.   *)
THEOREM SchedulesAreKept == Spec => KeepsWhatIsFirable
  <1> DEFINE Keeps ==
        process' = process =>
            \A k \in Reconciles : recs'[k] # recs[k] =>
                \A i \in tasks \ tasks' : i \notin stable[k]
  <1>1. ASSUME CronInv, [Next]_vars
        PROVE  Keeps
    <2> SUFFICES ASSUME process' = process, NEW k \in Reconciles, recs'[k] # recs[k],
                        NEW i \in tasks \ tasks'
                 PROVE  i \notin stable[k]
      OBVIOUS
    <2>t. recs \in [Reconciles -> RecType] BY <1>1 DEF CronInv, TypeOK, RecType
    <2>1. tasks' # tasks OBVIOUS
    <2>2. ~Shutdown /\ ~Restart BY DEF Shutdown, Restart
    <2>3. PICK l \in Reconciles : Resume(l)
      BY <1>1, <2>1, <2>2 DEF Next, vars, StartReconcile, QueryFails, Query, Recover, Deploy
    <2>4. l = k
      <3>1. PICK r : recs' = [recs EXCEPT ![l] = r] BY <2>3, ResumeIs
      <3>2. QED BY <2>t, <3>1
    <2>5. /\ recs[k].pc = "answer" /\ recs[k].todo = {}
          /\ tasks' = (tasks \cup (recs[k].found \cap Valid))
                            \cap (recs[k].wanted \cup recs[k].found)
      BY <2>3, <2>4, ResumeIs
    <2>6. i \notin recs[k].wanted \cup recs[k].found BY <2>5
    <2>7. QED BY <1>1, <2>5, <2>6 DEF CronInv, Accounted
  <1>2. QED BY <1>1, CronInvariant, PTL DEF Spec, KeepsWhatIsFirable
=============================================================================
