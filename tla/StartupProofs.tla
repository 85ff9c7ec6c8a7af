---------------------------- MODULE StartupProofs ----------------------------
(***************************************************************************)
(* Any number of processes that start on one database and use its secrets: *)
(* what an answer, a ready platform and tenant.created mean.               *)
(***************************************************************************)
EXTENDS Startup, FiniteSetTheorems, SequenceTheorems, TLAPS

CallType  == [pc : {"idle", "recording", "returned", "threw"},
              event : {"found", "missing", "written"}]
StartType == [pc : Steps, now : Nat \ {0}, created : BOOLEAN, name : Nat]

StartTyped ==
    /\ secrets \in [Names -> Values \cup {"none"}]
    /\ chain \in [{Tenant} -> Seq(Events)]
    /\ calls \in [Callers -> CallType]
    /\ tenant \in Nat
    /\ admin \in BOOLEAN
    /\ starts \in [Starts -> StartType]

(* A name has its value, or somebody has deleted it.                       *)
Sown(n) == n \in Names => secrets[n] # "none" \/ n \in deleted

Under(s) == calls[s].pc \in {"recording", "returned"}

Past == {"get", "set", "ready", "down"}

(* What a start knows at its step: the tenant, the admin, whether the      *)
(* tenant is its own, and the names it is done with.                       *)
StartOK(s) ==
    LET x == starts[s] IN
    /\ x.pc \in {"reread", "admin", "insertAdmin", "audit", "get", "set", "ready"} => tenant # 0
    /\ x.pc \in {"audit", "get", "set", "ready"} => admin
    /\ x.created => x.pc \notin {"off", "tenant", "insert", "reread"}
    /\ x.created /\ x.pc \in {"admin", "insertAdmin", "audit"} => x.now = tenant
    /\ x.pc \notin Past => x.name = 1
    /\ x.pc \notin {"get", "set"} => calls[s] = Idle
    /\ x.pc = "get" /\ Under(s) /\ calls[s].event = "found" => Sown(x.name)
    /\ x.pc = "set" /\ Under(s) => Sown(x.name)
    /\ x.pc \in {"get", "set"} => \A n \in Names : n < x.name => Sown(n)
    /\ x.pc = "ready" => \A n \in Names : Sown(n)

(* The starts that may have recorded tenant.created.                       *)
Tellers == {s \in Starts : starts[s].pc \in Past /\ starts[s].now = tenant}
ToldIn(log) == {i \in DOMAIN log : log[i] = "tenant.created"}
FewTold == IsFiniteSet(ToldIn(chain[Tenant]))
           /\ Cardinality(ToldIn(chain[Tenant])) <= Cardinality(Tellers)

StartInv == StartTyped /\ FewTold /\ \A s \in Starts : StartOK(s)
-----------------------------------------------------------------------------
LEMMA IdleIs ==
    /\ Idle \in CallType /\ Idle.pc = "idle" /\ Idle.event = "missing"
    /\ Threw \in CallType /\ Threw.pc = "threw" /\ Threw.event = "missing"
  BY DEF Idle, Threw, CallType

LEMMA StartsAreCallers == Starts \subseteq Callers /\ Users \subseteq Callers /\ Starts \cap Users = {}
  BY StartupAssumption DEF Starts

LEMMA TellersFinite ==
  ASSUME NEW S \in SUBSET Starts
  PROVE  IsFiniteSet(S) /\ Cardinality(S) \in Nat
  <1>1. IsFiniteSet(Starts)
    <2>1. MaxStarts \in Int /\ 1 \in Int BY StartupAssumption
    <2>2. QED BY <2>1, FS_Interval DEF Starts
  <1>2. IsFiniteSet(S) BY <1>1, FS_Subset
  <1>3. QED BY <1>2, FS_CardinalityType

(* An event is appended: the positions of tenant.created.                  *)
LEMMA ToldGrows ==
  ASSUME NEW log \in Seq(Events), NEW e \in Events, IsFiniteSet(ToldIn(log))
  PROVE  /\ IsFiniteSet(ToldIn(Append(log, e)))
         /\ Cardinality(ToldIn(Append(log, e)))
                <= Cardinality(ToldIn(log)) + (IF e = "tenant.created" THEN 1 ELSE 0)
  <1> DEFINE n == Len(log) + 1
  <1>1. /\ DOMAIN Append(log, e) = DOMAIN log \cup {n} /\ n \notin DOMAIN log
        /\ \A i \in DOMAIN log : Append(log, e)[i] = log[i]
        /\ Append(log, e)[n] = e
    <2>1. DOMAIN log = 1 .. Len(log) /\ Len(log) \in Nat OBVIOUS
    <2>2. Append(log, e) \in Seq(Events) /\ Len(Append(log, e)) = n
      BY AppendProperties
    <2>3. DOMAIN Append(log, e) = 1 .. n BY <2>2
    <2>4. 1 .. n = (1 .. Len(log)) \cup {n} /\ n \notin 1 .. Len(log) BY <2>1
    <2>5. /\ \A i \in 1 .. Len(log) : Append(log, e)[i] = log[i]
          /\ Append(log, e)[Len(log) + 1] = e
      BY AppendProperties
    <2> HIDE DEF n
    <2>6. DOMAIN Append(log, e) = DOMAIN log \cup {n} /\ n \notin DOMAIN log
      BY Zenon, <2>1, <2>3, <2>4
    <2>7. \A i \in DOMAIN log : Append(log, e)[i] = log[i] BY Zenon, <2>1, <2>5
    <2>8. Append(log, e)[n] = e BY Zenon, <2>5 DEF n
    <2>9. QED BY Zenon, <2>6, <2>7, <2>8
  <1> HIDE DEF n
  <1>2. CASE e = "tenant.created"
    <2>1. ToldIn(Append(log, e)) = ToldIn(log) \cup {n} BY <1>1, <1>2 DEF ToldIn
    <2>2. n \notin ToldIn(log) BY <1>1 DEF ToldIn
    <2>3. Cardinality(ToldIn(log)) \in Nat BY FS_CardinalityType
    <2>4. /\ IsFiniteSet(ToldIn(log) \cup {n})
          /\ Cardinality(ToldIn(log) \cup {n}) = Cardinality(ToldIn(log)) + 1
      <3> DEFINE S == ToldIn(log)
      <3>1. IsFiniteSet(S) /\ n \notin S BY <2>2
      <3> HIDE DEF S
      <3>2. /\ IsFiniteSet(S \cup {n})
            /\ Cardinality(S \cup {n}) = IF n \in S THEN Cardinality(S) ELSE Cardinality(S) + 1
        BY <3>1, FS_AddElement, Zenon
      <3>3. QED BY <3>1, <3>2 DEF S
    <2>5. /\ IsFiniteSet(ToldIn(Append(log, e)))
          /\ Cardinality(ToldIn(Append(log, e))) = Cardinality(ToldIn(log)) + 1
      BY Zenon, <2>1, <2>4
    <2> DEFINE a == Cardinality(ToldIn(log))
               b == Cardinality(ToldIn(Append(log, e)))
    <2>6. a \in Nat /\ b = a + 1 BY <2>3, <2>5
    <2> HIDE DEF a, b
    <2>7. b <= a + (IF e = "tenant.created" THEN 1 ELSE 0) BY <1>2, <2>6
    <2>8. QED BY Zenon, <2>5, <2>7 DEF a, b
  <1>3. CASE e # "tenant.created"
    <2>1. ToldIn(Append(log, e)) = ToldIn(log) BY <1>1, <1>3 DEF ToldIn
    <2>2. Cardinality(ToldIn(log)) \in Nat BY FS_CardinalityType
    <2>3. QED BY <1>3, <2>1, <2>2
  <1>4. QED BY <1>2, <1>3

(* No start leaves the tellers: the tenant keeps its created_at.           *)
LEMMA TellersStay ==
  ASSUME StartTyped, tenant # 0 => tenant' = tenant,
         \A s \in Starts : starts[s].pc \in Past =>
            starts'[s].pc \in Past /\ starts'[s].now = starts[s].now
  PROVE  Tellers \subseteq Tellers' /\ Cardinality(Tellers) <= Cardinality(Tellers')
  <1>1. Tellers \subseteq Tellers'
    <2> SUFFICES ASSUME NEW s \in Tellers PROVE s \in Tellers' OBVIOUS
    <2>1. s \in Starts /\ starts[s].pc \in Past /\ starts[s].now = tenant BY DEF Tellers
    <2>2. starts[s].now # 0 BY <2>1 DEF StartTyped, StartType
    <2>3. tenant' = tenant BY <2>1, <2>2
    <2>4. QED BY <2>1, <2>3 DEF Tellers
  <1>2. Tellers' \in SUBSET Starts BY DEF Tellers
  <1>3. IsFiniteSet(Tellers') BY <1>2, TellersFinite
  <1>4. QED BY <1>1, <1>3, FS_Subset

(* A step that records nothing about the tenant keeps the count.           *)
LEMMA FewToldStays ==
  ASSUME StartTyped, FewTold,
         UNCHANGED chain \/ \E e \in {"found", "missing", "written"} : Audit!Record(Tenant, e),
         tenant # 0 => tenant' = tenant,
         \A s \in Starts : starts[s].pc \in Past =>
            starts'[s].pc \in Past /\ starts'[s].now = starts[s].now
  PROVE  FewTold' /\ chain' \in [{Tenant} -> Seq(Events)]
  <1>1. Cardinality(Tellers) <= Cardinality(Tellers') BY TellersStay
  <1>2. Cardinality(Tellers) \in Nat /\ Cardinality(Tellers') \in Nat
    <2>1. Tellers \in SUBSET Starts /\ Tellers' \in SUBSET Starts BY DEF Tellers
    <2>2. QED BY <2>1, TellersFinite
  <1>3. Cardinality(ToldIn(chain[Tenant])) \in Nat BY FS_CardinalityType DEF FewTold
  <1>4. CASE UNCHANGED chain
    BY <1>1, <1>2, <1>3, <1>4 DEF FewTold, StartTyped
  <1>5. ASSUME NEW e \in {"found", "missing", "written"}, Audit!Record(Tenant, e)
        PROVE  FewTold' /\ chain' \in [{Tenant} -> Seq(Events)]
    <2>1. chain[Tenant] \in Seq(Events) /\ e \in Events BY DEF StartTyped, Events
    <2>2. /\ chain'[Tenant] = Append(chain[Tenant], e)
          /\ chain' \in [{Tenant} -> Seq(Events)]
      <3>1. Append(chain[Tenant], e) \in Seq(Events) BY <2>1, AppendProperties
      <3>2. QED BY <1>5, <3>1 DEF StartTyped, Audit!Record
    <2>3. /\ IsFiniteSet(ToldIn(chain'[Tenant]))
          /\ Cardinality(ToldIn(chain'[Tenant])) <= Cardinality(ToldIn(chain[Tenant]))
      BY <1>3, <2>1, <2>2, ToldGrows DEF FewTold
    <2>4. Cardinality(ToldIn(chain'[Tenant])) \in Nat BY <2>3, FS_CardinalityType
    <2>5. QED BY <1>1, <1>2, <1>3, <2>2, <2>3, <2>4 DEF FewTold
  <1>6. QED BY <1>4, <1>5

(* A start nobody touches keeps what it knows.                             *)
LEMMA OthersKeep ==
  ASSUME NEW d \in Starts, StartOK(d), starts'[d] = starts[d], calls'[d] = calls[d],
         tenant # 0 => tenant' = tenant, admin => admin',
         \A n : Sown(n) => Sown(n)'
  PROVE  StartOK(d)'
  <1>1. Under(d)' = Under(d) BY DEF Under
  <1>2. QED BY <1>1 DEF StartOK

(* The secrets of everybody else: who calls, what a name has.              *)
LEMMA StatementsSow ==
  ASSUME StartTyped, NEW p \in Callers, NEW n \in Nat,
         \/ getSecret(p, n)
         \/ \E v \in Values : setSecret(p, n, v)
         \/ deleteSecret(p, n)
  PROVE  /\ secrets' \in [Names -> Values \cup {"none"}] /\ UNCHANGED chain
         /\ calls' \in [Callers -> CallType] /\ calls'[p].pc = "recording"
         /\ \A q \in Callers : q # p => calls'[q] = calls[q]
         /\ \A m : Sown(m) => Sown(m)'
  <1>1. PICK e \in {"found", "missing", "written"} : Call(p, e)
    BY DEF getSecret, setSecret, deleteSecret
  <1>2. /\ UNCHANGED chain /\ calls' \in [Callers -> CallType] /\ calls'[p].pc = "recording"
        /\ \A q \in Callers : q # p => calls'[q] = calls[q]
    <2> DEFINE c == [pc |-> "recording", event |-> e]
    <2>1. c \in CallType /\ c.pc = "recording" BY DEF CallType
    <2>2. calls' = [calls EXCEPT ![p] = c] /\ UNCHANGED chain BY <1>1 DEF Call
    <2> HIDE DEF c
    <2>3. QED BY <2>1, <2>2 DEF StartTyped
  <1>3. CASE getSecret(p, n)
    <2>1. UNCHANGED <<secrets, deleted>> BY <1>3 DEF getSecret
    <2>2. QED BY <1>2, <2>1 DEF StartTyped, Sown
  <1>4. ASSUME NEW v \in Values, setSecret(p, n, v)
        PROVE  /\ secrets' \in [Names -> Values \cup {"none"}]
               /\ \A m : Sown(m) => Sown(m)'
    <2>1. v # "none" BY DEF Values
    <2>2. secrets' = [secrets EXCEPT ![n] = v] /\ UNCHANGED deleted BY <1>4 DEF setSecret
    <2>3. QED BY <2>1, <2>2 DEF StartTyped, Sown
  <1>5. CASE deleteSecret(p, n)
    <2>1. secrets' = [secrets EXCEPT ![n] = "none"] /\ deleted' = deleted \cup {n}
      BY <1>5 DEF deleteSecret
    <2>2. QED BY <1>2, <2>1 DEF StartTyped, Sown
  <1>6. QED BY <1>2, <1>3, <1>4, <1>5

(* One start goes on; what all others see does not change, or only grows.  *)
LEMMA StartMoves ==
  ASSUME StartInv, NEW s \in Starts, NEW x \in StartType,
         starts' = [starts EXCEPT ![s] = x],
         calls' \in [Callers -> CallType], \A q \in Callers : q # s => calls'[q] = calls[q],
         UNCHANGED <<secrets, deleted>>, FewTold', chain' \in [{Tenant} -> Seq(Events)],
         tenant' \in Nat, tenant # 0 => tenant' = tenant,
         admin' \in BOOLEAN, admin => admin',
         StartOK(s)'
  PROVE  StartInv'
  <1>1. StartTyped' BY DEF StartInv, StartTyped
  <1>2. ASSUME NEW d \in Starts, d # s PROVE StartOK(d)'
    <2>1. starts'[d] = starts[d] /\ calls'[d] = calls[d]
      BY <1>2, StartsAreCallers DEF StartInv, StartTyped
    <2>2. \A n : Sown(n) => Sown(n)' BY DEF Sown
    <2>3. QED BY <2>1, <2>2, OthersKeep DEF StartInv
  <1>3. QED BY <1>1, <1>2 DEF StartInv

(* The same, if it records nothing about the tenant.                       *)
LEMMA QuietlyMoves ==
  ASSUME StartInv, NEW s \in Starts, NEW x \in StartType,
         starts' = [starts EXCEPT ![s] = x],
         starts[s].pc \in Past => x.pc \in Past /\ x.now = starts[s].now,
         calls' \in [Callers -> CallType], \A q \in Callers : q # s => calls'[q] = calls[q],
         UNCHANGED <<secrets, deleted, chain>>,
         tenant' \in Nat, tenant # 0 => tenant' = tenant,
         admin' \in BOOLEAN, admin => admin',
         StartOK(s)'
  PROVE  StartInv'
  <1>1. \A d \in Starts : starts[d].pc \in Past =>
            starts'[d].pc \in Past /\ starts'[d].now = starts[d].now
    BY DEF StartInv, StartTyped
  <1>2. FewTold' /\ chain' \in [{Tenant} -> Seq(Events)]
    BY <1>1, FewToldStays DEF StartInv
  <1>3. QED BY <1>2, StartMoves

LEMMA StartupInit == Init => StartInv
  <1> SUFFICES ASSUME Init PROVE StartInv OBVIOUS
  <1>1. Off \in StartType /\ Off.pc = "off" /\ Off.created = FALSE
    BY DEF Off, StartType, Steps
  <1>2. StartTyped
    <2>1. <<>> \in Seq(Events) OBVIOUS
    <2>2. chain \in [{Tenant} -> Seq(Events)] BY <2>1 DEF Init, SecretsInit, Audit!Init
    <2>3. /\ secrets \in [Names -> Values \cup {"none"}] /\ calls \in [Callers -> CallType]
          /\ tenant \in Nat /\ admin \in BOOLEAN
      BY IdleIs DEF Init, SecretsInit
    <2>4. starts \in [Starts -> StartType] BY <1>1 DEF Init
    <2>5. QED BY <2>2, <2>3, <2>4 DEF StartTyped
  <1>3. \A s \in Starts : StartOK(s)
    <2>1. Off.name = 1 BY DEF Off
    <2>2. QED BY <1>1, <2>1, StartsAreCallers DEF Init, SecretsInit, StartOK
  <1>4. FewTold
    <2>1. ToldIn(chain[Tenant]) = {} BY DEF Init, SecretsInit, Audit!Init, ToldIn
    <2>2. Tellers \in SUBSET Starts BY DEF Tellers
    <2>3. Cardinality(Tellers) \in Nat BY <2>2, TellersFinite
    <2>4. QED BY <2>1, <2>3, FS_EmptySet DEF FewTold
  <1>5. QED BY <1>2, <1>3, <1>4 DEF StartInv

LEMMA StepIs ==
  ASSUME NEW st \in StartType, NEW to \in Steps, NEW x, x = [st EXCEPT !.pc = to]
  PROVE  /\ x \in StartType /\ x.pc = to /\ x.now = st.now
         /\ x.created = st.created /\ x.name = st.name
  BY DEF StartType

LEMMA StartupNext ==
  ASSUME StartInv, [Next]_startupVars
  PROVE  StartInv'
  <1>t. /\ StartTyped /\ calls \in [Callers -> CallType] /\ tenant \in Nat /\ admin \in BOOLEAN
        /\ starts \in [Starts -> StartType] /\ chain \in [{Tenant} -> Seq(Events)]
    BY DEF StartInv, StartTyped
  <1>i. ASSUME NEW s \in Starts PROVE StartOK(s) /\ starts[s] \in StartType /\ s \in Callers
    BY <1>t, StartsAreCallers DEF StartInv
  (* A step of seedDemoTenant. *)
  <1>p. ASSUME NEW s \in Starts, NEW x \in StartType, starts' = [starts EXCEPT ![s] = x],
               UNCHANGED secretsVars, starts[s].pc \notin Past, starts[s].pc # "off" \/ x.pc = "tenant",
               tenant' \in Nat, tenant # 0 => tenant' = tenant,
               admin' \in BOOLEAN, admin => admin',
               x.pc \in {"reread", "admin", "insertAdmin", "audit", "get"} => tenant' # 0,
               x.pc \in {"audit", "get"} => admin',
               x.pc \in {"tenant", "insert", "reread", "admin", "insertAdmin", "audit", "get"},
               x.created => x.pc \notin {"tenant", "insert", "reread"},
               x.created /\ x.pc \in {"admin", "insertAdmin", "audit"} => x.now = tenant',
               x.name = 1
        PROVE  StartInv'
    <2>1. starts'[s] = x BY <1>t, <1>p
    <2>2. calls[s] = Idle BY <1>i, <1>p DEF StartOK, Past
    <2>3. UNCHANGED <<secrets, chain, calls, deleted>> BY <1>p DEF secretsVars
    <2>4. \A n \in Names : ~(n < 1) BY SecretsAssumption DEF Names
    <2>5. StartOK(s)'
      BY <1>p, <2>1, <2>2, <2>3, <2>4, IdleIs DEF StartOK, Under
    <2>6. QED BY <1>p, <1>t, <2>3, <2>5, QuietlyMoves
  <1>1. ASSUME NEW s \in Starts, Begin(s) PROVE StartInv'
    <2>1. PICK now \in 1 .. MaxTime :
            starts' = [starts EXCEPT ![s] = [Off EXCEPT !.pc = "tenant", !.now = now]]
      BY Zenon, <1>1 DEF Begin
    <2> DEFINE x == [Off EXCEPT !.pc = "tenant", !.now = now]
    <2>2. now \in Nat \ {0} BY StartupAssumption
    <2>3. x \in StartType /\ x.pc = "tenant" /\ x.created = FALSE /\ x.name = 1
      BY <2>2 DEF Off, StartType, Steps
    <2>4. starts' = [starts EXCEPT ![s] = x] BY <2>1
    <2> HIDE DEF x
    <2>5. starts[s].pc \notin Past /\ UNCHANGED <<secretsVars, tenant, admin>>
      BY <1>1 DEF Begin, Past
    <2>6. QED BY <1>p, <1>t, <2>3, <2>4, <2>5
  <1>2. ASSUME NEW s \in Starts, LookForTenant(s) PROVE StartInv'
    <2> DEFINE to == IF tenant = 0 THEN "insert" ELSE "admin"
               x  == [starts[s] EXCEPT !.pc = to]
    <2>1. /\ starts[s].pc = "tenant" /\ starts' = [starts EXCEPT ![s] = x]
          /\ UNCHANGED <<secretsVars, tenant, admin>>
      BY <1>2 DEF LookForTenant, GoTo
    <2>2. to \in {"insert", "admin"} /\ to \in Steps /\ (to = "admin" => tenant # 0)
      BY DEF Steps
    <2> HIDE DEF to
    <2>3. /\ x \in StartType /\ x.pc = to /\ x.created = FALSE /\ x.name = 1
      <3>1. /\ x \in StartType /\ x.pc = to /\ x.created = starts[s].created
            /\ x.name = starts[s].name
        BY <1>i, <2>2, StepIs
      <3>2. ~starts[s].created /\ starts[s].name = 1 BY <1>i, <2>1 DEF StartOK, Past
      <3>3. starts[s].created \in BOOLEAN BY <1>i DEF StartType
      <3> HIDE DEF x
      <3>4. QED BY <3>1, <3>2, <3>3
    <2>4. starts[s].pc \notin Past BY <2>1 DEF Past
    <2> HIDE DEF x
    <2>5. QED BY <1>p, <1>t, <2>1, <2>2, <2>3, <2>4
  <1>3. ASSUME NEW s \in Starts, InsertTenant(s) PROVE StartInv'
    <2> DEFINE x == [starts[s] EXCEPT !.pc = "reread"]
    <2>1. /\ starts[s].pc = "insert" /\ starts' = [starts EXCEPT ![s] = x]
          /\ tenant' = IF tenant = 0 THEN starts[s].now ELSE tenant
          /\ UNCHANGED <<secretsVars, admin>>
      BY <1>3 DEF InsertTenant, GoTo
    <2>2. x \in StartType /\ x.pc = "reread" /\ x.created = FALSE /\ x.name = 1
      <3>1. "reread" \in Steps BY DEF Steps
      <3>2. /\ x \in StartType /\ x.pc = "reread" /\ x.created = starts[s].created
            /\ x.name = starts[s].name
        BY <1>i, <3>1, StepIs
      <3>3. ~starts[s].created /\ starts[s].name = 1 BY <1>i, <2>1 DEF StartOK, Past
      <3>4. starts[s].created \in BOOLEAN BY <1>i DEF StartType
      <3> HIDE DEF x
      <3>5. QED BY <3>2, <3>3, <3>4
    <2>3. tenant' \in Nat /\ tenant' # 0 BY <1>i, <1>t, <2>1 DEF StartType
    <2>4. starts[s].pc \notin Past BY <2>1 DEF Past
    <2> HIDE DEF x
    <2>5. QED BY <1>p, <1>t, <2>1, <2>2, <2>3, <2>4
  <1>4. ASSUME NEW s \in Starts, Reread(s) PROVE StartInv'
    <2> DEFINE own == (tenant = starts[s].now)
               x   == [starts[s] EXCEPT !.pc = "admin", !.created = own]
    <2>1. /\ starts[s].pc = "reread" /\ starts' = [starts EXCEPT ![s] = x]
          /\ UNCHANGED <<secretsVars, tenant, admin>>
      BY <1>4 DEF Reread
    <2>2. own \in BOOLEAN OBVIOUS
    <2>3. tenant # 0 /\ starts[s].name = 1 BY <1>i, <2>1 DEF StartOK, Past
    <2> HIDE DEF own
    <2>4. /\ x \in StartType /\ x.pc = "admin" /\ x.created = own /\ x.name = 1
          /\ x.now = starts[s].now
      BY <1>i, <2>2, <2>3 DEF StartType, Steps
    <2>5. own => x.now = tenant BY <2>4 DEF own
    <2>6. starts[s].pc \notin Past BY <2>1 DEF Past
    <2> HIDE DEF x
    <2>7. QED BY <1>p, <1>t, <2>1, <2>3, <2>4, <2>5, <2>6
  <1>5. ASSUME NEW s \in Starts, SeedAdmin(s) PROVE StartInv'
    <2>1. PICK to \in {"audit", "insertAdmin"} :
            /\ starts' = [starts EXCEPT ![s] = [starts[s] EXCEPT !.pc = to]]
            /\ UNCHANGED <<secretsVars, tenant>> /\ starts[s].pc \in {"admin", "insertAdmin"}
            /\ admin' \in BOOLEAN /\ (admin => admin') /\ (to = "audit" => admin')
      BY <1>5, <1>t DEF SeedAdmin, GoTo
    <2> DEFINE x == [starts[s] EXCEPT !.pc = to]
    <2>2. /\ tenant # 0 /\ starts[s].name = 1 /\ starts[s].pc \notin Past
          /\ starts[s].created => starts[s].now = tenant
      BY <1>i, <2>1 DEF StartOK, Past
    <2>3. /\ x \in StartType /\ x.pc = to /\ x.created = starts[s].created
          /\ x.name = starts[s].name /\ x.now = starts[s].now
      <3>1. to \in Steps BY DEF Steps
      <3>2. QED BY <1>i, <3>1, StepIs
    <2>4. starts' = [starts EXCEPT ![s] = x] BY <2>1
    <2> HIDE DEF x
    <2>5. /\ UNCHANGED secretsVars /\ tenant' = tenant /\ tenant' \in Nat
          /\ x.pc \in {"audit", "insertAdmin"} /\ x.name = 1
          /\ x.created => x.now = tenant'
          /\ starts[s].pc # "off"
      BY <1>t, <2>1, <2>2, <2>3
    <2>6. QED BY <1>p, <2>1, <2>2, <2>3, <2>4, <2>5
  (* tenant.created is recorded by a start whose tenant it is. *)
  <1>6. ASSUME NEW s \in Starts, AuditTenant(s) PROVE StartInv'
    <2>0. /\ starts[s].pc = "audit" /\ UNCHANGED <<secrets, calls, deleted, tenant, admin>>
          /\ tenant # 0 /\ starts[s].name = 1 /\ starts[s].pc \notin Past /\ admin
          /\ calls[s] = Idle /\ (starts[s].created => starts[s].now = tenant)
      BY <1>6, <1>i DEF AuditTenant, StartOK, Past
    <2>1. CASE UNCHANGED chain /\ GoTo(s, "get")
      <3> DEFINE x == [starts[s] EXCEPT !.pc = "get"]
      <3>0. "get" \in Steps BY DEF Steps
      <3>a. x \in StartType /\ x.pc = "get" /\ x.name = starts[s].name BY <1>i, <3>0, StepIs
      <3>2. starts' = [starts EXCEPT ![s] = x] /\ UNCHANGED secretsVars
        BY <2>0, <2>1 DEF GoTo, secretsVars
      <3> HIDE DEF x
      <3>3. x.name = 1 /\ starts[s].pc # "off" BY <2>0, <3>a
      <3>4. QED BY <1>p, <1>t, <2>0, <3>a, <3>2, <3>3
    <2>2. ASSUME starts[s].created, Audit!Record(Tenant, "tenant.created"),
                 NEW to \in {"get", "down"}, GoTo(s, to)
          PROVE  StartInv'
      <3> DEFINE x == [starts[s] EXCEPT !.pc = to]
      <3>0. to \in Steps BY DEF Steps
      <3>a. /\ x \in StartType /\ x.pc = to /\ x.now = starts[s].now
            /\ x.created = starts[s].created /\ x.name = starts[s].name
        BY <1>i, <3>0, StepIs
      <3>1. /\ x \in StartType /\ x.pc = to /\ x.created /\ x.name = 1 /\ x.now = tenant
        BY <2>0, <2>2, <3>a
      <3>2. starts' = [starts EXCEPT ![s] = x] BY <2>2 DEF GoTo
      <3> HIDE DEF x
      <3>3. starts'[s] = x /\ \A d \in Starts : d # s => starts'[d] = starts[d]
        BY <1>t, <3>2
      <3>4. chain' \in [{Tenant} -> Seq(Events)]
            /\ chain'[Tenant] = Append(chain[Tenant], "tenant.created")
        <4>1. chain[Tenant] \in Seq(Events) /\ "tenant.created" \in Events BY <1>t DEF Events
        <4>2. Append(chain[Tenant], "tenant.created") \in Seq(Events) BY <4>1, AppendProperties
        <4>3. QED BY <1>t, <2>2, <4>2 DEF Audit!Record
      <3>5. Tellers' = Tellers \cup {s} /\ s \notin Tellers
        BY <2>0, <3>1, <3>3 DEF Tellers, Past
      <3>6. /\ IsFiniteSet(Tellers) /\ Cardinality(Tellers) \in Nat
            /\ Cardinality(Tellers') = Cardinality(Tellers) + 1
        <4>1. Tellers \in SUBSET Starts BY DEF Tellers
        <4>2. IsFiniteSet(Tellers) /\ Cardinality(Tellers) \in Nat BY <4>1, TellersFinite
        <4>3. Cardinality(Tellers \cup {s}) =
                IF s \in Tellers THEN Cardinality(Tellers) ELSE Cardinality(Tellers) + 1
          BY Zenon, <4>2, FS_AddElement
        <4>4. QED BY <3>5, <4>2, <4>3
      <3>7. FewTold'
        <4> DEFINE log == chain[Tenant]
        <4>1. IsFiniteSet(ToldIn(log)) /\ Cardinality(ToldIn(log)) <= Cardinality(Tellers)
              /\ log \in Seq(Events) /\ "tenant.created" \in Events
          BY <1>t DEF StartInv, FewTold, Events
        <4> DEFINE more == ToldIn(Append(log, "tenant.created"))
        <4>2. IsFiniteSet(more) /\ Cardinality(more) <= Cardinality(ToldIn(log)) + 1
          BY <4>1, ToldGrows
        <4>3. Cardinality(more) \in Nat /\ Cardinality(ToldIn(log)) \in Nat
          BY <4>1, <4>2, FS_CardinalityType
        <4>4. Cardinality(more) <= Cardinality(Tellers')
          BY <3>6, <4>1, <4>2, <4>3
        <4>5. ToldIn(chain'[Tenant]) = more BY <3>4
        <4>6. QED BY <4>2, <4>4, <4>5 DEF FewTold
      <3>8. StartOK(s)'
        <4>1. \A n \in Names : ~(n < 1) BY SecretsAssumption DEF Names
        <4>2. QED BY <2>0, <3>1, <3>3, <4>1, IdleIs DEF StartOK, Under, Past
      <3>9. QED BY <1>t, <2>0, <3>1, <3>2, <3>4, <3>7, <3>8, StartMoves
    <2>3. QED BY <1>6, <2>1, <2>2 DEF AuditTenant
  (* seedDemoSecrets makes a call. *)
  <1>7. ASSUME NEW s \in Starts, SeedCall(s) PROVE StartInv'
    <2>n. PICK n \in Nat : n = starts[s].name BY <1>i DEF StartType
    <2>1. /\ calls[s] = Idle /\ UNCHANGED <<starts, tenant, admin>> /\ n \in Nat
          /\ \/ starts[s].pc = "get" /\ getSecret(s, n)
             \/ starts[s].pc = "set" /\ setSecret(s, n, "seed")
      BY <1>7, <2>n DEF SeedCall
    <2>2. "seed" \in Values BY DEF Values
    <2>3. /\ secrets' \in [Names -> Values \cup {"none"}] /\ UNCHANGED chain
          /\ calls' \in [Callers -> CallType] /\ calls'[s].pc = "recording"
          /\ \A q \in Callers : q # s => calls'[q] = calls[q]
          /\ \A m : Sown(m) => Sown(m)'
      BY <1>t, <1>i, <2>1, <2>2, StatementsSow
    <2>4. FewTold' BY <1>t, <2>1, <2>3, FewToldStays DEF StartInv
    <2>5. StartTyped' BY <1>t, <2>1, <2>3 DEF StartTyped
    <2>6. StartOK(s)'
      <3>1. CASE starts[s].pc = "get" /\ getSecret(s, n)
        <4>1. calls' = [calls EXCEPT ![s] = [pc |-> "recording",
                        event |-> IF secrets[n] = "none" THEN "missing" ELSE "found"]]
              /\ UNCHANGED <<secrets, deleted>>
          BY <3>1 DEF getSecret, Call
        <4>2. calls'[s].event = "found" => Sown(n)'
          <5>1. calls'[s].event = IF secrets[n] = "none" THEN "missing" ELSE "found"
            BY <1>t, <1>i, <4>1
          <5>2. QED BY <4>1, <5>1 DEF Sown
        <4>3. QED BY <1>i, <2>1, <2>3, <3>1, <2>n, <4>2 DEF StartOK
      <3>2. CASE starts[s].pc = "set" /\ setSecret(s, n, "seed")
        <4>1. secrets' = [secrets EXCEPT ![n] = "seed"] /\ UNCHANGED deleted
          BY <3>2 DEF setSecret
        <4>2. Sown(n)' BY <1>t, <4>1 DEF StartTyped, Sown
        <4>3. QED BY <1>i, <2>1, <2>3, <3>2, <2>n, <4>2 DEF StartOK
      <3>3. QED BY <2>1, <3>1, <3>2
    <2>7. ASSUME NEW d \in Starts, d # s PROVE StartOK(d)'
      BY <1>i, <2>1, <2>3, <2>7, OthersKeep
    <2>8. QED BY <2>4, <2>5, <2>6, <2>7 DEF StartInv
  (* The call has ended. *)
  <1>8. ASSUME NEW s \in Starts, SeedGoesOn(s) PROVE StartInv'
    <2> DEFINE st == starts[s]
    <2>1. /\ Ended(s) /\ calls' = [calls EXCEPT ![s] = Idle]
          /\ UNCHANGED <<secrets, chain, deleted, tenant, admin>>
      BY <1>8 DEF SeedGoesOn
    <2>2. st.pc \in {"get", "set"} BY <1>i, <2>1, IdleIs DEF StartOK, Ended
    <2>3. /\ calls' \in [Callers -> CallType] /\ calls'[s] = Idle
          /\ \A q \in Callers : q # s => calls'[q] = calls[q]
      BY <1>t, <1>i, <2>1, IdleIs
    <2>4. /\ st \in StartType /\ tenant # 0 /\ admin /\ st.pc \in Past
          /\ \A n \in Names : n < st.name => Sown(n)
      BY <1>i, <2>2 DEF StartOK, Past
    <2>5. \A n : Sown(n) => Sown(n)' BY <2>1 DEF Sown
    <2>6. ASSUME NEW x \in StartType, starts' = [starts EXCEPT ![s] = x],
                 x.pc \in Past, x.now = st.now,
                 x.pc \in {"get", "set"} => \A n \in Names : n < x.name => Sown(n),
                 x.pc = "ready" => \A n \in Names : Sown(n)
          PROVE  StartInv'
      <3>1. starts'[s] = x BY <1>t, <2>6
      <3>2. Idle.pc = "idle" BY IdleIs
      <3>3. StartOK(s)' BY <2>1, <2>3, <2>4, <2>5, <2>6, <3>1, <3>2 DEF StartOK, Under, Past
      <3>4. QED BY <1>t, <2>1, <2>3, <2>6, <3>3, QuietlyMoves
    <2>7. ASSUME Sown(st.name), starts' = [starts EXCEPT ![s] = NextName(st)]
          PROVE  StartInv'
      <3>1. CASE st.name < MaxNames
        <4> DEFINE k == st.name + 1
                   x == [st EXCEPT !.pc = "get", !.name = k]
        <4>0. "get" \in Steps BY DEF Steps
        <4>k. k \in Nat BY <2>4 DEF StartType
        <4>1. x \in StartType /\ x.pc = "get" /\ x.now = st.now /\ x.name = st.name + 1
          <5> HIDE DEF k
          <5>1. x \in StartType /\ x.pc = "get" /\ x.now = st.now /\ x.name = k
            BY <2>4, <4>0, <4>k DEF StartType
          <5>2. QED BY <5>1 DEF k
        <4>2. starts' = [starts EXCEPT ![s] = x] BY <2>7, <3>1 DEF NextName
        <4> HIDE DEF x
        <4>3. \A n \in Names : n < x.name => Sown(n)
          <5> SUFFICES ASSUME NEW n \in Names, n < x.name PROVE Sown(n) OBVIOUS
          <5>1. n \in Nat /\ st.name \in Nat BY <2>4, SecretsAssumption DEF Names, StartType
          <5>2. n < st.name \/ n = st.name BY <4>1, <5>1
          <5>3. QED BY <2>4, <2>7, <5>2
        <4>4. QED BY <2>6, <4>1, <4>2, <4>3 DEF Past
      <3>2. CASE ~(st.name < MaxNames)
        <4> DEFINE x == [st EXCEPT !.pc = "ready"]
        <4>0. "ready" \in Steps BY DEF Steps
        <4>1. x \in StartType /\ x.pc = "ready" /\ x.now = st.now BY <1>i, <4>0, StepIs
        <4>2. starts' = [starts EXCEPT ![s] = x] BY <2>7, <3>2 DEF NextName
        <4> HIDE DEF x
        <4>3. \A n \in Names : Sown(n)
          <5> SUFFICES ASSUME NEW n \in Names PROVE Sown(n) OBVIOUS
          <5>1. n \in Nat /\ st.name \in Nat /\ n <= MaxNames /\ MaxNames \in Nat
            BY <2>4, SecretsAssumption DEF Names, StartType
          <5>2. n < st.name \/ n = st.name BY <3>2, <5>1
          <5>3. QED BY <2>4, <2>7, <5>2
        <4>4. QED BY <2>6, <4>1, <4>2, <4>3 DEF Past
      <3>3. QED BY <3>1, <3>2
    <2>8. ASSUME NEW to \in {"set", "down"}, starts' = [starts EXCEPT ![s] = [st EXCEPT !.pc = to]]
          PROVE  StartInv'
      <3> DEFINE x == [st EXCEPT !.pc = to]
      <3>0. to \in Steps BY DEF Steps
      <3>1. x \in StartType /\ x.pc = to /\ x.now = st.now /\ x.name = st.name
        BY <1>i, <3>0, StepIs
      <3>2. starts' = [starts EXCEPT ![s] = x] BY <2>8
      <3> HIDE DEF x
      <3>3. QED BY <2>4, <2>6, <3>1, <3>2 DEF Past
    <2>9. /\ calls[s].pc = "returned" /\ calls[s].event = "found" /\ st.pc = "get" => Sown(st.name)
          /\ calls[s].pc = "returned" /\ st.pc = "set" => Sown(st.name)
      BY <1>i DEF StartOK, Under
    <2>10. CASE st.pc = "get"
      <3>1. starts' = [starts EXCEPT ![s] =
                IF calls[s].pc = "returned" /\ calls[s].event = "found" THEN NextName(st)
                ELSE [st EXCEPT !.pc = "set"]]
        BY <1>8, <2>10 DEF SeedGoesOn
      <3>2. QED BY <2>7, <2>8, <2>9, <2>10, <3>1
    <2>11. CASE st.pc = "set"
      <3>1. starts' = [starts EXCEPT ![s] =
                IF calls[s].pc = "returned" THEN NextName(st) ELSE [st EXCEPT !.pc = "down"]]
        BY <1>8, <2>11 DEF SeedGoesOn
      <3>2. QED BY <2>7, <2>8, <2>9, <2>11, <3>1
    <2>12. QED BY <2>2, <2>10, <2>11
  <1>9. ASSUME NEW s \in Starts, Crash(s) PROVE StartInv'
    <2> DEFINE x == [Off EXCEPT !.pc = "down", !.now = starts[s].now]
    <2>1. /\ starts' = [starts EXCEPT ![s] = x] /\ calls' = [calls EXCEPT ![s] = Idle]
          /\ UNCHANGED <<secrets, chain, deleted, tenant, admin>>
      BY <1>9 DEF Crash
    <2>2. x \in StartType /\ x.pc = "down" /\ x.created = FALSE /\ x.now = starts[s].now
      BY <1>i DEF StartType, Off, Steps
    <2> HIDE DEF x
    <2>3. /\ calls' \in [Callers -> CallType] /\ calls'[s] = Idle
          /\ \A q \in Callers : q # s => calls'[q] = calls[q]
      BY <1>t, <1>i, <2>1, IdleIs
    <2>4. StartOK(s)'
      <3>1. starts'[s] = x BY <1>t, <2>1
      <3>2. QED BY <2>2, <2>3, <3>1 DEF StartOK, Past
    <2>5. QED BY <1>t, <2>1, <2>2, <2>3, <2>4, QuietlyMoves DEF Past
  (* Another process calls. *)
  <1>10. ASSUME NEW u \in Users, Use(u) PROVE StartInv'
    <2>1. PICK n \in Names : getSecret(u, n) \/ setSecret(u, n, "set") \/ deleteSecret(u, n)
      BY <1>10 DEF Use
    <2>2. u \in Callers /\ u \notin Starts /\ n \in Nat /\ "set" \in Values
      BY StartsAreCallers, SecretsAssumption DEF Names, Values
    <2>3. /\ secrets' \in [Names -> Values \cup {"none"}] /\ UNCHANGED chain
          /\ calls' \in [Callers -> CallType]
          /\ \A q \in Callers : q # u => calls'[q] = calls[q]
          /\ \A m : Sown(m) => Sown(m)'
      BY <1>t, <2>1, <2>2, StatementsSow
    <2>4. UNCHANGED <<tenant, admin, starts>> BY <1>10 DEF Use
    <2>5. FewTold' BY <1>t, <2>3, <2>4, FewToldStays DEF StartInv
    <2>6. ASSUME NEW d \in Starts PROVE StartOK(d)'
      <3>1. calls'[d] = calls[d] BY <1>i, <2>2, <2>3
      <3>2. QED BY <1>i, <2>3, <2>4, <3>1, OthersKeep
    <2>7. QED BY <1>t, <2>3, <2>4, <2>5, <2>6 DEF StartInv, StartTyped
  (* A call goes on. *)
  <1>11. ASSUME NEW p \in Callers, Manager(p) PROVE StartInv'
    <2>1. UNCHANGED <<tenant, admin, starts, secrets, deleted>>
      BY <1>11 DEF Manager, Record, CallFails
    <2>2. /\ \E q \in {"returned", "threw"}, e \in {"found", "missing", "written"} :
                calls' = [calls EXCEPT ![p] = [pc |-> q, event |-> e]] /\
                (q = "returned" => calls[p].pc = "recording" /\ e = calls[p].event)
          /\ UNCHANGED chain \/ \E e \in {"found", "missing", "written"} : Audit!Record(Tenant, e)
          /\ p \in Starts => starts[p].pc \in {"get", "set"}
      <3>0. calls[p] \in CallType BY <1>t
      <3>1. CASE Record(p)
        <4>1. /\ calls[p].pc = "recording" /\ Audit!Record(Tenant, calls[p].event)
              /\ \/ calls' = [calls EXCEPT ![p] = [calls[p] EXCEPT !.pc = "returned"]]
                 \/ calls' = [calls EXCEPT ![p] = Threw]
          BY <3>1 DEF Record
        <4>2. /\ Threw = [pc |-> "threw", event |-> "missing"]
              /\ [calls[p] EXCEPT !.pc = "returned"] = [pc |-> "returned", event |-> calls[p].event]
          BY <3>0 DEF Threw, Idle, CallType
        <4>3. calls[p].event \in {"found", "missing", "written"} BY <3>0 DEF CallType
        <4>4. p \in Starts => starts[p].pc \in {"get", "set"}
          BY <1>i, <4>1, IdleIs DEF StartOK
        <4>5. QED BY <4>1, <4>2, <4>3, <4>4
      <3>2. CASE CallFails(p) /\ (p \in Starts => starts[p].pc \in {"get", "set"})
        <4>1. calls' = [calls EXCEPT ![p] = Threw] /\ UNCHANGED chain
          BY <3>2 DEF CallFails
        <4>2. Threw = [pc |-> "threw", event |-> "missing"] BY DEF Threw, Idle
        <4>3. QED BY <3>2, <4>1, <4>2
      <3>3. QED BY <1>11, <3>1, <3>2 DEF Manager
    <2>3. PICK q \in {"returned", "threw"}, e \in {"found", "missing", "written"} :
            calls' = [calls EXCEPT ![p] = [pc |-> q, event |-> e]] /\
            (q = "returned" => calls[p].pc = "recording" /\ e = calls[p].event)
      BY <2>2
    <2> DEFINE c == [pc |-> q, event |-> e]
    <2>4. c \in CallType /\ c.pc = q /\ c.event = e BY DEF CallType
    <2>5. calls' = [calls EXCEPT ![p] = c] BY <2>3
    <2> HIDE DEF c
    <2>6. /\ calls' \in [Callers -> CallType] /\ calls'[p] = c
          /\ \A d \in Callers : d # p => calls'[d] = calls[d]
      BY <1>t, <2>4, <2>5
    <2>7. FewTold' /\ chain' \in [{Tenant} -> Seq(Events)]
      BY <1>t, <2>1, <2>2, FewToldStays DEF StartInv
    <2>8. ASSUME NEW d \in Starts PROVE StartOK(d)'
      <3>1. \A n : Sown(n) => Sown(n)' BY <2>1 DEF Sown
      <3>2. CASE d = p
        <4>1. starts[d].pc \in {"get", "set"} BY <2>2, <3>2
        <4>2. Under(d)' => Under(d) /\ calls'[d].event = calls[d].event
          BY <2>3, <2>4, <2>6, <3>2 DEF Under
        <4>3. QED BY <1>i, <2>1, <3>1, <4>1, <4>2 DEF StartOK
      <3>3. CASE d # p BY <1>i, <2>1, <2>6, <3>1, <3>3, OthersKeep
      <3>4. QED BY <3>2, <3>3
    <2>9. QED BY <1>t, <2>1, <2>6, <2>7, <2>8 DEF StartInv, StartTyped
  <1>12. CASE UNCHANGED startupVars
    <2>1. UNCHANGED <<secrets, chain, calls, deleted, tenant, admin, starts>>
      BY <1>12 DEF startupVars, secretsVars
    <2>2. QED
      BY <2>1 DEF StartInv, StartTyped, StartOK, Under, Sown, FewTold, ToldIn, Tellers
  <1>13. QED
    BY <1>1, <1>2, <1>3, <1>4, <1>5, <1>6, <1>7, <1>8, <1>9, <1>10, <1>11, <1>12
       DEF Next, Start

LEMMA StartupInvariant == Spec => []StartInv
  BY StartupInit, StartupNext, PTL DEF Spec

(* No more containers record tenant.created than have the created_at of    *)
(* the tenant for their own.                                               *)
THEOREM CreatorsTell == Spec => []TenantIsToldByItsCreators
  <1>1. StartInv => TenantIsToldByItsCreators
    <2> SUFFICES ASSUME StartInv PROVE TenantIsToldByItsCreators OBVIOUS
    <2> DEFINE creators == {s \in Starts : starts[s].pc # "off" /\ starts[s].now = tenant}
    <2>1. Tellers \in SUBSET creators BY DEF Tellers, Past
    <2>2. creators \in SUBSET Starts OBVIOUS
    <2>3. IsFiniteSet(creators) /\ Cardinality(creators) \in Nat
          /\ Cardinality(Tellers) <= Cardinality(creators) /\ Cardinality(Tellers) \in Nat
      <3>1. IsFiniteSet(creators) /\ Cardinality(creators) \in Nat BY <2>2, TellersFinite
      <3>2. Tellers \in SUBSET Starts BY DEF Tellers
      <3>3. Cardinality(Tellers) \in Nat BY <3>2, TellersFinite
      <3> HIDE DEF creators
      <3>4. QED BY <2>1, <3>1, <3>3, FS_Subset
    <2>4. Told("tenant.created") = Cardinality(ToldIn(chain[Tenant])) BY DEF Told, ToldIn
    <2>5. Cardinality(ToldIn(chain[Tenant])) \in Nat BY FS_CardinalityType DEF StartInv, FewTold
    <2>6. Cardinality(ToldIn(chain[Tenant])) <= Cardinality(Tellers) BY DEF StartInv, FewTold
    <2> HIDE DEF creators
    <2>7. Told("tenant.created") <= Cardinality(creators) BY <2>3, <2>4, <2>5, <2>6
    <2>8. QED BY <2>7 DEF TenantIsToldByItsCreators, creators
  <1>2. QED BY <1>1, StartupInvariant, PTL

(* A platform that is ready has its tenant, its admin and its secrets.     *)
THEOREM ReadyMeansSeeded == Spec => []ReadyIsSeeded
  <1>1. StartInv => ReadyIsSeeded BY DEF StartInv, StartOK, ReadyIsSeeded, Sown
  <1>2. QED BY <1>1, StartupInvariant, PTL

(* A call of the secrets manager returns in the step that commits the      *)
(* event that tells of it, whoever else calls, starts or crashes.          *)
THEOREM NoAnswerUntraced == Spec => AnswersAreTraced
  <1> DEFINE Traced == \A p \in Callers : calls'[p].pc = "returned" /\ calls[p].pc # "returned" =>
                            chain'[Tenant] = Append(chain[Tenant], calls'[p].event)
  <1>1. ASSUME StartInv, [Next]_startupVars
        PROVE  Traced \/ UNCHANGED secretsVars
    <2> SUFFICES ASSUME NEW p \in Callers, calls'[p].pc = "returned", calls[p].pc # "returned"
                 PROVE  chain'[Tenant] = Append(chain[Tenant], calls'[p].event)
      OBVIOUS
    <2>t. calls \in [Callers -> CallType] /\ chain \in [{Tenant} -> Seq(Events)]
      BY <1>1 DEF StartInv, StartTyped
    <2>c. ASSUME NEW q, NEW c, calls' = [calls EXCEPT ![q] = c], c.pc # "returned" PROVE FALSE
      BY <2>t, <2>c
    <2>1. ~UNCHANGED calls OBVIOUS
    <2>2. ASSUME NEW q, NEW e, Call(q, e) PROVE FALSE
      <3>1. calls' = [calls EXCEPT ![q] = [pc |-> "recording", event |-> e]] BY <2>2 DEF Call
      <3>2. [pc |-> "recording", event |-> e].pc # "returned" OBVIOUS
      <3>3. QED BY <2>c, <3>1, <3>2
    <2>3. ASSUME NEW q, calls' = [calls EXCEPT ![q] = Idle] \/ calls' = [calls EXCEPT ![q] = Threw]
          PROVE  FALSE
      BY <2>c, <2>3, IdleIs
    <2>4. ASSUME NEW s \in Starts, Start(s) PROVE FALSE
      <3>1. CASE Begin(s) \/ LookForTenant(s) \/ InsertTenant(s) \/ Reread(s)
                 \/ SeedAdmin(s) \/ AuditTenant(s)
        <4>1. UNCHANGED calls
          <5>1. CASE Begin(s) BY <5>1 DEF Begin, secretsVars
          <5>2. CASE LookForTenant(s) BY <5>2 DEF LookForTenant, secretsVars
          <5>3. CASE InsertTenant(s) BY <5>3 DEF InsertTenant, secretsVars
          <5>4. CASE Reread(s) BY <5>4 DEF Reread, secretsVars
          <5>5. CASE SeedAdmin(s) BY <5>5 DEF SeedAdmin, secretsVars
          <5>6. CASE AuditTenant(s) BY <5>6 DEF AuditTenant
          <5>7. QED BY <3>1, <5>1, <5>2, <5>3, <5>4, <5>5, <5>6
        <4>2. QED BY <2>1, <4>1
      <3>2. CASE SeedCall(s)
        <4>1. \E q, e : Call(q, e) BY Zenon, <3>2 DEF SeedCall, getSecret, setSecret
        <4>2. QED BY <2>2, <4>1
      <3>3. CASE SeedGoesOn(s) \/ Crash(s)
        <4>1. calls' = [calls EXCEPT ![s] = Idle] BY <3>3 DEF SeedGoesOn, Crash
        <4>2. QED BY <2>3, <4>1
      <3>4. QED BY <2>4, <3>1, <3>2, <3>3 DEF Start
    <2>5. ASSUME NEW u \in Users, Use(u) PROVE FALSE
      BY <2>2, <2>5 DEF Use, getSecret, setSecret, deleteSecret
    <2>6. PICK q \in Callers : Manager(q)
      BY <1>1, <2>1, <2>4, <2>5 DEF Next, startupVars, secretsVars
    <2>7. /\ Audit!Record(Tenant, calls[q].event)
          /\ calls' = [calls EXCEPT ![q] = [calls[q] EXCEPT !.pc = "returned"]]
      BY <2>3, <2>6 DEF Manager, Record, CallFails
    <2>8. p = q BY <2>t, <2>7
    <2>9. calls'[p].event = calls[q].event BY <2>t, <2>7, <2>8 DEF CallType
    <2>10. QED BY <2>t, <2>7, <2>9 DEF Audit!Record
  <1>2. QED BY <1>1, StartupInvariant, PTL DEF Spec, AnswersAreTraced

LEMMA DeletedAreNames ==
  ASSUME deleted \subseteq Names, [Next]_startupVars
  PROVE  (deleted \subseteq Names)'
  <1>1. ASSUME NEW n \in Names, NEW u, NEW v,
               getSecret(u, n) \/ setSecret(u, n, v) \/ deleteSecret(u, n)
        PROVE  (deleted \subseteq Names)'
    BY <1>1 DEF getSecret, setSecret, deleteSecret
  <1>2. ASSUME NEW s \in Starts, SeedCall(s) PROVE UNCHANGED deleted
    BY <1>2 DEF SeedCall, getSecret, setSecret
  <1>3. ASSUME NEW s \in Starts, Start(s), ~SeedCall(s) PROVE UNCHANGED deleted
    <2>1. CASE Begin(s) \/ LookForTenant(s) \/ InsertTenant(s) \/ Reread(s)
      <3>1. CASE Begin(s) BY <3>1 DEF Begin, secretsVars
      <3>2. CASE LookForTenant(s) BY <3>2 DEF LookForTenant, secretsVars
      <3>3. CASE InsertTenant(s) BY <3>3 DEF InsertTenant, secretsVars
      <3>4. CASE Reread(s) BY <3>4 DEF Reread, secretsVars
      <3>5. QED BY <2>1, <3>1, <3>2, <3>3, <3>4
    <2>2. CASE SeedAdmin(s) BY <2>2 DEF SeedAdmin, secretsVars
    <2>3. CASE AuditTenant(s) BY <2>3 DEF AuditTenant
    <2>4. CASE SeedGoesOn(s) \/ Crash(s) BY <2>4 DEF SeedGoesOn, Crash
    <2>5. QED BY <1>3, <2>1, <2>2, <2>3, <2>4 DEF Start
  <1>4. ASSUME NEW u \in Users, Use(u) PROVE (deleted \subseteq Names)'
    BY <1>1, <1>4 DEF Use
  <1>5. ASSUME NEW p \in Callers, Manager(p) PROVE UNCHANGED deleted
    BY <1>5 DEF Manager, Record, CallFails
  <1>6. CASE UNCHANGED startupVars BY <1>6 DEF startupVars, secretsVars
  <1>7. QED BY <1>2, <1>3, <1>4, <1>5, <1>6 DEF Next

(* Every reachable state of the database and of the processes that start   *)
(* on it has its type.                                                     *)
THEOREM StartupTypes == Spec => []TypeOK
  <1>1. StartInv /\ deleted \subseteq Names => TypeOK
    BY DEF StartInv, StartTyped, CallType, StartType, Events, TypeOK
  <1>2. Init => deleted \subseteq Names BY DEF Init, SecretsInit
  <1>3. QED BY <1>1, <1>2, DeletedAreNames, StartupInit, StartupNext, PTL DEF Spec
=============================================================================
