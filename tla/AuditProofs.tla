----------------------------- MODULE AuditProofs -----------------------------
(***************************************************************************)
(* AuditChain for every set of tenants and writers, every assignment of    *)
(* writers to tenants and every bound: what a committed event continues,   *)
(* where verify may report a break, and that list is an append-only log    *)
(* for the tenants whose records do not overlap.  At the end the same rows *)
(* while some of them are altered (AuditTamper).                           *)
(***************************************************************************)
EXTENDS AuditTamper, FiniteSetTheorems, WellFoundedInduction, TLAPS

(* A row is sound in a log: it has a seq that was handed out, continues an *)
(* event of that log and carries the hash of its fields.                   *)
Sound(r, rows, next) ==
    /\ r.seq \in Nat /\ r.seq < next
    /\ Continues(r, rows)
    /\ r.hash = hashEvent(r.prev, r.tenant, r.body)

(* What a transaction read is the hash of a committed row of its tenant.   *)
ReadOK(t, prev, rows) ==
    \/ prev = Genesis
    \/ \E q \in rows : q.tenant = t /\ q.hash = prev

TxShape(f) ==
    f = [w \in Writers |-> Tx(f[w].pc, f[w].tail, f[w].prev, f[w].pending)]

LogOK(rows, next) ==
    /\ \A r \in rows : Sound(r, rows, next)
    /\ \A r, q \in rows : q.seq = r.seq => q = r

TxOK(w, f, rows, next) ==
    /\ ReadOK(Owner[w], f[w].prev, rows)
    /\ f[w].pc # "inserted" => f[w].pending = {}
    /\ \A r \in f[w].pending :
        /\ Sound(r, rows, next)
        /\ \A q \in rows : q.seq # r.seq
        /\ \A v \in Writers : \A q \in f[v].pending : q.seq = r.seq => q = r /\ v = w

(* The induction behind EveryEventContinues: the same of the rows that are *)
(* not committed yet, whose seq nobody else has.                           *)
ChainInv ==
    /\ nextSeq \in Nat
    /\ TxShape(tx)
    /\ LogOK(log, nextSeq)
    /\ \A w \in Writers : TxOK(w, tx, log, nextSeq)

(* Rows stay sound while the log grows and seq values are handed out.      *)
LEMMA SoundGrows ==
    ASSUME NEW rows, NEW more, rows \subseteq more,
           NEW next \in Nat, NEW later \in Nat, next <= later,
           NEW r, Sound(r, rows, next)
    PROVE  Sound(r, more, later)
  BY SMT DEF Sound, Continues

(* So does what a transaction read.                                        *)
LEMMA ReadGrows ==
    ASSUME NEW rows, NEW more, rows \subseteq more, NEW t, NEW prev,
           ReadOK(t, prev, rows)
    PROVE  ReadOK(t, prev, more)
  BY DEF ReadOK

(* A transaction is replaced by another.                                   *)
LEMMA ShapeKeeps ==
    ASSUME TxShape(tx), NEW w \in Writers, NEW p, NEW s, NEW h, NEW d,
           tx' = [tx EXCEPT ![w] = Tx(p, s, h, d)]
    PROVE  /\ TxShape(tx')
           /\ \A v \in Writers : v # w => tx'[v] = tx[v]
  <1>1. DOMAIN tx = Writers
    BY DEF TxShape
  <1>2. /\ \A v \in Writers : v # w => tx'[v] = tx[v]
        /\ tx'[w] = Tx(p, s, h, d)
    BY <1>1
  <1>3. tx'[w].pc = p /\ tx'[w].tail = s /\ tx'[w].prev = h /\ tx'[w].pending = d
    BY <1>2 DEF Tx
  <1>4. ASSUME NEW v \in Writers
        PROVE  tx'[v] = Tx(tx'[v].pc, tx'[v].tail, tx'[v].prev, tx'[v].pending)
    <2>1. CASE v = w
      BY <2>1, <1>2, <1>3
    <2>2. CASE v # w
      <3>1. tx[v] = Tx(tx[v].pc, tx[v].tail, tx[v].prev, tx[v].pending)
        BY SMT DEF TxShape
      <3> QED  BY <3>1, <2>2, <1>2
    <2> QED  BY <2>1, <2>2
  <1>5. tx' = [v \in Writers |-> tx'[v]]
    BY <1>1
  <1>6. TxShape(tx')
    BY <1>4, <1>5, Zenon DEF TxShape
  <1> QED  BY <1>2, <1>6

(* No transaction has begun at first.                                      *)
LEMMA ChainInit == Init => ChainInv
  BY SMT DEF Init, ChainInv, TxShape, LogOK, TxOK, ReadOK, Idle, Tx

(* A transaction that goes back to idle, or on to read the tail, without a *)
(* row of its own disturbs no other.                                       *)
LEMMA ResetKeeps ==
    ASSUME ChainInv, NEW w \in Writers, NEW p, NEW s, NEW h,
           p # "inserted", ReadOK(Owner[w], h, log),
           tx' = [tx EXCEPT ![w] = Tx(p, s, h, {})], UNCHANGED <<log, nextSeq>>
    PROVE  ChainInv'
  <1>1. TxShape(tx) /\ DOMAIN tx = Writers
    BY DEF ChainInv, TxShape
  <1>2. /\ TxShape(tx')
        /\ \A v \in Writers : v # w => tx'[v] = tx[v]
        /\ tx'[w].pc = p /\ tx'[w].prev = h /\ tx'[w].pending = {}
    <2>1. TxShape(tx')
      BY <1>1, ShapeKeeps
    <2>2. \A v \in Writers : v # w => tx'[v] = tx[v]
      BY <1>1, ShapeKeeps
    <2>3. tx'[w] = Tx(p, s, h, {})
      BY <1>1
    <2> QED  BY <2>1, <2>2, <2>3 DEF Tx
  <1>3. ASSUME NEW v \in Writers PROVE TxOK(v, tx', log, nextSeq)
    <2>1. TxOK(v, tx, log, nextSeq)
      BY DEF ChainInv
    <2>2. CASE v = w
      BY <2>2, <1>2 DEF TxOK
    <2>3. CASE v # w
      <3>1. tx'[v] = tx[v]
        BY <1>2, <2>3
      <3>2. \A u \in Writers : tx'[u].pending \subseteq tx[u].pending
        BY <1>2
      <3> QED  BY <3>1, <3>2, <2>1 DEF TxOK
    <2> QED  BY <2>2, <2>3
  <1> QED  BY <1>2, <1>3 DEF ChainInv

(* Every statement of a transaction preserves the invariant.               *)
LEMMA ChainStep == ChainInv /\ [Next]_vars => ChainInv'
  <1> SUFFICES ASSUME ChainInv, [Next]_vars PROVE ChainInv'
    OBVIOUS
  <1>1. CASE UNCHANGED vars
    BY <1>1 DEF vars, ChainInv, TxShape, LogOK, TxOK
  <1>2. ASSUME NEW w \in Writers, Snapshot(w) PROVE ChainInv'
    <2>1. PICK p \in {"holding", "locking"}, s \in {0, Latest(Chain(Owner[w])).seq} :
            tx' = [tx EXCEPT ![w] = Tx(p, s, Genesis, {})]
      BY <1>2 DEF Snapshot
    <2>2. UNCHANGED <<log, nextSeq>> /\ p # "inserted" /\ ReadOK(Owner[w], Genesis, log)
      BY <1>2 DEF Snapshot, ReadOK
    <2> QED  BY <2>1, <2>2, ResetKeeps
  <1>3. ASSUME NEW w \in Writers, Lock(w) PROVE ChainInv'
    <2>1. PICK r \in Chain(Owner[w]) :
            tx' = [tx EXCEPT ![w] = Tx("holding", r.seq, r.hash, {})]
      BY <1>3 DEF Lock
    <2>2. ReadOK(Owner[w], r.hash, log)
      BY <2>1 DEF Chain, ReadOK
    <2>3. UNCHANGED <<log, nextSeq>>
      BY <1>3 DEF Lock
    <2> QED  BY <2>1, <2>2, <2>3, ResetKeeps
  <1>4. ASSUME NEW w \in Writers, Insert(w) PROVE ChainInv'
    <2>1. PICK b \in Bodies :
            tx' = [tx EXCEPT ![w] = Tx("inserted", tx[w].tail, tx[w].prev, {Row(w, b)})]
      BY <1>4 DEF Insert
    <2>2. nextSeq \in Nat /\ nextSeq' = nextSeq + 1 /\ log' = log
      BY <1>4 DEF Insert, ChainInv
    <2> DEFINE n == Row(w, b)
    <2>5. n.seq = nextSeq /\ n.tenant = Owner[w] /\ n.prev = tx[w].prev
          /\ n.hash = hashEvent(n.prev, n.tenant, n.body)
      BY DEF Row
    <2> HIDE DEF n
    <2>6. TxShape(tx) /\ DOMAIN tx = Writers
      BY DEF ChainInv, TxShape
    <2>7. /\ TxShape(tx')
          /\ \A v \in Writers : v # w => tx'[v] = tx[v]
          /\ tx'[w].pending = {n} /\ tx'[w].pc = "inserted" /\ tx'[w].prev = tx[w].prev
      <3>1. TxShape(tx')
        BY <2>1, <2>6, ShapeKeeps DEF n
      <3>2. \A v \in Writers : v # w => tx'[v] = tx[v]
        BY <2>1, <2>6, ShapeKeeps DEF n
      <3>3. tx'[w] = Tx("inserted", tx[w].tail, tx[w].prev, {n})
        BY <2>1, <2>6 DEF n
      <3> QED  BY <3>1, <3>2, <3>3 DEF Tx
    <2>8. \A r \in log : Sound(r, log, nextSeq) /\ Sound(r, log, nextSeq')
      BY <2>2, SoundGrows DEF ChainInv, LogOK
    <2>9. LogOK(log, nextSeq')
      BY <2>8 DEF ChainInv, LogOK
    <2>10. Sound(n, log, nextSeq')
      <3>1. Continues(n, log)
        <4>1. ReadOK(Owner[w], n.prev, log)
          BY <2>5 DEF ChainInv, TxOK
        <4>2. \A q \in log : q.seq < n.seq
          BY <2>5, <2>8 DEF Sound
        <4> QED  BY <4>1, <4>2, <2>5 DEF ReadOK, Continues
      <3> QED  BY <3>1, <2>2, <2>5, SMT DEF Sound
    <2>11. \A v \in Writers : \A r \in tx[v].pending :
             Sound(r, log, nextSeq) /\ Sound(r, log, nextSeq') /\ r.seq # nextSeq
      <3>1. \A v \in Writers : \A r \in tx[v].pending : Sound(r, log, nextSeq)
        BY DEF ChainInv, TxOK
      <3>2. \A v \in Writers : \A r \in tx[v].pending : Sound(r, log, nextSeq')
        BY <3>1, <2>2, SoundGrows
      <3> QED  BY <3>1, <3>2, <2>2, SMT DEF Sound
    <2>12. ASSUME NEW v \in Writers PROVE TxOK(v, tx', log, nextSeq')
      <3>1. TxOK(v, tx, log, nextSeq)
        BY DEF ChainInv
      <3>2. CASE v = w
        <4>1. \A q \in log : q.seq # n.seq
          BY <2>2, <2>5, <2>8, SMT DEF Sound
        <4>2. \A u \in Writers : \A q \in tx'[u].pending : q.seq = n.seq => q = n /\ u = w
          BY <2>5, <2>6, <2>7, <2>11
        <4> QED  BY <3>1, <3>2, <4>1, <4>2, <2>6, <2>7, <2>10 DEF TxOK
      <3>3. CASE v # w
        <4>1. tx'[v] = tx[v]
          BY <3>3, <2>6, <2>7
        <4>2. \A r \in tx'[v].pending : r.seq # n.seq
          BY <4>1, <2>5, <2>11
        <4>3. \A r \in tx'[v].pending : \A u \in Writers : \A q \in tx'[u].pending :
                q.seq = r.seq => q = r /\ u = v
          BY <4>1, <4>2, <3>1, <2>6, <2>7 DEF TxOK
        <4> QED  BY <3>1, <4>1, <4>3, <2>11 DEF TxOK
      <3> QED  BY <3>2, <3>3
    <2> QED  BY <2>2, <2>7, <2>9, <2>12 DEF ChainInv
  <1>5. ASSUME NEW w \in Writers, Commit(w) PROVE ChainInv'
    <2>1. log' = log \cup tx[w].pending /\ nextSeq' = nextSeq /\ nextSeq \in Nat
          /\ tx' = [tx EXCEPT ![w] = Idle]
      BY <1>5 DEF Commit, ChainInv
    <2>2. TxShape(tx) /\ DOMAIN tx = Writers
      BY DEF ChainInv, TxShape
    <2>3. /\ TxShape(tx')
          /\ \A v \in Writers : v # w => tx'[v] = tx[v]
          /\ tx'[w].pending = {} /\ tx'[w].prev = Genesis
      <3>1. TxShape(tx')
        BY <2>1, <2>2, ShapeKeeps DEF Idle
      <3>2. \A v \in Writers : v # w => tx'[v] = tx[v]
        BY <2>1, <2>2, ShapeKeeps DEF Idle
      <3>3. tx'[w] = Tx("idle", 0, Genesis, {})
        BY <2>1, <2>2 DEF Idle
      <3> QED  BY <3>1, <3>2, <3>3 DEF Tx
    <2>4. \A r \in log' : Sound(r, log', nextSeq)
      BY <2>1, SoundGrows DEF ChainInv, LogOK, TxOK
    <2>5. \A r, q \in log' : q.seq = r.seq => q = r
      BY <2>1 DEF ChainInv, LogOK, TxOK
    <2>6. ASSUME NEW v \in Writers PROVE TxOK(v, tx', log', nextSeq)
      <3>1. TxOK(v, tx, log, nextSeq) /\ TxOK(w, tx, log, nextSeq)
        BY DEF ChainInv
      <3>2. CASE v = w
        BY <3>2, <2>2, <2>3 DEF TxOK, ReadOK
      <3>3. CASE v # w
        <4>1. tx'[v] = tx[v]
          BY <3>3, <2>3
        <4>2. ReadOK(Owner[v], tx[v].prev, log')
          BY <3>1, <2>1, ReadGrows DEF TxOK
        <4>3. \A r \in tx[v].pending : Sound(r, log', nextSeq)
          BY <3>1, <2>1, SoundGrows DEF TxOK
        <4>4. \A r \in tx[v].pending : \A q \in log' : q.seq # r.seq
          BY <3>1, <3>3, <2>1 DEF TxOK
        <4>5. \A u \in Writers : tx'[u].pending \subseteq tx[u].pending
          BY <2>2, <2>3
        <4> QED  BY <3>1, <4>1, <4>2, <4>3, <4>4, <4>5 DEF TxOK
      <3> QED  BY <3>2, <3>3
    <2> QED  BY <2>1, <2>3, <2>4, <2>5, <2>6 DEF ChainInv, LogOK
  <1>6. ASSUME NEW w \in Writers, Rollback(w) PROVE ChainInv'
    <2>1. ReadOK(Owner[w], Genesis, log)
      BY DEF ReadOK
    <2>2. tx' = [tx EXCEPT ![w] = Tx("idle", 0, Genesis, {})] /\ UNCHANGED <<log, nextSeq>>
      BY <1>6 DEF Rollback, Idle
    <2> QED  BY <2>1, <2>2, ResetKeeps
  <1> QED  BY <1>1, <1>2, <1>3, <1>4, <1>5, <1>6 DEF Next, Step

(* However many writers interleave and roll back, every committed event of *)
(* audit.ts continues an earlier committed event of its tenant or starts a *)
(* chain, its hash covers its fields, and its seq is its own.              *)
THEOREM EveryEventContinuesHolds == Spec => []EveryEventContinues
  <1>1. ChainInv => EveryEventContinues
    BY DEF ChainInv, LogOK, Sound, EveryEventContinues
  <1> QED  BY ChainInit, ChainStep, <1>1, PTL DEF Spec
-----------------------------------------------------------------------------
(* The least and the greatest number of a set: verify walks rows by seq.   *)
LEMMA Least ==
    ASSUME NEW S \in SUBSET Nat, S # {}
    PROVE  \E m \in S : \A n \in S : m <= n
  <1>1. PICK m \in S : \A n \in S : ~(<<n, m>> \in OpToRel(<, Nat))
    BY NatLessThanWellFounded, WFMin, Zenon
  <1>2. \A n \in S : ~(n < m)
    BY <1>1 DEF OpToRel
  <1> QED  BY <1>2

LEMMA Greatest ==
    ASSUME NEW S \in SUBSET Nat, S # {}, NEW k \in Nat, \A n \in S : n <= k
    PROVE  \E m \in S : \A n \in S : n <= m
  <1> DEFINE T == {j \in Nat : k - j \in S}
  <1>1. PICK n \in S : TRUE
    OBVIOUS
  <1>2. k - n \in T /\ n = k - (k - n)
    OBVIOUS
  <1>3. PICK j \in T : \A i \in T : j <= i
    <2> HIDE DEF T
    <2>1. T \in SUBSET Nat
      BY DEF T
    <2> QED  BY <1>2, <2>1, Least
  <1>4. ASSUME NEW i \in S PROVE i <= k - j
    <2>1. k - i \in T
      OBVIOUS
    <2> QED  BY <1>3, <2>1
  <1> QED  BY <1>4

(* Rows with a seq of their own below a bound.                             *)
Ordered(rows) ==
    /\ \E k \in Nat : \A r \in rows : r.seq \in Nat /\ r.seq <= k
    /\ \A r, q \in rows : q.seq = r.seq => q = r

LEMMA FirstExists ==
    ASSUME NEW rows, Ordered(rows), rows # {}
    PROVE  \E r \in rows : \A q \in rows : r.seq <= q.seq
  <1> DEFINE S == {r.seq : r \in rows}
  <1>1. S \in SUBSET Nat /\ S # {}
    BY DEF Ordered
  <1>2. PICK m \in S : \A n \in S : m <= n
    <2> HIDE DEF S
    <2> QED  BY <1>1, Least
  <1> QED  BY <1>2

LEMMA LastExists ==
    ASSUME NEW rows, Ordered(rows), rows # {}
    PROVE  \E r \in rows : \A q \in rows : q.seq <= r.seq
  <1> DEFINE S == {r.seq : r \in rows}
  <1>1. PICK k \in Nat : \A r \in rows : r.seq \in Nat /\ r.seq <= k
    BY DEF Ordered
  <1>2. S \in SUBSET Nat /\ S # {} /\ \A n \in S : n <= k
    BY <1>1
  <1>3. PICK m \in S : \A n \in S : n <= m
    <2> HIDE DEF S
    <2> QED  BY <1>2, Greatest
  <1> QED  BY <1>3

(* ORDER BY seq DESC LIMIT 1 returns the row with the greatest seq.        *)
LEMMA LatestIs ==
    ASSUME NEW rows, Ordered(rows), NEW r \in rows, \A q \in rows : q.seq <= r.seq
    PROVE  Latest(rows) = r
  <1>1. Latest(rows) \in rows /\ \A q \in rows : q.seq <= Latest(rows).seq
    BY DEF Latest
  <1>2. Latest(rows).seq = r.seq
    BY <1>1 DEF Ordered
  <1> QED  BY <1>1, <1>2 DEF Ordered

LEMMA LatestOf ==
    ASSUME NEW rows, Ordered(rows), rows # {}
    PROVE  Latest(rows) \in rows /\ \A q \in rows : q.seq <= Latest(rows).seq
  BY LastExists DEF Latest

LEMMA LogOrdered ==
    ASSUME ChainInv
    PROVE  /\ Ordered(log) /\ \A t : Ordered(Chain(t))
           /\ \A r : Ordered(Before(r))
  <1>1. Ordered(log)
    BY DEF ChainInv, LogOK, Sound, Ordered
  <1>2. ASSUME NEW rows, rows \subseteq log PROVE Ordered(rows)
    BY <1>1, <1>2 DEF Ordered
  <1> QED  BY <1>1, <1>2 DEF Chain, Before
-----------------------------------------------------------------------------
(* Tenants whose records do not overlap.  Writer w is alone for a tenant:  *)
(* all rows agree, the row it waits for is the last one and stays the last *)
(* until it commits, and so does the hash it read.                         *)
Alone(w) == \A v \in Writers : Owner[v] = Owner[w] => v = w

EndHash(t) == IF Chain(t) = {} THEN Genesis ELSE Latest(Chain(t)).hash

IsLast(s, t) == \E r \in Chain(t) : r.seq = s /\ \A q \in Chain(t) : q.seq <= r.seq

OneByOne(w) ==
    /\ \A r \in Chain(Owner[w]) : ~Disagrees(r)
    /\ tx[w].pc = "locking" => IsLast(tx[w].tail, Owner[w])
    /\ tx[w].pc \in {"holding", "inserted"} => tx[w].prev = EndHash(Owner[w])
    /\ \A r \in tx[w].pending : /\ r.prev = tx[w].prev
                                /\ \A q \in Chain(Owner[w]) : q.seq < r.seq

SoleInv ==
    /\ \A w \in Writers : /\ tx[w].pc \in {"idle", "locking", "holding", "inserted"}
                          /\ \A r \in tx[w].pending : r.tenant = Owner[w]
                          /\ \A r, q \in tx[w].pending : q = r
    /\ \A w \in Writers : Alone(w) => OneByOne(w)

(* While the rows of its tenant stay, what a writer alone knows of them    *)
(* does, if its own transaction is not touched.                            *)
LEMMA SameRows ==
    ASSUME NEW t, Chain(t)' = Chain(t)
    PROVE  /\ \A r \in Chain(t) : Before(r)' = Before(r) /\ (Disagrees(r)' <=> Disagrees(r))
           /\ EndHash(t)' = EndHash(t)
           /\ \A s : IsLast(s, t)' <=> IsLast(s, t)
  <1>1. ASSUME NEW r \in Chain(t) PROVE Before(r)' = Before(r)
    BY DEF Chain, Before
  <1>2. ASSUME NEW r \in Chain(t) PROVE Disagrees(r)' <=> Disagrees(r)
    BY <1>1 DEF Disagrees, PrevHash
  <1>3. EndHash(t)' = EndHash(t)
    BY DEF EndHash
  <1>4. \A s : IsLast(s, t)' <=> IsLast(s, t)
    BY DEF IsLast
  <1> QED  BY <1>1, <1>2, <1>3, <1>4

LEMMA OthersKeep ==
    ASSUME NEW w \in Writers, OneByOne(w), tx'[w] = tx[w],
           Chain(Owner[w])' = Chain(Owner[w])
    PROVE  OneByOne(w)'
  BY SameRows DEF OneByOne

(* A row at the end of a log in which all rows agree agrees too.           *)
LEMMA AppendAgrees ==
    ASSUME NEW t, NEW n, Ordered(log), log' = log \cup {n}, n.tenant = t,
           n.seq \in Nat, \A r \in Chain(t) : r.seq < n.seq /\ ~Disagrees(r),
           n.prev = EndHash(t), n.hash = hashEvent(n.prev, n.tenant, n.body)
    PROVE  \A r \in Chain(t)' : ~Disagrees(r)'
  <1>0. \A r \in Chain(t) : r.seq \in Nat
    BY DEF Ordered, Chain
  <1>1. Chain(t)' = Chain(t) \cup {n}
    BY DEF Chain
  <1>2. Before(n)' = Chain(t)
    BY <1>0, <1>1 DEF Before, Chain
  <1>3. ~Disagrees(n)'
    BY <1>2 DEF Disagrees, PrevHash, EndHash
  <1>4. ASSUME NEW r \in Chain(t) PROVE ~Disagrees(r)'
    <2>1. r.tenant = t /\ r.seq < n.seq /\ r.seq \in Nat
      BY <1>0 DEF Chain
    <2>2. Before(r)' = Before(r)
      BY <1>1, <2>1 DEF Before, Chain
    <2> QED  BY <2>2 DEF Disagrees, PrevHash
  <1> QED  BY <1>1, <1>3, <1>4

(* A writer that does not commit leaves the rows as they are.              *)
LEMMA SoleKeeps ==
    ASSUME ChainInv, SoleInv, NEW w \in Writers, log' = log,
           NEW p \in {"idle", "locking", "holding", "inserted"}, NEW s, NEW h, NEW d,
           tx' = [tx EXCEPT ![w] = Tx(p, s, h, d)],
           \A r \in d : r.tenant = Owner[w] /\ r.prev = h,
           \A r, q \in d : q = r,
           \A r \in d, q \in Chain(Owner[w]) : q.seq < r.seq,
           p = "locking" => IsLast(s, Owner[w]),
           p \in {"holding", "inserted"} /\ Alone(w) => h = EndHash(Owner[w])
    PROVE  SoleInv'
  <1>0. TxShape(tx) /\ DOMAIN tx = Writers
    BY DEF ChainInv, TxShape
  <1>1. \A t : Chain(t)' = Chain(t)
    BY DEF Chain
  <1>2. \A v \in Writers : v # w => tx'[v] = tx[v]
    BY <1>0
  <1>3. tx'[w].pc = p /\ tx'[w].tail = s /\ tx'[w].prev = h /\ tx'[w].pending = d
    BY <1>0 DEF Tx
  <1>4. ASSUME NEW v \in Writers, Alone(v), v # w PROVE OneByOne(v)'
    BY <1>1, <1>2, <1>4, OthersKeep DEF SoleInv
  <1>5. ASSUME Alone(w) PROVE OneByOne(w)'
    <2>1. OneByOne(w)
      BY <1>5 DEF SoleInv
    <2>2. /\ \A r \in Chain(Owner[w]) : ~Disagrees(r)'
          /\ EndHash(Owner[w])' = EndHash(Owner[w])
          /\ IsLast(s, Owner[w])' <=> IsLast(s, Owner[w])
      BY <1>1, <2>1, SameRows DEF OneByOne
    <2>3. Owner' = Owner /\ Chain(Owner[w])' = Chain(Owner[w])
      BY <1>1
    <2>4. (tx[w].pc = "locking" => IsLast(tx[w].tail, Owner[w]))'
      BY <1>3, <2>2 DEF IsLast
    <2>5. tx'[w].pc \in {"holding", "inserted"} => tx'[w].prev = EndHash(Owner[w])'
      BY <1>3, <1>5, <2>2
    <2> QED  BY <1>3, <2>2, <2>3, <2>4, <2>5 DEF OneByOne
  <1>6. \A v \in Writers : /\ tx'[v].pc \in {"idle", "locking", "holding", "inserted"}
                           /\ \A r \in tx'[v].pending : r.tenant = Owner[v]
                           /\ \A r, q \in tx'[v].pending : q = r
    BY <1>2, <1>3 DEF SoleInv
  <1> QED  BY <1>4, <1>5, <1>6 DEF SoleInv, Alone

(* The same for one without a row of its own.                              *)
LEMMA SoleRests ==
    ASSUME ChainInv, SoleInv, NEW w \in Writers, log' = log,
           NEW p \in {"idle", "locking", "holding"}, NEW s, NEW h,
           tx' = [tx EXCEPT ![w] = Tx(p, s, h, {})],
           p = "locking" => IsLast(s, Owner[w]),
           p = "holding" /\ Alone(w) => h = EndHash(Owner[w])
    PROVE  SoleInv'
  <1> DEFINE d == {}
  <1>1. /\ \A r \in d : r.tenant = Owner[w] /\ r.prev = h
        /\ \A r, q \in d : q = r
        /\ \A r \in d, q \in Chain(Owner[w]) : q.seq < r.seq
    OBVIOUS
  <1>2. /\ p \in {"idle", "locking", "holding", "inserted"}
        /\ p \in {"holding", "inserted"} /\ Alone(w) => h = EndHash(Owner[w])
    OBVIOUS
  <1>3. tx' = [tx EXCEPT ![w] = Tx(p, s, h, d)]
    OBVIOUS
  <1> HIDE DEF d
  <1> QED  BY ONLY <1>1, <1>2, <1>3, ChainInv, SoleInv, log' = log, w \in Writers,
              p = "locking" => IsLast(s, Owner[w]), SoleKeeps

(* Only a commit adds rows, and to the chain of its own tenant.            *)
LEMMA SoleStep ==
    ASSUME ChainInv, SoleInv, [Next]_vars
    PROVE  SoleInv'
  <1>0. TxShape(tx) /\ DOMAIN tx = Writers
    BY DEF ChainInv, TxShape
  <1>1. CASE UNCHANGED vars
    <2>1. \A t : Chain(t)' = Chain(t)
      BY <1>1 DEF vars, Chain
    <2> QED  BY <1>1, <2>1, OthersKeep DEF vars, SoleInv, Alone
  <1>3. ASSUME NEW w \in Writers, Snapshot(w) PROVE SoleInv'
    <2>1. CASE Chain(Owner[w]) = {}
      <3>1. Genesis = EndHash(Owner[w])
        BY <2>1 DEF EndHash
      <3> QED  BY <1>3, <2>1, <3>1, SoleRests DEF Snapshot
    <2>2. CASE Chain(Owner[w]) # {}
      <3>1. IsLast(Latest(Chain(Owner[w])).seq, Owner[w])
        BY <2>2, LogOrdered, LatestOf DEF IsLast
      <3>2. /\ tx' = [tx EXCEPT ![w] = Tx("locking", Latest(Chain(Owner[w])).seq, Genesis, {})]
            /\ log' = log
        BY <1>3, <2>2 DEF Snapshot
      <3> QED  BY <3>1, <3>2, SoleRests
    <2> QED  BY <2>1, <2>2
  <1>4. ASSUME NEW w \in Writers, Lock(w) PROVE SoleInv'
    <2>1. PICK r \in Chain(Owner[w]) :
            r.seq = tx[w].tail /\ tx' = [tx EXCEPT ![w] = Tx("holding", r.seq, r.hash, {})]
      BY <1>4 DEF Lock
    <2>2. ASSUME Alone(w) PROVE r.hash = EndHash(Owner[w])
      <3>1. IsLast(r.seq, Owner[w])
        BY <1>4, <2>1, <2>2 DEF Lock, SoleInv, OneByOne
      <3>2. \A q \in Chain(Owner[w]) : q.seq <= r.seq
        BY <3>1 DEF IsLast
      <3>3. Latest(Chain(Owner[w])) = r
        BY <3>2, LogOrdered, LatestIs
      <3> QED  BY <3>3 DEF EndHash
    <2>3. log' = log
      BY <1>4 DEF Lock
    <2> QED  BY <2>1, <2>2, <2>3, SoleRests
  <1>5. ASSUME NEW w \in Writers, Insert(w) PROVE SoleInv'
    <2>1. PICK b \in Bodies :
            tx' = [tx EXCEPT ![w] = Tx("inserted", tx[w].tail, tx[w].prev, {Row(w, b)})]
      BY <1>5 DEF Insert
    <2>2. Row(w, b).tenant = Owner[w] /\ Row(w, b).prev = tx[w].prev /\ Row(w, b).seq = nextSeq
      BY DEF Row
    <2>3. \A q \in Chain(Owner[w]) : q.seq < nextSeq
      BY DEF ChainInv, LogOK, Sound, Chain
    <2>4. Alone(w) => tx[w].prev = EndHash(Owner[w])
      BY <1>5 DEF Insert, SoleInv, OneByOne
    <2>5. log' = log
      BY <1>5 DEF Insert
    <2> QED  BY <2>1, <2>2, <2>3, <2>4, <2>5, SoleKeeps
  <1>6. ASSUME NEW w \in Writers, Rollback(w) PROVE SoleInv'
    BY <1>6, SoleRests DEF Rollback, Idle
  <1>7. ASSUME NEW w \in Writers, Commit(w) PROVE SoleInv'
    <2>1. log' = log \cup tx[w].pending /\ tx[w].pc = "inserted"
      BY <1>7 DEF Commit
    <2>2. /\ \A v \in Writers : v # w => tx'[v] = tx[v]
          /\ tx'[w].pc = "idle" /\ tx'[w].pending = {}
      BY <1>0, <1>7 DEF Commit, Idle, Tx
    <2>3. \A r \in tx[w].pending : r.tenant = Owner[w]
      BY DEF SoleInv
    <2>4. ASSUME NEW v \in Writers, Alone(v), v # w PROVE OneByOne(v)'
      <3>1. Owner[v] # Owner[w]
        BY <2>4 DEF Alone
      <3>2. Chain(Owner[v])' = Chain(Owner[v])
        BY <2>1, <2>3, <3>1 DEF Chain
      <3> QED  BY <2>2, <2>4, <3>2, OthersKeep DEF SoleInv
    <2>5. ASSUME Alone(w) PROVE OneByOne(w)'
      <3>1. OneByOne(w)
        BY <2>5 DEF SoleInv
      <3>2. \A r \in Chain(Owner[w])' : ~Disagrees(r)'
        <4>1. CASE tx[w].pending = {}
          <5>1. Chain(Owner[w])' = Chain(Owner[w])
            BY <2>1, <4>1 DEF Chain
          <5> QED  BY <3>1, <5>1, SameRows DEF OneByOne
        <4>2. ASSUME NEW n \in tx[w].pending PROVE \A r \in Chain(Owner[w])' : ~Disagrees(r)'
          <5>1. /\ n.tenant = Owner[w] /\ n.prev = tx[w].prev
                /\ \A q \in Chain(Owner[w]) : q.seq < n.seq
                /\ n.prev = EndHash(Owner[w])
            BY <2>1, <2>3, <3>1, <4>2 DEF OneByOne
          <5>2. n.seq \in Nat /\ n.hash = hashEvent(n.prev, n.tenant, n.body)
            BY <4>2 DEF ChainInv, TxOK, Sound
          <5>3. tx[w].pending = {n}
            BY <4>2 DEF SoleInv
          <5>4. log' = log \cup {n}
            BY <2>1, <5>3
          <5> QED
            BY <3>1, <5>1, <5>2, <5>4, LogOrdered, AppendAgrees DEF OneByOne
        <4> QED  BY <4>1, <4>2
      <3> QED  BY <2>2, <3>2 DEF OneByOne
    <2>6. \A v \in Writers : /\ tx'[v].pc \in {"idle", "locking", "holding", "inserted"}
                             /\ \A r \in tx'[v].pending : r.tenant = Owner[v]
                             /\ \A r, q \in tx'[v].pending : q = r
      BY <2>2 DEF SoleInv
    <2> QED  BY <2>4, <2>5, <2>6 DEF SoleInv, Alone
  <1> QED  BY <1>1, <1>3, <1>4, <1>5, <1>6, <1>7 DEF Next, Step

LEMMA SoleInvariant == Spec => [](ChainInv /\ SoleInv)
  <1>1. Init => SoleInv
    BY DEF Init, SoleInv, OneByOne, Idle, Tx, Chain
  <1> QED  BY <1>1, ChainInit, ChainStep, SoleStep, PTL DEF Spec

(* The row after q in a chain that agrees up to r continues q.             *)
LEMMA NextContinues ==
    ASSUME ChainInv, NEW t, NEW r \in Chain(t), NEW q \in Before(r),
           \A p \in Before(r) : ~Disagrees(p), PrevHash(r) # q.hash
    PROVE  \E n \in Before(r) : n.prev = q.hash
  <1> DEFINE N == {n \in Before(r) : n.seq > q.seq}
  <1>0. Ordered(Before(r)) /\ \A p : Ordered(Before(p))
    BY LogOrdered
  <1>1. q.seq \in Nat /\ \A p \in Before(r) : p.seq \in Nat /\ p.seq < r.seq /\ p.tenant = t
    BY <1>0 DEF Ordered, Before, Chain
  <1>2. N # {}
    <2>1. SUFFICES ASSUME N = {} PROVE FALSE
      OBVIOUS
    <2>2. \A p \in Before(r) : p.seq <= q.seq
      BY <1>1, <2>1
    <2>3. Latest(Before(r)) = q
      BY <1>0, <2>2, LatestIs
    <2> QED  BY <2>3 DEF PrevHash
  <1>3. Ordered(N)
    BY <1>0 DEF Ordered
  <1>4. PICK n \in N : \A p \in N : n.seq <= p.seq
    <2> HIDE DEF N
    <2> QED  BY <1>2, <1>3, FirstExists
  <1>5. n.seq \in Nat /\ r.seq \in Nat
    BY <1>1, LogOrdered DEF Ordered
  <1>6. Before(n) \subseteq Before(r) /\ q \in Before(n)
    <2>1. n.tenant = t /\ q.tenant = t /\ r.tenant = t /\ q.seq < n.seq /\ n.seq < r.seq
      BY <1>1, <1>4, <1>5 DEF Chain
    <2>2. q \in log
      BY DEF Before, Chain
    <2>3. ASSUME NEW p \in Before(n) PROVE p \in Before(r)
      <3>1. p \in log /\ p.tenant = t /\ p.seq < n.seq
        BY <2>1 DEF Before, Chain
      <3>2. p.seq \in Nat
        BY <3>1, LogOrdered DEF Ordered
      <3> QED  BY <1>5, <2>1, <3>1, <3>2 DEF Before, Chain
    <2> QED  BY <2>1, <2>2, <2>3 DEF Before, Chain
  <1>7. \A p \in Before(n) : p.seq <= q.seq
    <2>1. ASSUME NEW p \in Before(n), p.seq > q.seq PROVE FALSE
      <3>1. p \in N
        BY <1>6, <2>1
      <3>2. p.seq < n.seq /\ p.seq \in Nat
        BY <1>1, <1>6 DEF Before
      <3> QED  BY <1>4, <1>5, <3>1, <3>2
    <2> QED  BY <1>1, <1>6, <2>1
  <1>8. Latest(Before(n)) = q
    BY <1>0, <1>6, <1>7, LatestIs
  <1>9. n.prev = q.hash
    BY <1>6, <1>8 DEF Disagrees, PrevHash
  <1> QED  BY <1>9

(* In a log nobody altered verify stops at a row only if another row of    *)
(* the tenant carries the same prev_hash, and never for a tenant whose     *)
(* records do not overlap: records that fail, roll back or wait, and those *)
(* of other tenants, break nothing.                                        *)
THEOREM OnlyForksBreak == Spec => []BreaksAreForks
  <1>1. ASSUME ChainInv, SoleInv PROVE BreaksAreForks
    <2> SUFFICES ASSUME NEW t \in Tenants, NEW r \in BrokenAt(t)
                 PROVE  t \notin Sole /\ \E q \in Chain(t) : q # r /\ q.prev = r.prev
      BY DEF BreaksAreForks
    <2>1. /\ r \in Chain(t) /\ r \in log /\ r.tenant = t
          /\ Disagrees(r) /\ \A q \in Before(r) : ~Disagrees(q)
      BY DEF BrokenAt, Chain
    <2>2. t \notin Sole
      BY <1>1, <2>1 DEF Sole, SoleInv, OneByOne, Alone
    <2>3. /\ r.seq \in Nat /\ Continues(r, log)
          /\ r.hash = hashEvent(r.prev, r.tenant, r.body)
      BY <1>1, <2>1 DEF ChainInv, LogOK, Sound
    <2>4. r.prev # PrevHash(r)
      BY <2>1, <2>3 DEF Disagrees
    <2>5. \A n \in Before(r) : n \in Chain(t) /\ n # r
      BY <2>1, <2>3 DEF Before
    <2>6. CASE r.prev = Genesis
      <3>1. Before(r) # {}
        BY <2>4, <2>6 DEF PrevHash
      <3>2. PICK n \in Before(r) : \A q \in Before(r) : n.seq <= q.seq
        BY <1>1, <3>1, LogOrdered, FirstExists
      <3>3. n.tenant = t /\ n.seq < r.seq /\ n.seq \in Nat
        BY <1>1, <2>1, LogOrdered DEF Before, Chain, Ordered
      <3>4. Before(n) = {}
        <4>1. ASSUME NEW q \in Before(n) PROVE FALSE
          <5>1. q.seq < n.seq /\ q.seq \in Nat /\ q \in Chain(t)
            BY <1>1, <3>3, <4>1, LogOrdered DEF Before, Chain, Ordered
          <5>2. q \in Before(r)
            BY <2>1, <2>3, <3>3, <5>1 DEF Before
          <5> QED  BY <3>2, <3>3, <5>1, <5>2
        <4> QED  BY <4>1
      <3>5. n.prev = Genesis
        BY <2>1, <3>4 DEF Disagrees, PrevHash
      <3> QED  BY <2>2, <2>5, <2>6, <3>5
    <2>7. ASSUME NEW q \in log, q.tenant = r.tenant, q.seq < r.seq, q.hash = r.prev
          PROVE  \E n \in Chain(t) : n # r /\ n.prev = r.prev
      <3>1. q \in Before(r)
        BY <2>1, <2>7 DEF Before, Chain
      <3>2. PICK n \in Before(r) : n.prev = q.hash
        BY <1>1, <2>1, <2>4, <2>7, <3>1, NextContinues
      <3> QED  BY <2>5, <2>7, <3>2
    <2> QED  BY <2>2, <2>3, <2>6, <2>7 DEF Continues
  <1> QED  BY <1>1, SoleInvariant, PTL
-----------------------------------------------------------------------------
(* Types *)

RowTyped(r) == /\ DOMAIN r = {"seq", "tenant", "body", "prev", "hash"}
               /\ r.seq # 0 /\ r.tenant \in Tenants /\ r.body \in Bodies

TxTyped(w) ==
    /\ tx[w].pc \in {"idle", "locking", "holding", "inserted"} /\ tx[w].tail \in 0 .. MaxSeq
    /\ tx[w].pc = "inserted" => \E r : tx[w].pending = {r}

TypeInv ==
    /\ nextSeq \in 1 .. MaxSeq + 1
    /\ \A r \in log : RowTyped(r)
    /\ \A w \in Writers : TxTyped(w) /\ \A r \in tx[w].pending : RowTyped(r)

(* The transaction of w is replaced.                                       *)
LEMMA TypeKeeps ==
    ASSUME ChainInv, TypeInv, NEW w \in Writers,
           NEW p \in {"idle", "locking", "holding", "inserted"}, NEW s \in 0 .. MaxSeq,
           NEW h, NEW d, tx' = [tx EXCEPT ![w] = Tx(p, s, h, d)],
           p = "inserted" => \E r : d = {r}, \A r \in d : RowTyped(r),
           \A r \in log' : RowTyped(r), nextSeq' \in 1 .. MaxSeq + 1
    PROVE  TypeInv'
  <1>0. TxShape(tx) /\ DOMAIN tx = Writers
    BY DEF ChainInv, TxShape
  <1>1. \A v \in Writers : v # w => tx'[v] = tx[v]
    BY <1>0
  <1>2. tx'[w].pc = p /\ tx'[w].tail = s /\ tx'[w].pending = d
    BY <1>0 DEF Tx
  <1> QED  BY <1>1, <1>2 DEF TypeInv, TxTyped

LEMMA TypeRests ==
    ASSUME ChainInv, TypeInv, NEW w \in Writers, NEW p \in {"idle", "locking", "holding"},
           NEW s \in 0 .. MaxSeq, NEW h, tx' = [tx EXCEPT ![w] = Tx(p, s, h, {})],
           \A r \in log' : RowTyped(r), nextSeq' \in 1 .. MaxSeq + 1
    PROVE  TypeInv'
  <1> DEFINE d == {}
  <1>1. (\A r \in d : RowTyped(r)) /\ tx' = [tx EXCEPT ![w] = Tx(p, s, h, d)]
    OBVIOUS
  <1>2. p \in {"idle", "locking", "holding", "inserted"} /\ p # "inserted"
    OBVIOUS
  <1> HIDE DEF d
  <1> QED
    BY ONLY <1>1, <1>2, ChainInv, TypeInv, w \in Writers, s \in 0 .. MaxSeq,
            \A r \in log' : RowTyped(r), nextSeq' \in 1 .. MaxSeq + 1, TypeKeeps

LEMMA TypeStep ==
    ASSUME ChainInv, TypeInv, [Next]_vars
    PROVE  TypeInv'
  <1>t. /\ nextSeq \in 1 .. MaxSeq + 1 /\ \A r \in log : RowTyped(r)
        /\ \A w \in Writers : TxTyped(w) /\ \A r \in tx[w].pending : RowTyped(r)
    BY DEF TypeInv
  <1>s. 0 \in 0 .. MaxSeq /\ \A r \in log : r.seq \in 0 .. MaxSeq
    BY SeqAssumption DEF ChainInv, LogOK, Sound, TypeInv
  <1>1. CASE UNCHANGED vars
    BY <1>1 DEF vars, TypeInv, TxTyped
  <1>2. ASSUME NEW w \in Writers, Snapshot(w) PROVE TypeInv'
    <2>1. UNCHANGED <<log, nextSeq>>
      BY <1>2 DEF Snapshot
    <2>2. CASE Chain(Owner[w]) = {}
      <3>1. tx' = [tx EXCEPT ![w] = Tx("holding", 0, Genesis, {})]
        BY <1>2, <2>2 DEF Snapshot
      <3> QED  BY <1>s, <1>t, <2>1, <3>1, TypeRests
    <2>3. CASE Chain(Owner[w]) # {}
      <3>1. Latest(Chain(Owner[w])).seq \in 0 .. MaxSeq
        BY <1>s, <2>3, LogOrdered, LatestOf DEF Chain
      <3>2. tx' = [tx EXCEPT ![w] = Tx("locking", Latest(Chain(Owner[w])).seq, Genesis, {})]
        BY <1>2, <2>3 DEF Snapshot
      <3> QED  BY <1>t, <2>1, <3>1, <3>2, TypeRests
    <2> QED  BY <2>2, <2>3
  <1>3. ASSUME NEW w \in Writers, Lock(w) PROVE TypeInv'
    <2>1. PICK r \in log : tx' = [tx EXCEPT ![w] = Tx("holding", r.seq, r.hash, {})]
      BY <1>3 DEF Lock, Chain
    <2>2. UNCHANGED <<log, nextSeq>> /\ r.seq \in 0 .. MaxSeq
      BY <1>3, <1>s DEF Lock
    <2> QED  BY <1>t, <2>1, <2>2, TypeRests
  <1>4. ASSUME NEW w \in Writers, Insert(w) PROVE TypeInv'
    <2>1. PICK b \in Bodies :
            tx' = [tx EXCEPT ![w] = Tx("inserted", tx[w].tail, tx[w].prev, {Row(w, b)})]
      BY <1>4 DEF Insert
    <2>2. RowTyped(Row(w, b))
      BY <1>t, OwnerAssumption DEF Row, RowTyped
    <2>3. nextSeq' \in 1 .. MaxSeq + 1 /\ log' = log
      BY <1>4, <1>t, SeqAssumption DEF Insert
    <2>4. tx[w].tail \in 0 .. MaxSeq
      BY <1>t DEF TxTyped
    <2> DEFINE d == {Row(w, b)}
    <2>5. (\E r : d = {r}) /\ \A r \in d : RowTyped(r)
      BY <2>2
    <2>6. tx' = [tx EXCEPT ![w] = Tx("inserted", tx[w].tail, tx[w].prev, d)]
      BY <2>1
    <2> HIDE DEF d
    <2> QED  BY <1>t, <2>3, <2>4, <2>5, <2>6, TypeKeeps
  <1>5. ASSUME NEW w \in Writers, Commit(w) PROVE TypeInv'
    <2>1. /\ tx' = [tx EXCEPT ![w] = Tx("idle", 0, Genesis, {})]
          /\ nextSeq' = nextSeq /\ \A r \in log' : RowTyped(r)
      BY <1>5, <1>t DEF Commit, Idle
    <2> QED  BY <1>s, <1>t, <2>1, TypeRests
  <1>6. ASSUME NEW w \in Writers, Rollback(w) PROVE TypeInv'
    <2>1. tx' = [tx EXCEPT ![w] = Tx("idle", 0, Genesis, {})] /\ UNCHANGED <<log, nextSeq>>
      BY <1>6 DEF Rollback, Idle
    <2> QED  BY <1>s, <1>t, <2>1, TypeRests
  <1> QED  BY <1>1, <1>2, <1>3, <1>4, <1>5, <1>6 DEF Next, Step

LEMMA TypesInvariant == Spec => [](ChainInv /\ SoleInv /\ TypeInv)
  <1>1. Init => TypeInv
    BY SeqAssumption DEF Init, TypeInv, TxTyped, Idle, Tx
  <1> QED  BY <1>1, SoleInvariant, TypeStep, PTL DEF Spec

(* Rows carry a seq that was handed out and a tenant of theirs, and a      *)
(* transaction holds one row between its INSERT and its end, no other.     *)
THEOREM AuditTypes == Spec => []TypeOK
  <1>1. ASSUME ChainInv, TypeInv PROVE TypeOK
    <2>1. DOMAIN tx = Writers
      BY <1>1 DEF ChainInv, TxShape
    <2>2. ASSUME NEW r \in log PROVE r.seq \in 1 .. nextSeq - 1
      BY <1>1, SeqAssumption DEF ChainInv, LogOK, Sound, TypeInv, RowTyped
    <2>3. ASSUME NEW w \in Writers
          PROVE  Cardinality(tx[w].pending) = IF tx[w].pc = "inserted" THEN 1 ELSE 0
      <3>1. CASE tx[w].pc = "inserted"
        <4>1. PICK r : tx[w].pending = {r}
          BY <1>1, <3>1 DEF TypeInv, TxTyped
        <4> QED  BY <3>1, <4>1, FS_Singleton
      <3>2. CASE tx[w].pc # "inserted"
        <4>1. tx[w].pending = {}
          BY <1>1, <3>2 DEF ChainInv, TxOK
        <4> QED  BY <3>2, <4>1, FS_EmptySet
      <3> QED  BY <3>1, <3>2
    <2> QED  BY <1>1, <2>1, <2>2, <2>3 DEF TypeInv, RowTyped, TxTyped, TypeOK, TxType
  <1> QED  BY <1>1, TypesInvariant, PTL
-----------------------------------------------------------------------------
(* list as an append-only log *)

(* Ordered rows are finite in number, and counting the rows below a row    *)
(* numbers them from 0 without gaps.                                       *)
Below(rows, r) == {q \in rows : q.seq < r.seq}

Rank(rows, r) == Cardinality(Below(rows, r))

LEMMA OrderedIsFinite ==
    ASSUME NEW rows, Ordered(rows)
    PROVE  IsFiniteSet(rows)
  <1>1. PICK k \in Nat : \A r \in rows : r.seq \in Nat /\ r.seq <= k
    BY DEF Ordered
  <1> DEFINE f == [r \in rows |-> r.seq]
  <1>2. f \in Injection(rows, 0 .. k)
    BY <1>1 DEF Ordered, Injection, IsInjective
  <1>3. IsFiniteSet(0 .. k)
    BY FS_Interval
  <1> HIDE DEF f
  <1> QED  BY <1>2, <1>3, FS_Injection

LEMMA RankRises ==
    ASSUME NEW rows, Ordered(rows), NEW q \in rows, NEW r \in rows, q.seq < r.seq
    PROVE  Rank(rows, q) < Rank(rows, r)
  <1>1. \A p \in rows : p.seq \in Nat
    BY DEF Ordered
  <1>2. Below(rows, q) \in SUBSET Below(rows, r) /\ q \in Below(rows, r) /\ q \notin Below(rows, q)
    BY <1>1 DEF Below
  <1>3. IsFiniteSet(Below(rows, r))
    <2>1. Ordered(Below(rows, r))
      BY DEF Ordered, Below
    <2> QED  BY <2>1, OrderedIsFinite
  <1>4. IsFiniteSet(Below(rows, q)) /\ Rank(rows, q) <= Rank(rows, r) /\ Rank(rows, q) # Rank(rows, r)
    BY <1>2, <1>3, FS_Subset DEF Rank
  <1>5. Rank(rows, q) \in Nat /\ Rank(rows, r) \in Nat
    BY <1>3, <1>4, FS_CardinalityType DEF Rank
  <1> QED  BY <1>4, <1>5

LEMMA RankIsOne ==
    ASSUME NEW rows, Ordered(rows), NEW q \in rows, NEW r \in rows, Rank(rows, q) = Rank(rows, r)
    PROVE  q = r
  <1>1. q.seq \in Nat /\ r.seq \in Nat
    BY DEF Ordered
  <1>2. /\ q.seq < r.seq => Rank(rows, q) < Rank(rows, r)
        /\ r.seq < q.seq => Rank(rows, r) < Rank(rows, q)
    BY RankRises
  <1>3. \A p \in rows : Rank(rows, p) \in Nat
    <2>1. ASSUME NEW p \in rows PROVE Ordered(Below(rows, p))
      BY DEF Ordered, Below
    <2> QED  BY <2>1, OrderedIsFinite, FS_CardinalityType DEF Rank
  <1>4. q.seq = r.seq
    BY <1>1, <1>2, <1>3
  <1> QED  BY <1>4 DEF Ordered

LEMMA RanksAreAll ==
    ASSUME NEW rows, Ordered(rows)
    PROVE  /\ Cardinality(rows) \in Nat
           /\ \A i \in 1 .. Cardinality(rows) : \E r \in rows : Rank(rows, r) = i - 1
  <1> DEFINE n == Cardinality(rows)
             T == 0 .. n - 1
             f == [r \in rows |-> Rank(rows, r)]
  <1>1. IsFiniteSet(rows) /\ n \in Nat
    BY OrderedIsFinite, FS_CardinalityType
  <1>2. ASSUME NEW r \in rows PROVE Rank(rows, r) \in T
    <2>1. Below(rows, r) \in SUBSET rows /\ r \notin Below(rows, r)
      BY DEF Below, Ordered
    <2>2. /\ Cardinality(Below(rows, r)) <= n /\ Cardinality(Below(rows, r)) # n
          /\ Cardinality(Below(rows, r)) \in Nat
      BY <1>1, <2>1, FS_Subset, FS_CardinalityType
    <2> QED  BY <1>1, <2>2 DEF Rank
  <1>3. IsFiniteSet(T) /\ Cardinality(T) = n
    <2>1. 0 \in Int /\ n - 1 \in Int
      BY <1>1
    <2>2. Cardinality(T) = IF 0 > n - 1 THEN 0 ELSE n - 1 - 0 + 1
      BY <2>1, FS_Interval
    <2>3. IsFiniteSet(T)
      BY <2>1, FS_Interval
    <2> HIDE DEF T
    <2> QED  BY <1>1, <2>2, <2>3
  <1>4. f \in Injection(rows, T)
    <2>1. f \in [rows -> T]
      BY <1>2
    <2>2. \A q, r \in rows : f[q] = f[r] => q = r
      BY RankIsOne
    <2> HIDE DEF f, T
    <2> QED  BY <2>1, <2>2 DEF Injection, IsInjective
  <1>5. f \in Surjection(rows, T)
    <2> HIDE DEF f, T
    <2> QED  BY <1>3, <1>4, FS_Injection
  <1>6. ASSUME NEW i \in 1 .. n PROVE \E r \in rows : Rank(rows, r) = i - 1
    <2>1. i - 1 \in T
      BY <1>1
    <2>2. PICK r \in rows : f[r] = i - 1
      <3> HIDE DEF f, T
      <3> QED  BY <1>5, <2>1 DEF Surjection
    <2> QED  BY <2>2
  <1> QED  BY <1>1, <1>6

(* The bodies of rows by seq, as list gives them.                          *)
ListOf(rows) == [i \in 1 .. Cardinality(rows) |->
                    (CHOOSE r \in rows : Rank(rows, r) = i - 1).body]

LEMMA EntryOf ==
    ASSUME NEW rows, Ordered(rows), NEW r \in rows, NEW i, Rank(rows, r) = i - 1
    PROVE  (CHOOSE q \in rows : Rank(rows, q) = i - 1) = r
  BY RankIsOne

LEMMA ListIs ==
    ASSUME ChainInv, NEW t
    PROVE  list(t) = ListOf(Chain(t))
  <1>1. Ordered(Chain(t))
    BY LogOrdered
  <1>2. \A r \in Chain(t) : Cardinality(Before(r)) = Rank(Chain(t), r)
    BY DEF Before, Rank, Below, Chain
  <1> DEFINE At(i) == CHOOSE r \in Chain(t) : Cardinality(Before(r)) = i - 1
             Of(i) == CHOOSE r \in Chain(t) : Rank(Chain(t), r) = i - 1
  <1>3. ASSUME NEW i \in 1 .. Cardinality(Chain(t)) PROVE At(i) = Of(i)
    <2>1. PICK r \in Chain(t) : Rank(Chain(t), r) = i - 1
      BY <1>1, RanksAreAll
    <2>2. Of(i) = r
      BY <1>1, <2>1, EntryOf
    <2>3. At(i) = r
      BY <1>1, <1>2, <2>1, RankIsOne
    <2> QED  BY <2>2, <2>3
  <1>4. list(t) = [i \in 1 .. Cardinality(Chain(t)) |-> At(i).body]
    BY DEF list
  <1>5. ListOf(Chain(t)) = [i \in 1 .. Cardinality(Chain(t)) |-> Of(i).body]
    BY DEF ListOf
  <1> HIDE DEF At, Of
  <1> QED  BY <1>3, <1>4, <1>5

(* A row above all others is added at the end.                             *)
LEMMA ListAppends ==
    ASSUME NEW rows, NEW n, Ordered(rows), n.seq \in Nat, \A r \in rows : r.seq < n.seq
    PROVE  ListOf(rows \cup {n}) = Append(ListOf(rows), n.body)
  <1> DEFINE more == rows \cup {n}
             c == Cardinality(rows)
             S == {r.body : r \in more}
  <1>1. IsFiniteSet(rows) /\ c \in Nat /\ \A r \in rows : r.seq \in Nat
    BY OrderedIsFinite, FS_CardinalityType DEF Ordered
  <1>2. n \notin rows
    BY <1>1
  <1>3. Cardinality(more) = c + 1
    BY <1>1, <1>2, FS_AddElement
  <1>4. Ordered(more)
    <2>1. \A r \in more : r.seq \in Nat /\ r.seq <= n.seq
      BY <1>1
    <2>2. \A r, q \in more : q.seq = r.seq => q = r
      BY <1>1 DEF Ordered
    <2> QED  BY <2>1, <2>2 DEF Ordered
  <1>5. \A r \in rows : Rank(more, r) = Rank(rows, r)
    <2>1. \A r \in rows : Below(more, r) = Below(rows, r)
      BY <1>1 DEF Below
    <2> QED  BY <2>1 DEF Rank
  <1>6. Rank(more, n) = c
    <2>1. Below(more, n) = rows
      BY DEF Below
    <2> QED  BY <2>1 DEF Rank
  <1>7. ASSUME NEW i \in 1 .. c
        PROVE  ListOf(more)[i] = ListOf(rows)[i] /\ ListOf(rows)[i] \in S
    <2>1. PICK r \in rows : Rank(rows, r) = i - 1
      BY RanksAreAll
    <2>2. ListOf(rows)[i] = r.body
      <3>1. (CHOOSE q \in rows : Rank(rows, q) = i - 1) = r
        BY <2>1, EntryOf
      <3> QED  BY <3>1 DEF ListOf
    <2>3. ListOf(more)[i] = r.body
      <3> HIDE DEF more
      <3>1. r \in more /\ Rank(more, r) = i - 1
        BY <1>5, <2>1 DEF more
      <3>2. (CHOOSE q \in more : Rank(more, q) = i - 1) = r
        BY <1>4, <3>1, EntryOf
      <3>3. i \in 1 .. Cardinality(more)
        BY <1>1, <1>3
      <3> QED  BY <3>2, <3>3 DEF ListOf
    <2> QED  BY <2>1, <2>2, <2>3
  <1>8. ListOf(more)[c + 1] = n.body
    <2> HIDE DEF more
    <2>1. n \in more /\ Rank(more, n) = (c + 1) - 1
      BY <1>1, <1>6 DEF more
    <2>2. (CHOOSE q \in more : Rank(more, q) = (c + 1) - 1) = n
      BY <1>4, <2>1, EntryOf
    <2>3. c + 1 \in 1 .. Cardinality(more)
      BY <1>1, <1>3
    <2> QED  BY <2>2, <2>3 DEF ListOf
  <1>9. /\ ListOf(rows) = [i \in 1 .. c |-> ListOf(rows)[i]]
        /\ ListOf(more) = [i \in 1 .. c + 1 |-> ListOf(more)[i]]
    BY <1>3 DEF ListOf
  <1>10. ListOf(rows) \in Seq(S) /\ Len(ListOf(rows)) = c /\ n.body \in S
    <2> HIDE DEF c, S
    <2>1. ListOf(rows) \in [1 .. c -> S]
      BY <1>7, <1>9
    <2>2. n.body \in S
      BY DEF S
    <2> QED  BY <1>1, <2>1, <2>2
  <1>11. Append(ListOf(rows), n.body)
            = [i \in 1 .. c + 1 |-> IF i <= c THEN ListOf(rows)[i] ELSE n.body]
    <2> HIDE DEF c, S
    <2> QED  BY <1>1, <1>10
  <1> QED
    <2> HIDE DEF c, S, more
    <2>1. \A i \in 1 .. c + 1 : ListOf(more)[i] = IF i <= c THEN ListOf(rows)[i] ELSE n.body
      BY <1>1, <1>7, <1>8
    <2>2. ListOf(more) = Append(ListOf(rows), n.body)
      BY <1>9, <1>11, <2>1
    <2> QED  BY <2>2 DEF more

LEMMA ListsInvariant == Spec => [](\A t : list(t) = ListOf(Chain(t)))
  <1>1. ChainInv => \A t : list(t) = ListOf(Chain(t))
    BY ListIs
  <1> QED  BY <1>1, ChainInit, ChainStep, PTL DEF Spec

(* For the tenants whose records do not overlap the table implements the   *)
(* append-only log of AuditLog: the commit of a record adds its event at   *)
(* the end of list, every other step, of whichever tenant, leaves list as  *)
(* it is.                                                                  *)
THEOREM ListOnlyAppends == Spec => IsAppendOnly
  <1> DEFINE Listed == \A t : list(t) = ListOf(Chain(t))
             bar == [t \in Sole |-> list(t)]
  <1>1. ASSUME Init, Listed PROVE bar = [t \in Sole |-> <<>>]
    <2>1. ASSUME NEW t \in Sole PROVE list(t) = <<>>
      <3>1. Chain(t) = {} /\ Cardinality(Chain(t)) = 0
        BY <1>1, FS_EmptySet DEF Init, Chain
      <3> QED  BY <3>1 DEF list
    <2> QED  BY <2>1
  <1>2. ASSUME ChainInv, SoleInv, TypeInv, Listed, Listed', [Next]_vars
        PROVE  [\E t \in Sole, b \in Bodies : bar' = [bar EXCEPT ![t] = Append(@, b)]]_bar
    <2>1. ASSUME NEW t, Chain(t)' = Chain(t) PROVE list(t)' = list(t)
      BY <1>2, <2>1
    <2>2. CASE log' = log
      <3>1. \A t : list(t)' = list(t)
        BY <2>1, <2>2 DEF Chain
      <3>2. bar' = bar
        BY <3>1
      <3> QED  BY <3>2
    <2>3. ASSUME NEW w \in Writers, Commit(w)
          PROVE  [\E t \in Sole, b \in Bodies : bar' = [bar EXCEPT ![t] = Append(@, b)]]_bar
      <3>1. PICK n : tx[w].pending = {n}
        BY <1>2, <2>3 DEF Commit, TypeInv, TxTyped
      <3>2. /\ log' = log \cup {n} /\ n.tenant = Owner[w] /\ n.body \in Bodies
            /\ n.seq \in Nat
        BY <1>2, <2>3, <3>1 DEF Commit, SoleInv, TypeInv, RowTyped, ChainInv, TxOK, Sound
      <3>3. ASSUME NEW t, t # Owner[w] PROVE list(t)' = list(t)
        BY <2>1, <3>2, <3>3 DEF Chain
      <3>4. CASE Owner[w] \notin Sole
        <4>1. \A t \in Sole : list(t)' = list(t)
          BY <3>3, <3>4
        <4>2. bar' = bar
          BY <4>1
        <4> QED  BY <4>2
      <3>5. CASE Owner[w] \in Sole
        <4>1. Alone(w)
          BY <3>5 DEF Sole, Alone
        <4>2. \A q \in Chain(Owner[w]) : q.seq < n.seq
          BY <1>2, <3>1, <4>1 DEF SoleInv, OneByOne
        <4>3. Chain(Owner[w])' = Chain(Owner[w]) \cup {n}
          BY <3>2 DEF Chain
        <4>4. Ordered(Chain(Owner[w]))
          BY <1>2, LogOrdered
        <4>5. ListOf(Chain(Owner[w]) \cup {n}) = Append(ListOf(Chain(Owner[w])), n.body)
          BY <3>2, <4>2, <4>4, ListAppends
        <4>6. list(Owner[w])' = Append(list(Owner[w]), n.body)
          BY <1>2, <4>3, <4>5
        <4>7. bar' = [bar EXCEPT ![Owner[w]] = Append(@, n.body)]
          BY <3>3, <3>5, <4>6
        <4> QED  BY <3>2, <3>5, <4>7
      <3> QED  BY <3>4, <3>5
    <2>4. ASSUME NEW w \in Writers, Snapshot(w) \/ Lock(w) \/ Insert(w) \/ Rollback(w)
          PROVE  log' = log
      BY <2>4 DEF Snapshot, Lock, Insert, Rollback
    <2> QED  BY <1>2, <2>2, <2>3, <2>4 DEF Next, Step, vars
  <1> HIDE DEF bar, Listed
  <1>3. Spec => []Listed
    BY ListsInvariant DEF Listed
  <1>4. Spec => bar = [t \in Sole |-> <<>>]
    BY <1>1, <1>3, PTL DEF Spec
  <1>5. Spec => [][\E t \in Sole, b \in Bodies : bar' = [bar EXCEPT ![t] = Append(@, b)]]_bar
    BY <1>2, <1>3, TypesInvariant, PTL DEF Spec
  <1> QED
    BY <1>4, <1>5, PTL DEF IsAppendOnly, Log!Spec, Log!Init, Log!Next, Log!Record, bar
-----------------------------------------------------------------------------
(* Rows altered while the logger goes on recording *)

(* A row as an INSERT leaves it and an UPDATE keeps it.                    *)
RowShape(r) == r = [seq |-> r.seq, tenant |-> r.tenant, body |-> r.body,
                    prev |-> r.prev, hash |-> r.hash]

RowKnown(r) == RowShape(r) /\ r.seq \in Nat /\ r.seq < nextSeq

(* Rows and transactions, whatever was altered: no seq is used twice, and  *)
(* a row that is not committed is as its writer left it.                   *)
RowsKnown ==
    /\ nextSeq \in Nat /\ TxShape(tx)
    /\ \A r \in log : RowKnown(r) /\ \A q \in log : q.seq = r.seq => q = r
    /\ tampered \subseteq {r.seq : r \in log}
    /\ \A w \in Writers :
        /\ tx[w].pc \in {"idle", "locking", "holding", "inserted"}
        /\ tx[w].pc # "inserted" => tx[w].pending = {}
        /\ \A r \in tx[w].pending :
            /\ RowKnown(r) /\ r.tenant = Owner[w]
            /\ r.hash = hashEvent(r.prev, r.tenant, r.body)
            /\ \A q \in log : q.seq # r.seq
            /\ \A v \in Writers : \A q \in tx[v].pending : q.seq = r.seq => q = r /\ v = w
            /\ \A q \in tx[w].pending : q = r

(* A hash that does not cover its row tells that the row was altered.      *)
HashesTell ==
    \A r \in log : r.seq \in tampered <=> r.hash # hashEvent(r.prev, r.tenant, r.body)

(* A row agrees if neither it nor one before it was altered.               *)
UnalteredAgree(t) ==
    \A r \in Chain(t) :
        r.seq \notin tampered /\ (\A q \in Before(r) : q.seq \notin tampered) => ~Disagrees(r)

(* What a writer alone knows of the end of its chain: it waits for or      *)
(* holds the lock of the last row, and the hash it read is the one there.  *)
EndKnown(w) ==
    /\ tx[w].pc = "locking" => IsLast(tx[w].tail, Owner[w])
    /\ tx[w].pc \in {"holding", "inserted"} =>
        /\ tx[w].prev = EndHash(Owner[w])
        /\ Chain(Owner[w]) # {} => IsLast(tx[w].tail, Owner[w])
    /\ \A r \in tx[w].pending : /\ r.prev = tx[w].prev
                                /\ \A q \in Chain(Owner[w]) : q.seq < r.seq

ChainsKnown ==
    \A w \in Writers : Alone(w) => UnalteredAgree(Owner[w]) /\ EndKnown(w)

TamperInv == RowsKnown /\ HashesTell /\ ChainsKnown

LEMMA RowsOrdered ==
    ASSUME RowsKnown
    PROVE  /\ Ordered(log) /\ \A t : Ordered(Chain(t))
           /\ \A r : Ordered(Before(r))
  <1>1. Ordered(log)
    <2>1. nextSeq \in Nat /\ \A r \in log : r.seq \in Nat /\ r.seq <= nextSeq
      BY DEF RowsKnown, RowKnown
    <2> QED  BY <2>1 DEF RowsKnown, Ordered
  <1>2. ASSUME NEW rows, rows \subseteq log PROVE Ordered(rows)
    BY <1>1, <1>2 DEF Ordered
  <1> QED  BY <1>1, <1>2 DEF Chain, Before

(* A transaction without a row of its own goes on.                         *)
LEMMA RowsRest ==
    ASSUME RowsKnown, NEW w \in Writers, UNCHANGED <<log, nextSeq, tampered>>,
           NEW p \in {"idle", "locking", "holding"}, NEW s, NEW h,
           tx' = [tx EXCEPT ![w] = Tx(p, s, h, {})]
    PROVE  RowsKnown'
  <1>0. TxShape(tx)
    BY DEF RowsKnown
  <1>1. TxShape(tx')
    BY <1>0, ShapeKeeps
  <1>2. \A v \in Writers : v # w => tx'[v] = tx[v]
    BY <1>0, ShapeKeeps
  <1>3. tx'[w].pc = p /\ tx'[w].pending = {}
    <2>1. tx'[w] = Tx(p, s, h, {})
      BY <1>0 DEF TxShape
    <2> QED  BY <2>1 DEF Tx
  <1>4. \A v \in Writers : tx'[v].pending \subseteq tx[v].pending
    BY <1>2, <1>3
  <1>5. ASSUME NEW v \in Writers
        PROVE  /\ tx'[v].pc \in {"idle", "locking", "holding", "inserted"}
               /\ tx'[v].pc # "inserted" => tx'[v].pending = {}
    BY <1>2, <1>3 DEF RowsKnown
  <1>6. ASSUME NEW v \in Writers, NEW r \in tx'[v].pending
        PROVE  /\ RowKnown(r)' /\ r.tenant = Owner[v]
               /\ r.hash = hashEvent(r.prev, r.tenant, r.body)
               /\ \A q \in log' : q.seq # r.seq
               /\ \A u \in Writers : \A q \in tx'[u].pending : q.seq = r.seq => q = r /\ u = v
               /\ \A q \in tx'[v].pending : q = r
    BY <1>4, <1>6 DEF RowsKnown, RowKnown, RowShape
  <1>7. /\ nextSeq' \in Nat
        /\ \A r \in log' : RowKnown(r)' /\ \A q \in log' : q.seq = r.seq => q = r
        /\ tampered' \subseteq {r.seq : r \in log'}
    BY DEF RowsKnown, RowKnown, RowShape
  <1> QED  BY <1>1, <1>5, <1>6, <1>7 DEF RowsKnown

LEMMA RowsInsert ==
    ASSUME RowsKnown, NEW w \in Writers, Insert(w), UNCHANGED tampered
    PROVE  RowsKnown'
  <1>1. PICK b \in Bodies :
          tx' = [tx EXCEPT ![w] = Tx("inserted", tx[w].tail, tx[w].prev, {Row(w, b)})]
    BY DEF Insert
  <1>n. PICK n : n = Row(w, b)
    OBVIOUS
  <1>2. /\ n.seq = nextSeq /\ n.tenant = Owner[w] /\ n.prev = tx[w].prev
        /\ n.hash = hashEvent(n.prev, n.tenant, n.body) /\ RowShape(n)
    BY <1>n DEF Row, RowShape
  <1>3. nextSeq \in Nat /\ nextSeq' = nextSeq + 1 /\ log' = log
    BY DEF Insert, RowsKnown
  <1>0. TxShape(tx)
    BY DEF RowsKnown
  <1>4. TxShape(tx')
    BY <1>0, <1>1, <1>n, ShapeKeeps
  <1>5. \A v \in Writers : v # w => tx'[v] = tx[v]
    BY <1>0, <1>1, <1>n, ShapeKeeps
  <1>6. tx'[w].pc = "inserted" /\ tx'[w].pending = {n}
    <2>1. tx'[w] = Tx("inserted", tx[w].tail, tx[w].prev, {n})
      BY <1>0, <1>1, <1>n DEF TxShape
    <2> QED  BY <2>1 DEF Tx
  <1>7. \A r : RowKnown(r) => RowKnown(r)' /\ r.seq # nextSeq
    BY <1>3, SMT DEF RowKnown, RowShape
  <1>8. /\ RowKnown(n)' /\ \A r \in log : r.seq # n.seq
        /\ \A v \in Writers : \A r \in tx[v].pending : r.seq # n.seq
    <2>1. RowKnown(n)'
      BY <1>2, <1>3 DEF RowKnown, RowShape
    <2> QED  BY <2>1, <1>2, <1>7 DEF RowsKnown
  <1>9. ASSUME NEW v \in Writers
        PROVE  /\ tx'[v].pc \in {"idle", "locking", "holding", "inserted"}
               /\ tx'[v].pc # "inserted" => tx'[v].pending = {}
    BY <1>5, <1>6 DEF RowsKnown
  <1>10. ASSUME NEW v \in Writers, NEW r \in tx'[v].pending
        PROVE  /\ RowKnown(r)' /\ r.tenant = Owner[v]
               /\ r.hash = hashEvent(r.prev, r.tenant, r.body)
               /\ \A q \in log' : q.seq # r.seq
               /\ \A u \in Writers : \A q \in tx'[u].pending : q.seq = r.seq => q = r /\ u = v
               /\ \A q \in tx'[v].pending : q = r
    <2>1. CASE v = w
      <3>1. r = n
        BY <1>6, <1>10, <2>1
      <3>2. \A u \in Writers : \A q \in tx'[u].pending : q.seq = n.seq => q = n /\ u = w
        BY <1>5, <1>6, <1>8
      <3> QED  BY <1>2, <1>3, <1>6, <1>8, <2>1, <3>1, <3>2
    <2>2. CASE v # w
      <3>1. tx'[v] = tx[v] /\ r \in tx[v].pending
        BY <1>5, <1>10, <2>2
      <3>2. \A u \in Writers : \A q \in tx'[u].pending : q.seq = r.seq => q = r /\ u = v
        BY <1>5, <1>6, <1>8, <3>1 DEF RowsKnown
      <3> QED  BY <1>3, <1>7, <3>1, <3>2 DEF RowsKnown
    <2> QED  BY <2>1, <2>2
  <1>11. /\ nextSeq' \in Nat
         /\ \A r \in log' : RowKnown(r)' /\ \A q \in log' : q.seq = r.seq => q = r
         /\ tampered' \subseteq {r.seq : r \in log'}
    BY <1>3, <1>7 DEF RowsKnown
  <1> QED  BY <1>4, <1>9, <1>10, <1>11 DEF RowsKnown

LEMMA RowsCommit ==
    ASSUME RowsKnown, NEW w \in Writers, Commit(w), UNCHANGED tampered
    PROVE  RowsKnown'
  <1>1. log' = log \cup tx[w].pending /\ nextSeq' = nextSeq
        /\ tx' = [tx EXCEPT ![w] = Tx("idle", 0, Genesis, {})]
    BY DEF Commit, Idle
  <1>0. TxShape(tx)
    BY DEF RowsKnown
  <1>2. TxShape(tx')
    BY <1>0, <1>1, ShapeKeeps
  <1>3. \A v \in Writers : v # w => tx'[v] = tx[v]
    BY <1>0, <1>1, ShapeKeeps
  <1>4. tx'[w].pc = "idle" /\ tx'[w].pending = {}
    <2>1. tx'[w] = Tx("idle", 0, Genesis, {})
      BY <1>0, <1>1 DEF TxShape
    <2> QED  BY <2>1 DEF Tx
  <1>5. \A r : RowKnown(r)' <=> RowKnown(r)
    BY <1>1 DEF RowKnown, RowShape
  <1>6. ASSUME NEW v \in Writers
        PROVE  /\ tx'[v].pc \in {"idle", "locking", "holding", "inserted"}
               /\ tx'[v].pc # "inserted" => tx'[v].pending = {}
    BY <1>3, <1>4 DEF RowsKnown
  <1>7. ASSUME NEW v \in Writers, NEW r \in tx'[v].pending
        PROVE  /\ RowKnown(r)' /\ r.tenant = Owner[v]
               /\ r.hash = hashEvent(r.prev, r.tenant, r.body)
               /\ \A q \in log' : q.seq # r.seq
               /\ \A u \in Writers : \A q \in tx'[u].pending : q.seq = r.seq => q = r /\ u = v
               /\ \A q \in tx'[v].pending : q = r
    <2>1. v # w /\ r \in tx[v].pending /\ tx'[v] = tx[v]
      BY <1>3, <1>4, <1>7
    <2>2. \A q \in log' : q.seq # r.seq
      BY <1>1, <2>1 DEF RowsKnown
    <2>3. \A u \in Writers : tx'[u].pending \subseteq tx[u].pending
      BY <1>3, <1>4
    <2> QED  BY <1>5, <2>1, <2>2, <2>3 DEF RowsKnown
  <1>8. \A r \in log' : RowKnown(r)' /\ \A q \in log' : q.seq = r.seq => q = r
    BY <1>1, <1>5 DEF RowsKnown
  <1>9. nextSeq' \in Nat /\ tampered' \subseteq {r.seq : r \in log'}
    <2>1. log \subseteq log'
      BY <1>1
    <2> QED  BY <1>1, <2>1 DEF RowsKnown
  <1> QED  BY <1>2, <1>6, <1>7, <1>8, <1>9 DEF RowsKnown

(* What an UPDATE does to a row.                                           *)
Altered(r, q) ==
    /\ RowShape(q) /\ q # r /\ q.seq = r.seq /\ q.tenant = r.tenant
    /\ \/ q.prev = r.prev /\ q.hash = r.hash
       \/ q.body = r.body /\ q.hash = r.hash
       \/ q.body = r.body /\ q.prev = r.prev

LEMMA TamperAlters ==
    ASSUME RowsKnown, NEW r \in log, Tamper(r)
    PROVE  \E q : Altered(r, q) /\ log' = (log \ {r}) \cup {q}
  <1>1. RowShape(r)
    BY DEF RowsKnown, RowKnown
  <1>2. PICK q \in {[r EXCEPT !.body = b] : b \in Bodies}
                   \cup {[r EXCEPT !.prev = hashEvent(r.hash, r.tenant, r.body)],
                         [r EXCEPT !.hash = hashEvent(r.hash, r.tenant, r.body)]} :
          q # r /\ log' = (log \ {r}) \cup {q}
    BY DEF Tamper
  <1>3. Altered(r, q)
    <2>1. CASE q \in {[r EXCEPT !.body = b] : b \in Bodies}
      <3>1. PICK b \in Bodies : q = [r EXCEPT !.body = b]
        BY <2>1
      <3>2. q = [seq |-> r.seq, tenant |-> r.tenant, body |-> b, prev |-> r.prev, hash |-> r.hash]
        BY <1>1, <3>1 DEF RowShape
      <3> QED  BY <1>2, <3>2 DEF Altered, RowShape
    <2>2. ASSUME NEW h, q = [r EXCEPT !.prev = h] PROVE Altered(r, q)
      <3>1. q = [seq |-> r.seq, tenant |-> r.tenant, body |-> r.body, prev |-> h, hash |-> r.hash]
        BY <1>1, <2>2 DEF RowShape
      <3> QED  BY <1>2, <3>1 DEF Altered, RowShape
    <2>3. ASSUME NEW h, q = [r EXCEPT !.hash = h] PROVE Altered(r, q)
      <3>1. q = [seq |-> r.seq, tenant |-> r.tenant, body |-> r.body, prev |-> r.prev, hash |-> h]
        BY <1>1, <2>3 DEF RowShape
      <3> QED  BY <1>2, <3>1 DEF Altered, RowShape
    <2> QED  BY <1>2, <2>1, <2>2, <2>3
  <1> QED  BY <1>2, <1>3

LEMMA RowsTamper ==
    ASSUME RowsKnown, NEW r \in log, Tamper(r)
    PROVE  RowsKnown'
  <1>1. PICK q : Altered(r, q) /\ log' = (log \ {r}) \cup {q}
    BY TamperAlters
  <1>2. tampered' = tampered \cup {r.seq} /\ UNCHANGED <<tx, nextSeq>>
    BY DEF Tamper
  <1>3. \A p : RowKnown(p)' <=> RowKnown(p)
    BY <1>2 DEF RowKnown, RowShape
  <1>4. RowKnown(q) /\ q.seq = r.seq /\ RowKnown(r)
    BY <1>1 DEF Altered, RowsKnown, RowKnown
  <1>5. \A p \in log' : p = q \/ (p \in log /\ p.seq # q.seq)
    BY <1>1, <1>4 DEF RowsKnown
  <1>6. {p.seq : p \in log'} = {p.seq : p \in log}
    <2>1. \A p \in log : p = r \/ p \in log'
      BY <1>1
    <2>2. \A p \in log : \E u \in log' : u.seq = p.seq
      BY <1>1, <1>4, <2>1
    <2>3. \A p \in log' : \E u \in log : u.seq = p.seq
      BY <1>4, <1>5
    <2> QED  BY <2>2, <2>3
  <1>7. tampered' \subseteq {p.seq : p \in log'}
    BY <1>2, <1>6 DEF RowsKnown
  <1>8. \A p \in log' : RowKnown(p)' /\ \A u \in log' : u.seq = p.seq => u = p
    BY <1>3, <1>4, <1>5 DEF RowsKnown
  <1>9. ASSUME NEW v \in Writers, NEW p \in tx[v].pending
        PROVE  \A u \in log' : u.seq # p.seq
    BY <1>4, <1>5 DEF RowsKnown
  <1> QED  BY <1>2, <1>3, <1>7, <1>8, <1>9 DEF RowsKnown, TxShape

(* An UPDATE of one field leaves a hash that does not cover the row.       *)
LEMMA HashesKept ==
    ASSUME RowsKnown, HashesTell, [TamperNext]_<<vars, tampered>>
    PROVE  HashesTell'
  <1>1. ASSUME NEW w \in Writers, Commit(w), UNCHANGED tampered PROVE HashesTell'
    <2>1. log' = log \cup tx[w].pending
      BY <1>1 DEF Commit
    <2>2. \A r \in tx[w].pending :
            r.hash = hashEvent(r.prev, r.tenant, r.body) /\ r.seq \notin tampered
      BY DEF RowsKnown
    <2> QED  BY <1>1, <2>1, <2>2 DEF HashesTell
  <1>2. ASSUME NEW r \in log, Tamper(r) PROVE HashesTell'
    <2>1. PICK q : Altered(r, q) /\ log' = (log \ {r}) \cup {q}
      BY <1>2, TamperAlters
    <2>2. tampered' = tampered \cup {r.seq} /\ r.seq \notin tampered
      BY <1>2 DEF Tamper
    <2>3. \A p \in log' : p # q => p \in log /\ p.seq # r.seq
      BY <2>1 DEF RowsKnown
    <2>4. q.seq = r.seq /\ q.hash # hashEvent(q.prev, q.tenant, q.body)
      <3>1. r.hash = hashEvent(r.prev, r.tenant, r.body) /\ RowShape(r)
        BY <2>2 DEF HashesTell, RowsKnown, RowKnown
      <3>2. RowShape(q) /\ q # r /\ q.seq = r.seq /\ q.tenant = r.tenant
        BY <2>1 DEF Altered
      <3>3. CASE q.prev = r.prev /\ q.hash = r.hash
        <4>1. q.body # r.body
          BY <3>1, <3>2, <3>3 DEF RowShape
        <4> QED  BY <3>1, <3>2, <3>3, <4>1 DEF hashEvent
      <3>4. CASE q.body = r.body /\ q.hash = r.hash
        <4>1. q.prev # r.prev
          BY <3>1, <3>2, <3>4 DEF RowShape
        <4> QED  BY <3>1, <3>2, <3>4, <4>1 DEF hashEvent
      <3>5. CASE q.body = r.body /\ q.prev = r.prev
        <4>1. q.hash # r.hash
          BY <3>1, <3>2, <3>5 DEF RowShape
        <4> QED  BY <3>1, <3>2, <3>5, <4>1
      <3> QED  BY <2>1, <3>2, <3>3, <3>4, <3>5 DEF Altered
    <2> QED  BY <2>2, <2>3, <2>4 DEF HashesTell
  <1>3. CASE UNCHANGED <<log, tampered>>
    BY <1>3 DEF HashesTell
  <1> QED
    BY <1>1, <1>2, <1>3
       DEF TamperNext, Next, Step, Snapshot, Lock, Insert, Rollback, vars

(* What is known of a chain stays so while nobody touches it.              *)
LEMMA DisagreeStays ==
    ASSUME NEW t, Chain(t)' = Chain(t), UnalteredAgree(t),
           \A r \in Chain(t) : r.seq \in tampered' <=> r.seq \in tampered
    PROVE  UnalteredAgree(t)'
  <1>1. \A r \in Chain(t) : Before(r)' = Before(r) /\ (Disagrees(r)' <=> Disagrees(r))
    BY SameRows
  <1>2. ASSUME NEW r \in Chain(t) PROVE Before(r) \subseteq Chain(t)
    BY DEF Before, Chain
  <1> QED  BY <1>1, <1>2 DEF UnalteredAgree

LEMMA EndStays ==
    ASSUME NEW w \in Writers, EndKnown(w), tx'[w] = tx[w],
           Chain(Owner[w])' = Chain(Owner[w])
    PROVE  EndKnown(w)'
  BY SameRows DEF EndKnown

LEMMA EndRests ==
    ASSUME NEW w \in Writers, UNCHANGED <<log, tampered>>, RowsKnown,
           NEW p \in {"idle", "locking", "holding", "inserted"}, NEW s, NEW h, NEW d,
           tx' = [tx EXCEPT ![w] = Tx(p, s, h, d)],
           p = "locking" => IsLast(s, Owner[w]),
           p \in {"holding", "inserted"} =>
                h = EndHash(Owner[w]) /\ (Chain(Owner[w]) # {} => IsLast(s, Owner[w])),
           \A r \in d : r.prev = h /\ \A q \in Chain(Owner[w]) : q.seq < r.seq
    PROVE  EndKnown(w)'
  <1>1. tx'[w].pc = p /\ tx'[w].tail = s /\ tx'[w].prev = h /\ tx'[w].pending = d
    <2>1. tx'[w] = Tx(p, s, h, d)
      BY DEF RowsKnown, TxShape
    <2> QED  BY <2>1 DEF Tx
  <1>2. Chain(Owner[w])' = Chain(Owner[w])
    BY DEF Chain
  <1>3. EndHash(Owner[w])' = EndHash(Owner[w]) /\ \A q : IsLast(q, Owner[w])' <=> IsLast(q, Owner[w])
    BY <1>2, SameRows
  <1>4. (IsLast(tx[w].tail, Owner[w]))' <=> IsLast(s, Owner[w])
    BY <1>1, <1>2 DEF IsLast
  <1> QED  BY <1>1, <1>2, <1>3, <1>4 DEF EndKnown

(* The other writers and their tenants, when w does something.             *)
LEMMA OneMoves ==
    ASSUME RowsKnown, NEW w \in Writers, UNCHANGED tampered,
           \A v \in Writers : v # w => tx'[v] = tx[v],
           ChainsKnown,
           \A t : t # Owner[w] => Chain(t)' = Chain(t),
           Alone(w) => UnalteredAgree(Owner[w])' /\ EndKnown(w)'
    PROVE  ChainsKnown'
  <1>1. ASSUME NEW v \in Writers, Alone(v), v # w
        PROVE  UnalteredAgree(Owner[v])' /\ EndKnown(v)'
    <2>1. Chain(Owner[v])' = Chain(Owner[v])
      BY <1>1 DEF Alone
    <2> QED  BY <1>1, <2>1, DisagreeStays, EndStays DEF ChainsKnown
  <1> QED  BY <1>1 DEF ChainsKnown, Alone

(* A writer that does not commit leaves the rows as they are.              *)
LEMMA ChainsStay ==
    ASSUME RowsKnown, ChainsKnown, NEW w \in Writers, UNCHANGED <<log, tampered>>, RowsKnown',
           NEW p \in {"idle", "locking", "holding", "inserted"}, NEW s, NEW h, NEW d,
           tx' = [tx EXCEPT ![w] = Tx(p, s, h, d)],
           p = "locking" => IsLast(s, Owner[w]),
           p \in {"holding", "inserted"} /\ Alone(w) =>
                h = EndHash(Owner[w]) /\ (Chain(Owner[w]) # {} => IsLast(s, Owner[w])),
           \A r \in d : r.prev = h /\ \A q \in Chain(Owner[w]) : q.seq < r.seq
    PROVE  RowsKnown' /\ ChainsKnown'
  <1>0. RowsKnown
    OBVIOUS
  <1>1. \A t : Chain(t)' = Chain(t)
    BY DEF Chain
  <1>2. \A v \in Writers : v # w => tx'[v] = tx[v]
    BY <1>0 DEF RowsKnown, TxShape
  <1>3. ASSUME Alone(w) PROVE UnalteredAgree(Owner[w])' /\ EndKnown(w)'
    <2>1. EndKnown(w)'
      BY <1>0, <1>3, EndRests
    <2>2. UnalteredAgree(Owner[w])
      BY <1>3 DEF ChainsKnown
    <2> QED  BY <1>1, <2>1, <2>2, DisagreeStays
  <1> QED  BY <1>0, <1>1, <1>2, <1>3, OneMoves

(* The same for one without a row of its own.                              *)
LEMMA ChainsRest ==
    ASSUME RowsKnown, ChainsKnown, NEW w \in Writers, UNCHANGED <<log, nextSeq, tampered>>,
           NEW p \in {"idle", "locking", "holding"}, NEW s, NEW h,
           tx' = [tx EXCEPT ![w] = Tx(p, s, h, {})],
           p = "locking" => IsLast(s, Owner[w]),
           p = "holding" /\ Alone(w) =>
                h = EndHash(Owner[w]) /\ (Chain(Owner[w]) # {} => IsLast(s, Owner[w]))
    PROVE  RowsKnown' /\ ChainsKnown'
  <1>1. PICK d : d = {}
    OBVIOUS
  <1>2. RowsKnown'
    BY RowsRest
  <1>3. /\ \A r \in d : r.prev = h /\ \A q \in Chain(Owner[w]) : q.seq < r.seq
        /\ p \in {"idle", "locking", "holding", "inserted"}
        /\ p \in {"holding", "inserted"} /\ Alone(w) =>
                h = EndHash(Owner[w]) /\ (Chain(Owner[w]) # {} => IsLast(s, Owner[w]))
        /\ tx' = [tx EXCEPT ![w] = Tx(p, s, h, d)]
    BY <1>1
  <1>4. UNCHANGED <<log, tampered>>
    OBVIOUS
  <1> QED  BY ONLY <1>2, <1>3, <1>4, RowsKnown, ChainsKnown, w \in Writers,
              p = "locking" => IsLast(s, Owner[w]), ChainsStay

LEMMA WriterStays ==
    ASSUME RowsKnown, ChainsKnown, NEW w \in Writers, Snapshot(w) \/ Lock(w) \/ Insert(w) \/ Rollback(w),
           UNCHANGED tampered
    PROVE  RowsKnown' /\ ChainsKnown'
  <1>0. RowsKnown
    OBVIOUS
  <1>1. CASE Snapshot(w) /\ Chain(Owner[w]) = {}
    <2>1. tx' = [tx EXCEPT ![w] = Tx("holding", 0, Genesis, {})] /\ UNCHANGED <<log, nextSeq>>
      BY <1>1 DEF Snapshot
    <2>2. Genesis = EndHash(Owner[w])
      BY <1>1 DEF EndHash
    <2> QED  BY <1>1, <2>1, <2>2, ChainsRest
  <1>2. CASE Snapshot(w) /\ Chain(Owner[w]) # {}
    <2>1. /\ tx' = [tx EXCEPT ![w] = Tx("locking", Latest(Chain(Owner[w])).seq, Genesis, {})]
          /\ UNCHANGED <<log, nextSeq>>
      BY <1>2 DEF Snapshot
    <2>2. IsLast(Latest(Chain(Owner[w])).seq, Owner[w])
      BY <1>0, <1>2, RowsOrdered, LatestOf DEF IsLast
    <2> QED  BY <2>1, <2>2, ChainsRest
  <1>3. CASE Lock(w)
    <2>1. PICK r \in Chain(Owner[w]) :
            r.seq = tx[w].tail /\ tx' = [tx EXCEPT ![w] = Tx("holding", r.seq, r.hash, {})]
      BY <1>3 DEF Lock
    <2>2. ASSUME Alone(w) PROVE IsLast(r.seq, Owner[w]) /\ r.hash = EndHash(Owner[w])
      <3>1. IsLast(r.seq, Owner[w])
        BY <1>3, <2>1, <2>2 DEF Lock, ChainsKnown, EndKnown
      <3>2. \A q \in Chain(Owner[w]) : q.seq <= r.seq
        BY <3>1 DEF IsLast
      <3>3. Latest(Chain(Owner[w])) = r
        BY <1>0, <3>2, RowsOrdered, LatestIs
      <3> QED  BY <3>1, <3>3 DEF EndHash
    <2>3. UNCHANGED <<log, nextSeq>>
      BY <1>3 DEF Lock
    <2> QED  BY <2>1, <2>2, <2>3, ChainsRest
  <1>4. CASE Insert(w)
    <2>1. PICK b \in Bodies :
            tx' = [tx EXCEPT ![w] = Tx("inserted", tx[w].tail, tx[w].prev, {Row(w, b)})]
      BY <1>4 DEF Insert
    <2>2. Row(w, b).prev = tx[w].prev /\ Row(w, b).seq = nextSeq
      BY DEF Row
    <2>3. \A q \in Chain(Owner[w]) : q.seq < nextSeq
      BY <1>0 DEF RowsKnown, RowKnown, Chain
    <2>4. Alone(w) =>
            /\ tx[w].prev = EndHash(Owner[w])
            /\ Chain(Owner[w]) # {} => IsLast(tx[w].tail, Owner[w])
      BY <1>4 DEF Insert, ChainsKnown, EndKnown
    <2>5. PICK d : d = {Row(w, b)}
      OBVIOUS
    <2>6. \A r \in d : r.prev = tx[w].prev /\ \A q \in Chain(Owner[w]) : q.seq < r.seq
      BY <2>2, <2>3, <2>5
    <2>7. RowsKnown' /\ log' = log
      BY <1>0, <1>4, RowsInsert DEF Insert
    <2> QED  BY <2>1, <2>4, <2>5, <2>6, <2>7, ChainsStay
  <1>5. CASE Rollback(w)
    <2>1. tx' = [tx EXCEPT ![w] = Tx("idle", 0, Genesis, {})] /\ UNCHANGED <<log, nextSeq>>
      BY <1>5 DEF Rollback, Idle
    <2> QED  BY <2>1, ChainsRest
  <1> QED  BY <1>1, <1>2, <1>3, <1>4, <1>5

(* A row at the end of the chain that carries the hash of the one before   *)
(* it agrees.                                                              *)
LEMMA CommitAgrees ==
    ASSUME RowsKnown, NEW t, UnalteredAgree(t), NEW n, log' = log \cup {n}, n.tenant = t,
           n.seq \in Nat, \A r \in Chain(t) : r.seq < n.seq,
           n.prev = EndHash(t), n.hash = hashEvent(n.prev, n.tenant, n.body),
           n.seq \notin tampered, tampered' = tampered
    PROVE  UnalteredAgree(t)'
  <1>0. \A r \in Chain(t) : r.seq \in Nat
    BY DEF RowsKnown, RowKnown, Chain
  <1>1. Chain(t)' = Chain(t) \cup {n}
    BY DEF Chain
  <1>2. Before(n)' = Chain(t)
    BY <1>0, <1>1 DEF Before, Chain
  <1>3. ~Disagrees(n)'
    BY <1>2 DEF Disagrees, PrevHash, EndHash
  <1>4. ASSUME NEW r \in Chain(t) PROVE Before(r)' = Before(r) /\ (Disagrees(r)' <=> Disagrees(r))
    <2>1. r.tenant = t /\ r.seq < n.seq /\ r.seq \in Nat
      BY <1>0 DEF Chain
    <2>2. Before(r)' = Before(r)
      BY <1>1, <2>1 DEF Before, Chain
    <2> QED  BY <2>2 DEF Disagrees, PrevHash
  <1> QED  BY <1>1, <1>3, <1>4 DEF UnalteredAgree

LEMMA WriterCommits ==
    ASSUME RowsKnown, ChainsKnown, NEW w \in Writers, Commit(w), UNCHANGED tampered
    PROVE  RowsKnown' /\ ChainsKnown'
  <1>0. RowsKnown /\ RowsKnown'
    BY RowsCommit
  <1>1. log' = log \cup tx[w].pending /\ tx' = [tx EXCEPT ![w] = Tx("idle", 0, Genesis, {})]
        /\ tx[w].pc = "inserted"
    BY DEF Commit, Idle
  <1>2. \A v \in Writers : v # w => tx'[v] = tx[v]
    BY <1>0, <1>1 DEF RowsKnown, TxShape
  <1>3. tx'[w].pc = "idle" /\ tx'[w].pending = {}
    <2>1. tx'[w] = Tx("idle", 0, Genesis, {})
      BY <1>0, <1>1 DEF RowsKnown, TxShape
    <2> QED  BY <2>1 DEF Tx
  <1>4. \A r \in tx[w].pending :
          /\ r.tenant = Owner[w] /\ r.seq \in Nat /\ \A q \in log : q.seq # r.seq
          /\ r.hash = hashEvent(r.prev, r.tenant, r.body)
          /\ \A q \in tx[w].pending : q = r
    BY <1>0 DEF RowsKnown, RowKnown
  <1>5. \A t : t # Owner[w] => Chain(t)' = Chain(t)
    BY <1>1, <1>4 DEF Chain
  <1>6. ASSUME Alone(w) PROVE UnalteredAgree(Owner[w])' /\ EndKnown(w)'
    <2>1. UnalteredAgree(Owner[w]) /\ EndKnown(w)
      BY <1>6 DEF ChainsKnown
    <2>2. EndKnown(w)'
      BY <1>3 DEF EndKnown
    <2>3. CASE tx[w].pending = {}
      <3>1. Chain(Owner[w])' = Chain(Owner[w])
        BY <1>1, <2>3 DEF Chain
      <3> QED  BY <2>1, <2>2, <3>1, DisagreeStays
    <2>4. ASSUME NEW n \in tx[w].pending PROVE UnalteredAgree(Owner[w])'
      <3>1. tx[w].pending = {n} /\ log' = log \cup {n}
        BY <1>1, <1>4, <2>4
      <3>2. /\ n.prev = EndHash(Owner[w])
            /\ \A q \in Chain(Owner[w]) : q.seq < n.seq
        BY <1>1, <2>1, <2>4 DEF EndKnown
      <3>3. n.seq \notin tampered
        BY <1>0, <1>4, <2>4 DEF RowsKnown
      <3> QED  BY <1>0, <1>4, <2>1, <2>4, <3>1, <3>2, <3>3, CommitAgrees
    <2> QED  BY <2>2, <2>3, <2>4
  <1> QED  BY <1>0, <1>2, <1>5, <1>6, OneMoves

(* The rows before the one that is altered go on to agree.                 *)
LEMMA EarlierAgree ==
    ASSUME RowsKnown, NEW r \in log, NEW q, Altered(r, q), log' = (log \ {r}) \cup {q},
           tampered' = tampered \cup {r.seq}, r.seq \notin tampered, UnalteredAgree(r.tenant)
    PROVE  UnalteredAgree(r.tenant)'
  <1> DEFINE t == r.tenant
  <1>0. /\ \A p \in Chain(t) : p.seq \in Nat /\ p.tenant = t /\ p \in log
        /\ r \in Chain(t) /\ q.seq = r.seq /\ q.tenant = t /\ q # r
        /\ \A p \in log : p # r => p.seq # r.seq
    BY DEF RowsKnown, RowKnown, Chain, Altered
  <1>1. Chain(t)' = (Chain(t) \ {r}) \cup {q}
    BY <1>0 DEF Chain
  <1> HIDE DEF t
  <1>4. ASSUME NEW s \in Chain(t), s # r, ~(r.seq < s.seq)
        PROVE  Before(s)' = Before(s) /\ (Disagrees(s)' <=> Disagrees(s))
    <2>1. s.seq < r.seq
      BY <1>0, <1>4
    <2>2. Before(s)' = {p \in Chain(t)' : p.seq < s.seq}
      BY <1>0 DEF Before
    <2>3. Before(s) = {p \in Chain(t) : p.seq < s.seq}
      BY <1>0 DEF Before
    <2>4. ~(q.seq < s.seq) /\ ~(r.seq < s.seq)
      BY <1>0, <2>1
    <2>5. Before(s)' = Before(s)
      BY <1>1, <2>2, <2>3, <2>4
    <2> QED  BY <2>5 DEF Disagrees, PrevHash
  <1>5. ASSUME NEW s \in Chain(t)', s.seq \notin tampered', \A p \in Before(s)' : p.seq \notin tampered'
        PROVE  ~Disagrees(s)'
    <2>1. s \in Chain(t) /\ s # r /\ s # q
      BY <1>0, <1>1, <1>5
    <2>2. ~(r.seq < s.seq)
      <3>1. ASSUME r.seq < s.seq PROVE q \in Before(s)'
        BY <1>0, <1>1, <2>1, <3>1 DEF Before
      <3> QED  BY <1>0, <1>5, <3>1
    <2>3. Before(s)' = Before(s) /\ (Disagrees(s)' <=> Disagrees(s))
      BY <1>4, <2>1, <2>2
    <2>4. s.seq \notin tampered /\ \A p \in Before(s) : p.seq \notin tampered
      BY <1>5, <2>3
    <2> QED  BY <2>1, <2>3, <2>4 DEF UnalteredAgree, t
  <1> QED  BY <1>5 DEF UnalteredAgree, t

(* The lock of the last row keeps it from being altered while a record     *)
(* builds upon it.                                                         *)
LEMMA EndTampered ==
    ASSUME RowsKnown, RowsKnown', NEW r \in log, NEW q, Altered(r, q), log' = (log \ {r}) \cup {q},
           tx' = tx, NEW w \in Writers, ~Holding(w, r.seq), Owner[w] = r.tenant, EndKnown(w)
    PROVE  EndKnown(w)'
  <1> DEFINE t == Owner[w]
  <1>0. /\ \A p \in Chain(t) : p.seq \in Nat /\ p \in log
        /\ r \in Chain(t) /\ q.seq = r.seq /\ q.tenant = t
        /\ Chain(t)' = (Chain(t) \ {r}) \cup {q}
    BY DEF RowsKnown, RowKnown, Chain, Altered
  <1> HIDE DEF t
  <1>1. \A p \in Chain(t)' : \E o \in Chain(t) : o.seq = p.seq
    BY <1>0
  <1>2. \A p \in Chain(t) : \E o \in Chain(t)' : o.seq = p.seq
    BY <1>0
  <1>3. \A s : IsLast(s, t) => IsLast(s, t)'
    BY <1>1, <1>2 DEF IsLast
  <1>4. IsLast(tx[w].tail, t) => (IsLast(tx[w].tail, t))'
    BY <1>3 DEF IsLast
  <1>5. ASSUME tx[w].pc \in {"holding", "inserted"}
        PROVE  tx[w].prev = EndHash(t)' /\ IsLast(tx[w].tail, t)
    <2>1. tx[w].prev = EndHash(t) /\ IsLast(tx[w].tail, t)
      BY <1>0, <1>5 DEF EndKnown, t
    <2>2. PICK l \in Chain(t) : l.seq = tx[w].tail /\ \A p \in Chain(t) : p.seq <= l.seq
      BY <2>1 DEF IsLast
    <2>3. l # r
      BY <1>5, <2>2 DEF Holding
    <2>4. Latest(Chain(t)) = l
      BY <2>2, RowsOrdered, LatestIs
    <2>5. l \in Chain(t)' /\ \A p \in Chain(t)' : p.seq <= l.seq
      BY <1>0, <1>1, <2>2, <2>3
    <2>6. Ordered(Chain(t)')
      <3>1. PICK rows : rows = Chain(t)'
        OBVIOUS
      <3>2. rows \subseteq log' /\ nextSeq' \in Nat
        BY <3>1 DEF Chain, RowsKnown
      <3>3. \A p \in rows : p.seq \in Nat /\ p.seq <= nextSeq'
        BY <3>2 DEF RowsKnown, RowKnown
      <3>4. \A p, o \in rows : o.seq = p.seq => o = p
        BY <3>2 DEF RowsKnown
      <3> QED  BY <3>1, <3>2, <3>3, <3>4 DEF Ordered
    <2>7. Latest(Chain(t)') = l
      BY <2>5, <2>6, LatestIs
    <2>8. EndHash(t)' = l.hash /\ EndHash(t) = l.hash
      BY <2>2, <2>4, <2>5, <2>7 DEF EndHash
    <2> QED  BY <2>1, <2>8
  <1>6. \A p \in tx[w].pending : /\ p.prev = tx[w].prev
                                 /\ \A o \in Chain(t)' : o.seq < p.seq
    BY <1>1 DEF EndKnown, t
  <1>7. tx[w].pc = "locking" => IsLast(tx[w].tail, t)
    BY DEF EndKnown, t
  <1> QED  BY <1>4, <1>5, <1>6, <1>7 DEF EndKnown, t

LEMMA RowTampered ==
    ASSUME RowsKnown, ChainsKnown, NEW r \in log, Tamper(r)
    PROVE  RowsKnown' /\ ChainsKnown'
  <1>0. RowsKnown /\ RowsKnown'
    BY RowsTamper
  <1>1. PICK q : Altered(r, q) /\ log' = (log \ {r}) \cup {q}
    BY <1>0, TamperAlters
  <1>2. /\ tampered' = tampered \cup {r.seq} /\ tx' = tx /\ r.seq \notin tampered
        /\ \A w \in Writers : ~Holding(w, r.seq)
    BY DEF Tamper
  <1>3. ASSUME NEW w \in Writers, Alone(w), Owner[w] = r.tenant
        PROVE  UnalteredAgree(Owner[w])' /\ EndKnown(w)'
    <2>1. UnalteredAgree(Owner[w]) /\ EndKnown(w)
      BY <1>3 DEF ChainsKnown
    <2>2. EndKnown(w)'
      BY <1>0, <1>1, <1>2, <1>3, <2>1, EndTampered
    <2>3. UnalteredAgree(r.tenant)'
      BY <1>0, <1>1, <1>2, <1>3, <2>1, EarlierAgree
    <2> QED  BY <1>3, <2>2, <2>3
  <1>4. ASSUME NEW w \in Writers, Alone(w), Owner[w] # r.tenant
        PROVE  UnalteredAgree(Owner[w])' /\ EndKnown(w)'
    <2>1. UnalteredAgree(Owner[w]) /\ EndKnown(w)
      BY <1>4 DEF ChainsKnown
    <2>2. Chain(Owner[w])' = Chain(Owner[w])
      BY <1>1, <1>4 DEF Chain, Altered
    <2>3. \A p \in Chain(Owner[w]) : p.seq \in tampered' <=> p.seq \in tampered
      <3>1. \A p \in Chain(Owner[w]) : p \in log /\ p # r
        BY <1>4 DEF Chain
      <3>2. \A p \in Chain(Owner[w]) : p.seq # r.seq
        BY <1>0, <3>1 DEF RowsKnown
      <3> QED  BY <1>2, <3>2
    <2> QED  BY <1>2, <2>1, <2>2, <2>3, DisagreeStays, EndStays
  <1> QED  BY <1>0, <1>3, <1>4 DEF ChainsKnown, Alone

LEMMA TamperInvariant == TamperSpec => []TamperInv
  <1>1. TamperInit => TamperInv
    <2> SUFFICES ASSUME TamperInit PROVE TamperInv
      OBVIOUS
    <2>1. log = {} /\ tampered = {} /\ nextSeq = 1 /\ tx = [w \in Writers |-> Tx("idle", 0, Genesis, {})]
      BY DEF TamperInit, Init, Idle
    <2>2. \A w \in Writers : tx[w].pc = "idle" /\ tx[w].pending = {}
      BY <2>1 DEF Tx
    <2>3. TxShape(tx)
      BY <2>1 DEF TxShape, Tx
    <2>4. \A t : Chain(t) = {}
      BY <2>1 DEF Chain
    <2>5. RowsKnown
      BY <2>1, <2>2, <2>3 DEF RowsKnown
    <2> QED  BY <2>1, <2>2, <2>4, <2>5
             DEF TamperInv, HashesTell, ChainsKnown, UnalteredAgree, EndKnown
  <1>2. TamperInv /\ [TamperNext]_<<vars, tampered>> => TamperInv'
    <2> SUFFICES ASSUME TamperInv, [TamperNext]_<<vars, tampered>> PROVE RowsKnown' /\ ChainsKnown'
      BY HashesKept DEF TamperInv
    <2>0. RowsKnown /\ ChainsKnown
      BY DEF TamperInv
    <2>1. ASSUME NEW w \in Writers, Step(w), UNCHANGED tampered PROVE RowsKnown' /\ ChainsKnown'
      BY <2>0, <2>1, WriterStays, WriterCommits DEF Step
    <2>2. ASSUME NEW r \in log, Tamper(r) PROVE RowsKnown' /\ ChainsKnown'
      BY <2>0, <2>2, RowTampered
    <2>3. CASE UNCHANGED <<vars, tampered>>
      <3>1. UNCHANGED <<log, tx, nextSeq, tampered>>
        BY <2>3 DEF vars
      <3>2. RowsKnown'
        <4>1. \A r : RowKnown(r)' <=> RowKnown(r)
          BY <3>1 DEF RowKnown, RowShape
        <4>2. TxShape(tx')
          BY <2>0, <3>1 DEF RowsKnown
        <4> QED  BY <2>0, <3>1, <4>1, <4>2 DEF RowsKnown
      <3>3. \A t : Chain(t)' = Chain(t)
        BY <3>1 DEF Chain
      <3> QED  BY <2>0, <3>1, <3>2, <3>3, DisagreeStays, EndStays DEF ChainsKnown, Alone
    <2> QED  BY <2>1, <2>2, <2>3 DEF TamperNext, Next
  <1> QED  BY <1>1, <1>2, PTL DEF TamperSpec

(* Whatever rows of audit_log are altered behind the back of audit.ts, and *)
(* whatever is recorded on top of them, verify never gets past the first   *)
(* altered row of a tenant; where records do not overlap it reports that   *)
(* row and, if none was altered, nothing.                                  *)
THEOREM AlteredAlwaysReported == TamperSpec => []FirstAlteredIsReported
  <1> DEFINE altered(t) == {r \in Chain(t) : r.seq \in tampered}
             first(t)   == {r \in altered(t) : \A q \in altered(t) : r.seq <= q.seq}
  <1>1. ASSUME TamperInv, NEW t
        PROVE  \A r \in altered(t) : \E q \in BrokenAt(t) : q.seq <= r.seq
    <2>0. RowsKnown /\ \A r \in Chain(t) : r.seq \in Nat /\ r \in log /\ r.tenant = t
      BY <1>1 DEF TamperInv, RowsKnown, RowKnown, Chain
    <2>1. SUFFICES ASSUME NEW a \in altered(t)
                   PROVE  \E q \in BrokenAt(t) : q.seq <= a.seq
      OBVIOUS
    <2>2. Disagrees(a)
      <3>1. a.hash # hashEvent(a.prev, a.tenant, a.body)
        BY <1>1, <2>0 DEF TamperInv, HashesTell
      <3> QED  BY <3>1 DEF Disagrees
    <2> DEFINE D == {r \in Chain(t) : Disagrees(r)}
    <2>3. Ordered(D) /\ a \in D
      BY <2>0, <2>2, RowsOrdered DEF Ordered
    <2>4. PICK q \in D : \A r \in D : q.seq <= r.seq
      <3> HIDE DEF D
      <3> QED  BY <2>3, FirstExists
    <2>5. \A r \in Before(q) : r \in Chain(t) /\ ~(q.seq <= r.seq)
      BY <2>0, <2>4 DEF Before, Chain
    <2>6. q \in BrokenAt(t)
      BY <2>4, <2>5 DEF BrokenAt
    <2> QED  BY <2>3, <2>4, <2>6
  <1>2. ASSUME TamperInv, NEW t \in Sole
        PROVE  BrokenAt(t) = first(t)
    <2>0. PICK w \in Writers : \A v \in Writers : Owner[v] = t <=> v = w
      BY <1>2 DEF Sole
    <2>1. UnalteredAgree(t) /\ RowsKnown /\ HashesTell
      BY <1>2, <2>0 DEF TamperInv, ChainsKnown, Alone
    <2>2. \A r \in Chain(t) : /\ r.seq \in Nat /\ Before(r) \subseteq Chain(t)
                              /\ \A q \in Chain(t) : q \in Before(r) <=> q.seq < r.seq
      BY <2>1 DEF RowsKnown, RowKnown, Chain, Before
    <2>3. \A r, q \in Chain(t) : q.seq = r.seq => q = r
      BY <2>1, RowsOrdered DEF Ordered
    <2>4. \A r \in altered(t) : Disagrees(r)
      BY <2>1 DEF HashesTell, Disagrees, Chain
    <2>5. ASSUME NEW r \in BrokenAt(t) PROVE r \in first(t)
      <3>1. r \in Chain(t) /\ Disagrees(r) /\ \A q \in Before(r) : ~Disagrees(q)
        BY <2>5 DEF BrokenAt
      <3>2. \A q \in Before(r) : q.seq \notin tampered
        BY <2>2, <2>4, <3>1
      <3>3. r \in altered(t)
        BY <2>1, <3>1, <3>2 DEF UnalteredAgree
      <3>4. \A q \in altered(t) : r.seq <= q.seq
        BY <2>2, <3>1, <3>2
      <3> QED  BY <3>3, <3>4
    <2>6. ASSUME NEW r \in first(t) PROVE r \in BrokenAt(t)
      <3>1. \A q \in Before(r) : q \in Chain(t) /\ q.seq \notin tampered
        BY <2>2, <2>6
      <3>2. \A q \in Before(r) : \A p \in Before(q) : p \in Before(r)
        <4>1. ASSUME NEW q \in Before(r), NEW p \in Before(q) PROVE p.seq < r.seq
          <5>1. q.seq < r.seq /\ p.seq < q.seq /\ p \in Chain(t) /\ q \in Chain(t) /\ r \in Chain(t)
            BY <2>2, <2>6, <3>1, <4>1
          <5> QED  BY <2>2, <5>1
        <4> QED  BY <2>2, <2>6, <3>1, <4>1
      <3>3. \A q \in Before(r) : ~Disagrees(q)
        BY <2>1, <3>1, <3>2 DEF UnalteredAgree
      <3> QED  BY <2>4, <2>6, <3>3 DEF BrokenAt
    <2> QED  BY <2>5, <2>6
  <1>3. TamperInv => FirstAlteredIsReported
    BY <1>1, <1>2 DEF FirstAlteredIsReported
  <1> QED  BY <1>3, TamperInvariant, PTL
=============================================================================
