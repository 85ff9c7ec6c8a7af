----------------------------- MODULE AuditChain -----------------------------
(***************************************************************************)
(* The hash-chained audit log (packages/db/src/audit.ts): record as the    *)
(* transaction it runs, statement by statement, by many writers at once;   *)
(* list and verify as what they compute from the committed rows.           *)
(*                                                                         *)
(* Postgres is external, at its default isolation READ COMMITTED.  SELECT  *)
(* ... ORDER BY seq DESC LIMIT 1 FOR UPDATE picks the tail in a snapshot   *)
(* of the committed rows, then waits for the lock of that row and returns  *)
(* it: a newer tail that was committed meanwhile is not looked for.  seq   *)
(* is a BIGSERIAL: handed out at INSERT, to all tenants, never given back. *)
(***************************************************************************)
EXTENDS Naturals, FiniteSets, Sequences

CONSTANTS
    Tenants,
    Writers,    \* calls of record that may run at the same time
    Owner,      \* the tenant of each writer
    Bodies,     \* type, user, payload and created_at of an event
    MaxSeq      \* bound: seq values handed out

ASSUME OwnerAssumption == Owner \in [Writers -> Tenants]
ASSUME SeqAssumption   == MaxSeq \in Nat

VARIABLES
    log,        \* the committed rows of audit_log
    tx,         \* the transaction of each writer
    nextSeq     \* the sequence behind audit_log.seq

vars == <<log, tx, nextSeq>>

(* SHA-256 is taken to be injective: a hash is the tree of what it covers. *)
Genesis == <<>>
hashEvent(prev, t, body) == <<prev, t, body>>

Tx(pc, tail, prev, pending) ==
    [pc |-> pc, tail |-> tail, prev |-> prev, pending |-> pending]

Idle == Tx("idle", 0, Genesis, {})

Holding(w, s) == tx[w].pc \in {"holding", "inserted"} /\ tx[w].tail = s

(* Mutant of Chain: the WHERE tenant_id is missing.                        *)
ChainOfAll(t) == log

Chain(t)      == {r \in log : r.tenant = t}
Latest(rows)  == CHOOSE r \in rows : \A q \in rows : q.seq <= r.seq
Before(r)     == {q \in Chain(r.tenant) : q.seq < r.seq}
-----------------------------------------------------------------------------
(* record *)

(* Mutant of Snapshot: ORDER BY seq ASC.                                   *)
SnapshotOldest(w) ==
    /\ tx[w].pc = "idle"
    /\ \/ /\ Chain(Owner[w]) = {}
          /\ tx' = [tx EXCEPT ![w] = Tx("holding", 0, Genesis, {})]
       \/ \E r \in Chain(Owner[w]) :
            /\ Before(r) = {}
            /\ tx' = [tx EXCEPT ![w] = Tx("locking", r.seq, Genesis, {})]
    /\ UNCHANGED <<log, nextSeq>>

(* BEGIN, and the snapshot of SELECT ... FOR UPDATE: an empty chain has no *)
(* row to lock.                                                            *)
Snapshot(w) ==
    /\ tx[w].pc = "idle"
    /\ tx' = [tx EXCEPT ![w] =
                IF Chain(Owner[w]) = {}
                THEN Tx("holding", 0, Genesis, {})
                ELSE Tx("locking", Latest(Chain(Owner[w])).seq, Genesis, {})]
    /\ UNCHANGED <<log, nextSeq>>

(* The lock of the row is free, and the SELECT returns it.                 *)
Lock(w) ==
    /\ tx[w].pc = "locking"
    /\ \A v \in Writers : ~Holding(v, tx[w].tail)
    /\ \E r \in Chain(Owner[w]) :
        /\ r.seq = tx[w].tail
        /\ tx' = [tx EXCEPT ![w] = Tx("holding", r.seq, r.hash, {})]
    /\ UNCHANGED <<log, nextSeq>>

(* Mutant of Row: the hash does not cover prev_hash.                       *)
RowWithoutPrev(w, b) ==
    [seq |-> nextSeq, tenant |-> Owner[w], body |-> b, prev |-> tx[w].prev,
     hash |-> hashEvent(Genesis, Owner[w], b)]

(* The row of event b with the hash of what the transaction read.          *)
Row(w, b) == [seq |-> nextSeq, tenant |-> Owner[w], body |-> b, prev |-> tx[w].prev,
              hash |-> hashEvent(tx[w].prev, Owner[w], b)]

(* INSERT INTO audit_log: nextval, and a row nobody else sees yet.         *)
Insert(w) ==
    /\ tx[w].pc = "holding"
    /\ nextSeq <= MaxSeq
    /\ \E b \in Bodies :
        tx' = [tx EXCEPT ![w] = Tx("inserted", tx[w].tail, tx[w].prev, {Row(w, b)})]
    /\ nextSeq' = nextSeq + 1
    /\ UNCHANGED log

Commit(w) ==
    /\ tx[w].pc = "inserted"
    /\ log' = log \cup tx[w].pending
    /\ tx' = [tx EXCEPT ![w] = Idle]
    /\ UNCHANGED nextSeq

(* Mutants of Rollback: the transaction stays open, with its lock; or the  *)
(* row stays with the connection.                                          *)
NoRollback(w) ==
    /\ tx[w].pc # "idle"
    /\ tx' = [tx EXCEPT ![w].pc = "holding"]
    /\ UNCHANGED <<log, nextSeq>>

RollbackKeepsRow(w) ==
    /\ tx[w].pc # "idle"
    /\ tx' = [tx EXCEPT ![w].pc = "idle"]
    /\ UNCHANGED <<log, nextSeq>>

(* A statement threw, or the connection was lost: the row and the lock go, *)
(* the seq value does not come back.                                       *)
Rollback(w) ==
    /\ tx[w].pc # "idle"
    /\ tx' = [tx EXCEPT ![w] = Idle]
    /\ UNCHANGED <<log, nextSeq>>

Init ==
    /\ log = {}
    /\ tx = [w \in Writers |-> Idle]
    /\ nextSeq = 1

Step(w) == Snapshot(w) \/ Lock(w) \/ Insert(w) \/ Commit(w) \/ Rollback(w)

Next == \E w \in Writers : Step(w)

Spec == Init /\ [][Next]_vars

(* The statements of a transaction that holds its lock are answered; the   *)
(* lock goes round its queue, so who waits is served between the others.   *)
Finish(w) == tx[w].pc # "locking" /\ (Insert(w) \/ Commit(w) \/ Rollback(w))

FairSpec == Spec /\ \A w \in Writers : SF_vars(Lock(w)) /\ WF_vars(Finish(w))
-----------------------------------------------------------------------------
(* verify: walks the rows of the tenant by seq, with the stored hash of    *)
(* the row before, and stops at the first that disagrees.                  *)
PrevHash(r) == IF Before(r) = {} THEN Genesis ELSE Latest(Before(r)).hash

(* Mutant of Disagrees: verify compares the links only.                    *)
LinkDisagrees(r) == r.prev # PrevHash(r)

Disagrees(r) == \/ r.prev # PrevHash(r)
                \/ r.hash # hashEvent(PrevHash(r), r.tenant, r.body)

BrokenAt(t) == {r \in Chain(t) : Disagrees(r) /\ \A q \in Before(r) : ~Disagrees(q)}

(* list: the events of the tenant by seq.                                  *)
list(t) ==
    [i \in 1 .. Cardinality(Chain(t)) |->
        (CHOOSE r \in Chain(t) : Cardinality(Before(r)) = i - 1).body]
-----------------------------------------------------------------------------
TxType == [pc : {"idle", "locking", "holding", "inserted"}, tail : 0 .. MaxSeq]

TypeOK ==
    /\ nextSeq \in 1 .. MaxSeq + 1
    /\ \A r \in log : /\ DOMAIN r = {"seq", "tenant", "body", "prev", "hash"}
                      /\ r.seq \in 1 .. nextSeq - 1
                      /\ r.tenant \in Tenants /\ r.body \in Bodies
    /\ DOMAIN tx = Writers
    /\ \A w \in Writers :
        /\ [pc |-> tx[w].pc, tail |-> tx[w].tail] \in TxType
        /\ Cardinality(tx[w].pending) = IF tx[w].pc = "inserted" THEN 1 ELSE 0

(* However many writers interleave and roll back, a committed event always *)
(* continues an event of its own tenant that was committed before it with  *)
(* a smaller seq, or starts a chain: rolled-back or uncommitted rows are   *)
(* never built upon, and no two rows share a seq.                          *)
Continues(r, rows) ==
    \/ r.prev = Genesis
    \/ \E q \in rows : q.tenant = r.tenant /\ q.seq < r.seq /\ q.hash = r.prev

EveryEventContinues ==
    \A r \in log :
        /\ Continues(r, log)
        /\ r.hash = hashEvent(r.prev, r.tenant, r.body)
        /\ \A q \in log : q.seq = r.seq => q = r

(* Tenants whose records never overlap.                                    *)
Sole == {t \in Tenants : \E w \in Writers : \A v \in Writers : Owner[v] = t <=> v = w}

(* Where verify reports a break in a log nobody altered, two overlapping   *)
(* records did read the same prev_hash: it never blames an event for       *)
(* another tenant's records or for one that was rolled back, and for a     *)
(* tenant whose records do not overlap it answers ok.                      *)
BreaksAreForks ==
    \A t \in Tenants : \A r \in BrokenAt(t) :
        /\ t \notin Sole
        /\ \E q \in Chain(t) : q # r /\ q.prev = r.prev

(* For those tenants the table is the append-only log of module AuditLog:  *)
(* list never loses, reorders or invents an event.                         *)
Log == INSTANCE AuditLog WITH Tenants <- Sole, chain <- [t \in Sole |-> list(t)]

IsAppendOnly == Log!Spec

(* A record that waits for the lock of the tail ends: a transaction that   *)
(* fails or is rolled back gives its lock up.                              *)
EveryRecordEnds ==
    \A w \in Writers : tx[w].pc = "locking" ~> tx[w].pc = "idle"
=============================================================================
