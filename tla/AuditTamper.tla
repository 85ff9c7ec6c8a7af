----------------------------- MODULE AuditTamper -----------------------------
(***************************************************************************)
(* Rows altered behind the logger's back while it goes on recording: the   *)
(* UPDATE statements of packages/db/src/audit.test.ts, at any moment.      *)
(***************************************************************************)
EXTENDS AuditChain

VARIABLE tampered   \* history: seq of the rows that were altered

(* UPDATE audit_log SET payload_json, prev_hash or hash = something else   *)
(* WHERE id = ...; it waits while a record holds the lock of the row.      *)
Tamper(r) ==
    /\ r.seq \notin tampered
    /\ \A w \in Writers : ~Holding(w, r.seq)
    /\ \E q \in {[r EXCEPT !.body = b] : b \in Bodies}
                \cup {[r EXCEPT !.prev = hashEvent(r.hash, r.tenant, r.body)],
                      [r EXCEPT !.hash = hashEvent(r.hash, r.tenant, r.body)]} :
        /\ q # r
        /\ log' = (log \ {r}) \cup {q}
    /\ tampered' = tampered \cup {r.seq}
    /\ UNCHANGED <<tx, nextSeq>>

TamperInit == Init /\ tampered = {}

TamperNext == \/ Next /\ UNCHANGED tampered
              \/ \E r \in log : Tamper(r)

TamperSpec == TamperInit /\ [][TamperNext]_<<vars, tampered>>
-----------------------------------------------------------------------------
(* "Mutating any field of any event breaks the chain at that point"        *)
(* (audit.ts:3-5): however many events were recorded on top of it, verify  *)
(* never gets past the altered row of a tenant that comes first.  Where    *)
(* records do not overlap it stops exactly there, and reports nothing to   *)
(* the tenants without an altered row.                                     *)
FirstAlteredIsReported ==
    \A t \in Tenants :
        LET altered == {r \in Chain(t) : r.seq \in tampered}
            first   == {r \in altered : \A q \in altered : r.seq <= q.seq}
        IN  /\ \A r \in first : \E q \in BrokenAt(t) : q.seq <= r.seq
            /\ t \in Sole => BrokenAt(t) = first
=============================================================================
