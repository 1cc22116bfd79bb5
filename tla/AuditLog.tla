------------------------------ MODULE AuditLog ------------------------------
(***************************************************************************)
(* The hash-chained audit tables: governance_audit_log with its writer     *)
(* GovernanceAuditTrail.record, and audit_events with save_audit_event,    *)
(* which appends by the same protocol under another lock key.  Writers of  *)
(* several tenants append concurrently, each in a transaction that takes   *)
(* an advisory lock, reads the last hash it can see and inserts a row; any *)
(* transaction may be rolled back after it has drawn an event_id.          *)
(*                                                                         *)
(* Abstractions.  Event ids are drawn one by one, hashes do not collide:   *)
(* the hash of a row is its event_id, and 0 is the hash of no row, the 64  *)
(* zeros.  What a verification reads is committed and append-only, so it   *)
(* is a function of the rows at one moment.                                *)
(***************************************************************************)
EXTENDS Naturals

CONSTANTS
  Writers,   (* calls that append, each on a connection of its own          *)
  Tenants,   (* tenant_id values                                            *)
  NONE,      (* nobody, nothing                                             *)
  RlsModes,  (* whether the database role is subject to row-level security  *)
  MaxId      (* bound: event ids the sequence gives out                     *)

ASSUME ConstantsAssumption ==
  /\ NONE \notin Writers \cup Tenants
  /\ RlsModes \subseteq BOOLEAN
  /\ MaxId \in Nat

VARIABLES
  log,     (* committed rows                                                *)
  nextId,  (* the BIGSERIAL sequence, which no rollback turns back          *)
  lock,    (* holder of pg_advisory_xact_lock                               *)
  pc,      (* the statement a writer is at                                  *)
  tenant,  (* app.current_tenant_id of its transaction                      *)
  row,     (* the row it has inserted and not committed                     *)
  rls      (* does row-level security apply to the role                     *)

vars == <<log, nextId, lock, pc, tenant, row, rls>>

\* A row can only carry the hash of an earlier one.
Rows == {x \in [id : 1..MaxId, tenant : Tenants, prev : 0..MaxId] : x.prev < x.id}

Visible(t, rows) == IF rls THEN {x \in rows : x.tenant = t} ELSE rows

IsLast_ByTimestamp(h, rows) ==
  IF rows = {} THEN h = 0 ELSE \E x \in rows : x.id = h

\* h is the hash `ORDER BY event_id DESC LIMIT 1' finds, or the zeros.
IsLast(h, rows) ==
  IF rows = {} THEN h = 0
               ELSE \E x \in rows : x.id = h /\ \A y \in rows : y.id <= h

----------------------------------------------------------------------------
Init ==
  /\ log = {}
  /\ nextId = 1
  /\ lock = NONE
  /\ pc = [w \in Writers |-> "idle"]
  /\ tenant = [w \in Writers |-> NONE]
  /\ row = [w \in Writers |-> NONE]
  /\ rls \in RlsModes

(* BEGIN; SELECT set_tenant_context(tenant_id). *)
Begin(w) ==
  /\ pc[w] = "idle"
  /\ \E t \in Tenants : tenant' = [tenant EXCEPT ![w] = t]
  /\ pc' = [pc EXCEPT ![w] = "waiting"]
  /\ UNCHANGED <<log, nextId, lock, row, rls>>

LockFree_PerTenant(w) == lock # NONE => tenant[lock] # tenant[w]

LockFree(w) == lock = NONE

(* pg_advisory_xact_lock returns when no other transaction holds the key. *)
Lock(w) ==
  /\ pc[w] = "waiting"
  /\ LockFree(w)
  /\ lock' = w
  /\ pc' = [pc EXCEPT ![w] = "locked"]
  /\ UNCHANGED <<log, nextId, tenant, row, rls>>

Insert_AfterTrigger(w) ==
  /\ pc[w] = "locked"
  /\ nextId <= MaxId
  /\ row' = [row EXCEPT ![w] = [id |-> nextId, tenant |-> tenant[w], prev |-> nextId]]
  /\ nextId' = nextId + 1
  /\ pc' = [pc EXCEPT ![w] = "inserted"]
  /\ UNCHANGED <<log, lock, tenant, rls>>

(* The INSERT: an event_id, and the last hash the trigger's SELECT sees. *)
Insert(w) ==
  /\ pc[w] = "locked"
  /\ nextId <= MaxId
  /\ \E h \in 0..MaxId :
       /\ IsLast(h, Visible(tenant[w], log))
       /\ row' = [row EXCEPT ![w] = [id |-> nextId, tenant |-> tenant[w], prev |-> h]]
  /\ nextId' = nextId + 1
  /\ pc' = [pc EXCEPT ![w] = "inserted"]
  /\ UNCHANGED <<log, lock, tenant, rls>>

Commit_SessionLock(w) ==
  /\ pc[w] = "inserted"
  /\ log' = log \cup {row[w]}
  /\ row' = [row EXCEPT ![w] = NONE]
  /\ pc' = [pc EXCEPT ![w] = "idle"]
  /\ UNCHANGED <<nextId, lock, tenant, rls>>

(* The transaction ends, and with it the lock.                            *)
Commit(w) ==
  /\ pc[w] = "inserted"
  /\ log' = log \cup {row[w]}
  /\ row' = [row EXCEPT ![w] = NONE]
  /\ pc' = [pc EXCEPT ![w] = "idle"]
  /\ lock' = NONE
  /\ UNCHANGED <<nextId, tenant, rls>>

(* A CHECK refuses the row, the process dies, the connection is lost: the *)
(* transaction ends and with it the lock; a drawn event_id is gone.       *)
Rollback(w) ==
  /\ pc[w] # "idle"
  /\ row' = [row EXCEPT ![w] = NONE]
  /\ pc' = [pc EXCEPT ![w] = "idle"]
  /\ lock' = IF lock = w THEN NONE ELSE lock
  /\ UNCHANGED <<log, nextId, tenant, rls>>

Next ==
  \E w \in Writers : Begin(w) \/ Lock(w) \/ Insert(w) \/ Commit(w) \/ Rollback(w)

Spec == Init /\ [][Next]_vars

(* Every statement returns or raises, so the holder of the lock commits or *)
(* is rolled back; waiters for an advisory lock are queued, so that one    *)
(* for whom the lock is free again and again gets it.                      *)
FairSpec ==
  /\ Spec
  /\ \A w \in Writers : /\ WF_vars(Insert(w) \/ Commit(w) \/ (lock = w /\ Rollback(w)))
                        /\ SF_vars(Lock(w))

----------------------------------------------------------------------------
(* Verification.  verify_*_audit_chain() walks the rows it sees by event_id *)
(* and compares each row but the first with the row at event_id - 1; where  *)
(* that row is missing the comparison is with NULL and passes.              *)
LinkPasses(x, rows) == \A y \in rows : y.id + 1 = x.id => x.prev = y.id

VerifyChain(rows) == \A x \in rows : LinkPasses(x, rows)

\* What verify_chain() sees under SET app.admin_bypass ...
AdminRows == log

\* ... and verify_chain(tenant_id): set_config(..., TRUE) ends with the
\* statement that called it, so no tenant is set when the rows are read.
TenantRows(t) == IF rls THEN {} ELSE log

----------------------------------------------------------------------------
(* Properties. *)

TypeOK ==
  /\ log \subseteq Rows
  /\ nextId \in 1..(MaxId + 1)
  /\ lock \in Writers \cup {NONE}
  /\ pc \in [Writers -> {"idle", "waiting", "locked", "inserted"}]
  /\ tenant \in [Writers -> Tenants \cup {NONE}]
  /\ row \in [Writers -> Rows \cup {NONE}]
  /\ rls \in BOOLEAN

(* "Advisory-lock serialized appends (correct prev_hash under concurrency)": *)
(* every committed row carries the hash of the last row before it that its  *)
(* writer may see, of any tenant or of its own (004_governance_audit.sql:103, *)
(* audit_trail.py:54-82).                                                   *)
Chained ==
  \A x \in log : IsLast(x.prev, {y \in Visible(x.tenant, log) : y.id < x.id})

(* The verification of the whole table raises no false alarm while appends  *)
(* and rollbacks go on, where row-level security does not hide rows from    *)
(* the trigger; of a tenant's own rows it never does (schema.sql:756-802).  *)
NoFalseAlarm ==
  /\ ~rls => VerifyChain(AdminRows)
  /\ \A t \in Tenants : VerifyChain(Visible(t, log))

(* An append that waits for the lock ends, whatever other writers do and    *)
(* wherever they fail: the lock never outlives its transaction.             *)
EveryAppendEnds ==
  \A w \in Writers : pc[w] # "idle" ~> pc[w] = "idle"

Chain == INSTANCE EventChain WITH chain <- log, isolated <- rls, Events <- Rows

(* Appends that overlap and fail are, to a reader, events added one by one  *)
(* in the order of their ids: no event is committed behind one that is      *)
(* already there, of whatever tenant, so that a reader who goes on from the *)
(* last event_id misses none (audit_trail.py:54-82, repository.py:380-409). *)
ImplementsChain == Chain!Spec

(* "If tenant_id is provided, verifies chain for that tenant only"           *)
(* (audit_trail.py:240): what it checks is the tenant's rows.               *)
TenantIsVerified ==
  \A t \in Tenants : TenantRows(t) = {x \in log : x.tenant = t}

=============================================================================
