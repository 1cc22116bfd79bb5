--------------------------- MODULE AuditLogProofs ---------------------------
(***************************************************************************)
(* The chain of AuditLog is linked, for any writers, tenants and number of *)
(* events, with row-level security and without.  Chained alone is not      *)
(* inductive: a row is linked when it is inserted and joins the log when   *)
(* it is committed, so the invariant has to say that nothing is committed  *)
(* between the two, which is what the lock is for.                         *)
(***************************************************************************)
EXTENDS AuditLog, TLAPS

(* Whoever is past the lock holds it.                                       *)
Locked == \A w \in Writers : pc[w] \in {"locked", "inserted"} => lock = w

(* The log holds only ids that were drawn.                                  *)
Drawn == \A x \in log : x.id < nextId

(* A row waiting to be committed is younger than all of the log and linked  *)
(* to the last row its writer can see.                                      *)
Pending == \A w \in Writers : pc[w] = "inserted" =>
  /\ row[w] \in Rows
  /\ row[w].tenant = tenant[w]
  /\ row[w].id < nextId
  /\ \A x \in log : x.id < row[w].id
  /\ IsLast(row[w].prev, Visible(tenant[w], log))

LInv == TypeOK /\ Locked /\ Drawn /\ Pending /\ Chained

(* The transaction's tenant is set before it takes the lock.                *)
TenantSet == \A w \in Writers : pc[w] # "idle" => tenant[w] \in Tenants

LEMMA InitLInv == Init => LInv /\ TenantSet
BY ConstantsAssumption DEF Init, LInv, TypeOK, Locked, Drawn, Pending, Chained, TenantSet

LEMMA TenantSetStep == TypeOK /\ TenantSet /\ [Next]_vars => TenantSet'
<1> USE DEF TypeOK, TenantSet
<1>1. ASSUME NEW w \in Writers, TypeOK, TenantSet,
             Begin(w) \/ Lock(w) \/ Insert(w) \/ Commit(w) \/ Rollback(w)
      PROVE  TenantSet'
  BY <1>1 DEF Begin, Lock, Insert, Commit, Rollback
<1>2. TenantSet /\ UNCHANGED vars => TenantSet'
  BY DEF vars
<1> QED BY <1>1, <1>2 DEF Next

(* Reading the last hash and drawing an id gives a row of the table.        *)
LEMMA InsertType ==
  ASSUME LInv, TenantSet, NEW w \in Writers, Insert(w)
  PROVE  /\ row'[w] \in Rows
         /\ row'[w].id = nextId /\ row'[w].tenant = tenant[w]
         /\ IsLast(row'[w].prev, Visible(tenant[w], log))
<1>1. PICK h \in 0..MaxId :
        /\ IsLast(h, Visible(tenant[w], log))
        /\ row' = [row EXCEPT ![w] = [id |-> nextId, tenant |-> tenant[w], prev |-> h]]
  BY DEF Insert
<1>2. h < nextId
  BY <1>1 DEF LInv, TypeOK, Drawn, IsLast, Visible
<1>3. row'[w] = [id |-> nextId, tenant |-> tenant[w], prev |-> h]
  BY <1>1 DEF LInv, TypeOK
<1>4. nextId \in 1..MaxId /\ tenant[w] \in Tenants
  BY ConstantsAssumption DEF LInv, TypeOK, Insert, TenantSet
<1> QED BY <1>1, <1>2, <1>3, <1>4 DEF Rows

LEMMA NextTypes == LInv /\ TenantSet /\ [Next]_vars => TypeOK'
<1> SUFFICES ASSUME LInv, TenantSet, [Next]_vars PROVE TypeOK'
  OBVIOUS
<1> USE DEF LInv, TypeOK
<1>1. ASSUME NEW w \in Writers, Begin(w) PROVE TypeOK'
  BY <1>1 DEF Begin
<1>2. ASSUME NEW w \in Writers, Lock(w) PROVE TypeOK'
  BY <1>2 DEF Lock
<1>3. ASSUME NEW w \in Writers, Insert(w) PROVE TypeOK'
  <2>1. row' = [row EXCEPT ![w] = row'[w]]
    BY <1>3 DEF Insert
  <2>2. row' \in [Writers -> Rows \cup {NONE}]
    BY <1>3, <2>1, InsertType
  <2>3. nextId' \in 1..(MaxId + 1)
    BY <1>3, ConstantsAssumption DEF Insert
  <2> QED BY <1>3, <2>2, <2>3 DEF Insert
<1>4. ASSUME NEW w \in Writers, Commit(w) PROVE TypeOK'
  BY <1>4 DEF Commit, Pending
<1>5. ASSUME NEW w \in Writers, Rollback(w) PROVE TypeOK'
  BY <1>5 DEF Rollback
<1>6. ASSUME UNCHANGED vars PROVE TypeOK'
  BY <1>6 DEF vars
<1> QED BY <1>1, <1>2, <1>3, <1>4, <1>5, <1>6 DEF Next

LEMMA LockedStep == LInv /\ [Next]_vars => Locked'
<1> SUFFICES ASSUME LInv, [Next]_vars PROVE Locked'
  OBVIOUS
<1> USE ConstantsAssumption DEF LInv, TypeOK, Locked
<1>1. ASSUME NEW w \in Writers, Begin(w) PROVE Locked'
  BY <1>1 DEF Begin
<1>2. ASSUME NEW w \in Writers, Lock(w) PROVE Locked'
  BY <1>2 DEF Lock, LockFree
<1>3. ASSUME NEW w \in Writers, Insert(w) PROVE Locked'
  BY <1>3 DEF Insert
<1>4. ASSUME NEW w \in Writers, Commit(w) PROVE Locked'
  BY <1>4 DEF Commit
<1>5. ASSUME NEW w \in Writers, Rollback(w) PROVE Locked'
  BY <1>5 DEF Rollback
<1>6. ASSUME UNCHANGED vars PROVE Locked'
  BY <1>6 DEF vars
<1> QED BY <1>1, <1>2, <1>3, <1>4, <1>5, <1>6 DEF Next

LEMMA DrawnStep == LInv /\ [Next]_vars => Drawn'
<1> SUFFICES ASSUME LInv, [Next]_vars PROVE Drawn'
  OBVIOUS
<1>1. ASSUME NEW w \in Writers, Commit(w) PROVE Drawn'
  BY <1>1 DEF Commit, LInv, Drawn, Pending
<1>2. ASSUME NEW w \in Writers, Insert(w) PROVE Drawn'
  BY <1>2 DEF Insert, LInv, TypeOK, Rows, Drawn
<1>3. ASSUME UNCHANGED <<log, nextId>> PROVE Drawn'
  BY <1>3 DEF LInv, Drawn
<1> QED BY <1>1, <1>2, <1>3 DEF Next, Begin, Lock, Rollback, vars

(* Only the holder of the lock can add to the log, and it has no row        *)
(* pending but its own.                                                     *)
LEMMA PendingStep == LInv /\ TenantSet /\ [Next]_vars => Pending'
<1> SUFFICES ASSUME LInv, TenantSet, [Next]_vars PROVE Pending'
  OBVIOUS
<1> USE DEF LInv, TypeOK, Pending, Visible, IsLast
<1>1. ASSUME NEW w \in Writers, Begin(w) PROVE Pending'
  BY <1>1 DEF Begin
<1>2. ASSUME NEW w \in Writers, Lock(w) PROVE Pending'
  BY <1>2 DEF Lock
<1>3. ASSUME NEW w \in Writers, Insert(w) PROVE Pending'
  <2>1. ASSUME NEW v \in Writers, pc'[v] = "inserted" PROVE v = w
    BY <1>3, <2>1 DEF Insert, Locked
  <2>2. /\ UNCHANGED <<log, tenant, rls>>
        /\ nextId' = nextId + 1
    BY <1>3 DEF Insert
  <2> QED BY <1>3, <2>1, <2>2, InsertType DEF Drawn
<1>4. ASSUME NEW w \in Writers, Commit(w) PROVE Pending'
  <2>1. ASSUME NEW v \in Writers PROVE pc'[v] # "inserted"
    BY <1>4, <2>1, ConstantsAssumption DEF Commit, Locked
  <2> QED BY <2>1
<1>5. ASSUME NEW w \in Writers, Rollback(w) PROVE Pending'
  BY <1>5 DEF Rollback
<1>6. ASSUME UNCHANGED vars PROVE Pending'
  BY <1>6 DEF vars
<1> QED BY <1>1, <1>2, <1>3, <1>4, <1>5, <1>6 DEF Next

(* A committed row is behind every other; nothing slips in between.         *)
LEMMA ChainedStep == LInv /\ [Next]_vars => Chained'
<1> SUFFICES ASSUME LInv, [Next]_vars PROVE Chained'
  OBVIOUS
<1> DEFINE Before(x) == {y \in Visible(x.tenant, log) : y.id < x.id}
<1>1. ASSUME NEW w \in Writers, Commit(w) PROVE Chained'
  <2>1. PICK n \in Rows : n = row[w]
    BY <1>1 DEF Commit, LInv, Pending
  <2>2. /\ log' = log \cup {n} /\ rls' = rls
        /\ \A x \in log : x.id < n.id
        /\ IsLast(n.prev, Visible(n.tenant, log))
    BY <1>1, <2>1 DEF Commit, LInv, Pending
  <2>3. ASSUME NEW x \in log PROVE Before(x)' = Before(x)
    BY <2>2, <2>3 DEF LInv, TypeOK, Rows, Visible
  <2>4. Before(n)' = Visible(n.tenant, log)
    BY <2>2 DEF LInv, TypeOK, Rows, Visible
  <2>5. ASSUME NEW x \in log' PROVE IsLast(x.prev, Before(x)')
    <3>1. CASE x \in log
      <4>1. IsLast(x.prev, Before(x))
        BY <3>1 DEF LInv, Chained
      <4> QED BY <3>1, <4>1, <2>3
    <3>2. CASE x = n
      BY <2>2, <2>4, <3>2
    <3> QED BY <2>2, <3>1, <3>2
  <2>6. \A x \in log' : IsLast(x.prev, Before(x))'
    BY <2>5 DEF IsLast
  <2> QED BY <2>6 DEF Chained
<1>2. ASSUME UNCHANGED <<log, rls>> PROVE Chained'
  BY <1>2 DEF LInv, Chained, Visible, IsLast
<1> QED BY <1>1, <1>2 DEF Next, Begin, Lock, Insert, Rollback, vars

LEMMA ChainInvariant == Spec => [](LInv /\ TenantSet)
<1>1. LInv /\ TenantSet /\ [Next]_vars => (LInv /\ TenantSet)'
  BY TenantSetStep, NextTypes, LockedStep, DrawnStep, PendingStep, ChainedStep DEF LInv
<1> QED BY InitLInv, <1>1, PTL DEF Spec

(* The id sequence, the lock, the transactions' rows and the log keep their *)
(* types; that ids stay within the sequence rests on every insert drawing   *)
(* one under the lock (audit_trail.py:54-82).                               *)
THEOREM TypeCorrect == Spec => []TypeOK
BY ChainInvariant, PTL DEF LInv

(* Every committed event carries the hash of the last event before it that  *)
(* its writer may see, however appends of any tenants interleave and fail   *)
(* (audit_trail.py:54-82, 004_governance_audit.sql:103-126).                *)
THEOREM ChainLinked == Spec => []Chained
BY ChainInvariant, PTL DEF LInv

(* So the verification of the whole table, where the trigger sees it, and   *)
(* of one tenant's rows, whatever gaps rollbacks left, finds nothing broken *)
(* (004_governance_audit.sql:172-222).                                      *)
THEOREM VerificationSound == Spec => []NoFalseAlarm
<1>1. LInv => NoFalseAlarm
  <2> SUFFICES ASSUME LInv PROVE NoFalseAlarm
    OBVIOUS
  <2>1. ASSUME NEW x \in log, NEW y \in Visible(x.tenant, log), y.id + 1 = x.id
        PROVE  x.prev = y.id
    <3>1. y \in {z \in Visible(x.tenant, log) : z.id < x.id}
      BY <2>1 DEF LInv, TypeOK, Rows, Visible
    <3>2. PICK z \in {z \in Visible(x.tenant, log) : z.id < x.id} :
            z.id = x.prev /\ y.id <= z.id
      BY <3>1 DEF LInv, Chained, IsLast
    <3> QED BY <2>1, <3>2 DEF LInv, TypeOK, Rows, Visible
  <2>2. ASSUME NEW t \in Tenants PROVE VerifyChain(Visible(t, log))
    BY <2>1 DEF VerifyChain, LinkPasses, Visible
  <2>3. ASSUME ~rls PROVE VerifyChain(AdminRows)
    BY <2>1, <2>3 DEF VerifyChain, LinkPasses, Visible, AdminRows
  <2> QED BY <2>2, <2>3 DEF NoFalseAlarm
<1> QED BY <1>1, ChainInvariant, PTL

(* Appends that overlap and fail are, to a reader, events added one by one  *)
(* in the order of their ids, each linked to the last its author may see;   *)
(* only a commit adds one (audit_trail.py:54-82, repository.py:380-409).    *)
THEOREM Refinement == Spec => ImplementsChain
<1>1. Init => Chain!Init
  BY DEF Init, Chain!Init
<1>2. LInv /\ [Next]_vars => [Chain!Next]_<<log, rls>>
  <2> SUFFICES ASSUME LInv, [Next]_vars
               PROVE  Chain!Next \/ UNCHANGED <<log, rls>>
    OBVIOUS
  <2>1. ASSUME NEW w \in Writers, Commit(w) PROVE Chain!Next
    <3>1. /\ row[w] \in Rows
          /\ \A x \in log : x.id < row[w].id
          /\ IsLast(row[w].prev, Visible(row[w].tenant, log))
      BY <2>1 DEF LInv, Pending, Commit
    <3>2. Chain!Links(row[w], Chain!KnownTo(row[w].tenant))
      BY <3>1 DEF IsLast, Visible, Chain!Links, Chain!KnownTo
    <3>3. Chain!Add(row[w])
      BY <2>1, <3>1, <3>2 DEF Commit, Chain!Add
    <3> QED BY <3>1, <3>3 DEF Chain!Next
  <2>2. ASSUME NEW w \in Writers, Begin(w) \/ Lock(w) \/ Insert(w) \/ Rollback(w)
        PROVE  UNCHANGED <<log, rls>>
    BY <2>2 DEF Begin, Lock, Insert, Rollback
  <2> QED BY <2>1, <2>2 DEF Next, vars
<1> QED BY <1>1, <1>2, ChainInvariant, PTL DEF Spec, ImplementsChain, Chain!Spec

(* The lock is held by a transaction under way, never by one that has       *)
(* ended, and that transaction waits for nothing: what remains of           *)
(* EveryAppendEnds is that its statements return (audit_trail.py:54-82).    *)
Attended == lock # NONE => lock \in Writers /\ pc[lock] \in {"locked", "inserted"}

THEOREM LockIsAttended == Spec => []Attended
<1>1. Init => Attended
  BY DEF Init, Attended
<1>2. LInv /\ Attended /\ [Next]_vars => Attended'
  <2> SUFFICES ASSUME LInv, Attended, [Next]_vars PROVE Attended'
    OBVIOUS
  <2> USE DEF Attended, LInv, TypeOK
  <2>1. ASSUME NEW w \in Writers,
               Begin(w) \/ Lock(w) \/ Insert(w) \/ Commit(w) \/ Rollback(w)
        PROVE  Attended'
    BY <2>1 DEF Begin, Lock, Insert, Commit, Rollback
  <2>2. ASSUME UNCHANGED vars PROVE Attended'
    BY <2>2 DEF vars
  <2> QED BY <2>1, <2>2 DEF Next
<1> QED BY <1>1, <1>2, ChainInvariant, PTL DEF Spec

=============================================================================
