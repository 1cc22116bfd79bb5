-------------------------- MODULE DelegationProofs --------------------------
(* Proofs about Delegation.  The invariant has three parts: what the tables *)
(* hold (Tree), what a call has read and is about to write (Shape and its   *)
(* neighbours), and which grounds for refusal it has outlived (Clear).      *)
EXTENDS Delegation, TLAPS

----------------------------------------------------------------------------
(* The tables. *)

Blank ==
  \A d \in Decisions : ~Exists(rows[d]) => rows[d] = Absent /\ tokens[d] = "none"

\* A root column names an existing decision of the API, never the row itself.
RootIsTop ==
  \A d \in Decisions : rows[d].root # NONE =>
    /\ rows[d].root # d
    /\ Exists(rows[rows[d].root])
    /\ rows[rows[d].root].root = NONE

Tree == Blank /\ OneRoot /\ RootIsTop /\ ActionsAttenuate /\ TokensDieWithDecision

----------------------------------------------------------------------------
(* The calls. *)

AfterDecision == Labels \ {"idle", "token", "decision"}
Storing == {"kernel", "supersede", "issue", "compensate", "failed"}

Shape(c) ==
  /\ pc[c] = "idle" => job[c] = NoJob /\ child[c] = NONE
  /\ pc[c] # "idle" => /\ job[c].op \in Verifications \cup Spawning
                       /\ job[c].target \in Decisions
                       /\ job[c].action \in Actions
                       /\ Exists(rows[job[c].target])
  /\ pc[c] = "token" => job[c].op \in {"verify_token", "introspect"}
  /\ pc[c] = "kill" => job[c].op = "verify_token"
  /\ pc[c] \in Storing => job[c].op \in Spawning
  /\ pc[c] = "supersede" => job[c].op = "handoff"
  /\ pc[c] = "issue" => job[c].op \in {"delegate", "handoff"}
  /\ pc[c] \in {"compensate", "failed"} => job[c].op = "delegate"

\* The copy is of the row that still has that lineage and scope.
Read(c) ==
  pc[c] \in AfterDecision =>
    /\ copy[c].status \in {"allow", "deny"}
    /\ copy[c].action = rows[job[c].target].action
    /\ copy[c].scope = rows[job[c].target].scope
    /\ copy[c].parent = rows[job[c].target].parent
    /\ copy[c].root = rows[job[c].target].root

Child(c) ==
  /\ pc[c] \in {"issue", "compensate", "failed"} => child[c] # NONE
  /\ child[c] # NONE =>
       /\ pc[c] \in {"supersede", "issue", "compensate", "failed"}
       /\ pc[c] \in {"supersede", "issue"} => ~Exists(rows[child[c]])
  /\ pc[c] \in {"kernel", "supersede", "issue"} => job[c].scope \subseteq copy[c].scope
  /\ pc[c] = "failed" => ~Exists(rows[child[c]]) \/ Withdrawn(rows[child[c]])

AfterRoot == AfterDecision \ {"parent", "root"}

\* The grounds that are refuted by what the call has read so far.
Clear(c) ==
  /\ stood[c] \subseteq Grounds(job[c].op)
  /\ job[c].op = "verify_token" /\ pc[c] # "token" => "token" \notin stood[c]
  /\ pc[c] \in AfterDecision =>
       {"revoked", "superseded", "expired"} \cap stood[c] = {}
  /\ pc[c] \in AfterDecision \ {"parent"} => "parent" \notin stood[c]
  /\ pc[c] = "root" /\ copy[c].root = copy[c].parent => "root" \notin stood[c]
  /\ pc[c] \in AfterRoot => "root" \notin stood[c]
  /\ pc[c] = "valid" => "kill" \notin stood[c]

CallInv(c) == Shape(c) /\ Read(c) /\ Child(c) /\ Clear(c)

\* Two calls never hold the same new id.
Distinct ==
  \A c, e \in Calls : child[c] # NONE /\ child[c] = child[e] => c = e

IInv == TypeOK /\ Tree /\ (\A c \in Calls : CallInv(c)) /\ Distinct

----------------------------------------------------------------------------
(* Operators. *)

LEMMA GroundsOf ==
  /\ Grounds("verify_token") = {"revoked", "superseded", "expired", "parent",
                                "root", "lineage", "token", "kill"}
  /\ Grounds("verify_decision") = {"revoked", "expired"}
  /\ \A op \in {"introspect", "delegate", "handoff", "gather"} : Grounds(op) =
       {"revoked", "superseded", "expired", "parent", "root", "lineage"}
  /\ Grounds(NONE) = {}
<1>1. Grounds("verify_token") = {"revoked", "superseded", "expired", "parent",
                                 "root", "lineage", "token", "kill"}
  BY DEF Grounds, Spawning
<1>2. Grounds("verify_decision") = {"revoked", "expired"}
  BY DEF Grounds, Spawning
<1>3. ASSUME NEW op \in {"introspect", "delegate", "handoff", "gather"}
      PROVE Grounds(op) = {"revoked", "superseded", "expired", "parent", "root", "lineage"}
  BY DEF Grounds, Spawning
<1>4. NONE \notin {"verify_token", "verify_decision", "introspect", "delegate",
                   "handoff", "gather"}
  BY ConstantsAssumption DEF Verifications, Spawning
<1>5. Grounds(NONE) = {}
  BY <1>4 DEF Grounds, Spawning
<1>6. QED
  BY <1>1, <1>2, <1>3, <1>5

LEMMA GroundsIncluded ==
  ASSUME NEW op \in Verifications \cup Spawning \cup {NONE}
  PROVE  Grounds(op) \subseteq Grounds("verify_token")
  BY GroundsOf DEF Verifications, Spawning

\* An observation drops grounds and never adds one to a call in progress.
LEMMA Observed ==
  ASSUME IInv, Observe, NEW c \in Calls
  PROVE  /\ stood'[c] \subseteq Denials(rows', tokens', kills', job'[c])
         /\ pc[c] # "idle" => stood'[c] \subseteq stood[c]
         /\ stood'[c] \subseteq Grounds(job'[c].op)
<1>1. stood'[c] \subseteq Denials(rows', tokens', kills', job'[c])
  BY DEF Observe
<1>2. pc[c] # "idle" => job[c] # NoJob
  BY ConstantsAssumption DEF IInv, CallInv, Shape, NoJob
<1>3. pc[c] # "idle" => stood'[c] \subseteq stood[c]
  BY <1>2 DEF Observe
<1>4. QED
  BY <1>1, <1>3 DEF Denials

----------------------------------------------------------------------------
(* Steps in general: what a step keeps of the rows that exist, and what it  *)
(* leaves of the other calls.                                               *)

Kept ==
  \A d \in Decisions : Exists(rows[d]) =>
    /\ Exists(rows'[d])
    /\ rows'[d].action = rows[d].action
    /\ rows'[d].scope = rows[d].scope
    /\ rows'[d].parent = rows[d].parent
    /\ rows'[d].root = rows[d].root
    /\ Withdrawn(rows[d]) => Withdrawn(rows'[d])

OnlyCall(c) ==
  \A e \in Calls \ {c} : /\ pc'[e] = pc[e]
                         /\ job'[e] = job[e]
                         /\ copy'[e] = copy[e]
                         /\ child'[e] = child[e]

TableType ==
  /\ rows \in [Decisions -> RowType]
  /\ tokens \in [Decisions -> {"none", "live", "expired", "revoked"}]
  /\ kills \subseteq Decisions
  /\ changes \in Nat

CallType ==
  /\ pc \in [Calls -> Labels]
  /\ job \in [Calls -> JobType]
  /\ copy \in [Calls -> RowType]
  /\ child \in [Calls -> Grants \cup {NONE}]

LEMMA AbsentType == Absent \in RowType /\ ~Exists(Absent)
  BY DEF Absent, RowType, Exists

LEMMA StoodType ==
  ASSUME IInv, Observe, CallType'
  PROVE  stood' \in [Calls -> SUBSET Grounds("verify_token")]
<1>1. ASSUME NEW c \in Calls PROVE stood'[c] \in SUBSET Grounds("verify_token")
  <2>1. stood'[c] \subseteq Grounds(job'[c].op)
    BY Observed
  <2>2. job'[c].op \in Verifications \cup Spawning \cup {NONE}
    BY DEF CallType, JobType
  <2>3. QED
    BY <2>1, <2>2, GroundsIncluded
<1>2. stood' = [c \in Calls |-> stood'[c]]
  BY DEF Observe
<1>3. QED
  BY <1>1, <1>2

\* A call that takes no part in the step keeps its invariant.
LEMMA OtherCalls ==
  ASSUME IInv, Observe, Kept, NEW e \in Calls,
         pc'[e] = pc[e], job'[e] = job[e], copy'[e] = copy[e], child'[e] = child[e],
         child[e] # NONE /\ ~Exists(rows[child[e]]) => ~Exists(rows'[child[e]])
  PROVE  CallInv(e)'
<1> DEFINE t == job[e].target
<1>0. CallInv(e) /\ (pc[e] # "idle" => t \in Decisions /\ Exists(rows[t]))
  BY DEF IInv, CallInv, Shape
<1>1. Shape(e)'
  BY <1>0 DEF CallInv, Shape, Kept
<1>2. Read(e)'
  BY <1>0 DEF CallInv, Read, Kept, AfterDecision
<1>3. child[e] # NONE => child[e] \in Decisions
  BY DEF IInv, TypeOK, Decisions
<1>4. Child(e)'
  BY <1>0, <1>3 DEF CallInv, Child, Kept
<1>5. Clear(e)'
  <2>1. stood'[e] \subseteq Grounds(job[e].op)
    BY Observed
  <2>2. CASE pc[e] = "idle"
    <3>1. job[e].op = NONE
      BY <2>2, <1>0 DEF CallInv, Shape, NoJob
    <3>2. stood'[e] = {}
      BY <2>1, <3>1, GroundsOf
    <3>3. QED
      BY <3>2, <2>1 DEF Clear
  <2>3. CASE pc[e] # "idle"
    <3>1. stood'[e] \subseteq stood[e]
      BY <2>3, Observed
    <3>2. QED
      BY <3>1, <1>0 DEF CallInv, Clear
  <2>4. QED
    BY <2>2, <2>3
<1>6. QED
  BY <1>1, <1>2, <1>4, <1>5 DEF CallInv

\* A step of one call: what is left to show is about that call and the rows.
LEMMA OneCall ==
  ASSUME IInv, Observe, Kept, NEW c \in Calls, OnlyCall(c),
         TableType', CallType', Tree', CallInv(c)', Distinct',
         \A e \in Calls \ {c} :
           child[e] # NONE /\ ~Exists(rows[child[e]]) => ~Exists(rows'[child[e]])
  PROVE  IInv'
<1>1. TypeOK'
  BY StoodType DEF TypeOK, TableType, CallType
<1>2. ASSUME NEW e \in Calls PROVE CallInv(e)'
  BY OtherCalls DEF OnlyCall
<1>3. QED
  BY <1>1, <1>2 DEF IInv

\* A step that writes no table.
LEMMA LocalStep ==
  ASSUME IInv, Observe, NEW c \in Calls, OnlyCall(c),
         UNCHANGED <<rows, tokens, kills, changes>>, CallType', CallInv(c)', Distinct'
  PROVE  IInv'
<1>1. Kept
  BY DEF Kept
<1>2. TableType'
  BY DEF IInv, TypeOK, TableType
<1>3. Tree'
  BY DEF IInv, Tree, Blank, OneRoot, RootIsTop, ActionsAttenuate, TokensDieWithDecision
<1>4. QED
  BY <1>1, <1>2, <1>3, OneCall

LEMMA EndCall ==
  ASSUME IInv, Observe, NEW c \in Calls, End(c)
  PROVE  OnlyCall(c) /\ CallType' /\ CallInv(c)' /\ Distinct'
<1>1. OnlyCall(c)
  BY DEF IInv, TypeOK, End, OnlyCall
<1>2. NoJob \in JobType
  BY DEF NoJob, JobType
<1>3. CallType'
  BY <1>2, AbsentType DEF IInv, TypeOK, End, CallType, Labels
<1>4. pc'[c] = "idle" /\ job'[c] = NoJob /\ child'[c] = NONE
  BY DEF IInv, TypeOK, End
<1>5. stood'[c] = {}
  BY <1>4, Observed, GroundsOf DEF NoJob
<1>6. CallInv(c)'
  BY <1>4, <1>5 DEF CallInv, Shape, Read, Child, Clear, AfterDecision, AfterRoot, Storing
<1>7. Distinct'
  BY <1>1, <1>4 DEF IInv, Distinct, OnlyCall
<1>8. QED
  BY <1>1, <1>3, <1>6, <1>7

LEMMA GoCall ==
  ASSUME IInv, NEW c \in Calls, NEW l \in Labels, Go(c, l)
  PROVE  /\ OnlyCall(c) /\ CallType' /\ Distinct'
         /\ pc'[c] = l /\ job' = job /\ copy' = copy /\ child' = child
  BY DEF IInv, TypeOK, Go, OnlyCall, CallType, Distinct

\* A call that ends without having written anything.
LEMMA EndStep ==
  ASSUME IInv, Observe, NEW c \in Calls, End(c),
         UNCHANGED <<rows, tokens, kills, changes>>
  PROVE  IInv'
  BY EndCall, LocalStep

----------------------------------------------------------------------------
(* Calls begin and read. *)

LEMMA StartStep == ASSUME IInv, NEW c \in Calls, Start(c) PROVE IInv'
<1> USE DEF Start
<1>1. PICK t \in Decisions, j \in JobsOf[c] :
        /\ Exists(rows[t])
        /\ job' = [job EXCEPT ![c] = [op |-> j.op, target |-> t,
                                      action |-> j.action, scope |-> j.scope]]
        /\ pc' = [pc EXCEPT ![c] = IF j.op \in {"verify_token", "introspect"}
                                   THEN "token" ELSE "decision"]
  OBVIOUS
<1>2. /\ j.op \in Verifications \cup Spawning
      /\ j.action \in Actions
      /\ j.scope \in SUBSET Actions
  BY ConstantsAssumption
<1>3. OnlyCall(c)
  BY <1>1 DEF IInv, TypeOK, OnlyCall
<1>4. CallType'
  BY <1>1, <1>2 DEF IInv, TypeOK, CallType, JobType, Labels
<1>5. /\ pc[c] = "idle"
      /\ pc'[c] = IF j.op \in {"verify_token", "introspect"} THEN "token" ELSE "decision"
      /\ job'[c].op = j.op /\ job'[c].target = t /\ job'[c].action = j.action
      /\ child'[c] = NONE
  BY <1>1 DEF IInv, TypeOK, CallInv, Shape
<1>6. Shape(c)' /\ Read(c)' /\ Child(c)'
  BY <1>1, <1>2, <1>5 DEF Shape, Read, Child, AfterDecision, Storing
<1>7. Clear(c)'
  <2>1. stood'[c] \subseteq Grounds(j.op)
    BY <1>5, Observed
  <2>2. QED
    BY <2>1, <1>5 DEF Clear, AfterDecision, AfterRoot
<1>8. Distinct'
  BY DEF IInv, Distinct
<1>9. QED
  BY <1>3, <1>4, <1>6, <1>7, <1>8, LocalStep DEF CallInv

LEMMA ReadTokenStep == ASSUME IInv, NEW c \in Calls, ReadToken(c) PROVE IInv'
<1> USE DEF ReadToken
<1> DEFINE t == job[c].target
<1>1. CASE Refuse(c)
  BY <1>1, EndStep DEF Refuse
<1>2. CASE /\ Go(c, "decision")
           /\ tokens[t] = "live" \/ (tokens[t] # "none" /\ job[c].op = "introspect")
  <2>1. /\ OnlyCall(c) /\ CallType' /\ Distinct'
        /\ pc'[c] = "decision" /\ job' = job /\ copy' = copy /\ child' = child
    BY <1>2, GoCall DEF Labels
  <2>2. Shape(c)' /\ Read(c)' /\ Child(c)'
    BY <2>1 DEF IInv, CallInv, Shape, Read, Child, AfterDecision, Storing
  <2>3. job[c].op = "verify_token" => "token" \notin stood'[c]
    BY <1>2, <2>1, Observed DEF Denials, Denies
  <2>4. Clear(c)'
    BY <2>1, <2>3, Observed DEF IInv, CallInv, Clear, AfterDecision, AfterRoot
  <2>5. QED
    BY <2>1, <2>2, <2>4, LocalStep DEF CallInv
<1>3. QED
  BY <1>1, <1>2

LEMMA ReadDecisionStep == ASSUME IInv, NEW c \in Calls, ReadDecision(c) PROVE IInv'
<1> USE DEF ReadDecision
<1> DEFINE r == rows[job[c].target]
           next == IF job[c].op = "verify_decision" THEN "scope" ELSE "parent"
<1>1. CASE Refuse(c)
  BY <1>1, EndStep DEF Refuse
<1>2. CASE /\ Passes(r, job[c].op)
           /\ copy' = [copy EXCEPT ![c] = r]
           /\ pc' = [pc EXCEPT ![c] = next]
           /\ UNCHANGED <<job, child>>
  <2>1. /\ job[c].target \in Decisions /\ Exists(r) /\ r \in RowType
        /\ job[c].op \in Verifications \cup Spawning /\ child[c] = NONE
    BY DEF IInv, TypeOK, CallInv, Shape, Child
  <2>2. /\ OnlyCall(c) /\ CallType' /\ Distinct'
        /\ pc'[c] = next /\ copy'[c] = r
    BY <1>2, <2>1 DEF IInv, TypeOK, OnlyCall, CallType, Distinct, Labels
  <2>3. Shape(c)' /\ Child(c)'
    BY <1>2, <2>1, <2>2 DEF IInv, CallInv, Shape, Child, Storing
  <2>4. r.status \in {"allow", "deny"}
    BY <1>2, <2>1 DEF Passes, Stopped, Revoked, Exists, RowType
  <2>5. Read(c)'
    BY <1>2, <2>2, <2>4 DEF Read
  <2>6. "revoked" \notin stood'[c] /\ "expired" \notin stood'[c]
    BY <1>2, Observed DEF Denials, Denies, Passes, Stopped
  <2>7. "superseded" \notin stood'[c]
    <3>1. CASE job[c].op = "verify_decision"
      BY <1>2, <3>1, Observed, GroundsOf
    <3>2. CASE job[c].op # "verify_decision"
      BY <1>2, <3>2, Observed DEF Denials, Denies, Passes
    <3>3. QED
      BY <3>1, <3>2
  <2>8. next = "scope" => {"parent", "root"} \cap stood'[c] = {}
    BY <1>2, Observed, GroundsOf
  <2>9. Clear(c)'
    BY <1>2, <2>2, <2>6, <2>7, <2>8, Observed
    DEF IInv, CallInv, Clear, AfterDecision, AfterRoot
  <2>10. QED
    BY <2>2, <2>3, <2>5, <2>9, LocalStep DEF CallInv
<1>3. QED
  BY <1>1, <1>2

\* A call that goes on with its locals as they are.
LEMMA MoveStep ==
  ASSUME IInv, Observe, NEW c \in Calls, NEW l \in Labels, Go(c, l),
         UNCHANGED <<rows, tokens, kills, changes>>,
         Shape(c)', Child(c)', Clear(c)', pc[c] \in AfterDecision
  PROVE  IInv'
<1>1. /\ OnlyCall(c) /\ CallType' /\ Distinct'
      /\ pc'[c] = l /\ job' = job /\ copy' = copy /\ child' = child
  BY GoCall
<1>2. Read(c)'
  BY <1>1 DEF IInv, CallInv, Read
<1>3. QED
  BY <1>1, <1>2, LocalStep DEF CallInv

LEMMA ReadParentStep == ASSUME IInv, NEW c \in Calls, ReadParent(c) PROVE IInv'
<1> USE DEF ReadParent
<1> DEFINE p == copy[c].parent
<1>1. CASE Refuse(c)
  BY <1>1, EndStep DEF Refuse
<1>2. CASE Go(c, "root") /\ ~(p # NONE /\ Stopped(rows[p]))
  <2>1. pc'[c] = "root" /\ job' = job /\ copy' = copy /\ child' = child
    BY <1>2, GoCall DEF Labels
  <2>2. Shape(c)' /\ Child(c)'
    BY <2>1 DEF IInv, CallInv, Shape, Child, Storing
  <2>3. p = rows[job[c].target].parent /\ copy[c].root = rows[job[c].target].root
    BY DEF IInv, CallInv, Read, AfterDecision, Labels
  <2>4. "parent" \notin stood'[c]
    BY <1>2, <2>1, <2>3, Observed DEF Denials, Denies
  <2>5. copy[c].root = p => "root" \notin stood'[c]
    BY <1>2, <2>1, <2>3, Observed DEF Denials, Denies
  <2>6. Clear(c)'
    BY <2>1, <2>4, <2>5, Observed
    DEF IInv, CallInv, Clear, AfterDecision, AfterRoot, Labels
  <2>7. QED
    BY <1>2, <2>2, <2>6, MoveStep DEF AfterDecision, Labels
<1>3. QED
  BY <1>1, <1>2

LEMMA ReadRootStep == ASSUME IInv, NEW c \in Calls, ReadRoot(c) PROVE IInv'
<1> USE DEF ReadRoot
<1> DEFINE r == copy[c].root
<1>1. CASE Refuse(c)
  BY <1>1, EndStep DEF Refuse
<1>2. CASE /\ Go(c, "scope")
           /\ ~(r \notin {NONE, job[c].target, copy[c].parent} /\ Stopped(rows[r]))
  <2>1. pc'[c] = "scope" /\ job' = job /\ copy' = copy /\ child' = child
    BY <1>2, GoCall DEF Labels
  <2>2. Shape(c)' /\ Child(c)'
    BY <2>1 DEF IInv, CallInv, Shape, Child, Storing
  <2>3. r = rows[job[c].target].root /\ job[c].target \in Decisions
    BY DEF IInv, CallInv, Read, Shape, AfterDecision, Labels
  <2>4. r # job[c].target
    BY <2>3, ConstantsAssumption DEF IInv, Tree, RootIsTop, Decisions
  <2>5. "root" \notin stood'[c]
    <3>1. CASE r = copy[c].parent
      BY <3>1, Observed DEF IInv, CallInv, Clear
    <3>2. CASE r # copy[c].parent
      BY <1>2, <3>2, <2>1, <2>3, <2>4, Observed DEF Denials, Denies
    <3>3. QED
      BY <3>1, <3>2
  <2>6. Clear(c)'
    BY <2>1, <2>5, Observed DEF IInv, CallInv, Clear, AfterDecision, AfterRoot, Labels
  <2>7. QED
    BY <1>2, <2>2, <2>6, MoveStep DEF AfterDecision, Labels
<1>3. QED
  BY <1>1, <1>2

\* Past the reads of the lineage nothing is cleared but the kill switch.
LEMMA StaysClear ==
  ASSUME IInv, Observe, NEW c \in Calls, pc[c] \in AfterRoot, job'[c] = job[c],
         pc'[c] \in AfterRoot,
         pc'[c] = "valid" => "kill" \notin stood'[c]
  PROVE  Clear(c)'
<1>1. stood'[c] \subseteq stood[c] /\ stood'[c] \subseteq Grounds(job'[c].op)
  BY Observed DEF AfterRoot, AfterDecision
<1>2. QED
  BY <1>1 DEF IInv, CallInv, Clear, AfterRoot, AfterDecision

LEMMA CheckScopeStep == ASSUME IInv, NEW c \in Calls, CheckScope(c) PROVE IInv'
<1> USE DEF CheckScope
<1> DEFINE l == IF job[c].op = "verify_token" THEN "kill"
                ELSE IF job[c].op \in Spawning THEN "kernel" ELSE "valid"
<1>1. CASE Refuse(c)
  BY <1>1, EndStep DEF Refuse
<1>2. CASE Go(c, l) /\ InScope(c)
  <2>1. l \in Labels /\ pc[c] \in AfterRoot /\ pc[c] \in AfterDecision
    BY DEF Labels, AfterRoot, AfterDecision
  <2>2. pc'[c] = l /\ job' = job /\ copy' = copy /\ child' = child
    BY <1>2, <2>1, GoCall
  <2>3. Shape(c)'
    BY <2>2 DEF IInv, CallInv, Shape, Storing
  <2>4. l = "kernel" => job[c].scope \subseteq copy[c].scope
    BY <1>2 DEF InScope, Covers, Narrower, Verifications, Spawning
  <2>5. Child(c)'
    BY <2>2, <2>4 DEF IInv, CallInv, Child
  <2>6. l = "valid" => "kill" \notin stood'[c]
    <3>1. job[c].op \in Verifications \cup Spawning
      BY DEF IInv, CallInv, Shape
    <3>2. QED
      BY <2>2, <3>1, Observed, GroundsOf DEF Verifications, Spawning
  <2>7. Clear(c)'
    BY <2>1, <2>2, <2>6, StaysClear DEF AfterRoot, AfterDecision, Labels
  <2>8. QED
    BY <1>2, <2>1, <2>3, <2>5, <2>7, MoveStep
<1>3. QED
  BY <1>1, <1>2

LEMMA CheckKillSwitchStep == ASSUME IInv, NEW c \in Calls, CheckKillSwitch(c) PROVE IInv'
<1> USE DEF CheckKillSwitch
<1>1. CASE Refuse(c)
  BY <1>1, EndStep DEF Refuse
<1>2. CASE Go(c, "valid") /\ job[c].target \notin kills
  <2>1. pc'[c] = "valid" /\ job' = job /\ copy' = copy /\ child' = child
    BY <1>2, GoCall DEF Labels
  <2>2. Shape(c)' /\ Child(c)'
    BY <2>1 DEF IInv, CallInv, Shape, Child, Storing
  <2>3. "kill" \notin stood'[c]
    BY <1>2, <2>1, Observed DEF Denials, Denies
  <2>4. Clear(c)'
    BY <2>1, <2>3, StaysClear DEF AfterRoot, AfterDecision, Labels
  <2>5. QED
    BY <1>2, <2>2, <2>4, MoveStep DEF AfterDecision, Labels
<1>3. QED
  BY <1>1, <1>2

LEMMA KernelRanStep == ASSUME IInv, NEW c \in Calls, KernelRan(c) PROVE IInv'
<1> USE DEF KernelRan
<1>1. pc'[c] = "supersede" /\ job' = job /\ copy' = copy /\ child' = child
  BY GoCall DEF Labels
<1>2. Shape(c)' /\ Child(c)'
  BY <1>1 DEF IInv, CallInv, Shape, Child, Storing
<1>3. Clear(c)'
  BY <1>1, StaysClear DEF AfterRoot, AfterDecision, Labels
<1>4. QED
  BY <1>2, <1>3, MoveStep DEF AfterDecision, Labels

LEMMA KernelAllowedStep == ASSUME IInv, NEW c \in Calls, KernelAllowed(c) PROVE IInv'
<1> USE DEF KernelAllowed
<1>1. PICK d \in Fresh : child' = [child EXCEPT ![c] = d]
  OBVIOUS
<1>2. /\ d \in Grants /\ ~Exists(rows[d]) /\ d # NONE
      /\ \A e \in Calls : child[e] # d
  BY ConstantsAssumption DEF Fresh, Decisions
<1>3. /\ OnlyCall(c) /\ CallType' /\ job' = job /\ copy' = copy /\ child'[c] = d
      /\ pc'[c] = IF job[c].op = "handoff" THEN "supersede" ELSE "issue"
  BY <1>1, <1>2 DEF IInv, TypeOK, OnlyCall, CallType, Labels
<1>4. Distinct'
  BY <1>2, <1>3 DEF IInv, Distinct, OnlyCall
<1>5. Shape(c)'
  BY <1>3 DEF IInv, CallInv, Shape, Storing
<1>6. Read(c)'
  BY <1>3 DEF IInv, CallInv, Read, AfterDecision, Labels
<1>7. Child(c)'
  BY <1>2, <1>3 DEF IInv, CallInv, Child
<1>8. Clear(c)'
  BY <1>3, StaysClear DEF AfterRoot, AfterDecision, Labels
<1>9. QED
  BY <1>3, <1>4, <1>5, <1>6, <1>7, <1>8, LocalStep DEF CallInv

----------------------------------------------------------------------------
(* Steps that write rows.  Either only the state of existing rows changes,  *)
(* or one new row is added under rows that exist.                           *)

LEMMA OldRows ==
  ASSUME IInv, Kept, \A d \in Decisions : ~Exists(rows[d]) => rows'[d] = rows[d]
  PROVE  OneRoot' /\ RootIsTop' /\ ActionsAttenuate'
<1>1. ASSUME NEW d \in Decisions
      PROVE  /\ rows'[d].parent = rows[d].parent
             /\ rows'[d].root = rows[d].root
             /\ rows'[d].scope = rows[d].scope
             /\ Exists(rows[d]) => Exists(rows'[d])
  BY DEF Kept
<1>2. ASSUME NEW d \in Decisions
      PROVE  /\ rows[d].parent # NONE => rows[d].parent \in Decisions
             /\ rows[d].root # NONE => rows[d].root \in Decisions
  BY DEF IInv, TypeOK, RowType
<1>3. OneRoot'
  BY <1>1, <1>2 DEF IInv, Tree, OneRoot
<1>4. RootIsTop'
  BY <1>1, <1>2 DEF IInv, Tree, RootIsTop
<1>5. ActionsAttenuate'
  BY <1>1, <1>2 DEF IInv, Tree, ActionsAttenuate
<1>6. QED
  BY <1>3, <1>4, <1>5

LEMMA NewRow ==
  ASSUME IInv, NEW n \in Decisions, ~Exists(rows[n]), NEW r \in RowType, Exists(r),
         rows' = [rows EXCEPT ![n] = r],
         r.parent # NONE =>
           /\ Exists(rows[r.parent])
           /\ r.root = IF rows[r.parent].root = NONE THEN r.parent
                       ELSE rows[r.parent].root
           /\ r.scope \subseteq rows[r.parent].scope,
         r.root # NONE => /\ Exists(rows[r.root])
                          /\ rows[r.root].root = NONE
                          /\ r.scope \subseteq rows[r.root].scope
  PROVE  Kept /\ OneRoot' /\ RootIsTop' /\ ActionsAttenuate'
<1>1. /\ rows'[n] = r
      /\ \A d \in Decisions : d # n => rows'[d] = rows[d]
      /\ \A d \in Decisions : Exists(rows[d]) => d # n /\ rows'[d] = rows[d]
  BY DEF IInv, TypeOK
<1>2. ASSUME NEW d \in Decisions
      PROVE  /\ rows[d].parent # NONE => rows[d].parent \in Decisions
             /\ rows[d].root # NONE => rows[d].root \in Decisions
  BY DEF IInv, TypeOK, RowType
<1>3. /\ r.parent # NONE => r.parent \in Decisions
      /\ r.root # NONE => r.root \in Decisions
  BY DEF RowType
<1>4. ASSUME NEW d \in Decisions
      PROVE  /\ rows[d].parent # NONE => Exists(rows[rows[d].parent])
             /\ rows[d].root # NONE => Exists(rows[rows[d].root])
  BY DEF IInv, Tree, OneRoot, RootIsTop
<1>5. Kept
  BY <1>1 DEF Kept
<1>6. OneRoot'
  BY <1>1, <1>2, <1>3, <1>4 DEF IInv, Tree, OneRoot
<1>7. RootIsTop'
  BY <1>1, <1>2, <1>3, <1>4 DEF IInv, Tree, RootIsTop
<1>8. ActionsAttenuate'
  BY <1>1, <1>2, <1>3, <1>4 DEF IInv, Tree, ActionsAttenuate
<1>9. QED
  BY <1>5, <1>6, <1>7, <1>8

\* The transaction of issue_token_for_decision.
LEMMA IssueRows ==
  ASSUME IInv, NEW c \in Calls, pc[c] = "issue", IssueToken(c),
         UNCHANGED <<kills, changes>>
  PROVE  /\ Kept /\ TableType' /\ Tree'
         /\ rows'[child[c]] = ChildRow(c)
         /\ \A d \in Decisions : d # child[c] => rows'[d] = rows[d]
<1> DEFINE n == child[c]
           t == job[c].target
           r == ChildRow(c)
<1>1. /\ n \in Decisions /\ ~Exists(rows[n])
      /\ t \in Decisions /\ Exists(rows[t])
      /\ job[c].action \in Actions /\ job[c].scope \in SUBSET Actions
      /\ job[c].op \in {"delegate", "handoff"}
  BY DEF IInv, TypeOK, CallInv, Shape, Child, Decisions, JobType
<1>2. /\ copy[c].parent = rows[t].parent /\ copy[c].root = rows[t].root
      /\ job[c].scope \subseteq rows[t].scope
  BY DEF IInv, CallInv, Read, Child, AfterDecision, Labels
<1>3. rows[t].parent \in Decisions \cup {NONE} /\ rows[t].root \in Decisions \cup {NONE}
  BY <1>1 DEF IInv, TypeOK, RowType
<1>4. /\ r.status = "allow" /\ r.scope = job[c].scope
      /\ r.parent = IF job[c].op = "delegate" THEN t ELSE rows[t].parent
      /\ r.root = IF rows[t].root = NONE THEN t ELSE rows[t].root
  BY <1>2 DEF ChildRow
<1>5. r \in RowType /\ Exists(r)
  BY <1>1, <1>2, <1>3, <1>4 DEF ChildRow, RowType, Exists
<1>6. ASSUME r.parent # NONE
      PROVE  /\ Exists(rows[r.parent])
             /\ r.root = IF rows[r.parent].root = NONE THEN r.parent
                         ELSE rows[r.parent].root
             /\ r.scope \subseteq rows[r.parent].scope
  <2>1. CASE job[c].op = "delegate"
    BY <2>1, <1>1, <1>2, <1>4
  <2>2. CASE job[c].op # "delegate"
    <3>1. r.parent = rows[t].parent /\ rows[t].parent # NONE
      BY <2>2, <1>4, <1>6
    <3>2. /\ Exists(rows[rows[t].parent])
          /\ rows[t].root = IF rows[rows[t].parent].root = NONE THEN rows[t].parent
                            ELSE rows[rows[t].parent].root
          /\ rows[t].scope \subseteq rows[rows[t].parent].scope
      BY <3>1, <1>1 DEF IInv, Tree, OneRoot, ActionsAttenuate
    <3>3. rows[t].root # NONE
      BY <3>1, <3>2
    <3>4. QED
      BY <3>1, <3>2, <3>3, <1>2, <1>4
  <2>3. QED
    BY <2>1, <2>2
<1>7. /\ Exists(rows[r.root]) /\ rows[r.root].root = NONE
      /\ r.scope \subseteq rows[r.root].scope
  <2>1. CASE rows[t].root = NONE
    BY <2>1, <1>1, <1>2, <1>4
  <2>2. CASE rows[t].root # NONE
    BY <2>2, <1>1, <1>2, <1>4 DEF IInv, Tree, RootIsTop, ActionsAttenuate
  <2>3. QED
    BY <2>1, <2>2
<1>8. rows' = [rows EXCEPT ![n] = r] /\ tokens' = [tokens EXCEPT ![n] = "live"]
  BY DEF IssueToken
<1>9. Kept /\ OneRoot' /\ RootIsTop' /\ ActionsAttenuate'
  BY <1>1, <1>5, <1>6, <1>7, <1>8, NewRow
<1>10. TableType'
  BY <1>1, <1>5, <1>8 DEF IInv, TypeOK, TableType
<1>11. rows'[n] = r /\ (\A d \in Decisions : d # n => rows'[d] = rows[d])
  BY <1>1, <1>8 DEF IInv, TypeOK
<1>12. \A d \in Decisions : d # n => tokens'[d] = tokens[d]
  BY <1>8 DEF IInv, TypeOK
<1>13. Blank' /\ TokensDieWithDecision'
  BY <1>4, <1>5, <1>11, <1>12
  DEF IInv, Tree, Blank, TokensDieWithDecision, Revoked
<1>14. QED
  BY <1>9, <1>10, <1>11, <1>13 DEF Tree

LEMMA IssueOthers ==
  ASSUME IInv, NEW c \in Calls, pc[c] = "issue",
         \A d \in Decisions : d # child[c] => rows'[d] = rows[d]
  PROVE  \A e \in Calls \ {c} :
           child[e] # NONE /\ ~Exists(rows[child[e]]) => ~Exists(rows'[child[e]])
<1> SUFFICES ASSUME NEW e \in Calls \ {c}, child[e] # NONE, ~Exists(rows[child[e]])
             PROVE  ~Exists(rows'[child[e]])
  OBVIOUS
<1>1. child[e] \in Decisions
  BY DEF IInv, TypeOK, Decisions
<1>2. child[e] # child[c]
  BY DEF IInv, Distinct
<1>3. QED
  BY <1>1, <1>2

LEMMA IssueStep == ASSUME IInv, NEW c \in Calls, Issue(c) PROVE IInv'
<1> USE DEF Issue
<1>1. /\ Kept /\ TableType' /\ Tree'
      /\ \A d \in Decisions : d # child[c] => rows'[d] = rows[d]
  BY IssueRows
<1>2. OnlyCall(c) /\ CallType' /\ CallInv(c)' /\ Distinct'
  BY EndCall
<1>3. QED
  BY <1>1, <1>2, IssueOthers, OneCall

LEMMA IssueFailsStep == ASSUME IInv, NEW c \in Calls, IssueFails(c) PROVE IInv'
<1> USE DEF IssueFails
<1>1. /\ Kept /\ TableType' /\ Tree'
      /\ \A d \in Decisions : d # child[c] => rows'[d] = rows[d]
  <2>1. CASE IssueToken(c)
    BY <2>1, IssueRows
  <2>2. CASE UNCHANGED <<rows, tokens>>
    BY <2>2 DEF IInv, TypeOK, TableType, Kept, Tree, Blank, OneRoot, RootIsTop,
                ActionsAttenuate, TokensDieWithDecision
  <2>3. QED
    BY <2>1, <2>2
<1>2. OnlyCall(c) /\ CallType' /\ CallInv(c)' /\ Distinct'
  <2>1. CASE End(c)
    BY <2>1, EndCall
  <2>2. CASE Go(c, "compensate") /\ job[c].op = "delegate"
    <3>1. /\ OnlyCall(c) /\ CallType' /\ Distinct'
          /\ pc'[c] = "compensate" /\ job' = job /\ copy' = copy /\ child' = child
      BY <2>2, GoCall DEF Labels
    <3>2. Shape(c)'
      BY <2>2, <3>1, <1>1 DEF IInv, CallInv, Shape, Storing, Spawning, Kept
    <3>3. Read(c)'
      BY <3>1, <1>1 DEF IInv, CallInv, Read, Shape, Kept, AfterDecision, Labels
    <3>4. Child(c)'
      BY <3>1 DEF IInv, CallInv, Child
    <3>5. Clear(c)'
      BY <3>1, StaysClear DEF AfterRoot, AfterDecision, Labels
    <3>6. QED
      BY <3>1, <3>2, <3>3, <3>4, <3>5 DEF CallInv
  <2>3. QED
    BY <2>1, <2>2
<1>3. QED
  BY <1>1, <1>2, IssueOthers, OneCall

LEMMA Revoking ==
  ASSUME NEW r \in RowType, NEW x, x = [r EXCEPT !.status = "revoked"]
  PROVE  /\ x \in RowType /\ x.status = "revoked"
         /\ x.action = r.action /\ x.scope = r.scope /\ x.parent = r.parent
         /\ x.root = r.root /\ x.superseded = r.superseded
  BY DEF RowType

\* Writing the copy back changes the type of the row and marks it: even a
\* row whose revocation it overwrites stays withdrawn.
LEMMA SupersedeRows ==
  ASSUME IInv, NEW c \in Calls, Supersede(c)
  PROVE  /\ Kept /\ TableType' /\ Tree'
         /\ \A d \in Decisions : ~Exists(rows[d]) => rows'[d] = rows[d]
<1> USE DEF Supersede
<1> DEFINE t == job[c].target
<1>1. /\ t \in Decisions /\ Exists(rows[t])
      /\ copy[c].status \in {"allow", "deny"} /\ copy[c].scope = rows[t].scope
      /\ copy[c].scope \in SUBSET Actions /\ rows[t] \in RowType
  BY DEF RowType, TypeOK, IInv, CallInv, Shape, Read, AfterDecision, Labels
<1>2. /\ rows' \in [Decisions -> RowType]
      /\ \A d \in Decisions : d # t => rows'[d] = rows[d]
      /\ rows'[t].status = copy[c].status /\ rows'[t].superseded = TRUE
      /\ rows'[t].scope = rows[t].scope /\ rows'[t].action = rows[t].action
      /\ rows'[t].parent = rows[t].parent /\ rows'[t].root = rows[t].root
  <2>1. rows'[t] = [rows[t] EXCEPT !.status = copy[c].status, !.scope = copy[c].scope,
                                   !.superseded = TRUE]
    BY <1>1 DEF IInv, TypeOK
  <2>2. /\ rows'[t] \in RowType
        /\ rows'[t].status = copy[c].status /\ rows'[t].superseded = TRUE
        /\ rows'[t].scope = copy[c].scope /\ rows'[t].action = rows[t].action
        /\ rows'[t].parent = rows[t].parent /\ rows'[t].root = rows[t].root
    <3> DEFINE r == rows[t]
               x == rows'[t]
               s == copy[c].status
               q == copy[c].scope
    <3>1. /\ r \in RowType /\ s \in {"allow", "deny"} /\ q \in SUBSET Actions
          /\ x = [r EXCEPT !.status = s, !.scope = q, !.superseded = TRUE]
      BY <1>1, <2>1
    <3> HIDE DEF r, x, s, q
    <3>2. /\ x \in RowType /\ x.status = s /\ x.superseded = TRUE
          /\ x.action = r.action /\ x.scope = q /\ x.parent = r.parent
          /\ x.root = r.root
      BY <3>1 DEF RowType
    <3>3. QED
      BY <3>2 DEF r, x, s, q
  <2>3. rows' \in [Decisions -> RowType] /\ \A d \in Decisions : d # t => rows'[d] = rows[d]
    BY <1>1, <2>1, <2>2 DEF IInv, TypeOK
  <2>4. QED
    BY <1>1, <2>2, <2>3
<1>3. Kept
  BY <1>1, <1>2 DEF Kept, Exists, Withdrawn
<1>4. TableType'
  BY <1>2 DEF IInv, TypeOK, TableType
<1>5. \A d \in Decisions : ~Exists(rows[d]) => rows'[d] = rows[d]
  BY <1>1, <1>2
<1>6. Blank' /\ TokensDieWithDecision'
  BY <1>1, <1>2 DEF IInv, Tree, Blank, TokensDieWithDecision, Revoked, Exists
<1>7. QED
  BY <1>3, <1>4, <1>5, <1>6, OldRows DEF Tree

LEMMA SupersedeStep == ASSUME IInv, NEW c \in Calls, Supersede(c) PROVE IInv'
<1>1. /\ Kept /\ TableType' /\ Tree'
      /\ \A d \in Decisions : ~Exists(rows[d]) => rows'[d] = rows[d]
  BY SupersedeRows
<1>2. Observe /\ pc[c] = "supersede"
  BY DEF Supersede
<1>3. OnlyCall(c) /\ CallType' /\ CallInv(c)' /\ Distinct'
  <2>1. CASE End(c)
    BY <2>1, <1>2, EndCall
  <2>2. CASE Go(c, "issue") /\ child[c] # NONE
    <3>1. /\ OnlyCall(c) /\ CallType' /\ Distinct'
          /\ pc'[c] = "issue" /\ job' = job /\ copy' = copy /\ child' = child
      BY <2>2, GoCall DEF Labels
    <3>2. Shape(c)'
      BY <3>1, <1>1, <1>2 DEF IInv, CallInv, Shape, Storing, Spawning, Kept
    <3>3. Read(c)'
      BY <3>1, <1>1, <1>2 DEF IInv, CallInv, Read, Shape, Kept, AfterDecision, Labels
    <3>4. child[c] \in Decisions
      BY <2>2 DEF IInv, TypeOK, Decisions
    <3>5. Child(c)'
      BY <2>2, <3>1, <3>4, <1>1, <1>2 DEF IInv, CallInv, Child
    <3>6. Clear(c)'
      BY <3>1, <1>2, StaysClear DEF AfterRoot, AfterDecision, Labels
    <3>7. QED
      BY <3>1, <3>2, <3>3, <3>5, <3>6 DEF CallInv
  <2>3. QED
    BY <2>1, <2>2 DEF Supersede
<1>4. ASSUME NEW e \in Calls \ {c}, child[e] # NONE, ~Exists(rows[child[e]])
      PROVE  ~Exists(rows'[child[e]])
  BY <1>1, <1>4 DEF IInv, TypeOK, Decisions
<1>5. QED
  BY <1>1, <1>2, <1>3, <1>4, OneCall

LEMMA RevokeRows ==
  ASSUME IInv, NEW d \in Decisions, RevokeDecision(d)
  PROVE  /\ Kept /\ OneRoot' /\ RootIsTop' /\ ActionsAttenuate'
         /\ Blank' /\ TokensDieWithDecision'
         /\ rows' \in [Decisions -> RowType]
         /\ tokens' \in [Decisions -> {"none", "live", "expired", "revoked"}]
         /\ \A e \in Decisions : ~Exists(rows[e]) => rows'[e] = rows[e]
         /\ Exists(rows[d]) => Revoked(rows'[d])
<1> USE DEF RevokeDecision
<1>1. ASSUME NEW e \in Decisions
      PROVE  /\ rows[e] \in RowType
             /\ e \notin Cascade(d) => rows'[e] = rows[e] /\ tokens'[e] = tokens[e]
             /\ e \in Cascade(d) => /\ Exists(rows[e])
                                    /\ rows'[e] = [rows[e] EXCEPT !.status = "revoked"]
                                    /\ tokens'[e] \in {"none", "revoked"}
  BY DEF IInv, TypeOK, Cascade
<1>2. ASSUME NEW e \in Decisions
      PROVE  /\ rows'[e] \in RowType
             /\ rows'[e].action = rows[e].action /\ rows'[e].scope = rows[e].scope
             /\ rows'[e].parent = rows[e].parent /\ rows'[e].root = rows[e].root
             /\ rows'[e].superseded = rows[e].superseded
             /\ rows'[e].status = IF e \in Cascade(d) THEN "revoked" ELSE rows[e].status
  <2>1. CASE e \in Cascade(d)
    BY <2>1, <1>1, Revoking
  <2>2. CASE e \notin Cascade(d)
    BY <2>2, <1>1
  <2>3. QED
    BY <2>1, <2>2
<1>3. Kept
  BY <1>1, <1>2 DEF Kept, Exists, Withdrawn, Revoked
<1>4. \A e \in Decisions : ~Exists(rows[e]) => rows'[e] = rows[e]
  BY <1>1
<1>5. OneRoot' /\ RootIsTop' /\ ActionsAttenuate'
  BY <1>3, <1>4, OldRows
<1>6. Blank'
  BY <1>1, <1>2 DEF IInv, Tree, Blank, Exists
<1>7. TokensDieWithDecision'
  BY <1>1, <1>2 DEF IInv, Tree, TokensDieWithDecision, Revoked
<1>8. /\ rows' \in [Decisions -> RowType]
      /\ tokens' \in [Decisions -> {"none", "live", "expired", "revoked"}]
  BY <1>2 DEF IInv, TypeOK
<1>9. Exists(rows[d]) => Revoked(rows'[d])
  BY <1>2 DEF Cascade, Revoked
<1>10. QED
  BY <1>3, <1>4, <1>5, <1>6, <1>7, <1>8, <1>9

LEMMA CompensateStep == ASSUME IInv, NEW c \in Calls, Compensate(c) PROVE IInv'
<1> USE DEF Compensate
<1>1. child[c] \in Decisions /\ job[c].op = "delegate"
  BY DEF IInv, TypeOK, CallInv, Shape, Child, Decisions
<1>2. /\ Kept /\ TableType' /\ Tree'
      /\ \A d \in Decisions : ~Exists(rows[d]) => rows'[d] = rows[d]
      /\ Exists(rows[child[c]]) => Revoked(rows'[child[c]])
  BY <1>1, RevokeRows DEF IInv, TypeOK, TableType, Tree
<1>3. /\ OnlyCall(c) /\ CallType' /\ Distinct'
      /\ pc'[c] = "failed" /\ job' = job /\ copy' = copy /\ child' = child
  BY GoCall DEF Labels
<1>4. Shape(c)'
  BY <1>1, <1>2, <1>3 DEF IInv, CallInv, Shape, Storing, Spawning, Kept
<1>5. Read(c)'
  BY <1>2, <1>3 DEF IInv, CallInv, Read, Shape, Kept, AfterDecision, Labels
<1>6. Child(c)'
  BY <1>1, <1>2, <1>3 DEF IInv, CallInv, Child, Withdrawn
<1>7. Clear(c)'
  BY <1>3, StaysClear DEF AfterRoot, AfterDecision, Labels
<1>8. ASSUME NEW e \in Calls \ {c}, child[e] # NONE, ~Exists(rows[child[e]])
      PROVE  ~Exists(rows'[child[e]])
  BY <1>2, <1>8 DEF IInv, TypeOK, Decisions
<1>9. QED
  BY <1>2, <1>3, <1>4, <1>5, <1>6, <1>7, <1>8, OneCall DEF CallInv

----------------------------------------------------------------------------
(* The decisions API, operators and time: no call takes a step. *)

LEMMA EnvironmentStep ==
  ASSUME IInv, Observe, Kept, TableType', Tree', UNCHANGED <<pc, job, copy, child>>,
         \A e \in Calls :
           child[e] # NONE /\ ~Exists(rows[child[e]]) => ~Exists(rows'[child[e]])
  PROVE  IInv'
<1>1. CallType'
  BY DEF IInv, TypeOK, CallType
<1>2. TypeOK'
  BY <1>1, StoodType DEF TypeOK, TableType, CallType
<1>3. ASSUME NEW e \in Calls PROVE CallInv(e)'
  BY OtherCalls
<1>4. Distinct'
  BY DEF IInv, Distinct
<1>5. QED
  BY <1>2, <1>3, <1>4 DEF IInv

LEMMA CreateStep ==
  ASSUME IInv, NEW d \in Decisions, NEW req \in Creates, Create(d, req)
  PROVE  IInv'
<1> USE DEF Create
<1> DEFINE q == IF req.scope = {} THEN {req.action} ELSE req.scope
           r == [Absent EXCEPT !.status = req.type, !.action = req.action, !.scope = q]
<1>1. /\ req.type \in {"allow", "deny"} /\ req.action \in Actions
      /\ req.scope \in SUBSET Actions /\ q \in SUBSET Actions
  BY ConstantsAssumption
<1>2. /\ r \in RowType /\ r.status = req.type /\ r.parent = NONE /\ r.root = NONE
  BY <1>1 DEF Absent, RowType
<1>3. Exists(r)
  BY <1>1, <1>2 DEF Exists
<1>4. rows' = [rows EXCEPT ![d] = r]
  OBVIOUS
<1> HIDE DEF r
<1>5. Kept /\ OneRoot' /\ RootIsTop' /\ ActionsAttenuate'
  BY <1>2, <1>3, <1>4, NewRow
<1>6. rows'[d] = r /\ \A e \in Decisions : e # d => rows'[e] = rows[e]
  BY <1>4 DEF IInv, TypeOK
<1>7. TableType'
  BY <1>2, <1>4 DEF IInv, TypeOK, TableType
<1>8. Blank' /\ TokensDieWithDecision'
  BY <1>1, <1>2, <1>3, <1>6 DEF IInv, Tree, Blank, TokensDieWithDecision, Revoked
<1>9. ASSUME NEW e \in Calls, child[e] # NONE, ~Exists(rows[child[e]])
      PROVE  ~Exists(rows'[child[e]])
  <2>1. child[e] \in Grants /\ d \in Roots
    BY <1>9 DEF IInv, TypeOK
  <2>2. child[e] # d /\ child[e] \in Decisions
    BY <2>1, ConstantsAssumption DEF Decisions
  <2>3. QED
    BY <2>2, <1>6, <1>9
<1>10. QED
  BY <1>5, <1>7, <1>8, <1>9, EnvironmentStep DEF Tree

LEMMA RevokeStep == ASSUME IInv, NEW d \in Decisions, Revoke(d) PROVE IInv'
<1> USE DEF Revoke
<1>1. Kept /\ Tree' /\ \A e \in Decisions : ~Exists(rows[e]) => rows'[e] = rows[e]
  BY RevokeRows DEF Tree
<1>2. TableType'
  BY RevokeRows DEF IInv, TypeOK, TableType, Change
<1>3. ASSUME NEW e \in Calls, child[e] # NONE, ~Exists(rows[child[e]])
      PROVE  ~Exists(rows'[child[e]])
  BY <1>1, <1>3 DEF IInv, TypeOK, Decisions
<1>4. QED
  BY <1>1, <1>2, <1>3, EnvironmentStep

\* A step that leaves the rows alone and gives no token to a row without one.
LEMMA TokenChange ==
  ASSUME IInv, Observe, UNCHANGED <<rows, pc, job, copy, child>>, TableType',
         \A e \in Decisions : \/ tokens'[e] = tokens[e]
                              \/ tokens[e] # "none" /\ tokens'[e] = "revoked"
                              \/ tokens[e] = "live" /\ tokens'[e] = "expired"
  PROVE  IInv'
<1>1. Kept
  BY DEF Kept
<1>2. OneRoot' /\ RootIsTop' /\ ActionsAttenuate'
  BY DEF IInv, Tree, OneRoot, RootIsTop, ActionsAttenuate
<1>3. Blank' /\ TokensDieWithDecision'
  BY DEF IInv, Tree, Blank, TokensDieWithDecision
<1>4. QED
  BY <1>1, <1>2, <1>3, EnvironmentStep DEF Tree

LEMMA RevokeTokenStep == ASSUME IInv, NEW d \in Decisions, RevokeToken(d) PROVE IInv'
<1> USE DEF RevokeToken
<1>1. TableType'
  BY DEF IInv, TypeOK, TableType, Change
<1>2. \A e \in Decisions : \/ tokens'[e] = tokens[e]
                           \/ tokens[e] # "none" /\ tokens'[e] = "revoked"
  BY DEF IInv, TypeOK
<1>3. QED
  BY <1>1, <1>2, TokenChange

LEMMA ExpireTokenStep == ASSUME IInv, NEW d \in Decisions, ExpireToken(d) PROVE IInv'
<1> USE DEF ExpireToken
<1>1. TableType'
  BY DEF IInv, TypeOK, TableType, Change
<1>2. \A e \in Decisions : \/ tokens'[e] = tokens[e]
                           \/ tokens[e] = "live" /\ tokens'[e] = "expired"
  BY DEF IInv, TypeOK
<1>3. QED
  BY <1>1, <1>2, TokenChange

LEMMA ToggleStep == ASSUME IInv, NEW d \in Decisions, ToggleKillSwitch(d) PROVE IInv'
<1> USE DEF ToggleKillSwitch
<1>1. TableType'
  BY DEF IInv, TypeOK, TableType, Change
<1>2. QED
  BY <1>1, TokenChange

LEMMA ExpireStep == ASSUME IInv, NEW d \in Decisions, Expire(d) PROVE IInv'
<1>1. rows[d] \in RowType
  BY DEF IInv, TypeOK
<1>2. /\ rows'[d] = [rows[d] EXCEPT !.expired = TRUE]
      /\ \A e \in Decisions : e # d => rows'[e] = rows[e]
      /\ Exists(rows[d]) /\ tokens' = tokens
  BY DEF IInv, TypeOK, Expire
<1>3. /\ rows'[d] \in RowType /\ rows'[d].status = rows[d].status
      /\ rows'[d].action = rows[d].action /\ rows'[d].scope = rows[d].scope
      /\ rows'[d].parent = rows[d].parent /\ rows'[d].root = rows[d].root
      /\ rows'[d].superseded = rows[d].superseded
  BY <1>1, <1>2 DEF RowType
<1>4. Kept /\ (\A e \in Decisions : ~Exists(rows[e]) => rows'[e] = rows[e])
  <2>1. Exists(rows'[d]) /\ (Withdrawn(rows[d]) => Withdrawn(rows'[d]))
    BY <1>2, <1>3 DEF Exists, Withdrawn, Revoked
  <2>2. \A e \in Decisions : e # d => rows'[e] = rows[e]
    BY <1>2
  <2>3. Kept
    BY <1>3, <2>1, <2>2 DEF Kept
  <2>4. QED
    BY <1>2, <2>2, <2>3
<1>5. OneRoot' /\ RootIsTop' /\ ActionsAttenuate'
  BY <1>4, OldRows
<1>6. Blank' /\ TokensDieWithDecision'
  BY <1>2, <1>3 DEF IInv, Tree, Blank, TokensDieWithDecision, Exists, Revoked
<1>7. TableType'
  BY <1>1, <1>2, <1>3 DEF IInv, TypeOK, TableType, Change, Expire
<1>8. ASSUME NEW e \in Calls, child[e] # NONE, ~Exists(rows[child[e]])
      PROVE  ~Exists(rows'[child[e]])
  BY <1>4, <1>8 DEF IInv, TypeOK, Decisions
<1>9. QED
  BY <1>4, <1>5, <1>6, <1>7, <1>8, EnvironmentStep DEF Tree, Expire

----------------------------------------------------------------------------
(* The invariant. *)

LEMMA InvariantInit == Init => IInv
<1> SUFFICES ASSUME Init PROVE IInv
  OBVIOUS
<1> USE DEF Init
<1>1. TypeOK
  BY AbsentType DEF TypeOK, Labels, JobType, NoJob
<1>2. Tree
  BY DEF Tree, Blank, OneRoot, RootIsTop, ActionsAttenuate, TokensDieWithDecision,
         Absent, Exists, Revoked
<1>3. ASSUME NEW c \in Calls PROVE CallInv(c)
  BY DEF CallInv, Shape, Read, Child, Clear, AfterDecision, AfterRoot, Storing
<1>4. Distinct
  BY DEF Distinct
<1>5. QED
  BY <1>1, <1>2, <1>3, <1>4 DEF IInv

LEMMA CallStepInv == ASSUME IInv, NEW c \in Calls, CallStep(c) PROVE IInv'
<1>1. CASE Start(c)
  BY <1>1, StartStep
<1>2. CASE Return(c)
  BY <1>2, EndStep DEF Return
<1>3. CASE Abandon(c)
  BY <1>3, EndStep DEF Abandon
<1>4. CASE ReadToken(c)
  BY <1>4, ReadTokenStep
<1>5. CASE ReadDecision(c)
  BY <1>5, ReadDecisionStep
<1>6. CASE ReadParent(c)
  BY <1>6, ReadParentStep
<1>7. CASE ReadRoot(c)
  BY <1>7, ReadRootStep
<1>8. CASE CheckScope(c)
  BY <1>8, CheckScopeStep
<1>9. CASE CheckKillSwitch(c)
  BY <1>9, CheckKillSwitchStep
<1>10. CASE KernelAnswered(c)
  BY <1>10, EndStep DEF KernelAnswered
<1>11. CASE KernelRan(c)
  BY <1>11, KernelRanStep
<1>12. CASE KernelAllowed(c)
  BY <1>12, KernelAllowedStep
<1>13. CASE Supersede(c)
  BY <1>13, SupersedeStep
<1>14. CASE Issue(c)
  BY <1>14, IssueStep
<1>15. CASE IssueFails(c)
  BY <1>15, IssueFailsStep
<1>16. CASE Compensate(c)
  BY <1>16, CompensateStep
<1>17. QED
  BY <1>1, <1>2, <1>3, <1>4, <1>5, <1>6, <1>7, <1>8, <1>9, <1>10, <1>11, <1>12,
     <1>13, <1>14, <1>15, <1>16 DEF CallStep

LEMMA EnvironmentInv == ASSUME IInv, NEW d \in Decisions, Environment(d) PROVE IInv'
<1>1. ASSUME NEW req \in Creates, Create(d, req) PROVE IInv'
  BY <1>1, CreateStep
<1>2. CASE Revoke(d)
  BY <1>2, RevokeStep
<1>3. CASE RevokeToken(d)
  BY <1>3, RevokeTokenStep
<1>4. CASE Expire(d)
  BY <1>4, ExpireStep
<1>5. CASE ExpireToken(d)
  BY <1>5, ExpireTokenStep
<1>6. CASE ToggleKillSwitch(d)
  BY <1>6, ToggleStep
<1>7. QED
  BY <1>1, <1>2, <1>3, <1>4, <1>5, <1>6 DEF Environment

LEMMA Stuttering == ASSUME IInv, UNCHANGED vars PROVE IInv'
<1> USE DEF vars
<1>1. TypeOK' /\ Tree' /\ Distinct'
  BY DEF IInv, TypeOK, Tree, Blank, OneRoot, RootIsTop, ActionsAttenuate,
         TokensDieWithDecision, Distinct
<1>2. ASSUME NEW c \in Calls PROVE CallInv(c)'
  BY DEF IInv, CallInv, Shape, Read, Child, Clear
<1>3. QED
  BY <1>1, <1>2 DEF IInv

LEMMA Invariance == Spec => []IInv
<1>1. Init => IInv
  BY InvariantInit
<1>2. IInv /\ [Next]_vars => IInv'
  BY CallStepInv, EnvironmentInv, Stuttering DEF Next
<1>3. QED
  BY <1>1, <1>2, PTL DEF Spec

----------------------------------------------------------------------------
(* What a step may not undo. *)

\* Either a step leaves the rows alone or it is one of the six that write them.
LEMMA RowWriters ==
  ASSUME Next
  PROVE  \/ rows' = rows
         \/ \E c \in Calls : Supersede(c)
         \/ \E c \in Calls : pc[c] = "issue" /\ IssueToken(c)
         \/ \E d \in Decisions : RevokeDecision(d)
         \/ \E c \in Calls : pc[c] = "compensate" /\ RevokeDecision(child[c])
         \/ \E d \in Decisions, req \in Creates : Create(d, req)
         \/ \E d \in Decisions : Expire(d)
<1>1. ASSUME NEW c \in Calls, CallStep(c)
      PROVE  \/ rows' = rows
             \/ Supersede(c)
             \/ pc[c] = "issue" /\ IssueToken(c)
             \/ pc[c] = "compensate" /\ RevokeDecision(child[c])
  BY <1>1 DEF CallStep, Start, Return, Abandon, ReadToken, ReadDecision, ReadParent,
       ReadRoot, CheckScope, CheckKillSwitch, KernelAnswered, KernelRan,
       KernelAllowed, Issue, IssueFails, Compensate
<1>2. ASSUME NEW d \in Decisions, Environment(d)
      PROVE  \/ rows' = rows \/ RevokeDecision(d) \/ Expire(d)
             \/ \E req \in Creates : Create(d, req)
  BY <1>2 DEF Environment, Revoke, RevokeToken, ExpireToken, ToggleKillSwitch
<1>3. QED
  BY <1>1, <1>2 DEF Next

\* What becomes of a revocation and of the mark of a handoff: a row that no
\* handoff writes keeps both.
LEMMA StatusStep ==
  ASSUME IInv, Next, NEW d \in Decisions
  PROVE  /\ rows[d].superseded => rows'[d].superseded
         /\ Revoked(rows[d]) /\ ~Revoked(rows'[d]) =>
              rows'[d].superseded /\ \E c \in Calls : StaleHandoff(c, d)
<1> DEFINE Goal == /\ rows[d].superseded => rows'[d].superseded
                   /\ Revoked(rows[d]) /\ ~Revoked(rows'[d]) =>
                        rows'[d].superseded /\ \E c \in Calls : StaleHandoff(c, d)
<1>1. ASSUME rows'[d] = rows[d] PROVE Goal
  BY <1>1
<1>2. ASSUME NEW c \in Calls, Supersede(c) PROVE Goal
  <2>1. /\ job[c].target \in Decisions /\ pc[c] = "supersede"
        /\ copy[c].status \in {"allow", "deny"}
        /\ rows[job[c].target] \in RowType
    BY <1>2 DEF Supersede, IInv, TypeOK, CallInv, Shape, Read, AfterDecision, Labels
  <2>2. CASE d = job[c].target
    <3>1. rows'[d].superseded
      BY <1>2, <2>1, <2>2 DEF Supersede, IInv, TypeOK, RowType
    <3>2. StaleHandoff(c, d)
      BY <2>1, <2>2 DEF StaleHandoff, Revoked
    <3>3. QED
      BY <3>1, <3>2
  <2>3. CASE d # job[c].target
    <3>1. rows'[d] = rows[d]
      BY <1>2, <2>1, <2>3 DEF Supersede, IInv, TypeOK
    <3>2. QED
      BY <1>1, <3>1
  <2>4. QED
    BY <2>2, <2>3
<1>3. ASSUME NEW c \in Calls, pc[c] = "issue", IssueToken(c) PROVE Goal
  <2>1. child[c] \in Decisions /\ ~Exists(rows[child[c]])
    BY <1>3 DEF IInv, TypeOK, CallInv, Child, Decisions
  <2>2. CASE d = child[c]
    BY <2>1, <2>2 DEF IInv, Tree, Blank, Absent, Revoked
  <2>3. CASE d # child[c]
    <3>1. rows'[d] = rows[d]
      BY <1>3, <2>1, <2>3 DEF IssueToken, IInv, TypeOK
    <3>2. QED
      BY <1>1, <3>1
  <2>4. QED
    BY <2>2, <2>3
<1>4. ASSUME NEW e \in Decisions, RevokeDecision(e) PROVE Goal
  <2>1. rows[d] \in RowType
    BY DEF IInv, TypeOK
  <2>2. rows'[d] = rows[d] \/ rows'[d] = [rows[d] EXCEPT !.status = "revoked"]
    BY <1>4 DEF RevokeDecision
  <2>3. CASE rows'[d] = [rows[d] EXCEPT !.status = "revoked"]
    <3>1. Revoked(rows'[d]) /\ rows'[d].superseded = rows[d].superseded
      BY <2>1, <2>3, Revoking DEF Revoked
    <3>2. QED
      BY <3>1
  <2>4. QED
    BY <1>1, <2>2, <2>3
<1>5. ASSUME NEW c \in Calls, pc[c] = "compensate", RevokeDecision(child[c])
      PROVE  Goal
  <2>1. child[c] \in Decisions
    BY <1>5 DEF IInv, TypeOK, CallInv, Child, Decisions
  <2>2. QED
    BY <1>4, <1>5, <2>1
<1>6. ASSUME NEW e \in Decisions, NEW req \in Creates, Create(e, req)
      PROVE  Goal
  <2>1. CASE d = e
    BY <1>6, <2>1 DEF Create, IInv, Tree, Blank, Absent, Revoked
  <2>2. CASE d # e
    <3>1. rows'[d] = rows[d]
      BY <1>6, <2>2 DEF Create, IInv, TypeOK
    <3>2. QED
      BY <1>1, <3>1
  <2>3. QED
    BY <2>1, <2>2
<1>7. ASSUME NEW e \in Decisions, Expire(e) PROVE Goal
  <2>1. rows[d] \in RowType
    BY DEF IInv, TypeOK
  <2>2. rows'[d] = rows[d] \/ rows'[d] = [rows[d] EXCEPT !.expired = TRUE]
    BY <1>7 DEF Expire, IInv, TypeOK
  <2>3. rows'[d].status = rows[d].status /\ rows'[d].superseded = rows[d].superseded
    BY <2>1, <2>2 DEF RowType
  <2>4. QED
    BY <2>3 DEF Revoked
<1>8. ASSUME rows' = rows PROVE Goal
  BY <1>1, <1>8
<1> HIDE DEF Goal
<1>9. Goal
  BY <1>2, <1>3, <1>4, <1>5, <1>6, <1>7, <1>8, RowWriters
<1>10. QED
  BY <1>9 DEF Goal

\* A revoked token stays revoked: only a new decision gets a live one.
LEMMA TokenStep ==
  ASSUME IInv, Next, NEW d \in Decisions, tokens[d] = "revoked"
  PROVE  tokens'[d] = "revoked"
<1>1. ASSUME NEW c \in Calls, pc[c] = "issue", IssueToken(c)
      PROVE  tokens'[d] = "revoked"
  <2>1. child[c] \in Decisions /\ ~Exists(rows[child[c]])
    BY <1>1 DEF IInv, TypeOK, CallInv, Child, Decisions
  <2>2. d # child[c]
    BY <2>1 DEF IInv, Tree, Blank
  <2>3. QED
    BY <1>1, <2>1, <2>2 DEF IssueToken, IInv, TypeOK
<1>2. ASSUME NEW e, RevokeDecision(e) PROVE tokens'[d] = "revoked"
  BY <1>2 DEF RevokeDecision
<1>3. ASSUME NEW c \in Calls, CallStep(c) PROVE tokens'[d] = "revoked"
  <2>1. \/ tokens' = tokens
        \/ pc[c] = "issue" /\ IssueToken(c)
        \/ RevokeDecision(child[c])
    BY <1>3 DEF CallStep, Start, Return, Abandon, ReadToken, ReadDecision, ReadParent,
         ReadRoot, CheckScope, CheckKillSwitch, KernelAnswered, KernelRan,
         KernelAllowed, Supersede, Issue, IssueFails, Compensate
  <2>2. QED
    BY <1>1, <1>2, <2>1
<1>4. ASSUME NEW e \in Decisions, Environment(e) PROVE tokens'[d] = "revoked"
  <2>1. \/ tokens' = tokens
        \/ RevokeDecision(e)
        \/ tokens' = [tokens EXCEPT ![e] = "revoked"]
        \/ tokens[e] = "live" /\ tokens' = [tokens EXCEPT ![e] = "expired"]
    BY <1>4 DEF Environment, Create, Revoke, RevokeToken, Expire, ExpireToken,
                ToggleKillSwitch
  <2>2. QED
    BY <1>2, <2>1 DEF IInv, TypeOK
<1>5. QED
  BY <1>3, <1>4 DEF Next

----------------------------------------------------------------------------
(* The refinement of Authority.  What its variables stand for: *)

Given == {d \in Decisions : Exists(rows[d])}
ScopeOf == [d \in Decisions |-> rows[d].scope]
ParentOf == [d \in Decisions |-> rows[d].parent]
RootOf == [d \in Decisions |-> rows[d].root]
RevokedOnes == {d \in Decisions : Revoked(rows[d])}
Marked == {d \in Decisions : rows[d].superseded}
Live == {d \in Decisions : tokens[d] = "live"}

\* A handoff that is about to store the successor has marked the predecessor.
Replaced ==
  \A c \in Calls : pc[c] = "issue" /\ job[c].op = "handoff"
                     => rows[job[c].target].superseded

\* Only Supersede brings a handoff to the point where it stores the successor.
LEMMA ToIssue ==
  ASSUME IInv, NEW c \in Calls, CallStep(c), NEW e \in Calls,
         pc'[e] = "issue", job'[e].op = "handoff"
  PROVE  (Supersede(c) /\ e = c) \/ (pc[e] = "issue" /\ job'[e] = job[e])
<1> USE DEF IInv, TypeOK
<1>1. CASE Start(c) \/ Return(c) \/ Abandon(c) \/ KernelAnswered(c) \/ Issue(c)
  <2>1. CASE Start(c)
    BY <2>1 DEF Start
  <2>2. CASE End(c)
    BY <2>2 DEF End
  <2> QED BY <1>1, <2>1, <2>2 DEF Return, Abandon, KernelAnswered, Issue
<1>2. CASE ReadToken(c) \/ ReadParent(c) \/ ReadRoot(c) \/ CheckScope(c)
           \/ CheckKillSwitch(c) \/ KernelRan(c) \/ IssueFails(c) \/ Compensate(c)
  <2>1. CASE End(c)
    BY <2>1 DEF End
  <2>2. ASSUME NEW l \in Labels \ {"issue"}, Go(c, l)
        PROVE  pc[e] = "issue" /\ job'[e] = job[e]
    BY <2>2 DEF Go
  <2>3. \/ End(c)
        \/ \E l \in Labels \ {"issue"} : Go(c, l)
    BY <1>2 DEF ReadToken, ReadParent, ReadRoot, CheckScope, CheckKillSwitch,
                KernelRan, IssueFails, Compensate, Refuse, Labels
  <2> QED BY <2>1, <2>2, <2>3
<1>3. CASE ReadDecision(c)
  <2>1. CASE End(c)
    BY <2>1 DEF End
  <2> QED BY <1>3, <2>1 DEF ReadDecision, Refuse
<1>4. CASE KernelAllowed(c)
  BY <1>4 DEF KernelAllowed
<1>5. CASE Supersede(c)
  BY <1>5 DEF Supersede, End, Go
<1> QED BY <1>1, <1>2, <1>3, <1>4, <1>5 DEF CallStep

LEMMA ReplacedStep == IInv /\ Replaced /\ [Next]_vars => Replaced'
<1> SUFFICES ASSUME IInv, Replaced, [Next]_vars,
                    NEW e \in Calls, pc'[e] = "issue", job'[e].op = "handoff"
             PROVE  rows'[job'[e].target].superseded
  BY DEF Replaced
<1>1. CASE pc[e] = "issue" /\ job'[e] = job[e]
  <2>1. job[e].target \in Decisions /\ rows[job[e].target].superseded
    BY <1>1 DEF Replaced, IInv, CallInv, Shape
  <2>2. CASE Next
    BY <1>1, <2>1, <2>2, StatusStep
  <2>3. CASE UNCHANGED vars
    BY <1>1, <2>1, <2>3 DEF vars
  <2> QED BY <2>2, <2>3
<1>2. ASSUME NEW c \in Calls, CallStep(c), ~(pc[e] = "issue" /\ job'[e] = job[e])
      PROVE  rows'[job'[e].target].superseded
  <2>1. Supersede(c) /\ e = c
    BY <1>2, ToIssue
  <2>2. job[c].target \in Decisions /\ rows[job[c].target] \in RowType
    BY <2>1 DEF Supersede, IInv, TypeOK, CallInv, Shape
  <2>3. job'[c] = job[c]
    BY <2>1 DEF Supersede, End, Go, IInv, TypeOK
  <2>4. rows'[job[c].target].superseded = TRUE
    BY <2>1, <2>2 DEF Supersede, IInv, TypeOK, RowType
  <2> QED BY <2>1, <2>3, <2>4
<1>3. ASSUME NEW d \in Decisions, Environment(d) PROVE UNCHANGED <<pc, job>>
  BY <1>3 DEF Environment, Create, Revoke, RevokeToken, Expire, ExpireToken,
              ToggleKillSwitch
<1> QED BY <1>1, <1>2, <1>3 DEF Next, vars

\* A step that moves no row and changes no scope.
LEMMA SamePlaces ==
  ASSUME \A d \in Decisions : /\ Exists(rows'[d]) <=> Exists(rows[d])
                              /\ rows'[d].scope = rows[d].scope
                              /\ rows'[d].parent = rows[d].parent
                              /\ rows'[d].root = rows[d].root
  PROVE  UNCHANGED <<Given, ScopeOf, ParentOf, RootOf>>
  BY DEF Given, ScopeOf, ParentOf, RootOf

LEMMA SupersedeRetires ==
  ASSUME IInv, NEW c \in Calls, Supersede(c)
  PROVE  \E d \in Decisions : Held!Retire(d)
<1> DEFINE t == job[c].target
<1>1. t \in Decisions /\ Exists(rows[t]) /\ rows[t] \in RowType
  BY DEF Supersede, IInv, TypeOK, CallInv, Shape
<1>2. Kept /\ \A d \in Decisions : ~Exists(rows[d]) => rows'[d] = rows[d]
  BY SupersedeRows
<1>3. UNCHANGED <<Given, ScopeOf, ParentOf, RootOf>>
  BY <1>2, SamePlaces DEF Kept
<1>4. rows'[t].superseded = TRUE /\ \A d \in Decisions : d # t => rows'[d] = rows[d]
  BY <1>1 DEF Supersede, IInv, TypeOK, RowType
<1>5. Marked' = Marked \cup {t}
  BY <1>1, <1>4 DEF Marked
<1>7. ~Revoked(rows'[t])
  BY <1>1 DEF Supersede, IInv, TypeOK, CallInv, Read, AfterDecision, Labels, Revoked, RowType
<1>8. RevokedOnes' = RevokedOnes \ {t}
  BY <1>1, <1>4, <1>7 DEF RevokedOnes
<1>6. Live' = Live
  BY DEF Supersede, Live
<1> QED BY <1>1, <1>3, <1>5, <1>6, <1>8
        DEF Held!Retire, Given, ScopeOf, ParentOf, RootOf, RevokedOnes, Marked, Live

LEMMA RevocationRevokes ==
  ASSUME IInv, NEW d \in Decisions, RevokeDecision(d)
  PROVE  Held!Revoke(d)
<1>1. Kept /\ \A e \in Decisions : ~Exists(rows[e]) => rows'[e] = rows[e]
  BY RevokeRows
<1>2. UNCHANGED <<Given, ScopeOf, ParentOf, RootOf>>
  BY <1>1, SamePlaces DEF Kept
<1>3. Held!Reach(d) = Cascade(d)
  BY DEF Held!Reach, Cascade
<1>4. ASSUME NEW e \in Decisions
      PROVE  /\ e \in Cascade(d) => /\ Revoked(rows'[e]) /\ tokens'[e] # "live"
                                    /\ rows'[e].superseded = rows[e].superseded
             /\ e \notin Cascade(d) => rows'[e] = rows[e] /\ tokens'[e] = tokens[e]
  <2>1. rows[e] \in RowType
    BY DEF IInv, TypeOK
  <2>2. CASE e \in Cascade(d)
    BY <2>1, <2>2, Revoking DEF RevokeDecision, Revoked
  <2>3. CASE e \notin Cascade(d)
    BY <2>3 DEF RevokeDecision
  <2> QED BY <2>2, <2>3
<1>5. Cascade(d) \subseteq Decisions
  BY DEF Cascade
<1>6. /\ RevokedOnes' = RevokedOnes \cup Cascade(d)
      /\ Marked' = Marked /\ Live' = Live \ Cascade(d)
  BY <1>4, <1>5 DEF RevokedOnes, Marked, Live
<1> QED BY <1>2, <1>3, <1>6
        DEF Held!Revoke, Given, ScopeOf, ParentOf, RootOf, RevokedOnes, Marked, Live

\* One row more, and the columns that come with it.
LEMMA RowAdded ==
  ASSUME IInv, NEW n \in Decisions, ~Exists(rows[n]), Exists(rows'[n]),
         ~Withdrawn(rows'[n]),
         \A d \in Decisions : d # n => rows'[d] = rows[d]
  PROVE  /\ Given' = Given \cup {n}
         /\ ScopeOf' = [ScopeOf EXCEPT ![n] = rows'[n].scope]
         /\ ParentOf' = [ParentOf EXCEPT ![n] = rows'[n].parent]
         /\ RootOf' = [RootOf EXCEPT ![n] = rows'[n].root]
         /\ RevokedOnes' = RevokedOnes /\ Marked' = Marked
<1>1. Given' = Given \cup {n}
  BY DEF Given
<1>2. ScopeOf' = [ScopeOf EXCEPT ![n] = rows'[n].scope]
  BY DEF ScopeOf
<1>3. ParentOf' = [ParentOf EXCEPT ![n] = rows'[n].parent]
  BY DEF ParentOf
<1>4. RootOf' = [RootOf EXCEPT ![n] = rows'[n].root]
  BY DEF RootOf
<1>5. ~Withdrawn(rows[n])
  BY DEF IInv, Tree, Blank, Withdrawn, Revoked, Absent
<1>6. RevokedOnes' = RevokedOnes /\ Marked' = Marked
  BY <1>5 DEF RevokedOnes, Marked, Withdrawn
<1> QED BY <1>1, <1>2, <1>3, <1>4, <1>6

LEMMA IssuePassesOn ==
  ASSUME IInv, Replaced, NEW c \in Calls, pc[c] = "issue", IssueToken(c)
  PROVE  \E src, d \in Decisions, s \in SUBSET Actions : Held!PassOn(src, d, s)
<1>0. PICK t \in Decisions, n \in Decisions, s \in SUBSET Actions :
        t = job[c].target /\ n = child[c] /\ s = job[c].scope
  BY DEF IInv, TypeOK, CallInv, Shape, Child, Decisions, JobType
<1>1. /\ n \in Decisions /\ ~Exists(rows[n])
      /\ Exists(rows[t])
      /\ job[c].op \in {"delegate", "handoff"}
      /\ copy[c].parent = rows[t].parent /\ copy[c].root = rows[t].root
      /\ s \subseteq rows[t].scope
  BY <1>0 DEF IInv, TypeOK, CallInv, Shape, Child, Read, AfterDecision, Labels
<1>2. /\ rows'[n] = ChildRow(c) /\ tokens'[n] = "live"
      /\ \A d \in Decisions : d # n => rows'[d] = rows[d] /\ tokens'[d] = tokens[d]
  BY <1>0, <1>1 DEF IssueToken, IInv, TypeOK
<1>3. /\ rows'[n].status = "allow" /\ rows'[n].scope = s
      /\ rows'[n].parent = IF job[c].op = "delegate" THEN t ELSE rows[t].parent
      /\ rows'[n].root = IF rows[t].root = NONE THEN t ELSE rows[t].root
      /\ rows'[n].superseded = FALSE
  BY <1>0, <1>1, <1>2 DEF ChildRow
<1>4. Exists(rows'[n]) /\ ~Withdrawn(rows'[n])
  BY <1>3 DEF Exists, Withdrawn, Revoked
<1>5. /\ Given' = Given \cup {n}
      /\ ScopeOf' = [ScopeOf EXCEPT ![n] = s]
      /\ ParentOf' = [ParentOf EXCEPT ![n] = rows'[n].parent]
      /\ RootOf' = [RootOf EXCEPT ![n] = rows'[n].root]
      /\ RevokedOnes' = RevokedOnes /\ Marked' = Marked
  BY <1>1, <1>2, <1>3, <1>4, RowAdded
<1>6. Live' = Live \cup {n}
  BY <1>1, <1>2 DEF Live
<1>7. rows'[n].root = Held!Top(t)
  BY <1>1, <1>3 DEF Held!Top
<1>8. \/ rows'[n].parent = t
      \/ t \in Marked /\ rows'[n].parent = ParentOf[t]
  BY <1>0, <1>1, <1>3 DEF Replaced, Marked, ParentOf
<1>9. t \in Given /\ n \notin Given /\ s \subseteq ScopeOf[t]
  BY <1>1 DEF Given, ScopeOf
<1>10. Held!PassOn(t, n, s)
  BY <1>5, <1>6, <1>7, <1>8, <1>9
  DEF Held!PassOn, Given, ScopeOf, ParentOf, RootOf, RevokedOnes, Marked, Live
<1> QED BY <1>10

LEMMA CreateCreates ==
  ASSUME IInv, NEW d \in Decisions, NEW req \in Creates, Create(d, req)
  PROVE  \E s \in SUBSET Actions : Held!Create(d, s)
<1> DEFINE q == IF req.scope = {} THEN {req.action} ELSE req.scope
<1>1. req.type \in {"allow", "deny"} /\ q \in SUBSET Actions
  BY ConstantsAssumption
<1>2. /\ ~Exists(rows[d])
      /\ rows'[d] = [Absent EXCEPT !.status = req.type, !.action = req.action, !.scope = q]
      /\ \A e \in Decisions : e # d => rows'[e] = rows[e]
  BY DEF Create, IInv, TypeOK
<1>3. /\ rows'[d].status = req.type /\ rows'[d].scope = q
      /\ rows'[d].parent = NONE /\ rows'[d].root = NONE /\ rows'[d].superseded = FALSE
  BY <1>2 DEF Absent
<1>4. Exists(rows'[d]) /\ ~Withdrawn(rows'[d])
  BY <1>1, <1>3 DEF Exists, Withdrawn, Revoked
<1>5. /\ Given' = Given \cup {d}
      /\ ScopeOf' = [ScopeOf EXCEPT ![d] = q]
      /\ ParentOf' = [ParentOf EXCEPT ![d] = NONE]
      /\ RootOf' = [RootOf EXCEPT ![d] = NONE]
      /\ RevokedOnes' = RevokedOnes /\ Marked' = Marked
  BY <1>2, <1>3, <1>4, RowAdded
<1>6. rows[d].parent = NONE /\ rows[d].root = NONE
  BY <1>2 DEF IInv, Tree, Blank, Absent
<1>7. ParentOf' = ParentOf /\ RootOf' = RootOf
  BY <1>5, <1>6 DEF ParentOf, RootOf
<1>8. Live' = Live
  BY DEF Create, Live
<1>9. Held!Create(d, q)
  BY <1>2, <1>5, <1>7, <1>8
  DEF Held!Create, Given, ScopeOf, ParentOf, RootOf, RevokedOnes, Marked, Live
<1> QED BY <1>1, <1>9

HeldVars == <<Given, ScopeOf, ParentOf, RootOf, RevokedOnes, Marked, Live>>

LEMMA HeldSame ==
  ASSUME UNCHANGED HeldVars
  PROVE  UNCHANGED Held!vars
  BY DEF HeldVars, Held!vars, Given, ScopeOf, ParentOf, RootOf, RevokedOnes, Marked, Live

LEMMA ExpireKeeps ==
  ASSUME IInv, NEW d \in Decisions, Expire(d)
  PROVE  UNCHANGED HeldVars
<1>1. ASSUME NEW e \in Decisions
      PROVE  /\ rows'[e].status = rows[e].status /\ rows'[e].scope = rows[e].scope
             /\ rows'[e].parent = rows[e].parent /\ rows'[e].root = rows[e].root
             /\ rows'[e].superseded = rows[e].superseded
  <2>1. rows[e] \in RowType
    BY DEF IInv, TypeOK
  <2>2. rows'[e] = rows[e] \/ rows'[e] = [rows[e] EXCEPT !.expired = TRUE]
    BY DEF Expire, IInv, TypeOK
  <2> QED BY <2>1, <2>2 DEF RowType
<1>2. UNCHANGED <<Given, ScopeOf, ParentOf, RootOf>>
  BY <1>1, SamePlaces DEF Exists
<1>3. RevokedOnes' = RevokedOnes /\ Marked' = Marked
  BY <1>1 DEF RevokedOnes, Marked, Revoked
<1>4. Live' = Live
  BY DEF Expire, Live
<1> QED BY <1>2, <1>3, <1>4 DEF HeldVars

LEMMA TokenLapses ==
  ASSUME IInv, NEW d \in Decisions, RevokeToken(d) \/ ExpireToken(d)
  PROVE  Held!Lapse(d)
<1>1. /\ rows' = rows
      /\ tokens'[d] # "live"
      /\ \A e \in Decisions : e # d => tokens'[e] = tokens[e]
  BY DEF RevokeToken, ExpireToken, IInv, TypeOK
<1>2. Live' = Live \ {d}
  BY <1>1 DEF Live
<1> QED BY <1>1, <1>2 DEF Held!Lapse, Live

\* Every statement of a call is a step of Authority or none.
LEMMA CallHeld ==
  ASSUME IInv, Replaced, NEW c \in Calls, CallStep(c)
  PROVE  Held!Next \/ UNCHANGED Held!vars
<1>1. CASE Supersede(c)
  BY <1>1, SupersedeRetires DEF Held!Next
<1>2. CASE pc[c] = "issue" /\ IssueToken(c)
  BY <1>2, IssuePassesOn DEF Held!Next
<1>3. CASE pc[c] = "compensate" /\ RevokeDecision(child[c])
  <2>1. child[c] \in Decisions
    BY <1>3 DEF IInv, TypeOK, CallInv, Child, Decisions
  <2> QED BY <1>3, <2>1, RevocationRevokes DEF Held!Next
<1>4. CASE UNCHANGED <<rows, tokens>>
  BY <1>4, HeldSame DEF HeldVars, Given, ScopeOf, ParentOf, RootOf, RevokedOnes, Marked, Live
<1>5. \/ Supersede(c)
      \/ pc[c] = "issue" /\ IssueToken(c)
      \/ pc[c] = "compensate" /\ RevokeDecision(child[c])
      \/ UNCHANGED <<rows, tokens>>
  BY DEF CallStep, Start, Return, Abandon, ReadToken, ReadDecision, ReadParent,
         ReadRoot, CheckScope, CheckKillSwitch, KernelAnswered, KernelRan,
         KernelAllowed, Issue, IssueFails, Compensate
<1> QED BY <1>1, <1>2, <1>3, <1>4, <1>5

LEMMA EnvironmentHeld ==
  ASSUME IInv, NEW d \in Decisions, Environment(d)
  PROVE  Held!Next \/ UNCHANGED Held!vars
<1>1. ASSUME NEW req \in Creates, Create(d, req) PROVE Held!Next
  BY <1>1, CreateCreates DEF Held!Next
<1>2. CASE Revoke(d)
  BY <1>2, RevocationRevokes DEF Revoke, Held!Next
<1>3. CASE RevokeToken(d) \/ ExpireToken(d)
  BY <1>3, TokenLapses DEF Held!Next
<1>4. CASE Expire(d)
  BY <1>4, ExpireKeeps, HeldSame
<1>5. CASE ToggleKillSwitch(d)
  BY <1>5, HeldSame
  DEF ToggleKillSwitch, HeldVars, Given, ScopeOf, ParentOf, RootOf, RevokedOnes, Marked, Live
<1> QED BY <1>1, <1>2, <1>3, <1>4, <1>5 DEF Environment

----------------------------------------------------------------------------
(* Theorems. *)

\* In every instance, whatever the calls, the tables stay well typed and each
\* call is at a statement of its code.
THEOREM TypeCorrect == Spec => []TypeOK
<1>1. IInv => TypeOK
  BY DEF IInv
<1>2. QED
  BY <1>1, Invariance, PTL

\* However deep delegation and handover go, no decision covers an action that
\* its parent or the root of its lineage does not cover.
THEOREM AuthorityShrinks == Spec => []ActionsAttenuate
<1>1. IInv => ActionsAttenuate
  BY DEF IInv, Tree
<1>2. QED
  BY <1>1, Invariance, PTL

\* A decision always carries the root of its parent: the rows of one lineage
\* are found by one root_decision_id.
THEOREM LineageHasOneRoot == Spec => []OneRoot
<1>1. IInv => OneRoot
  BY DEF IInv, Tree
<1>2. QED
  BY <1>1, Invariance, PTL

\* A token whose decision is revoked is revoked, in whatever order the cascade,
\* the compensation, the expiry and the issuing of tokens fall.
THEOREM RevokedTokens == Spec => []TokensDieWithDecision
<1>1. IInv => TokensDieWithDecision
  BY DEF IInv, Tree
<1>2. QED
  BY <1>1, Invariance, PTL

\* A delegation that has answered that issuing failed has left no decision
\* that is in force.
THEOREM FailureLeavesNothing == Spec => []NoOrphanGrant
<1>1. IInv => NoOrphanGrant
  BY DEF IInv, CallInv, Child, NoOrphanGrant
<1>2. QED
  BY <1>1, Invariance, PTL

\* No interleaving lets a call past a ground for refusal that holds throughout
\* the call, save that of a middle ancestor, which the code does not read.
THEOREM NoStandingDenialPassed == Spec => []StandingDenial
<1>1. ASSUME IInv, NEW c \in Calls,
             pc[c] \in {"valid", "kernel", "supersede", "issue", "compensate", "failed"}
      PROVE  stood[c] \subseteq {"lineage"}
  <2>1. /\ pc[c] \in AfterRoot /\ pc[c] \in AfterDecision \ {"parent"}
        /\ pc[c] \in AfterDecision /\ pc[c] # "token" /\ pc[c] # "idle"
    BY <1>1 DEF AfterRoot, AfterDecision, Labels
  <2>2. /\ Clear(c) /\ job[c].op \in Verifications \cup Spawning
        /\ pc[c] # "valid" => job[c].op \in Spawning
    BY <1>1, <2>1 DEF IInv, CallInv, Shape, Storing
  <2>3. CASE job[c].op = "verify_token"
    <3>1. pc[c] = "valid"
      BY <2>2, <2>3 DEF Spawning
    <3>2. QED
      BY <2>1, <2>2, <2>3, <3>1, GroundsOf DEF Clear
  <2>4. CASE job[c].op = "verify_decision"
    BY <2>1, <2>2, <2>4, GroundsOf DEF Clear
  <2>5. CASE job[c].op \in {"introspect", "delegate", "handoff", "gather"}
    BY <2>1, <2>2, <2>5, GroundsOf DEF Clear
  <2>6. QED
    BY <2>2, <2>3, <2>4, <2>5 DEF Verifications, Spawning
<1>2. IInv => StandingDenial
  BY <1>1 DEF StandingDenial
<1>3. QED
  BY <1>2, Invariance, PTL

\* A revocation is undone by nothing but a handoff that had read the decision
\* before; the decision it undoes it of is superseded ever after, and its token
\* stays revoked.
THEOREM RevocationIsTraced == Spec => RevocationLeavesMark
<1>1. IInv /\ [Next]_vars =>
        [\A d \in Decisions :
           /\ Revoked(rows[d]) /\ ~Revoked(rows'[d]) =>
                rows'[d].superseded /\ \E c \in Calls : StaleHandoff(c, d)
           /\ rows[d].superseded => rows'[d].superseded
           /\ tokens[d] = "revoked" => tokens'[d] = "revoked"]_vars
  BY StatusStep, TokenStep
<1>2. QED
  BY <1>1, Invariance, PTL DEF Spec, RevocationLeavesMark

\* Where no call hands a decision over, a revocation is final, whatever else
\* overlaps with it.  So handoffs are all that stands against the docstring of
\* revoke_decision, "Mark a decision as no longer executable".
NoHandoffs == \A c \in Calls : \A j \in JobsOf[c] : j.op # "handoff"

THEOREM RevocationIsFinal ==
  ASSUME NoHandoffs
  PROVE  Spec => [][\A d \in Decisions : Revoked(rows[d]) => Revoked(rows'[d])]_vars
<1> DEFINE Delegating == \A c \in Calls : job[c].op # "handoff"
<1>1. Init => Delegating
  BY ConstantsAssumption DEF Init, NoJob, Spawning
<1>2. IInv /\ Delegating /\ [Next]_vars => Delegating'
  <2> SUFFICES ASSUME IInv, Delegating, [Next]_vars, NEW e \in Calls
               PROVE  job'[e].op # "handoff"
    OBVIOUS
  <2>1. NONE # "handoff"
    BY ConstantsAssumption DEF Spawning
  <2>2. ASSUME NEW c \in Calls, Start(c) PROVE job'[e].op # "handoff"
    BY <2>2 DEF Start, NoHandoffs, IInv, TypeOK
  <2>3. ASSUME NEW c \in Calls, End(c) PROVE job'[e].op # "handoff"
    BY <2>1, <2>3 DEF End, NoJob, IInv, TypeOK
  <2>4. ASSUME job' = job PROVE job'[e].op # "handoff"
    BY <2>4
  <2>5. ASSUME NEW c \in Calls, CallStep(c) PROVE Start(c) \/ End(c) \/ job' = job
    BY <2>5 DEF CallStep, Return, Abandon, ReadToken, ReadDecision, ReadParent,
         ReadRoot, CheckScope, CheckKillSwitch, KernelAnswered, KernelRan,
         KernelAllowed, Supersede, Issue, IssueFails, Compensate, Refuse, Go
  <2>6. ASSUME NEW d \in Decisions, Environment(d) PROVE job' = job
    BY <2>6 DEF Environment, Create, Revoke, RevokeToken, Expire, ExpireToken,
                ToggleKillSwitch
  <2>7. QED
    BY <2>2, <2>3, <2>4, <2>5, <2>6 DEF Next, vars
<1>3. ASSUME IInv, Delegating, [Next]_vars, NEW d \in Decisions, Revoked(rows[d])
      PROVE  Revoked(rows'[d])
  <2>1. CASE Next
    <3>1. ASSUME NEW c \in Calls PROVE ~StaleHandoff(c, d)
      BY <1>3, <3>1 DEF StaleHandoff, IInv, CallInv, Shape
    <3>2. QED
      BY <1>3, <2>1, <3>1, StatusStep
  <2>2. CASE UNCHANGED vars
    BY <1>3, <2>2 DEF vars
  <2>3. QED
    BY <1>3, <2>1, <2>2
<1>4. IInv /\ Delegating /\ [Next]_vars =>
        [\A d \in Decisions : Revoked(rows[d]) => Revoked(rows'[d])]_vars
  BY <1>3
<1>5. QED
  BY <1>1, <1>2, <1>4, Invariance, PTL DEF Spec

\* However the statements of delegations, handoffs, revocations and their
\* failures fall, the tables go through the steps of Authority and no others.
THEOREM Refinement == Spec => ImplementsAuthority
<1>1. Init => Held!Init
  BY DEF Init, Held!Init, Absent, Exists, Withdrawn, Revoked
<1>2. Init => Replaced
  BY DEF Init, Replaced
<1>3. IInv /\ Replaced /\ [Next]_vars => [Held!Next]_(Held!vars)
  <2>1. ASSUME UNCHANGED vars PROVE UNCHANGED Held!vars
    BY <2>1, HeldSame DEF vars, HeldVars, Given, ScopeOf, ParentOf, RootOf, RevokedOnes, Marked, Live
  <2>2. QED
    BY <2>1, CallHeld, EnvironmentHeld DEF Next
<1>4. QED
  BY <1>1, <1>2, <1>3, Invariance, ReplacedStep, PTL
  DEF Spec, ImplementsAuthority, Held!Spec

=============================================================================
