----------------------------- MODULE Delegation -----------------------------
(***************************************************************************)
(* Governance decisions and their capability tokens: the token vault, the  *)
(* verifier, and the orchestration runtime that delegates and hands over   *)
(* authority.  A call is a coroutine; each of its steps is one statement   *)
(* or transaction of the vault, or one answer of the kernel, with the local *)
(* code up to the next await.                                              *)
(*                                                                         *)
(* Abstractions.  One tenant, on a connection that sees its rows.  A       *)
(* decision's token is named by the decision: a token is issued only with  *)
(* the decision it proves.  A scope is the set of actions its patterns     *)
(* match; resources, spend and rate limits are not represented.  The       *)
(* kernel is the one the runtime is constructed with, known by its answer: *)
(* "ALLOWED" (the runtime is to issue a grant), "EXECUTED" (the action ran, *)
(* or the request was a dry run: no grant) or "BLOCKED".  kills holds the   *)
(* decisions some enabled kill_switches row names.                         *)
(***************************************************************************)
EXTENDS Naturals

CONSTANTS
  Roots,          (* decision ids of the decisions API (gd_...)             *)
  Grants,         (* decision ids of the kernel (UUIDs)                     *)
  Calls,          (* concurrent calls of the verifier and the runtime       *)
  Actions,        (* action names                                           *)
  JobsOf,         (* what each call may be: operation, action, scope        *)
  Creates,        (* the decisions the decisions API is asked to store      *)
  Changes,        (* what may happen to them besides                        *)
  MaxChanges,     (* bound: how often                                       *)
  KernelAnswers,  (* how the kernel may answer                              *)
  NONE            (* SQL NULL / Python None                                 *)

\* the ids rows of governance_decisions may have
Decisions == Roots \cup Grants

Verifications == {"verify_token", "verify_decision", "introspect"}
Spawning == {"delegate", "handoff", "gather"}

ASSUME ConstantsAssumption ==
  /\ Roots \cap Grants = {}
  /\ NONE \notin Decisions \cup Actions \cup Verifications \cup Spawning
  /\ \A c \in Calls : JobsOf[c] \subseteq
       [op : Verifications \cup Spawning, action : Actions, scope : SUBSET Actions]
  /\ Creates \subseteq [type : {"allow", "deny"}, action : Actions,
                       scope : SUBSET Actions]
  /\ Changes \subseteq {"revoke", "revoke_token", "expire", "expire_token", "kill"}
  /\ MaxChanges \in Nat

VARIABLES
  rows,    (* governance_decisions, by id                                   *)
  tokens,  (* governance_tokens, by the decision a token proves             *)
  kills,   (* decisions an enabled kill switch names                        *)
  changes, (* how many Changes there were                                   *)
  pc,      (* where a call is suspended                                     *)
  job,     (* what it was asked to do                                       *)
  copy,    (* the decision row it has read                                  *)
  child,   (* the id of the decision it is about to store                   *)
  stood    (* history: grounds to refuse the call that never lapsed since it began *)

vars == <<rows, tokens, kills, changes, pc, job, copy, child, stood>>

----------------------------------------------------------------------------
(* Rows. *)

Absent == [status |-> "none", action |-> NONE, scope |-> {}, parent |-> NONE,
           root |-> NONE, superseded |-> FALSE, expired |-> FALSE]

NoJob == [op |-> NONE, target |-> NONE, action |-> NONE, scope |-> {}]

Exists(r) == r.status # "none"
Revoked(r) == r.status = "revoked"

\* what check_ancestry refuses of the parent and the root
Stopped(r) == Revoked(r) \/ r.expired

\* verify_token and introspect refuse such a row, and no handoff starts from
\* it.  The two are not one: verify_decision and check_ancestry refuse what is
\* revoked, and take what is only superseded.
Withdrawn(r) == Revoked(r) \/ r.superseded

\* DecisionScope.covers
Covers(scope, action) == action \in scope

\* OrchestrationRuntime._is_narrower_scope, of the actions
Narrower(parent, sub) == sub = {} \/ parent = {} \/ sub \subseteq parent

\* Ids of the kernel that no row and no running call has.
Fresh == {d \in Grants : ~Exists(rows[d]) /\ \A c \in Calls : child[c] # d}

----------------------------------------------------------------------------
(* History: the grounds to refuse an operation, and which of them hold.     *)
(* introspect does not look at the token's own state, and verify_decision  *)
(* drops the lineage and the successor mark of the row.  "lineage" is what *)
(* check_ancestry is described to look at, beyond the parent and the root. *)

Grounds(op) ==
  CASE op = "verify_token" -> {"revoked", "superseded", "expired", "parent",
                               "root", "lineage", "token", "kill"}
    [] op = "verify_decision" -> {"revoked", "expired"}
    [] op \in {"introspect"} \cup Spawning ->
         {"revoked", "superseded", "expired", "parent", "root", "lineage"}
    [] OTHER -> {}

\* The ancestors of a decision, nearest first.
Lineage(rs, t) ==
  LET up[d \in Decisions] ==
        IF rs[d].parent = NONE THEN {} ELSE {rs[d].parent} \cup up[rs[d].parent]
  IN  up[t]

Denies(g, rs, ts, ks, t) ==
  \/ g = "revoked" /\ Revoked(rs[t])
  \/ g = "superseded" /\ rs[t].superseded
  \/ g = "expired" /\ rs[t].expired
  \/ g = "parent" /\ rs[t].parent # NONE /\ Stopped(rs[rs[t].parent])
  \/ g = "root" /\ rs[t].root # NONE /\ Stopped(rs[rs[t].root])
  \/ g = "lineage" /\ \E a \in Lineage(rs, t) : Stopped(rs[a])
  \/ g = "token" /\ ts[t] \in {"revoked", "expired"}
  \/ g = "kill" /\ t \in ks

Denials(rs, ts, ks, j) == {g \in Grounds(j.op) : Denies(g, rs, ts, ks, j.target)}

\* Last conjunct of every action.
Observe ==
  stood' = [c \in Calls |->
              LET now == Denials(rows', tokens', kills', job'[c]) IN
              IF job[c] = NoJob THEN now ELSE stood[c] \cap now]

----------------------------------------------------------------------------
(* The beginning and the end of a call. *)

Init ==
  /\ rows = [d \in Decisions |-> Absent]
  /\ tokens = [d \in Decisions |-> "none"]
  /\ kills = {}
  /\ changes = 0
  /\ pc = [c \in Calls |-> "idle"]
  /\ job = [c \in Calls |-> NoJob]
  /\ copy = [c \in Calls |-> Absent]
  /\ child = [c \in Calls |-> NONE]
  /\ stood = [c \in Calls |-> {}]

Start(c) ==
  /\ pc[c] = "idle"
  /\ \E t \in Decisions, j \in JobsOf[c] :
       /\ Exists(rows[t])
       /\ job' = [job EXCEPT ![c] = [op |-> j.op, target |-> t,
                                     action |-> j.action, scope |-> j.scope]]
       /\ pc' = [pc EXCEPT ![c] = IF j.op \in {"verify_token", "introspect"}
                                  THEN "token" ELSE "decision"]
  /\ UNCHANGED <<rows, tokens, kills, changes, copy, child>>
  /\ Observe

\* The call answers or raises, and its locals are gone.
End(c) ==
  /\ pc' = [pc EXCEPT ![c] = "idle"]
  /\ job' = [job EXCEPT ![c] = NoJob]
  /\ copy' = [copy EXCEPT ![c] = Absent]
  /\ child' = [child EXCEPT ![c] = NONE]

Go(c, label) ==
  /\ pc' = [pc EXCEPT ![c] = label]
  /\ UNCHANGED <<job, copy, child>>

Refuse(c) == End(c)

Return(c) ==
  /\ pc[c] \in {"valid", "failed"}
  /\ End(c)
  /\ UNCHANGED <<rows, tokens, kills, changes>>
  /\ Observe

\* A crash, a lost connection or an exception between two statements.
Abandon(c) ==
  /\ pc[c] \notin {"idle", "valid", "failed"}
  /\ End(c)
  /\ UNCHANGED <<rows, tokens, kills, changes>>
  /\ Observe

----------------------------------------------------------------------------
(* Verification: each statement reads the tables as they are then. *)

\* verify_token checks the token it reads; introspect only needs it to exist.
ReadToken(c) ==
  /\ pc[c] = "token"
  /\ LET t == tokens[job[c].target] IN
       IF t = "live" \/ (t # "none" /\ job[c].op = "introspect")
       THEN Go(c, "decision") ELSE Refuse(c)
  /\ UNCHANGED <<rows, tokens, kills, changes>>
  /\ Observe

\* verify_token alone requires ALLOW; verify_decision alone ignores a successor.
Passes(r, op) ==
  /\ ~Stopped(r)
  /\ op = "verify_decision" \/ ~r.superseded
  /\ op = "verify_token" => r.status = "allow"

ReadDecision(c) ==
  /\ pc[c] = "decision"
  /\ LET r == rows[job[c].target] IN
       IF Passes(r, job[c].op)
       THEN /\ copy' = [copy EXCEPT ![c] = r]
            /\ pc' = [pc EXCEPT ![c] = IF job[c].op = "verify_decision"
                                       THEN "scope" ELSE "parent"]
            /\ UNCHANGED <<job, child>>
       ELSE Refuse(c)
  /\ UNCHANGED <<rows, tokens, kills, changes>>
  /\ Observe

ReadParent(c) ==
  /\ pc[c] = "parent"
  /\ LET p == copy[c].parent IN
       IF p # NONE /\ Stopped(rows[p]) THEN Refuse(c) ELSE Go(c, "root")
  /\ UNCHANGED <<rows, tokens, kills, changes>>
  /\ Observe

\* Mutant: the parent alone is asked.
ReadRoot_ParentOnly(c) ==
  /\ pc[c] = "root"
  /\ Go(c, "scope")
  /\ UNCHANGED <<rows, tokens, kills, changes>>
  /\ Observe

\* The root is read only if it is neither the decision nor its parent.
ReadRoot(c) ==
  /\ pc[c] = "root"
  /\ LET r == copy[c].root IN
       IF r \notin {NONE, job[c].target, copy[c].parent} /\ Stopped(rows[r])
       THEN Refuse(c) ELSE Go(c, "scope")
  /\ UNCHANGED <<rows, tokens, kills, changes>>
  /\ Observe

\* Mutant: the runtime asks only whether the scope is narrower.
InScope_NarrowOnly(c) ==
  IF job[c].op \in Verifications
  THEN Covers(copy[c].scope, job[c].action)
  ELSE Narrower(copy[c].scope, job[c].scope)

\* The runtime asks whether the decision covers its own action, and whether
\* what it is to pass on is narrower; gather asks that of each branch's action.
InScope(c) ==
  IF job[c].op \in Verifications
  THEN Covers(copy[c].scope, job[c].action)
  ELSE /\ Covers(copy[c].scope, copy[c].action)
       /\ Narrower(copy[c].scope, job[c].scope)

CheckScope(c) ==
  /\ pc[c] = "scope"
  /\ IF InScope(c)
     THEN Go(c, IF job[c].op = "verify_token" THEN "kill"
                ELSE IF job[c].op \in Spawning THEN "kernel" ELSE "valid")
     ELSE Refuse(c)
  /\ UNCHANGED <<rows, tokens, kills, changes>>
  /\ Observe

CheckKillSwitch(c) ==
  /\ pc[c] = "kill"
  /\ IF job[c].target \in kills THEN Refuse(c) ELSE Go(c, "valid")
  /\ UNCHANGED <<rows, tokens, kills, changes>>
  /\ Observe

----------------------------------------------------------------------------
(* Passing authority on. *)

\* The answer leaves nothing to store: refused, ran in a delegation, or the
\* branches of a gather, which get no decision of their own in the vault.
KernelAnswered(c) ==
  /\ pc[c] = "kernel"
  /\ \E answer \in KernelAnswers :
       \/ answer = "BLOCKED"
       \/ answer = "EXECUTED" /\ job[c].op = "delegate"
       \/ job[c].op = "gather"
  /\ End(c)
  /\ UNCHANGED <<rows, tokens, kills, changes>>
  /\ Observe

\* A handoff whose action the kernel ran ends the old decision all the same.
KernelRan(c) ==
  /\ pc[c] = "kernel" /\ job[c].op = "handoff"
  /\ "EXECUTED" \in KernelAnswers
  /\ Go(c, "supersede")
  /\ UNCHANGED <<rows, tokens, kills, changes>>
  /\ Observe

\* Mutant: the successor is stored before its predecessor is superseded.
KernelAllowed_IssueFirst(c) ==
  /\ pc[c] = "kernel" /\ job[c].op \in {"delegate", "handoff"}
  /\ "ALLOWED" \in KernelAnswers
  /\ \E d \in Fresh : child' = [child EXCEPT ![c] = d]
  /\ pc' = [pc EXCEPT ![c] = "issue"]
  /\ UNCHANGED <<rows, tokens, kills, changes, job, copy>>
  /\ Observe

KernelAllowed(c) ==
  /\ pc[c] = "kernel" /\ job[c].op \in {"delegate", "handoff"}
  /\ "ALLOWED" \in KernelAnswers
  /\ \E d \in Fresh : child' = [child EXCEPT ![c] = d]
  /\ pc' = [pc EXCEPT ![c] = IF job[c].op = "handoff" THEN "supersede" ELSE "issue"]
  /\ UNCHANGED <<rows, tokens, kills, changes, job, copy>>
  /\ Observe

\* Mutant: the copy is stored without the mark.
Supersede_NoMark(c) ==
  /\ pc[c] = "supersede"
  /\ rows' = [rows EXCEPT ![job[c].target] =
                [@ EXCEPT !.status = copy[c].status, !.scope = copy[c].scope]]
  /\ IF child[c] = NONE THEN End(c) ELSE Go(c, "issue")
  /\ UNCHANGED <<tokens, kills, changes>>
  /\ Observe

\* The upsert of a copy of the row as it was read, marked as superseded.
Supersede(c) ==
  /\ pc[c] = "supersede"
  /\ rows' = [rows EXCEPT ![job[c].target] =
                [@ EXCEPT !.status = copy[c].status, !.scope = copy[c].scope,
                          !.superseded = TRUE]]
  /\ IF child[c] = NONE THEN End(c) ELSE Go(c, "issue")
  /\ UNCHANGED <<tokens, kills, changes>>
  /\ Observe

\* Mutants: the root of a grandchild is its parent; the type is stored as the
\* kernel's status.
ChildRow_RootIsTarget(c) ==
  [status |-> "allow", action |-> job[c].action, scope |-> job[c].scope,
   parent |-> IF job[c].op = "delegate" THEN job[c].target ELSE copy[c].parent,
   root |-> job[c].target, superseded |-> FALSE, expired |-> FALSE]

ChildRow_KernelStatus(c) ==
  [status |-> "ALLOWED", action |-> job[c].action, scope |-> job[c].scope,
   parent |-> IF job[c].op = "delegate" THEN job[c].target ELSE copy[c].parent,
   root |-> IF copy[c].root = NONE THEN job[c].target ELSE copy[c].root,
   superseded |-> FALSE, expired |-> FALSE]

\* The lineage of a child: a delegation hangs below its target, a successor
\* beside the decision it replaces.
ChildRow(c) ==
  [status |-> "allow", action |-> job[c].action, scope |-> job[c].scope,
   parent |-> IF job[c].op = "delegate" THEN job[c].target ELSE copy[c].parent,
   root |-> IF copy[c].root = NONE THEN job[c].target ELSE copy[c].root,
   superseded |-> FALSE, expired |-> FALSE]

\* One transaction: the decision, its token, and the link between them.
IssueToken(c) ==
  /\ rows' = [rows EXCEPT ![child[c]] = ChildRow(c)]
  /\ tokens' = [tokens EXCEPT ![child[c]] = "live"]

Issue(c) ==
  /\ pc[c] = "issue"
  /\ IssueToken(c)
  /\ End(c)
  /\ UNCHANGED <<kills, changes>>
  /\ Observe

\* The statement raises: rolled back, or committed and the answer lost (a
\* commit that lands later than what follows is not modelled).  The exception of a handoff reaches the caller; a delegation compensates.
IssueFails(c) ==
  /\ pc[c] = "issue"
  /\ IssueToken(c) \/ UNCHANGED <<rows, tokens>>
  /\ IF job[c].op = "delegate" THEN Go(c, "compensate") ELSE End(c)
  /\ UNCHANGED <<kills, changes>>
  /\ Observe

\* TokenVault.revoke_decision: the decision, its children and, if it is a
\* root, everything below it; then the tokens of those.
Cascade(d) ==
  {e \in Decisions : Exists(rows[e]) /\ d \in {e, rows[e].parent, rows[e].root}}

\* Mutant: the tokens of the decisions below it are forgotten.
RevokeDecision_OwnToken(d) ==
  /\ rows' = [e \in Decisions |->
                IF e \in Cascade(d) THEN [rows[e] EXCEPT !.status = "revoked"]
                ELSE rows[e]]
  /\ tokens' = [e \in Decisions |->
                  IF e = d /\ tokens[e] # "none" THEN "revoked" ELSE tokens[e]]

RevokeDecision(d) ==
  /\ rows' = [e \in Decisions |->
                IF e \in Cascade(d) THEN [rows[e] EXCEPT !.status = "revoked"]
                ELSE rows[e]]
  /\ tokens' = [e \in Decisions |->
                  IF e \in Cascade(d) /\ tokens[e] # "none" THEN "revoked"
                  ELSE tokens[e]]

\* Mutant: the failure is reported, nothing is revoked.
Compensate_Skipped(c) ==
  /\ pc[c] = "compensate"
  /\ Go(c, "failed")
  /\ UNCHANGED <<rows, tokens, kills, changes>>
  /\ Observe

\* If this fails too, delegate raises: Abandon.
Compensate(c) ==
  /\ pc[c] = "compensate"
  /\ RevokeDecision(child[c])
  /\ Go(c, "failed")
  /\ UNCHANGED <<kills, changes>>
  /\ Observe

----------------------------------------------------------------------------
(* The decisions API, operators and time. *)

Create(d, req) ==
  /\ d \in Roots /\ ~Exists(rows[d])
  /\ rows' = [rows EXCEPT ![d] =
                [Absent EXCEPT !.status = req.type, !.action = req.action,
                               !.scope = IF req.scope = {} THEN {req.action}
                                         ELSE req.scope]]
  /\ UNCHANGED <<tokens, kills, changes, pc, job, copy, child>>
  /\ Observe

Change(kind) ==
  /\ kind \in Changes /\ changes < MaxChanges
  /\ changes' = changes + 1

Revoke(d) ==
  /\ Change("revoke")
  /\ Exists(rows[d])
  /\ RevokeDecision(d)
  /\ UNCHANGED <<kills, pc, job, copy, child>>
  /\ Observe

RevokeToken(d) ==
  /\ Change("revoke_token")
  /\ tokens[d] \in {"live", "expired"}
  /\ tokens' = [tokens EXCEPT ![d] = "revoked"]
  /\ UNCHANGED <<rows, kills, pc, job, copy, child>>
  /\ Observe

\* Only decisions of the API have an expiry; grants are stored without one.
Expire(d) ==
  /\ Change("expire")
  /\ Exists(rows[d]) /\ rows[d].root = NONE /\ ~rows[d].expired
  /\ rows' = [rows EXCEPT ![d].expired = TRUE]
  /\ UNCHANGED <<tokens, kills, pc, job, copy, child>>
  /\ Observe

ExpireToken(d) ==
  /\ Change("expire_token")
  /\ tokens[d] = "live"
  /\ tokens' = [tokens EXCEPT ![d] = "expired"]
  /\ UNCHANGED <<rows, kills, pc, job, copy, child>>
  /\ Observe

ToggleKillSwitch(d) ==
  /\ Change("kill")
  /\ Exists(rows[d])
  /\ kills' = IF d \in kills THEN kills \ {d} ELSE kills \cup {d}
  /\ UNCHANGED <<rows, tokens, pc, job, copy, child>>
  /\ Observe

CallStep(c) ==
  \/ Start(c) \/ Return(c) \/ Abandon(c)
  \/ ReadToken(c) \/ ReadDecision(c) \/ ReadParent(c) \/ ReadRoot(c)
  \/ CheckScope(c) \/ CheckKillSwitch(c)
  \/ KernelAnswered(c) \/ KernelRan(c) \/ KernelAllowed(c)
  \/ Supersede(c) \/ Issue(c) \/ IssueFails(c) \/ Compensate(c)

Environment(d) ==
  \/ \E req \in Creates : Create(d, req)
  \/ Revoke(d) \/ RevokeToken(d) \/ Expire(d) \/ ExpireToken(d)
  \/ ToggleKillSwitch(d)

Next == (\E c \in Calls : CallStep(c)) \/ (\E d \in Decisions : Environment(d))

Spec == Init /\ [][Next]_vars

----------------------------------------------------------------------------
(* Properties. *)

Labels ==
  {"idle", "token", "decision", "parent", "root", "scope", "kill", "valid",
   "kernel", "supersede", "issue", "compensate", "failed"}

RowType ==
  [status : {"none", "allow", "deny", "revoked"}, action : Actions \cup {NONE},
   scope : SUBSET Actions, parent : Decisions \cup {NONE},
   root : Decisions \cup {NONE}, superseded : BOOLEAN, expired : BOOLEAN]

JobType ==
  [op : Verifications \cup Spawning \cup {NONE}, target : Decisions \cup {NONE},
   action : Actions \cup {NONE}, scope : SUBSET Actions]

\* The tables hold rows of their types, decision_type and the ids of
\* the lineage included, and every call is at a statement of its code.
TypeOK ==
  /\ rows \in [Decisions -> RowType]
  /\ tokens \in [Decisions -> {"none", "live", "expired", "revoked"}]
  /\ kills \subseteq Decisions
  /\ changes \in Nat
  /\ pc \in [Calls -> Labels]
  /\ job \in [Calls -> JobType]
  /\ copy \in [Calls -> RowType]
  /\ child \in [Calls -> Grants \cup {NONE}]
  /\ stood \in [Calls -> SUBSET Grounds("verify_token")]

\* Authority only shrinks on its way down: a decision that was passed on
\* covers no action its parent or the root of its lineage does not cover.
\* (_is_narrower_scope lets everything pass an empty parent scope; what keeps
\* this true is that introspection refuses a decision that does not cover its
\* own action.)
ActionsAttenuate ==
  \A d \in Decisions : \A a \in {rows[d].parent, rows[d].root} \ {NONE} :
    rows[d].scope \subseteq rows[a].scope

\* One tree per root, through delegations and handoffs of any depth: a
\* decision has the root of its parent, so a revocation of the root, which
\* finds its rows by root_decision_id, misses none of them.
OneRoot ==
  \A d \in Decisions : rows[d].parent # NONE =>
    /\ Exists(rows[rows[d].parent])
    /\ rows[d].root = IF rows[rows[d].parent].root = NONE THEN rows[d].parent
                      ELSE rows[rows[d].parent].root

\* Whatever moves between the statements of a call: if a ground to refuse it
\* held when the call began and never lapsed, the call neither verifies nor
\* reaches the kernel, let alone stores authority.
StandingDenial ==
  \A c \in Calls :
    pc[c] \in {"valid", "kernel", "supersede", "issue", "compensate", "failed"}
      => stood[c] \subseteq {"lineage"}

\* A handoff about to write back a row that it read before the revocation.
StaleHandoff(c, d) ==
  pc[c] = "supersede" /\ job[c].target = d /\ ~Revoked(copy[c])

\* A revocation can be lost: store_decision upserts decision_type and
\* revoked_at as a handoff has read them, and from then on verify_decision takes
\* the row again and check_ancestry lets its descendants pass.  What is left of
\* a revocation: nothing but such a handoff undoes it; the row is superseded
\* from then on, for good; and a token, once revoked, stays revoked.  So
\* neither verify_token nor introspect takes the decision again.
RevocationLeavesMark ==
  [][\A d \in Decisions :
       /\ Revoked(rows[d]) /\ ~Revoked(rows'[d]) =>
            rows'[d].superseded /\ \E c \in Calls : StaleHandoff(c, d)
       /\ rows[d].superseded => rows'[d].superseded
       /\ tokens[d] = "revoked" => tokens'[d] = "revoked"]_vars

\* No token outlives the revocation of the decision it proves.
TokensDieWithDecision ==
  \A d \in Decisions : Revoked(rows[d]) => tokens[d] \in {"none", "revoked"}

\* A delegation that answers "token issuance failed" leaves no decision behind
\* that could be passed on or whose token verifies, even if the transaction had
\* committed by the time of the compensation.  (Superseded: a third call may
\* have read the child before it was revoked, and handed it over since.)
NoOrphanGrant ==
  \A c \in Calls : pc[c] = "failed" =>
    ~Exists(rows[child[c]]) \/ Withdrawn(rows[child[c]])

Held == INSTANCE Authority WITH
  given    <- {d \in Decisions : Exists(rows[d])},
  scope    <- [d \in Decisions |-> rows[d].scope],
  parent   <- [d \in Decisions |-> rows[d].parent],
  root     <- [d \in Decisions |-> rows[d].root],
  revoked  <- {d \in Decisions : Revoked(rows[d])},
  replaced <- {d \in Decisions : rows[d].superseded},
  usable   <- {d \in Decisions : tokens[d] = "live"}

\* Calls that overlap, write back stale copies, fail and compensate only ever
\* create, pass on, retire or revoke authority, each in one step: what is
\* passed on is no wider than its source and joins its lineage, a successor
\* only once its predecessor is marked as replaced (handoff,
\* orchestration.py:397), a revocation is lifted by such a mark only, and no row
\* changes its scope or its place, or a token comes back, afterwards.
ImplementsAuthority == Held!Spec

\* TokenVault.check_ancestry, "Check whether all ancestors of a decision are
\* still active": no token verifies while an ancestor of its decision is
\* revoked or expired, and was when the call began.  It looks at two of them.
AncestorsActive ==
  \A c \in Calls : pc[c] = "valid" => "lineage" \notin stood[c]

=============================================================================
