--------------------------- MODULE PolicyVersions ---------------------------
(***************************************************************************)
(* The no-code approval threshold of one tenant: apply_approval_threshold  *)
(* (services/policy_controls.py) retires the active version and inserts a  *)
(* new one in a READ COMMITTED transaction, while the kernel resolves the  *)
(* policy of its actions (services/policy_resolver.py).  A version is the  *)
(* apply that inserted it.  It is the only writer of `policies' in the     *)
(* repository, so the resolver's lookups of other scopes find no row.      *)
(*                                                                         *)
(* NOW() is the time the transaction began: created_at and activated_at    *)
(* are both began[a].  The clock moves at the begin and the end of a       *)
(* transaction only, and no two of these fall on one instant.              *)
(***************************************************************************)
EXTENDS Naturals

CONSTANTS
  Applies,   (* calls of apply_approval_threshold                            *)
  Calls,     (* actions the kernel resolves a policy for                     *)
  Names,     (* version names: the second of the caller's clock              *)
  NONE

ASSUME NoneAssumption == NONE \notin Applies

VARIABLES
  clock,
  pc,        (* where each apply is                                          *)
  name,      (* the version name it computed                                 *)
  began,     (* when its transaction began: NOW()                            *)
  ended,     (* when it committed                                            *)
  todo,      (* rows its UPDATE has selected and not locked yet              *)
  held,      (* rows it has locked and set to retired, not yet committed     *)
  active,    (* versions whose committed row says active                     *)
  replaced,  (* history: what has been in force and no longer is             *)
  call,      (* where each resolution is                                     *)
  found,     (* the version it read                                          *)
  outdated   (* history: what was already replaced when the action arrived   *)

rows == <<held, active, replaced>>
applyVars == <<clock, pc, name, began, ended, todo, rows>>
callVars == <<call, found, outdated>>
vars == <<clock, pc, name, began, ended, todo, held, active, replaced, call, found, outdated>>

Committed == {a \in Applies : pc[a] = "done"}

(* ORDER BY created_at DESC LIMIT 1 over the active rows a statement sees. *)
InForce ==
  IF active = {} THEN NONE
  ELSE CHOOSE v \in active : \A w \in active : began[w] <= began[v]

Init ==
  /\ clock = 1
  /\ pc = [a \in Applies |-> "idle"]
  /\ name \in [Applies -> Names]
  /\ began = [a \in Applies |-> 0]
  /\ ended = [a \in Applies |-> 0]
  /\ todo = [a \in Applies |-> {}]
  /\ held = [a \in Applies |-> {}]
  /\ active = {}
  /\ replaced = {}
  /\ call = [c \in Calls |-> "idle"]
  /\ found = [c \in Calls |-> NONE]
  /\ outdated = [c \in Calls |-> {}]

Goto(a, label) == pc' = [pc EXCEPT ![a] = label]

-----------------------------------------------------------------------------
(* apply_approval_threshold *)

(* The version name is the current second; then BEGIN. *)
Begin(a) ==
  /\ pc[a] = "idle"
  /\ Goto(a, "update")
  /\ began' = [began EXCEPT ![a] = clock]
  /\ clock' = clock + 1
  /\ UNCHANGED <<name, ended, todo, rows, callVars>>

(* UPDATE ... WHERE status = 'active': the statement's snapshot. *)
\* Mutant: only the row the resolver would read is retired.
Update_NewestOnly(a) ==
  /\ pc[a] = "update"
  /\ Goto(a, "lock")
  /\ todo' = [todo EXCEPT ![a] = active \cap {InForce}]
  /\ UNCHANGED <<clock, name, began, ended, rows, callVars>>

Update(a) ==
  /\ pc[a] = "update"
  /\ Goto(a, "lock")
  /\ todo' = [todo EXCEPT ![a] = active]
  /\ UNCHANGED <<clock, name, began, ended, rows, callVars>>

(* It takes the selected rows one by one and waits while another           *)
(* transaction holds the row.  The UPDATE has no ORDER BY; that all take   *)
(* the rows in the order of their insertion is an assumption about the     *)
(* scan of a small table.                                                  *)
Obtains(a, v) ==
  /\ v \in todo[a]
  /\ \A w \in todo[a] : began[v] <= began[w]
  /\ \A b \in Applies : v \notin held[b]

(* It reads the row it has waited for again: what has been retired         *)
(* meanwhile no longer matches and is left alone.  (PostgreSQL keeps the   *)
(* lock on such a row until the transaction ends, so that a third apply    *)
(* may wait longer than here; it finds the row retired all the same.)      *)
\* Mutant: the row is not read again after the wait.
LockRow_NoRecheck(a) ==
  /\ pc[a] = "lock"
  /\ \E v \in Applies :
       /\ Obtains(a, v)
       /\ todo' = [todo EXCEPT ![a] = @ \ {v}]
       /\ held' = [held EXCEPT ![a] = @ \cup {v}]
  /\ UNCHANGED <<clock, pc, name, began, ended, active, replaced, callVars>>

LockRow(a) ==
  /\ pc[a] = "lock"
  /\ \E v \in Applies :
       /\ Obtains(a, v)
       /\ todo' = [todo EXCEPT ![a] = @ \ {v}]
       /\ held' = [held EXCEPT ![a] = @ \cup ({v} \cap active)]
  /\ UNCHANGED <<clock, pc, name, began, ended, active, replaced, callVars>>

(* ROLLBACK: the retired rows are active again for everybody. *)
\* Mutant: the rows keep their lock.
Rollback_KeepsLocks(a) ==
  /\ Goto(a, "failed")
  /\ todo' = [todo EXCEPT ![a] = {}]
  /\ UNCHANGED <<clock, name, began, ended, rows, callVars>>

Rollback(a) ==
  /\ Goto(a, "failed")
  /\ todo' = [todo EXCEPT ![a] = {}]
  /\ held' = [held EXCEPT ![a] = {}]
  /\ UNCHANGED <<clock, name, began, ended, active, replaced, callVars>>

(* INSERT: uq_policies_name_version makes it wait for a transaction that   *)
(* has inserted the same name, and fail once that one has committed.       *)
SameName(a) == {b \in Applies \ {a} : name[b] = name[a]}

NameFree(a) == \A b \in SameName(a) : pc[b] \notin {"commit", "done"}
NameGone(a) == \E b \in SameName(a) : pc[b] = "done"

Insert(a) ==
  /\ pc[a] = "lock"
  /\ todo[a] = {}
  /\ NameFree(a)
  /\ Goto(a, "commit")
  /\ UNCHANGED <<clock, name, began, ended, todo, rows, callVars>>

InsertRefused(a) ==
  /\ pc[a] = "lock"
  /\ todo[a] = {}
  /\ NameGone(a)
  /\ Rollback(a)

(* COMMIT: retirement and new version become visible together. *)
\* Mutant: the UPDATE commits by itself, the INSERT after it.
Commit_RetiresFirst(a) ==
  /\ pc[a] = "commit"
  /\ LET first == active \cap held[a] # {}
     IN /\ active' = IF first THEN active \ held[a] ELSE active \cup {a}
        /\ Goto(a, IF first THEN "commit" ELSE "done")
  /\ held' = [held EXCEPT ![a] = {}]
  /\ ended' = [ended EXCEPT ![a] = clock]
  /\ clock' = clock + 1
  /\ UNCHANGED <<name, began, todo, callVars>>
  /\ replaced' = IF InForce' = InForce THEN replaced ELSE replaced \cup {InForce}

Commit(a) ==
  /\ pc[a] = "commit"
  /\ Goto(a, "done")
  /\ active' = (active \ held[a]) \cup {a}
  /\ held' = [held EXCEPT ![a] = {}]
  /\ ended' = [ended EXCEPT ![a] = clock]
  /\ clock' = clock + 1
  /\ UNCHANGED <<name, began, todo, callVars>>
  /\ replaced' = IF InForce' = InForce THEN replaced ELSE replaced \cup {InForce}

(* A statement fails or the connection is lost. *)
Abort(a) ==
  /\ pc[a] \in {"update", "lock", "commit"}
  /\ Rollback(a)

Apply(a) ==
  \/ Begin(a) \/ Update(a) \/ LockRow(a)
  \/ Insert(a) \/ InsertRefused(a) \/ Commit(a)

-----------------------------------------------------------------------------
(* PolicyResolver.resolve *)

Arrive(c) ==
  /\ call[c] = "idle"
  /\ call' = [call EXCEPT ![c] = "lookup"]
  /\ outdated' = [outdated EXCEPT ![c] = replaced]
  /\ UNCHANGED <<applyVars, found>>

(* get_active_policy('tenant', ...), the lookup of this scope. *)
\* Mutant: the oldest active row first.
Lookup_Ascending(c) ==
  /\ call[c] = "lookup"
  /\ call' = [call EXCEPT ![c] = IF active = {} THEN "resolved" ELSE "snapshot"]
  /\ found' = [found EXCEPT ![c] =
       IF active = {} THEN NONE ELSE CHOOSE v \in active : \A w \in active : began[v] <= began[w]]
  /\ UNCHANGED <<applyVars, outdated>>

Lookup(c) ==
  /\ call[c] = "lookup"
  /\ call' = [call EXCEPT ![c] = IF active = {} THEN "resolved" ELSE "snapshot"]
  /\ found' = [found EXCEPT ![c] = InForce]
  /\ UNCHANGED <<applyVars, outdated>>

(* _create_snapshot: the row is copied, whatever became of it meanwhile. *)
Snapshot(c) ==
  /\ call[c] = "snapshot"
  /\ call' = [call EXCEPT ![c] = "resolved"]
  /\ UNCHANGED <<applyVars, found, outdated>>

-----------------------------------------------------------------------------
Next ==
  \/ \E a \in Applies : Apply(a) \/ Abort(a)
  \/ \E c \in Calls : Arrive(c) \/ Lookup(c) \/ Snapshot(c)

(* A transaction that has begun goes on; the database grants a free lock.  *)
(* Nothing makes an operator start an apply.                               *)
Fairness ==
  \A a \in Applies : WF_vars(Update(a) \/ LockRow(a) \/ Insert(a) \/ InsertRefused(a) \/ Commit(a))

Spec == Init /\ [][Next]_vars

FairSpec == Spec /\ Fairness

-----------------------------------------------------------------------------
(* Types; and a row is locked, to be retired, by one transaction at most,  *)
(* and only while it is active.                                            *)
TypeOK ==
  /\ clock \in Nat
  /\ pc \in [Applies -> {"idle", "update", "lock", "commit", "done", "failed"}]
  /\ name \in [Applies -> Names]
  /\ began \in [Applies -> Nat]
  /\ ended \in [Applies -> Nat]
  /\ todo \in [Applies -> SUBSET Applies]
  /\ held \in [Applies -> SUBSET Applies]
  /\ active \subseteq Applies
  /\ replaced \subseteq Applies \cup {NONE}
  /\ call \in [Calls -> {"idle", "lookup", "snapshot", "resolved"}]
  /\ found \in [Calls -> Applies \cup {NONE}]
  /\ outdated \in [Calls -> SUBSET (Applies \cup {NONE})]
  /\ \A a \in Applies : held[a] \subseteq active
  /\ \A a, b \in Applies : a # b => held[a] \cap held[b] = {}

(* Two versions may be active side by side - the UPDATE of an apply does   *)
(* not see the row of one that is still open - but a version that was      *)
(* committed before a later apply began is never left active behind it.    *)
(* So an apply that overlaps no other leaves exactly its own version.      *)
NoStaleVersion ==
  \A v \in active, a \in Committed : began[a] < ended[v]

(* An action is never resolved to a version, or to the default allow of no *)
(* version at all, that had been replaced before the action arrived.       *)
ResolvesCurrent ==
  \A c \in Calls : call[c] \in {"snapshot", "resolved"} => found[c] \notin outdated[c]

Register == INSTANCE PolicyRegister WITH Versions <- Applies, inForce <- InForce

(* Whatever applies overlap or fail, the policy in force changes as a      *)
(* register does: never back to none, never back to a replaced version.    *)
ImplementsRegister == Register!Spec

(* An apply whose transaction has begun is answered, though it may wait    *)
(* for the rows and the version name of others that fail meanwhile.        *)
EveryApplyEnds ==
  \A a \in Applies : pc[a] = "update" ~> pc[a] \in {"done", "failed"}
=============================================================================
