------------------------------ MODULE MCKernel ------------------------------
(* Small instances of Kernel for TLC. *)
EXTENDS Governor, TLC

CONSTANTS r1, r2, r3, k1, t1, t2, c1, c2, c3

P(k, t, c, d) == [key |-> k, tenant |-> t, token |-> c, dry |-> d]

MCMaxUses == [c \in Capabilities |-> 1]
MCFitAll == [c \in Capabilities |-> "fits"]
MCFitMixed == (c1 :> "fits") @@ (c2 :> "wrong_actor") @@ (c3 :> "wrong_scope")

(* Races: duplicates of one key from two tenants, and keyed and unkeyed   *)
(* requests, one of them a dry run, after one single-use capability.      *)
RaceParams ==
  {P(k1, t1, c1, FALSE), P(k1, t2, NONE, FALSE), P(NONE, NONE, c1, TRUE)}

(* Two submissions, with liveness: duplicates, a foreign tenant, a dry run. *)
LedgerParams ==
  {P(k1, t1, c1, FALSE), P(k1, t2, NONE, FALSE), P(k1, NONE, NONE, TRUE),
   P(NONE, t1, Unknown, FALSE)}

(* Stages: every kind of token, dry runs, a request without a tenant, and   *)
(* switch rows of its own and of another tenant.                           *)
StageParams ==
  {P(NONE, t1, c, FALSE) : c \in {c1, c2, c3, Unknown, Gov, NONE}}
  \cup {P(NONE, t1, c1, TRUE), P(NONE, NONE, c1, FALSE)}

StageRows ==
  {[scope |-> "global", tenant |-> t2], [scope |-> "action", tenant |-> t1],
   [scope |-> "resource", tenant |-> t2]}

(* One plain request of a tenant. *)
BudgetParams == {P(NONE, t1, NONE, FALSE)}

Symmetry == Permutations(Requests)

=============================================================================
