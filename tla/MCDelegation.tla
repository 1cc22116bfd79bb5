---------------------------- MODULE MCDelegation ----------------------------
(* Small instances of Delegation for TLC. *)
EXTENDS Delegation, TLC

CONSTANTS c1, c2, d1, d2, d3, d4, d5

Job(op, action, scope) == [op |-> op, action |-> action, scope |-> scope]
Verdict(type, scope) == [type |-> type, action |-> "read", scope |-> scope]

(* One call of every kind; grants that cover less than their parent, and    *)
(* the empty scope, which every check but coverage lets pass.  The other    *)
(* call hands decisions over.                                              *)
TreeJobs ==
  [c \in Calls |->
     IF c = c1
     THEN {Job(op, "read", {}) : op \in Verifications}
          \cup {Job(op, "read", {"read"}) : op \in {"delegate", "gather"}}
          \cup {Job("delegate", "write", {})}
     ELSE {Job("handoff", "read", {"read"})}]

TreeCreates ==
  {Verdict(v, {"read", "write"}) : v \in {"allow"}}

ChainJobs ==
  [c \in Calls |-> {Job("delegate", "read", {"read"}), Job("verify_token", "read", {})}]
ChainCreates == {Verdict("allow", {"read"})}

Symmetry == Permutations(Grants)

=============================================================================
