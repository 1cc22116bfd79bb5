------------------------------ MODULE Authority ------------------------------
(***************************************************************************)
(* What the holders of decisions rely on, without calls, statements or     *)
(* copies of rows.  Authority is created, passed on, retired and revoked.  *)
(* It is passed on in one step, from a decision that is there, never wider *)
(* than it, into the same lineage: below it, or beside it once replaced.   *)
(* What a decision covers and where it hangs never changes; what has been  *)
(* replaced stays so; a token is usable from the day of its decision until *)
(* it lapses or its decision is revoked, and never again.  A revocation    *)
(* lasts until the decision is replaced: that may lift it, but neither     *)
(* brings the token back nor takes the mark of a replacement off.          *)
(***************************************************************************)
CONSTANTS Decisions, Actions, NONE

VARIABLES
  given,   (* the decisions there are                                       *)
  scope,   (* the actions each of them covers                               *)
  parent,  (* the decision it hangs below                                   *)
  root,    (* the decision its lineage began with, unless it began one      *)
  revoked, (* the decisions that are revoked                                *)
  replaced,(* those that were handed over                                   *)
  usable   (* decisions whose token may be used                             *)

vars == <<given, scope, parent, root, revoked, replaced, usable>>

Top(d) == IF root[d] = NONE THEN d ELSE root[d]

\* A decision, what was passed on of it, and the lineage that began with it.
Reach(d) == {e \in given : d \in {e, parent[e], root[e]}}

Init ==
  /\ given = {} /\ revoked = {} /\ replaced = {} /\ usable = {}
  /\ scope = [d \in Decisions |-> {}]
  /\ parent = [d \in Decisions |-> NONE]
  /\ root = [d \in Decisions |-> NONE]

Create(d, s) ==
  /\ d \notin given
  /\ given' = given \cup {d}
  /\ scope' = [scope EXCEPT ![d] = s]
  /\ UNCHANGED <<parent, root, revoked, replaced, usable>>

PassOn(src, d, s) ==
  /\ src \in given /\ d \notin given
  /\ s \subseteq scope[src]
  /\ given' = given \cup {d}
  /\ scope' = [scope EXCEPT ![d] = s]
  /\ \/ parent' = [parent EXCEPT ![d] = src]
     \/ src \in replaced /\ parent' = [parent EXCEPT ![d] = parent[src]]
  /\ root' = [root EXCEPT ![d] = Top(src)]
  /\ usable' = usable \cup {d}
  /\ UNCHANGED <<revoked, replaced>>

Retire(d) ==
  /\ d \in given
  /\ replaced' = replaced \cup {d}
  /\ revoked' = revoked \ {d}
  /\ UNCHANGED <<given, scope, parent, root, usable>>

Revoke(d) ==
  /\ revoked' = revoked \cup Reach(d)
  /\ usable' = usable \ Reach(d)
  /\ UNCHANGED <<given, scope, parent, root, replaced>>

Lapse(d) ==
  /\ usable' = usable \ {d}
  /\ UNCHANGED <<given, scope, parent, root, revoked, replaced>>

Next ==
  \E d \in Decisions :
    \/ Retire(d) \/ Revoke(d) \/ Lapse(d)
    \/ \E s \in SUBSET Actions :
         Create(d, s) \/ \E src \in Decisions : PassOn(src, d, s)

Spec == Init /\ [][Next]_vars

=============================================================================
