------------------------------ MODULE EventChain ------------------------------
(***************************************************************************)
(* What a reader of a hash-chained audit table relies on, without writers, *)
(* transactions or locks: events are added one at a time, each behind all  *)
(* that are there and linked to the last of them its author may see.       *)
(* Nothing is changed or removed, and nothing appears behind what has been *)
(* read: who has read up to an event has missed none before it.            *)
(***************************************************************************)
EXTENDS Naturals

CONSTANTS Events  (* records with an id, a tenant and prev, the id linked to *)

VARIABLES
  chain,    (* the events there are                                         *)
  isolated  (* may an author see the events of its own tenant only          *)

KnownTo(t) == IF isolated THEN {x \in chain : x.tenant = t} ELSE chain

Links(e, known) ==
  \/ known = {} /\ e.prev = 0
  \/ \E x \in known : x.id = e.prev /\ \A y \in known : y.id <= x.id

Init == chain = {}

Add(e) ==
  /\ \A x \in chain : x.id < e.id
  /\ Links(e, KnownTo(e.tenant))
  /\ chain' = chain \cup {e}
  /\ UNCHANGED isolated

Next == \E e \in Events : Add(e)

Spec == Init /\ [][Next]_<<chain, isolated>>

=============================================================================
