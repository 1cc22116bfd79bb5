------------------------------- MODULE Ledger -------------------------------
(***************************************************************************)
(* What the kernel promises its callers, without the stages, the tables or *)
(* the statements: a submission is accepted at most once per idempotency   *)
(* key; an accepted action has its effect at most once and only before it  *)
(* is settled; it is settled once, as done exactly if it had its effect;   *)
(* and a caller is only told a settled verdict, its own or that of the     *)
(* accepted submission of its key.  Any submission may be dropped.         *)
(***************************************************************************)
CONSTANTS Requests, NONE

VARIABLES
  key,       (* the idempotency key of each submission, or NONE             *)
  accepted,  (* submissions accepted as actions of their own                *)
  effects,   (* actions that had their effect                               *)
  verdict,   (* how an action was settled                                   *)
  told       (* the action whose verdict a caller was told                  *)

vars == <<key, accepted, effects, verdict, told>>

SameKey(r, q) == key[r] # NONE /\ key[r] = key[q]

Init ==
  /\ accepted = {}
  /\ effects = {}
  /\ verdict = [r \in Requests |-> NONE]
  /\ told = [r \in Requests |-> NONE]

Accept(r) ==
  /\ r \notin accepted
  /\ told[r] = NONE
  /\ ~ \E q \in accepted : SameKey(r, q)
  /\ accepted' = accepted \cup {r}
  /\ UNCHANGED <<key, effects, verdict, told>>

Effect(r) ==
  /\ r \in accepted \ effects
  /\ verdict[r] = NONE
  /\ effects' = effects \cup {r}
  /\ UNCHANGED <<key, accepted, verdict, told>>

Settle(r) ==
  /\ r \in accepted
  /\ verdict[r] = NONE
  /\ verdict' = [verdict EXCEPT ![r] = IF r \in effects THEN "done" ELSE "withheld"]
  /\ UNCHANGED <<key, accepted, effects, told>>

Tell(r, a) ==
  /\ told[r] = NONE
  /\ verdict[a] # NONE
  /\ r = a \/ (r \notin accepted /\ SameKey(r, a))
  /\ told' = [told EXCEPT ![r] = a]
  /\ UNCHANGED <<key, accepted, effects, verdict>>

Next ==
  \E r \in Requests :
    \/ Accept(r) \/ Effect(r) \/ Settle(r)
    \/ \E a \in Requests : Tell(r, a)

Spec == Init /\ [][Next]_vars

=============================================================================
