----------------------------- MODULE RateLimiter -----------------------------
(***************************************************************************)
(* The in-memory token bucket in front of the API, of one bucket key.  It   *)
(* refills lazily, when it is asked; what it holds is counted in parts of a *)
(* request, 1/Window each, so that a second adds Requests parts.            *)
(***************************************************************************)
EXTENDS Integers

CONSTANTS
  Requests,  (* RateLimitConfig.requests                                    *)
  Window,    (* RateLimitConfig.window, in seconds                          *)
  Burst      (* RateLimitConfig.burst: the capacity, in requests            *)

VARIABLES
  tokens,  (* what the bucket held when it was last asked                   *)
  since,   (* seconds since then, as long as they matter                    *)
  level    (* history: what a bucket refilled every second would hold       *)

vars == <<tokens, since, level>>

Capacity == Burst * Window

AtMost(bound, n) == IF n > bound THEN bound ELSE n

\* Mutant: a refill beyond the capacity.
Refilled_Unbounded == tokens + since * Requests

Refilled == AtMost(Capacity, tokens + since * Requests)

Admits == Refilled >= Window

\* int(missing / rate) + 1, in seconds.
RetryAfter == (Window - Refilled) \div Requests + 1

Init ==
  /\ tokens = Capacity
  /\ since = 0
  /\ level = Capacity

\* Mutant: the refill of a refused request is not dated.
Refuse_Undated ==
  /\ ~Admits
  /\ tokens' = Refilled
  /\ UNCHANGED <<since, level>>

Admit ==
  /\ Admits
  /\ tokens' = Refilled - Window
  /\ since' = 0
  /\ level' = level - Window

Refuse ==
  /\ ~Admits
  /\ tokens' = Refilled
  /\ since' = 0
  /\ UNCHANGED level

\* After Capacity seconds the bucket is full however long it goes on.
Tick ==
  /\ since' = AtMost(Capacity, since + 1)
  /\ level' = AtMost(Capacity, level + Requests)
  /\ UNCHANGED tokens

Next == Admit \/ Refuse \/ Tick

Spec == Init /\ [][Next]_vars

=============================================================================
