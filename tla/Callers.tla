------------------------------- MODULE Callers -------------------------------
(***************************************************************************)
(* The Python SDK calling the API: CitadelClient.execute and guard with the *)
(* retries of _request, a network that loses and delays, the rate limiter  *)
(* in front of the kernel, and the kernel as the ledger it implements.     *)
(*                                                                         *)
(* Abstractions.  A request of the SDK is an attempt <<call, number>>; the  *)
(* router makes each of them an action of its own.  The sender's clock and *)
(* the bucket's tick together, in seconds.  All calls share one bucket.    *)
(* Requests the API refuses before the kernel (authentication, validation) *)
(* are left out: they are answered, and not retried.                       *)
(***************************************************************************)
EXTENDS Integers

CONSTANTS
  Calls,       (* calls of execute                                          *)
  Guards,      (* those guard makes, for a function of the caller           *)
  KeyOfCall,   (* the idempotency_key of a call, or NONE                    *)
  MaxRetries,  (* max_retries                                               *)
  NONE,
  Requests, Window, Burst

ASSUME CallersAssumption ==
  /\ Guards \subseteq Calls
  /\ \A c \in Guards : KeyOfCall[c] = NONE
  /\ MaxRetries \in Nat

ASSUME LimitsAssumption ==
  Requests \in Nat \ {0} /\ Window \in Nat \ {0} /\ Burst \in Nat \ {0}

Attempts == Calls \X (0 .. MaxRetries)

\* What the provers do not know of exponentiation.
ASSUME BackoffAssumption == \A n \in 0 .. MaxRetries : 2 ^ n \in Nat

ASSUME NoneAssumption ==
  NONE \notin Attempts \cup {"done", "withheld", "executed", "failed_execution", "error"}

VARIABLES
  tokens, since, level,              (* the bucket: see RateLimiter         *)
  key, accepted, effects, verdict, told,  (* the kernel: see Ledger              *)
  at,       (* where a request is                                           *)
  pc,       (* where a call is                                              *)
  attempt,  (* the number of its current request                            *)
  nap,      (* seconds it still sleeps                                      *)
  outcome,  (* the status it was answered, or "error" if it raised          *)
  ran,      (* calls of guard that have run the function                    *)
  promised  (* history: calls told when to retry, no request admitted since *)

bucket == <<tokens, since, level>>
kernel == <<key, accepted, effects, verdict, told>>
client == <<pc, attempt, nap, outcome, ran, promised>>
vars == <<bucket, kernel, at, client>>

B == INSTANCE RateLimiter
K == INSTANCE Ledger WITH Requests <- Attempts

Init ==
  /\ B!Init
  /\ K!Init
  /\ key = [a \in Attempts |-> NONE]
  /\ at = [a \in Attempts |-> "unsent"]
  /\ pc = [c \in Calls |-> "idle"]
  /\ attempt = [c \in Calls |-> 0]
  /\ nap = [c \in Calls |-> 0]
  /\ outcome = [c \in Calls |-> NONE]
  /\ ran = {}
  /\ promised = {}

----------------------------------------------------------------------------
(* The client: _request, execute, guard. *)

\* Mutant: the key is sent with the first request only.
Send_KeyFirstOnly(c, n) ==
  /\ key' = [key EXCEPT ![<<c, n>>] = IF n = 0 THEN KeyOfCall[c] ELSE NONE]
  /\ at' = [at EXCEPT ![<<c, n>>] = "transit"]
  /\ pc' = [pc EXCEPT ![c] = "wait"]
  /\ attempt' = [attempt EXCEPT ![c] = n]
  /\ promised' = promised \ {c}
  /\ UNCHANGED <<accepted, effects, verdict, told>>

\* Every request of a call carries the same body, the key included.
Send(c, n) ==
  /\ key' = [key EXCEPT ![<<c, n>>] = KeyOfCall[c]]
  /\ at' = [at EXCEPT ![<<c, n>>] = "transit"]
  /\ pc' = [pc EXCEPT ![c] = "wait"]
  /\ attempt' = [attempt EXCEPT ![c] = n]
  /\ promised' = promised \ {c}
  /\ UNCHANGED <<accepted, effects, verdict, told>>

Submit(c) ==
  /\ pc[c] = "idle"
  /\ Send(c, 0)
  /\ UNCHANGED <<bucket, nap, outcome, ran>>

\* Mutant: a retry is not counted.
Wake_Uncounted(c) ==
  /\ pc[c] = "sleep" /\ nap[c] = 0
  /\ Send(c, attempt[c])
  /\ UNCHANGED <<bucket, nap, outcome, ran>>

Wake(c) ==
  /\ pc[c] = "sleep" /\ nap[c] = 0
  /\ Send(c, attempt[c] + 1)
  /\ UNCHANGED <<bucket, nap, outcome, ran>>

Raise(c) ==
  /\ pc' = [pc EXCEPT ![c] = "done"]
  /\ outcome' = [outcome EXCEPT ![c] = "error"]
  /\ UNCHANGED <<attempt, nap, ran, promised>>

\* Sleep and try again, or raise what the last request failed with.
Retry(c, seconds) ==
  IF attempt[c] < MaxRetries
  THEN /\ pc' = [pc EXCEPT ![c] = "sleep"]
       /\ nap' = [nap EXCEPT ![c] = seconds]
       /\ UNCHANGED <<attempt, outcome, ran, promised>>
  ELSE Raise(c)

\* 2 ** attempt + random.uniform(0, 1)
Backoff(c) == {2 ^ attempt[c], 2 ^ attempt[c] + 1}

\* Mutant: the function is run on every answer that is not an error.
Answered_Unguarded(c, status) ==
  /\ pc' = [pc EXCEPT ![c] = "done"]
  /\ outcome' = [outcome EXCEPT ![c] = status]
  /\ ran' = ran \cup (Guards \cap {c})
  /\ UNCHANGED <<attempt, nap, promised>>

\* execute returns the answer; guard runs the function if it was executed.
Answered(c, status) ==
  /\ pc' = [pc EXCEPT ![c] = "done"]
  /\ outcome' = [outcome EXCEPT ![c] = status]
  /\ ran' = IF status = "executed" THEN ran \cup (Guards \cap {c}) ELSE ran
  /\ UNCHANGED <<attempt, nap, promised>>

\* httpx.NetworkError is retried; a time-out is another exception.
NetworkError(c) ==
  /\ pc[c] = "wait"
  /\ \E seconds \in Backoff(c) : Retry(c, seconds)
  /\ UNCHANGED <<bucket, kernel, at>>

TimeOut(c) ==
  /\ pc[c] = "wait"
  /\ Raise(c)
  /\ UNCHANGED <<bucket, kernel, at>>

----------------------------------------------------------------------------
(* The network and the server.  A response only reaches a client that still *)
(* waits for it.                                                            *)

Awaited(a) == pc[a[1]] = "wait" /\ attempt[a[1]] = a[2]

Drop(a) == at' = [at EXCEPT ![a] = "gone"]

Admit(a) ==
  /\ at[a] = "transit"
  /\ B!Admit
  /\ at' = [at EXCEPT ![a] = "open"]
  /\ promised' = {}
  /\ UNCHANGED <<kernel, pc, attempt, nap, outcome, ran>>

\* Mutant: Retry-After rounds down.
PauseAfter429_Floor == (Window - B!Refilled) \div Requests

PauseAfter429 == B!RetryAfter

\* 429, with a Retry-After header.
RateLimited(a) ==
  /\ at[a] = "transit"
  /\ B!Refuse
  /\ Drop(a)
  /\ IF ~Awaited(a) THEN UNCHANGED client
     ELSE IF attempt[a[1]] = MaxRetries THEN Raise(a[1])
     ELSE /\ pc' = [pc EXCEPT ![a[1]] = "sleep"]
          /\ nap' = [nap EXCEPT ![a[1]] = PauseAfter429]
          /\ promised' = promised \cup {a[1]}
          /\ UNCHANGED <<attempt, outcome, ran>>
  /\ UNCHANGED kernel

\* One step of the kernel for an admitted request.
Handle(a) ==
  /\ at[a] = "open"
  /\ K!Accept(a) \/ K!Effect(a) \/ K!Settle(a)
  /\ UNCHANGED <<bucket, at, client>>

\* What the API calls the verdict: a function that raised was run all the same.
StatusOf(v) == IF v = "done" THEN {"executed", "failed_execution"} ELSE {"withheld"}

Reply(a) ==
  /\ at[a] = "open"
  /\ Drop(a)
  /\ \E b \in Attempts :
       /\ K!Tell(a, b)
       /\ IF Awaited(a)
          THEN \E status \in StatusOf(verdict[b]) : Answered(a[1], status)
          ELSE UNCHANGED client
  /\ UNCHANGED bucket

\* 500: an exception in the handler, whatever it had done; so does the
\* answer to a conflict end, which has no decision to take the status from.
ServerError(a) ==
  /\ at[a] = "open"
  /\ Drop(a)
  /\ IF Awaited(a) THEN \E seconds \in Backoff(a[1]) : Retry(a[1], seconds)
     ELSE UNCHANGED client
  /\ UNCHANGED <<bucket, kernel>>

\* The request, the server or the response is lost.
Lose(a) ==
  /\ at[a] \in {"transit", "open"}
  /\ Drop(a)
  /\ UNCHANGED <<bucket, kernel, client>>

Second ==
  /\ B!Tick
  /\ nap' = [c \in Calls |-> IF nap[c] > 0 THEN nap[c] - 1 ELSE 0]
  /\ UNCHANGED <<kernel, at, pc, attempt, outcome, ran, promised>>

ClientStep(c) == Submit(c) \/ Wake(c) \/ NetworkError(c) \/ TimeOut(c)

ServerStep(a) ==
  \/ Admit(a) \/ RateLimited(a) \/ Handle(a) \/ Reply(a) \/ ServerError(a) \/ Lose(a)

Next ==
  \/ \E c \in Calls : ClientStep(c)
  \/ \E a \in Attempts : ServerStep(a)
  \/ Second

\* Time passes, a client that sleeps wakes up, and one that waits is ended by
\* its time-out.  Of the network and the server nothing is assumed.
Fairness ==
  /\ WF_vars(Second)
  /\ \A c \in Calls : WF_vars(Wake(c)) /\ WF_vars(TimeOut(c))

Spec == Init /\ [][Next]_vars /\ Fairness

----------------------------------------------------------------------------
(* Properties. *)

Outcomes == {NONE, "error", "executed", "failed_execution", "withheld"}

\* The locals of every call and the place of every request; the bucket never
\* holds more than its burst, nor less than nothing.
TypeOK ==
  /\ tokens \in 0 .. B!Capacity /\ since \in 0 .. B!Capacity /\ level \in Int
  /\ key \in [Attempts -> {KeyOfCall[c] : c \in Calls} \cup {NONE}]
  /\ accepted \subseteq Attempts /\ effects \subseteq Attempts
  /\ verdict \in [Attempts -> {NONE, "done", "withheld"}]
  /\ told \in [Attempts -> Attempts \cup {NONE}]
  /\ at \in [Attempts -> {"unsent", "transit", "open", "gone"}]
  /\ pc \in [Calls -> {"idle", "wait", "sleep", "done"}]
  /\ attempt \in [Calls -> 0 .. MaxRetries]
  /\ nap \in [Calls -> Nat]
  /\ outcome \in [Calls -> Outcomes]
  /\ ran \subseteq Guards
  /\ promised \subseteq Calls

\* The effects of every request, of any call, that carried this call's key.
KeyedEffects(c) == {a \in effects : KeyOfCall[a[1]] = KeyOfCall[c]}

\* With an idempotency key a call may be retried blindly: whatever was lost,
\* delayed past its retry, refused or left half done, there was at most one
\* effect for the key, and what the client was answered is true of it: one if
\* it is told that the action ran, none if it is told that it did not.
\* (Without a key none of this holds: each request may have its effect, and a
\* refused retry may follow one that had.)
KeyedAnswerIsTrue ==
  \A c \in Calls : KeyOfCall[c] # NONE =>
    /\ \A a, b \in KeyedEffects(c) : a = b
    /\ outcome[c] \in {"executed", "failed_execution"} => KeyedEffects(c) # {}
    /\ outcome[c] = "withheld" => KeyedEffects(c) = {}

\* guard runs its function only when a request of this very call has a
\* settled decision that says it was executed.
GuardIsBacked ==
  \A c \in ran :
    /\ outcome[c] = "executed"
    /\ \E n \in 0 .. MaxRetries : <<c, n>> \in effects /\ verdict[<<c, n>>] = "done"

\* The bucket that is refilled only when it is asked, by admitted and refused
\* requests alike, is the one that is refilled every second: no sequence of
\* requests admits more than Burst and Requests per Window.
LazyIsEager == B!Refilled = level

\* Retry-After is enough: a call that slept it out is admitted if it asks
\* then, unless another request was admitted while it slept.
RetryAfterSuffices ==
  \A c \in promised : nap[c] = 0 => B!Admits

\* Every call ends, whatever the network and the server do.
EveryCallEnds == \A c \in Calls : pc[c] = "wait" ~> pc[c] = "done"

=============================================================================
