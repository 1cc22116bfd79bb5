---------------------------- MODULE CallersProofs ----------------------------
(***************************************************************************)
(* Theorems about Callers.  The inductive invariant has a part for the     *)
(* bucket, one for the ledger behind it, and one that ties what a client   *)
(* was answered to the ledger.                                             *)
(***************************************************************************)
EXTENDS Callers, TLAPS

\* A call that was told when to retry finds the bucket refilled by then.
PromisesHold ==
  \A c \in promised : pc[c] = "sleep" /\ level + nap[c] * Requests >= Window

BucketOK ==
  /\ tokens \in 0 .. B!Capacity
  /\ since \in 0 .. B!Capacity
  /\ level \in 0 .. B!Capacity
  /\ LazyIsEager
  /\ PromisesHold

\* A request carries the key of its call from the moment it is sent.
KeysSent ==
  \A a \in Attempts : at[a] # "unsent" => key[a] = KeyOfCall[a[1]]

OnePerKey ==
  \A a, b \in accepted : K!SameKey(a, b) => a = b

Settled ==
  /\ effects \subseteq accepted
  /\ \A a \in accepted : at[a] # "unsent"
  /\ \A a \in Attempts :
       /\ verdict[a] = "done" => a \in effects
       /\ verdict[a] = "withheld" => a \in accepted /\ a \notin effects

\* The request whose decision call c was answered with: its own, or another
\* of its key.
Answers(c, b, v) ==
  /\ b \in Attempts /\ verdict[b] = v
  /\ b[1] = c \/ (KeyOfCall[c] # NONE /\ KeyOfCall[b[1]] = KeyOfCall[c])

AnswerOK(c) ==
  /\ outcome[c] \in {"executed", "failed_execution"} => \E b \in Attempts : Answers(c, b, "done")
  /\ outcome[c] = "withheld" => \E b \in Attempts : Answers(c, b, "withheld")
  /\ c \in ran => outcome[c] = "executed"
  /\ pc[c] # "done" => outcome[c] = NONE

AnswersHold == \A c \in Calls : AnswerOK(c)

\* Who sleeps has a request left.
Sleeping == \A c \in Calls : pc[c] = "sleep" => attempt[c] < MaxRetries

LedgerOK == KeysSent /\ OnePerKey /\ Settled

IInv == TypeOK /\ Sleeping /\ BucketOK /\ LedgerOK /\ AnswersHold

----------------------------------------------------------------------------
(* Arithmetic. *)

LEMMA Products ==
  ASSUME NEW n \in Nat, NEW r \in Nat \ {0}
  PROVE  n * r \in Nat /\ (n + 1) * r = n * r + r /\ n * r >= n
OBVIOUS

LEMMA RoundedUp ==
  ASSUME NEW n \in Nat, NEW r \in Nat \ {0}
  PROVE  n \div r + 1 \in Nat /\ n <= (n \div r + 1) * r
OBVIOUS

LEMMA CapacityType == B!Capacity \in Nat \ {0} /\ B!Capacity >= Window
BY LimitsAssumption DEF B!Capacity

LEMMA RefilledType ==
  ASSUME BucketOK
  PROVE  B!Refilled = level /\ level \in Nat /\ level <= B!Capacity
BY CapacityType DEF BucketOK, LazyIsEager

\* A bucket asked just now holds what it held.
LEMMA JustAsked ==
  ASSUME tokens' \in 0 .. B!Capacity, since' = 0, level' = tokens'
  PROVE  LazyIsEager'
<1>1. since' * Requests = 0
  BY LimitsAssumption
<1> QED
  BY <1>1, CapacityType DEF LazyIsEager, B!Refilled, B!AtMost, B!Capacity

----------------------------------------------------------------------------
(* The bucket. *)

LEMMA BucketFrame ==
  ASSUME BucketOK, UNCHANGED bucket, promised' \subseteq promised,
         \A c \in promised' : nap'[c] = nap[c] /\ pc'[c] = pc[c]
  PROVE  BucketOK'
BY DEF BucketOK, bucket, LazyIsEager, PromisesHold, B!Refilled, B!AtMost, B!Capacity

LEMMA AdmitBucket ==
  ASSUME BucketOK, NEW a \in Attempts, Admit(a)
  PROVE  BucketOK'
<1>1. /\ level >= Window /\ tokens' = level - Window
      /\ since' = 0 /\ level' = level - Window /\ promised' = {}
  BY RefilledType DEF Admit, B!Admit, B!Admits
<1>2. tokens' \in 0 .. B!Capacity
  BY <1>1, RefilledType, LimitsAssumption, CapacityType
<1>3. LazyIsEager'
  BY <1>1, <1>2, JustAsked
<1> QED
  BY <1>1, <1>2, <1>3, CapacityType DEF BucketOK, PromisesHold, B!Capacity

LEMMA RateLimitedBucket ==
  ASSUME TypeOK, BucketOK, NEW a \in Attempts, RateLimited(a)
  PROVE  BucketOK'
<1>1. tokens' = level /\ since' = 0 /\ level' = level /\ level < Window
  BY RefilledType, LimitsAssumption DEF RateLimited, B!Refuse, B!Admits
<1>2. tokens' \in 0 .. B!Capacity
  BY <1>1, RefilledType, CapacityType
<1>3. LazyIsEager'
  BY <1>1, <1>2, JustAsked
<1>4. PromisesHold'
  <2>1. CASE promised' = promised /\ \A c \in promised : nap'[c] = nap[c] /\ pc'[c] = pc[c]
    BY <1>1, <2>1 DEF PromisesHold, BucketOK
  <2>2. CASE /\ Awaited(a) /\ promised' = promised \cup {a[1]}
             /\ nap' = [nap EXCEPT ![a[1]] = B!RetryAfter]
             /\ pc' = [pc EXCEPT ![a[1]] = "sleep"]
    <3>1. B!RetryAfter = (Window - level) \div Requests + 1
      BY RefilledType DEF B!RetryAfter
    <3>2. Window - level \in Nat /\ Requests \in Nat \ {0}
      BY <1>1, RefilledType, LimitsAssumption
    <3>3. Window - level <= B!RetryAfter * Requests /\ B!RetryAfter \in Nat
      BY <3>1, <3>2, RoundedUp
    <3>4. a[1] \in Calls
      BY DEF Attempts
    <3>5. level + B!RetryAfter * Requests >= Window
      BY <3>2, <3>3, RefilledType, LimitsAssumption, Products
    <3> HIDE DEF B!RetryAfter
    <3>6. ASSUME NEW c \in promised'
          PROVE  pc'[c] = "sleep" /\ level' + nap'[c] * Requests >= Window
      <4>1. CASE c = a[1]
        BY <4>1, <1>1, <2>2, <3>4, <3>5 DEF TypeOK
      <4>2. CASE c # a[1]
        BY <4>2, <1>1, <2>2, <3>4 DEF TypeOK, BucketOK, PromisesHold
      <4> QED BY <4>1, <4>2
    <3> QED BY <3>6 DEF PromisesHold
  <2>3. CASE Awaited(a) /\ Raise(a[1])
    <3>1. a[1] \notin promised
      BY <2>3 DEF Awaited, BucketOK, PromisesHold
    <3> QED
      BY <2>3, <3>1, <1>1 DEF Raise, BucketOK, PromisesHold, TypeOK, Attempts
  <2> QED
    BY <2>1, <2>2, <2>3 DEF RateLimited, client, PauseAfter429
<1> QED
  BY <1>1, <1>2, <1>3, <1>4, CapacityType DEF BucketOK, B!Capacity

LEMMA SecondBucket ==
  ASSUME TypeOK, BucketOK, Second
  PROVE  BucketOK'
<1> DEFINE C == B!Capacity
<1>1. /\ tokens' = tokens /\ promised' = promised /\ pc' = pc
      /\ since' = IF since + 1 > C THEN C ELSE since + 1
      /\ level' = IF level + Requests > C THEN C ELSE level + Requests
      /\ nap' = [c \in Calls |-> IF nap[c] > 0 THEN nap[c] - 1 ELSE 0]
  BY DEF Second, B!Tick, B!AtMost
<1>2. C \in Nat \ {0} /\ C >= Window /\ Requests \in Nat \ {0} /\ Window \in Nat
  BY CapacityType, LimitsAssumption
<1>3. tokens \in 0 .. C /\ since \in 0 .. C /\ level \in 0 .. C
  BY DEF BucketOK
<1>4. level = IF tokens + since * Requests > C THEN C ELSE tokens + since * Requests
  BY DEF BucketOK, LazyIsEager, B!Refilled, B!AtMost
<1>5. LazyIsEager' <=>
        level' = IF tokens + since' * Requests > C THEN C ELSE tokens + since' * Requests
  BY <1>1 DEF LazyIsEager, B!Refilled, B!AtMost, B!Capacity
<1>6. /\ since * Requests \in Nat /\ (since + 1) * Requests = since * Requests + Requests
      /\ since * Requests >= since
  BY <1>2, <1>3, Products
<1> HIDE DEF C
<1>7. LazyIsEager'
  <2>1. CASE since + 1 > C
    <3>1. since' = since /\ since >= C
      BY <2>1, <1>1, <1>2, <1>3
    <3>2. level = C
      BY <3>1, <1>2, <1>3, <1>4, <1>6
    <3> QED BY <3>1, <3>2, <1>1, <1>2, <1>4, <1>5
  <2>2. CASE since + 1 <= C
    <3>1. since' = since + 1
      BY <2>2, <1>1, <1>2, <1>3
    <3>2. since' * Requests = since * Requests + Requests
      BY <3>1, <1>6
    <3> QED BY <3>2, <1>1, <1>2, <1>3, <1>4, <1>5, <1>6
  <2> QED BY <2>1, <2>2, <1>2, <1>3
<1>8. PromisesHold'
  <2> SUFFICES ASSUME NEW c \in promised
               PROVE  level' + nap'[c] * Requests >= Window /\ pc[c] = "sleep"
    BY <1>1 DEF PromisesHold
  <2>1. c \in Calls /\ nap[c] \in Nat /\ level + nap[c] * Requests >= Window /\ pc[c] = "sleep"
    BY DEF BucketOK, PromisesHold, TypeOK
  <2>2. CASE nap[c] = 0
    <3>1. nap'[c] = 0
      BY <2>1, <2>2, <1>1
    <3> QED BY <3>1, <2>1, <2>2, <1>1, <1>2, <1>3
  <2>3. CASE nap[c] > 0
    <3>1. nap'[c] = nap[c] - 1 /\ nap[c] - 1 \in Nat
      BY <2>1, <2>3, <1>1
    <3>2. /\ (nap[c] - 1) * Requests \in Nat
          /\ (nap[c] - 1 + 1) * Requests = (nap[c] - 1) * Requests + Requests
      BY <3>1, <1>2, Products
    <3>3. nap[c] - 1 + 1 = nap[c]
      BY <2>1
    <3>4. level + nap'[c] * Requests + Requests >= Window
      BY <3>1, <3>2, <3>3, <2>1, <1>2, <1>3
    <3>5. nap'[c] * Requests \in Nat
      BY <3>1, <3>2
    <3> QED BY <3>4, <3>5, <2>1, <1>1, <1>2, <1>3
  <2> QED BY <2>1, <2>2, <2>3
<1>9. level' \in 0 .. C /\ since' \in 0 .. C
  BY <1>1, <1>2, <1>3
<1> QED
  BY <1>1, <1>3, <1>7, <1>8, <1>9 DEF BucketOK, C, B!Capacity

----------------------------------------------------------------------------
(* The ledger: sending a request and the steps of its handler. *)

LEMMA LedgerFrame ==
  ASSUME LedgerOK, accepted \subseteq Attempts,
         UNCHANGED <<key, accepted, effects, verdict>>,
         \A a \in Attempts : at[a] # "unsent" <=> at'[a] # "unsent"
  PROVE  LedgerOK'
BY DEF LedgerOK, KeysSent, OnePerKey, Settled, K!SameKey

LEMMA DropFrame ==
  ASSUME TypeOK, LedgerOK, NEW a \in Attempts, at[a] # "unsent", Drop(a),
         UNCHANGED <<key, accepted, effects, verdict>>
  PROVE  LedgerOK'
BY LedgerFrame DEF Drop, TypeOK

LEMMA SendLedger ==
  ASSUME TypeOK, LedgerOK, NEW c \in Calls, NEW n \in 0 .. MaxRetries, Send(c, n)
  PROVE  LedgerOK'
<1> DEFINE s == <<c, n>>
<1>1. s \in Attempts /\ s[1] = c
  BY DEF Attempts
<1>2. /\ key' = [key EXCEPT ![s] = KeyOfCall[c]] /\ at' = [at EXCEPT ![s] = "transit"]
      /\ UNCHANGED <<accepted, effects, verdict, told>>
  BY DEF Send
<1> HIDE DEF s
<1>3. \A a \in Attempts : a # s => at'[a] = at[a] /\ key'[a] = key[a]
  BY <1>2 DEF TypeOK
<1>4. at'[s] = "transit" /\ key'[s] = KeyOfCall[c]
  BY <1>1, <1>2 DEF TypeOK
<1>5. KeysSent'
  BY <1>1, <1>3, <1>4 DEF KeysSent, LedgerOK
<1>6. \A a \in accepted : key'[a] = key[a] /\ at'[a] # "unsent"
  <2> TAKE a \in accepted
  <2>1. a \in Attempts /\ at[a] # "unsent"
    BY DEF TypeOK, LedgerOK, Settled
  <2>2. key[a] = KeyOfCall[a[1]]
    BY <2>1 DEF LedgerOK, KeysSent
  <2> QED BY <2>1, <2>2, <1>1, <1>3, <1>4
<1>7. OnePerKey'
  BY <1>2, <1>6 DEF OnePerKey, LedgerOK, K!SameKey
<1>8. Settled'
  BY <1>2, <1>6 DEF Settled, LedgerOK
<1> QED BY <1>5, <1>7, <1>8 DEF LedgerOK

LEMMA HandleLedger ==
  ASSUME TypeOK, LedgerOK, NEW a \in Attempts, Handle(a)
  PROVE  LedgerOK' /\ \A b \in Attempts : verdict[b] # NONE => verdict'[b] = verdict[b]
<1>1. at[a] = "open" /\ at' = at
  BY DEF Handle
<1>2. CASE K!Accept(a)
  <2>1. /\ accepted' = accepted \cup {a} /\ UNCHANGED <<key, effects, verdict>>
        /\ ~ \E q \in accepted : K!SameKey(a, q)
    BY <1>2 DEF K!Accept
  <2>2. OnePerKey'
    BY <2>1 DEF OnePerKey, LedgerOK, K!SameKey
  <2>3. a \notin accepted
    BY <1>2 DEF K!Accept
  <2>4. verdict[a] # "withheld" /\ a \notin effects
    BY <2>3 DEF LedgerOK, Settled
  <2>5. Settled'
    BY <1>1, <2>1, <2>4 DEF Settled, LedgerOK
  <2> QED BY <1>1, <2>1, <2>2, <2>5 DEF LedgerOK, KeysSent
<1>3. CASE K!Effect(a)
  <2>1. /\ effects' = effects \cup {a} /\ UNCHANGED <<key, accepted, verdict>>
        /\ a \in accepted /\ verdict[a] = NONE
    BY <1>3 DEF K!Effect
  <2>2. Settled'
    BY <1>1, <2>1, NoneAssumption DEF Settled, LedgerOK
  <2> QED BY <1>1, <2>1, <2>2 DEF LedgerOK, KeysSent, OnePerKey, K!SameKey
<1>4. CASE K!Settle(a)
  <2>1. /\ verdict' = [verdict EXCEPT ![a] = IF a \in effects THEN "done" ELSE "withheld"]
        /\ UNCHANGED <<key, accepted, effects>> /\ a \in accepted /\ verdict[a] = NONE
    BY <1>4 DEF K!Settle
  <2>2. \A b \in Attempts : b # a => verdict'[b] = verdict[b]
    BY <2>1 DEF TypeOK
  <2>3. verdict'[a] = IF a \in effects THEN "done" ELSE "withheld"
    BY <2>1 DEF TypeOK
  <2>4. Settled'
    BY <1>1, <2>1, <2>2, <2>3 DEF Settled, LedgerOK
  <2> QED BY <1>1, <2>1, <2>2, <2>4 DEF LedgerOK, KeysSent, OnePerKey, K!SameKey
<1> QED BY <1>2, <1>3, <1>4 DEF Handle

----------------------------------------------------------------------------
(* What the clients were answered. *)

LEMMA AnswersFrame ==
  ASSUME AnswersHold,
         \A b \in Attempts : verdict[b] # NONE => verdict'[b] = verdict[b],
         NEW S \in SUBSET Calls,
         \A c \in S : outcome'[c] = outcome[c] /\ (c \in ran' <=> c \in ran)
                      /\ (pc'[c] # "done" => pc[c] # "done")
  PROVE  \A c \in S : AnswerOK(c)'
<1> TAKE c \in S
<1>1. \A b \in Attempts, v \in {"done", "withheld"} : Answers(c, b, v) => Answers(c, b, v)'
  BY NoneAssumption DEF Answers
<1> QED BY <1>1 DEF AnswersHold, AnswerOK

LEMMA UntouchedClients ==
  ASSUME AnswersHold, UNCHANGED <<outcome, ran>>,
         \A b \in Attempts : verdict[b] # NONE => verdict'[b] = verdict[b],
         \A c \in Calls : pc'[c] # "done" => pc[c] # "done"
  PROVE  AnswersHold'
<1>1. Calls \in SUBSET Calls
  OBVIOUS
<1> QED BY <1>1, AnswersFrame DEF AnswersHold

LEMMA RaiseAnswers ==
  ASSUME TypeOK, AnswersHold, NEW c \in Calls, pc[c] # "done", Raise(c), UNCHANGED verdict
  PROVE  AnswersHold'
<1>1. /\ pc' = [pc EXCEPT ![c] = "done"] /\ outcome' = [outcome EXCEPT ![c] = "error"]
      /\ ran' = ran
  BY DEF Raise
<1>2. \A d \in Calls \ {c} : outcome'[d] = outcome[d] /\ pc'[d] = pc[d]
  BY <1>1 DEF TypeOK
<1>3. outcome'[c] = "error" /\ pc'[c] = "done" /\ c \notin ran'
  BY <1>1, NoneAssumption DEF TypeOK, AnswersHold, AnswerOK
<1>4. Calls \ {c} \in SUBSET Calls
  OBVIOUS
<1>5. \A d \in Calls \ {c} : AnswerOK(d)'
  BY <1>1, <1>2, <1>4, AnswersFrame
<1>6. AnswerOK(c)'
  BY <1>3 DEF AnswerOK
<1> QED BY <1>5, <1>6 DEF AnswersHold

LEMMA RetryAnswers ==
  ASSUME TypeOK, AnswersHold, NEW c \in Calls, pc[c] = "wait", NEW seconds, Retry(c, seconds),
         UNCHANGED verdict
  PROVE  AnswersHold'
<1>1. CASE attempt[c] < MaxRetries
  BY <1>1, UntouchedClients DEF Retry, TypeOK
<1>2. CASE ~(attempt[c] < MaxRetries)
  BY <1>2, RaiseAnswers DEF Retry
<1> QED BY <1>1, <1>2

LEMMA ReplyAnswers ==
  ASSUME TypeOK, LedgerOK, AnswersHold, NEW a \in Attempts, Reply(a)
  PROVE  AnswersHold'
<1>1. PICK b \in Attempts :
        /\ K!Tell(a, b)
        /\ IF Awaited(a) THEN \E status \in StatusOf(verdict[b]) : Answered(a[1], status)
           ELSE UNCHANGED client
  BY DEF Reply
<1>2. /\ verdict[b] # NONE /\ UNCHANGED <<key, accepted, effects, verdict>>
      /\ a = b \/ K!SameKey(a, b)
  BY <1>1 DEF K!Tell
<1>3. CASE ~Awaited(a)
  BY <1>1, <1>2, <1>3, UntouchedClients DEF client
<1>4. CASE Awaited(a)
  <2> DEFINE c == a[1]
  <2>1. c \in Calls /\ pc[c] = "wait"
    BY <1>4 DEF Awaited, Attempts
  <2>2. PICK status \in StatusOf(verdict[b]) : Answered(c, status)
    BY <1>1, <1>4
  <2> HIDE DEF c
  <2>3. /\ pc' = [pc EXCEPT ![c] = "done"] /\ outcome' = [outcome EXCEPT ![c] = status]
        /\ ran' = IF status = "executed" THEN ran \cup (Guards \cap {c}) ELSE ran
    BY <2>2 DEF Answered
  <2>4. \A d \in Calls \ {c} :
          outcome'[d] = outcome[d] /\ pc'[d] = pc[d] /\ (d \in ran' <=> d \in ran)
    BY <2>3 DEF TypeOK
  <2>5. outcome'[c] = status /\ pc'[c] = "done"
    BY <2>1, <2>3 DEF TypeOK
  <2>6. c \in ran' => status = "executed"
    BY <2>1, <2>3, NoneAssumption DEF AnswersHold, AnswerOK
  <2>7. verdict[b] \in {"done", "withheld"}
    BY <1>2 DEF TypeOK
  <2>8. b[1] = c \/ (KeyOfCall[c] # NONE /\ KeyOfCall[b[1]] = KeyOfCall[c])
    <3>1. CASE a = b
      BY <3>1 DEF c
    <3>2. CASE K!SameKey(a, b)
      <4>1. b \in accepted
        BY <2>7 DEF LedgerOK, Settled
      <4>2. at[a] # "unsent" /\ at[b] # "unsent"
        BY <4>1 DEF Reply, LedgerOK, Settled
      <4>3. key[a] = KeyOfCall[a[1]] /\ key[b] = KeyOfCall[b[1]]
        BY <4>2 DEF LedgerOK, KeysSent
      <4> QED BY <3>2, <4>3 DEF K!SameKey, c
    <3> QED BY <3>1, <3>2, <1>2
  <2>9. Answers(c, b, verdict[b])'
    BY <1>2, <2>8 DEF Answers
  <2>10. /\ status \in {"executed", "failed_execution"} => verdict[b] = "done"
         /\ status = "withheld" => verdict[b] = "withheld"
    BY <2>2, <2>7 DEF StatusOf
  <2>11. Calls \ {c} \in SUBSET Calls
    OBVIOUS
  <2>12. AnswerOK(c)'
    BY <1>2, <2>5, <2>6, <2>9, <2>10 DEF Answers, AnswerOK
  <2>13. \A d \in Calls \ {c} : AnswerOK(d)'
    BY <1>2, <2>4, <2>11, AnswersFrame
  <2> QED BY <2>12, <2>13 DEF AnswersHold
<1> QED BY <1>3, <1>4

----------------------------------------------------------------------------
(* Types, one lemma for each kind of step. *)

LEMMA RetryType ==
  ASSUME TypeOK, NEW c \in Calls, NEW seconds \in Nat, Retry(c, seconds)
  PROVE  /\ pc' \in [Calls -> {"idle", "wait", "sleep", "done"}]
         /\ nap' \in [Calls -> Nat] /\ outcome' \in [Calls -> Outcomes]
         /\ attempt' = attempt /\ ran' = ran /\ promised' = promised
BY DEF Retry, Raise, TypeOK, Outcomes

LEMMA BackoffType ==
  ASSUME TypeOK, NEW c \in Calls, NEW seconds \in Backoff(c)
  PROVE  seconds \in Nat
<1>1. 2 ^ attempt[c] \in Nat
  BY BackoffAssumption DEF TypeOK
<1> QED BY <1>1 DEF Backoff

LEMMA SendType ==
  ASSUME TypeOK, NEW c \in Calls, NEW n \in 0 .. MaxRetries, Send(c, n),
         UNCHANGED <<bucket, nap, outcome, ran>>
  PROVE  TypeOK'
<1>1. <<c, n>> \in Attempts
  BY DEF Attempts
<1> QED BY <1>1 DEF Send, TypeOK, bucket, B!Capacity

LEMMA SubmitStep ==
  ASSUME IInv, NEW c \in Calls, Submit(c)
  PROVE  IInv'
<1>1. Send(c, 0) /\ 0 \in 0 .. MaxRetries /\ pc[c] = "idle"
  BY CallersAssumption DEF Submit
<1>2. TypeOK'
  BY <1>1, SendType DEF Submit, IInv
<1>3. Sleeping'
  BY <1>1 DEF Send, IInv, Sleeping, TypeOK
<1>4. BucketOK'
  BY <1>1, BucketFrame DEF Submit, Send, IInv, TypeOK, BucketOK, PromisesHold
<1>5. LedgerOK'
  BY <1>1, SendLedger DEF IInv
<1>6. AnswersHold'
  BY <1>1, UntouchedClients DEF Submit, Send, IInv, TypeOK
<1> QED BY <1>2, <1>3, <1>4, <1>5, <1>6 DEF IInv

LEMMA WakeStep ==
  ASSUME IInv, NEW c \in Calls, Wake(c)
  PROVE  IInv'
<1>1. Send(c, attempt[c] + 1) /\ pc[c] = "sleep"
  BY DEF Wake
<1>2. attempt[c] + 1 \in 0 .. MaxRetries
  BY <1>1, CallersAssumption DEF IInv, TypeOK, Sleeping
<1>3. TypeOK'
  BY <1>1, <1>2, SendType DEF Wake, IInv
<1>4. Sleeping'
  BY <1>1 DEF Send, IInv, Sleeping, TypeOK
<1>5. BucketOK'
  BY <1>1, BucketFrame DEF Wake, Send, IInv, TypeOK, BucketOK, PromisesHold
<1>6. LedgerOK'
  BY <1>1, <1>2, SendLedger DEF IInv
<1>7. AnswersHold'
  BY <1>1, UntouchedClients DEF Wake, Send, IInv, TypeOK
<1> QED BY <1>3, <1>4, <1>5, <1>6, <1>7 DEF IInv

\* A waiting call that fails: its request is left alone or dropped.
LEMMA FailedStep ==
  ASSUME IInv, NEW c \in Calls, pc[c] = "wait", UNCHANGED <<bucket, kernel>>,
         \/ \E seconds \in Backoff(c) : Retry(c, seconds)
         \/ Raise(c)
  PROVE  /\ pc' \in [Calls -> {"idle", "wait", "sleep", "done"}]
         /\ nap' \in [Calls -> Nat] /\ outcome' \in [Calls -> Outcomes]
         /\ UNCHANGED <<attempt, ran, promised>>
         /\ Sleeping' /\ BucketOK' /\ AnswersHold'
<1>1. c \notin promised
  BY DEF IInv, BucketOK, PromisesHold
<1>2. CASE \E seconds \in Backoff(c) : Retry(c, seconds)
  <2>1. PICK seconds \in Backoff(c) : Retry(c, seconds)
    BY <1>2
  <2>2. seconds \in Nat
    BY BackoffType DEF IInv
  <2>3. /\ pc' \in [Calls -> {"idle", "wait", "sleep", "done"}]
        /\ nap' \in [Calls -> Nat] /\ outcome' \in [Calls -> Outcomes]
        /\ attempt' = attempt /\ ran' = ran /\ promised' = promised
    BY <2>1, <2>2, RetryType DEF IInv
  <2>4. \A d \in Calls \ {c} : nap'[d] = nap[d] /\ pc'[d] = pc[d]
    BY <2>1 DEF Retry, Raise, IInv, TypeOK
  <2>5. pc'[c] = "sleep" => attempt[c] < MaxRetries
    BY <2>1 DEF Retry, Raise, IInv, TypeOK
  <2>6. Sleeping'
    BY <2>3, <2>4, <2>5 DEF Sleeping, IInv
  <2>7. BucketOK'
    BY <1>1, <2>3, <2>4, BucketFrame DEF IInv, TypeOK
  <2>8. AnswersHold'
    BY <2>1, RetryAnswers DEF IInv, kernel
  <2> QED BY <2>3, <2>6, <2>7, <2>8
<1>3. CASE Raise(c)
  <2>1. /\ pc' = [pc EXCEPT ![c] = "done"] /\ outcome' = [outcome EXCEPT ![c] = "error"]
        /\ UNCHANGED <<attempt, nap, ran, promised>>
    BY <1>3 DEF Raise
  <2>2. Sleeping'
    BY <2>1 DEF Sleeping, IInv, TypeOK
  <2>3. BucketOK'
    BY <1>1, <2>1, BucketFrame DEF IInv, TypeOK
  <2>4. AnswersHold'
    BY <1>3, RaiseAnswers DEF IInv, kernel
  <2> QED BY <2>1, <2>2, <2>3, <2>4 DEF IInv, TypeOK, Outcomes
<1> QED BY <1>2, <1>3

LEMMA NetworkStep ==
  ASSUME IInv, NEW c \in Calls, NetworkError(c) \/ TimeOut(c)
  PROVE  IInv'
<1>1. /\ pc[c] = "wait" /\ UNCHANGED <<bucket, kernel, at>>
      /\ (\E seconds \in Backoff(c) : Retry(c, seconds)) \/ Raise(c)
  BY DEF NetworkError, TimeOut
<1>2. /\ pc' \in [Calls -> {"idle", "wait", "sleep", "done"}]
      /\ nap' \in [Calls -> Nat] /\ outcome' \in [Calls -> Outcomes]
      /\ UNCHANGED <<attempt, ran, promised>>
      /\ Sleeping' /\ BucketOK' /\ AnswersHold'
  BY <1>1, FailedStep
<1>3. LedgerOK'
  BY <1>1, LedgerFrame DEF kernel, IInv, TypeOK
<1>4. TypeOK'
  BY <1>1, <1>2 DEF IInv, TypeOK, bucket, kernel, B!Capacity
<1> QED BY <1>2, <1>3, <1>4 DEF IInv

----------------------------------------------------------------------------
(* The server. *)

\* Dropping a request moves no other part.
LEMMA DropType ==
  ASSUME TypeOK, NEW a \in Attempts, Drop(a)
  PROVE  at' \in [Attempts -> {"unsent", "transit", "open", "gone"}]
BY DEF Drop, TypeOK

LEMMA AdmitStep ==
  ASSUME IInv, NEW a \in Attempts, Admit(a)
  PROVE  IInv'
<1>1. BucketOK'
  BY AdmitBucket DEF IInv
<1>2. /\ at[a] = "transit" /\ at' = [at EXCEPT ![a] = "open"] /\ promised' = {}
      /\ UNCHANGED <<kernel, pc, attempt, nap, outcome, ran>>
  BY DEF Admit
<1>3. LedgerOK'
  BY <1>2, LedgerFrame DEF kernel, IInv, TypeOK
<1>4. TypeOK'
  BY <1>1, <1>2 DEF IInv, TypeOK, BucketOK, kernel, B!Capacity
<1>5. AnswersHold' /\ Sleeping'
  BY <1>2, UntouchedClients DEF kernel, IInv, Sleeping
<1> QED BY <1>1, <1>3, <1>4, <1>5 DEF IInv

LEMMA RateLimitedStep ==
  ASSUME IInv, NEW a \in Attempts, RateLimited(a)
  PROVE  IInv'
<1>1. BucketOK'
  BY RateLimitedBucket DEF IInv
<1>2. at[a] = "transit" /\ Drop(a) /\ UNCHANGED kernel
  BY DEF RateLimited
<1>3. LedgerOK'
  BY <1>2, DropFrame DEF kernel, IInv
<1>4. at' \in [Attempts -> {"unsent", "transit", "open", "gone"}]
  BY <1>2, DropType DEF IInv
<1>5. a[1] \in Calls
  BY DEF Attempts
<1>6. B!RetryAfter \in Nat
  <2>1. level < Window /\ B!Refilled = level /\ level \in Nat
    BY RefilledType, LimitsAssumption DEF RateLimited, B!Refuse, B!Admits, IInv
  <2>2. Window - level \in Nat
    BY <2>1, LimitsAssumption
  <2> QED BY <2>1, <2>2, LimitsAssumption, RoundedUp DEF B!RetryAfter
<1>7. CASE UNCHANGED client
  <2>1. AnswersHold' /\ Sleeping'
    BY <1>2, <1>7, UntouchedClients DEF client, kernel, IInv, Sleeping
  <2>2. TypeOK'
    BY <1>1, <1>2, <1>4, <1>7 DEF client, kernel, IInv, TypeOK, BucketOK, B!Capacity
  <2> QED BY <1>1, <1>3, <2>1, <2>2 DEF IInv
<1>8. CASE Awaited(a) /\ Raise(a[1])
  <2>1. AnswersHold'
    BY <1>2, <1>5, <1>8, RaiseAnswers DEF Awaited, kernel, IInv
  <2>2. Sleeping'
    BY <1>5, <1>8 DEF Raise, Sleeping, IInv, TypeOK
  <2>3. TypeOK'
    BY <1>1, <1>2, <1>4, <1>5, <1>8
    DEF Raise, kernel, IInv, TypeOK, BucketOK, B!Capacity, Outcomes
  <2> QED BY <1>1, <1>3, <2>1, <2>2, <2>3 DEF IInv
<1>9. CASE /\ Awaited(a) /\ attempt[a[1]] # MaxRetries
           /\ pc' = [pc EXCEPT ![a[1]] = "sleep"]
           /\ nap' = [nap EXCEPT ![a[1]] = B!RetryAfter]
           /\ promised' = promised \cup {a[1]}
           /\ UNCHANGED <<attempt, outcome, ran>>
  <2>1. \A c \in Calls : pc'[c] # "done" => pc[c] # "done"
    BY <1>5, <1>9 DEF Awaited, IInv, TypeOK
  <2>2. AnswersHold'
    BY <1>2, <1>9, <2>1, UntouchedClients DEF kernel, IInv
  <2>3. Sleeping'
    BY <1>5, <1>9, CallersAssumption DEF Sleeping, IInv, TypeOK
  <2> HIDE DEF B!RetryAfter
  <2>4. TypeOK'
    BY <1>1, <1>2, <1>4, <1>5, <1>6, <1>9 DEF kernel, IInv, TypeOK, BucketOK, B!Capacity
  <2> QED BY <1>1, <1>3, <2>2, <2>3, <2>4 DEF IInv
<1> QED BY <1>7, <1>8, <1>9 DEF RateLimited, PauseAfter429

LEMMA HandleStep ==
  ASSUME IInv, NEW a \in Attempts, Handle(a)
  PROVE  IInv'
<1>1. UNCHANGED <<bucket, at, client>>
  BY DEF Handle
<1>2. LedgerOK' /\ \A b \in Attempts : verdict[b] # NONE => verdict'[b] = verdict[b]
  BY HandleLedger DEF IInv
<1>3. AnswersHold'
  BY <1>1, <1>2, UntouchedClients DEF client, IInv
<1>4. BucketOK' /\ Sleeping'
  BY <1>1, BucketFrame DEF client, IInv, Sleeping
<1>5. TypeOK'
  BY <1>1 DEF Handle, K!Accept, K!Effect, K!Settle, TypeOK, IInv, bucket, client, B!Capacity
<1> QED BY <1>2, <1>3, <1>4, <1>5 DEF IInv

LEMMA ReplyStep ==
  ASSUME IInv, NEW a \in Attempts, Reply(a)
  PROVE  IInv'
<1>1. PICK b \in Attempts :
        /\ K!Tell(a, b)
        /\ IF Awaited(a) THEN \E status \in StatusOf(verdict[b]) : Answered(a[1], status)
           ELSE UNCHANGED client
  BY DEF Reply
<1>2. /\ UNCHANGED <<key, accepted, effects, verdict, bucket>> /\ Drop(a) /\ at[a] = "open"
      /\ told' = [told EXCEPT ![a] = b]
  BY <1>1 DEF Reply, K!Tell
<1>3. LedgerOK'
  BY <1>2, DropFrame DEF IInv
<1>4. AnswersHold'
  BY ReplyAnswers DEF IInv
<1>5. a[1] \in Calls
  BY DEF Attempts
<1>6. \/ UNCHANGED client
      \/ \E status \in Outcomes : Awaited(a) /\ Answered(a[1], status)
  BY <1>1 DEF StatusOf, Outcomes
<1>7. /\ pc' \in [Calls -> {"idle", "wait", "sleep", "done"}]
      /\ outcome' \in [Calls -> Outcomes] /\ ran' \subseteq Guards
      /\ UNCHANGED <<attempt, nap, promised>>
      /\ \A c \in Calls : pc[c] = "sleep" <=> pc'[c] = "sleep"
  BY <1>5, <1>6 DEF client, Awaited, Answered, IInv, TypeOK
<1>8. TypeOK'
  BY <1>2, <1>7, DropType DEF IInv, TypeOK, bucket, B!Capacity
<1>9. BucketOK' /\ Sleeping'
  BY <1>2, <1>7, BucketFrame DEF IInv, TypeOK, BucketOK, PromisesHold, Sleeping
<1> QED BY <1>3, <1>4, <1>8, <1>9 DEF IInv

LEMMA LostStep ==
  ASSUME IInv, NEW a \in Attempts, ServerError(a) \/ Lose(a)
  PROVE  IInv'
<1>1. at[a] # "unsent" /\ Drop(a) /\ UNCHANGED <<bucket, kernel>>
  BY DEF ServerError, Lose
<1>2. LedgerOK'
  BY <1>1, DropFrame DEF kernel, IInv
<1>3. CASE UNCHANGED client
  <2>1. AnswersHold' /\ Sleeping' /\ BucketOK'
    BY <1>1, <1>3, UntouchedClients, BucketFrame DEF client, kernel, IInv, Sleeping
  <2>2. TypeOK'
    BY <1>1, <1>3, DropType DEF client, kernel, bucket, IInv, TypeOK, B!Capacity
  <2> QED BY <1>2, <2>1, <2>2 DEF IInv
<1>4. CASE Awaited(a) /\ \E seconds \in Backoff(a[1]) : Retry(a[1], seconds)
  <2>1. a[1] \in Calls
    BY DEF Attempts
  <2>2. pc[a[1]] = "wait"
    BY <1>4 DEF Awaited
  <2>3. /\ pc' \in [Calls -> {"idle", "wait", "sleep", "done"}]
        /\ nap' \in [Calls -> Nat] /\ outcome' \in [Calls -> Outcomes]
        /\ UNCHANGED <<attempt, ran, promised>>
        /\ Sleeping' /\ BucketOK' /\ AnswersHold'
    BY <1>1, <1>4, <2>1, <2>2, FailedStep
  <2>4. TypeOK'
    BY <1>1, <2>3, DropType DEF IInv, TypeOK, bucket, kernel, B!Capacity
  <2> QED BY <1>2, <2>3, <2>4 DEF IInv
<1> QED BY <1>3, <1>4 DEF ServerError, Lose

LEMMA SecondStep ==
  ASSUME IInv, Second
  PROVE  IInv'
<1>1. BucketOK'
  BY SecondBucket DEF IInv
<1>2. /\ UNCHANGED <<kernel, at, pc, attempt, outcome, ran, promised>>
      /\ nap' = [c \in Calls |-> IF nap[c] > 0 THEN nap[c] - 1 ELSE 0]
  BY DEF Second
<1>3. LedgerOK'
  BY <1>2, LedgerFrame DEF kernel, IInv, TypeOK
<1>4. AnswersHold' /\ Sleeping'
  BY <1>2, UntouchedClients DEF kernel, IInv, Sleeping
<1>5. TypeOK'
  BY <1>1, <1>2 DEF IInv, TypeOK, BucketOK, kernel, B!Capacity
<1> QED BY <1>1, <1>3, <1>4, <1>5 DEF IInv

LEMMA InitialStates == Init => IInv
<1> SUFFICES ASSUME Init PROVE IInv
  OBVIOUS
<1> USE DEF Init, B!Init, K!Init
<1>1. tokens = B!Capacity /\ since = 0 /\ level = B!Capacity
  OBVIOUS
<1>2. LazyIsEager
  BY <1>1, CapacityType, LimitsAssumption DEF LazyIsEager, B!Refilled, B!AtMost, B!Capacity
<1>3. TypeOK
  BY CapacityType, CallersAssumption DEF TypeOK, Outcomes
<1>4. BucketOK
  BY <1>1, <1>2, CapacityType DEF BucketOK, PromisesHold
<1>5. LedgerOK
  BY NoneAssumption DEF LedgerOK, KeysSent, OnePerKey, Settled
<1>6. AnswersHold /\ Sleeping
  BY NoneAssumption DEF AnswersHold, AnswerOK, Sleeping
<1> QED BY <1>3, <1>4, <1>5, <1>6 DEF IInv

LEMMA Stutter == ASSUME IInv, UNCHANGED vars PROVE IInv'
<1> USE DEF vars, bucket, kernel, client
<1>1. TypeOK'
  BY DEF IInv, TypeOK, B!Capacity
<1>2. BucketOK' /\ LedgerOK' /\ Sleeping' /\ AnswersHold'
  BY BucketFrame, LedgerFrame, UntouchedClients DEF IInv, TypeOK, Sleeping
<1> QED BY <1>1, <1>2 DEF IInv

LEMMA Steps == IInv /\ [Next]_vars => IInv'
<1> SUFFICES ASSUME IInv, [Next]_vars PROVE IInv'
  OBVIOUS
<1>1. ASSUME NEW c \in Calls, ClientStep(c) PROVE IInv'
  BY <1>1, SubmitStep, WakeStep, NetworkStep DEF ClientStep
<1>2. ASSUME NEW a \in Attempts, ServerStep(a) PROVE IInv'
  BY <1>2, AdmitStep, RateLimitedStep, HandleStep, ReplyStep, LostStep DEF ServerStep
<1> QED BY <1>1, <1>2, SecondStep, Stutter DEF Next

LEMMA Invariance == Spec => []IInv
BY Steps, InitialStates, PTL DEF Spec

----------------------------------------------------------------------------
(* The theorems. *)

\* Types, the bounds of the bucket among them.
THEOREM TypeCorrect == Spec => []TypeOK
<1>1. IInv => TypeOK
  BY DEF IInv
<1> QED BY <1>1, Invariance, PTL

\* With an idempotency key retries are harmless, and answers true.
THEOREM KeyedRetries == Spec => []KeyedAnswerIsTrue
<1>1. IInv => KeyedAnswerIsTrue
  <2> SUFFICES ASSUME IInv, NEW c \in Calls, KeyOfCall[c] # NONE
               PROVE  /\ \A a, b \in KeyedEffects(c) : a = b
                      /\ outcome[c] \in {"executed", "failed_execution"} => KeyedEffects(c) # {}
                      /\ outcome[c] = "withheld" => KeyedEffects(c) = {}
    BY DEF KeyedAnswerIsTrue
  <2>1. \A a \in accepted : a \in Attempts /\ key[a] = KeyOfCall[a[1]]
    BY DEF IInv, LedgerOK, Settled, KeysSent, TypeOK
  <2>2. \A a, b \in accepted :
          KeyOfCall[a[1]] = KeyOfCall[c] /\ KeyOfCall[b[1]] = KeyOfCall[c] => a = b
    BY <2>1 DEF IInv, LedgerOK, OnePerKey, K!SameKey
  <2>3. KeyedEffects(c) \subseteq accepted
    BY DEF KeyedEffects, IInv, LedgerOK, Settled
  <2>4. \A a, b \in KeyedEffects(c) : a = b
    BY <2>2, <2>3 DEF KeyedEffects
  <2>5. ASSUME NEW v, NEW b \in Attempts, Answers(c, b, v)
        PROVE  verdict[b] = v /\ KeyOfCall[b[1]] = KeyOfCall[c]
    BY <2>5 DEF Answers
  <2>6. ASSUME outcome[c] \in {"executed", "failed_execution"} PROVE KeyedEffects(c) # {}
    <3>1. PICK b \in Attempts : Answers(c, b, "done")
      BY <2>6 DEF IInv, AnswersHold, AnswerOK
    <3>2. b \in effects
      BY <3>1, <2>5 DEF IInv, LedgerOK, Settled
    <3> QED BY <3>1, <3>2, <2>5 DEF KeyedEffects
  <2>7. ASSUME outcome[c] = "withheld" PROVE KeyedEffects(c) = {}
    <3>1. PICK b \in Attempts : Answers(c, b, "withheld")
      BY <2>7 DEF IInv, AnswersHold, AnswerOK
    <3>2. b \in accepted /\ b \notin effects
      BY <3>1, <2>5 DEF IInv, LedgerOK, Settled
    <3> QED BY <3>1, <3>2, <2>2, <2>3, <2>5 DEF KeyedEffects
  <2> QED BY <2>4, <2>6, <2>7
<1> QED BY <1>1, Invariance, PTL

\* guard never runs its function without a recorded execution of its own.
THEOREM GuardsBacked == Spec => []GuardIsBacked
<1>1. IInv => GuardIsBacked
  <2> SUFFICES ASSUME IInv, NEW c \in ran
               PROVE  /\ outcome[c] = "executed"
                      /\ \E n \in 0 .. MaxRetries :
                           <<c, n>> \in effects /\ verdict[<<c, n>>] = "done"
    BY DEF GuardIsBacked
  <2>1. c \in Calls /\ KeyOfCall[c] = NONE
    BY CallersAssumption DEF IInv, TypeOK
  <2>2. outcome[c] = "executed"
    BY <2>1 DEF IInv, AnswersHold, AnswerOK
  <2>3. PICK b \in Attempts : Answers(c, b, "done")
    BY <2>1, <2>2 DEF IInv, AnswersHold, AnswerOK
  <2>4. b[1] = c /\ verdict[b] = "done" /\ b \in effects
    BY <2>1, <2>3 DEF Answers, IInv, LedgerOK, Settled
  <2>5. b = <<c, b[2]>> /\ b[2] \in 0 .. MaxRetries
    BY <2>4 DEF Attempts
  <2> QED BY <2>2, <2>4, <2>5
<1> QED BY <1>1, Invariance, PTL

\* Refilling when asked is refilling every second.
THEOREM LazyRefill == Spec => []LazyIsEager
<1>1. IInv => LazyIsEager
  BY DEF IInv, BucketOK
<1> QED BY <1>1, Invariance, PTL

\* Retry-After is long enough, for every rate, window and burst.
THEOREM RetryAfterIsEnough == Spec => []RetryAfterSuffices
<1>1. IInv => RetryAfterSuffices
  <2> SUFFICES ASSUME IInv, NEW c \in promised, nap[c] = 0
               PROVE  B!Admits
    BY DEF RetryAfterSuffices
  <2>1. level + nap[c] * Requests >= Window
    BY DEF IInv, BucketOK, PromisesHold
  <2>2. level >= Window
    BY <2>1, LimitsAssumption, RefilledType DEF IInv
  <2> QED BY <2>2, RefilledType DEF B!Admits, IInv
<1> QED BY <1>1, Invariance, PTL

----------------------------------------------------------------------------
(* The rate.  A meter, which can be reset at any moment, counts the        *)
(* requests the limiter lets through and the seconds that pass.            *)

VARIABLES
  admitted,  (* requests admitted since the meter was reset                 *)
  elapsed    (* seconds since then                                          *)

meter == <<admitted, elapsed>>

Uncounted ==
  \/ \E c \in Calls : ClientStep(c)
  \/ \E a \in Attempts :
       RateLimited(a) \/ Handle(a) \/ Reply(a) \/ ServerError(a) \/ Lose(a)

Reset == admitted' = 0 /\ elapsed' = 0 /\ UNCHANGED vars

MeteredNext ==
  \/ (\E a \in Attempts : Admit(a)) /\ admitted' = admitted + 1 /\ UNCHANGED elapsed
  \/ Second /\ elapsed' = elapsed + 1 /\ UNCHANGED admitted
  \/ Uncounted /\ UNCHANGED meter
  \/ Reset

Metered == Init /\ admitted = 0 /\ elapsed = 0 /\ [][MeteredNext]_<<vars, meter>>

\* The rate of the configuration: Burst at once, and Requests per Window.
RateOK == admitted * Window <= Burst * Window + elapsed * Requests

\* What was admitted came out of the bucket, and what is in it went in.
MInv ==
  /\ IInv
  /\ admitted \in Nat /\ elapsed \in Nat
  /\ admitted * Window + level <= B!Capacity + elapsed * Requests

\* The meter only watches.
LEMMA OnlyWatches == [MeteredNext]_<<vars, meter>> => [Next]_vars
BY DEF MeteredNext, Uncounted, Reset, Next, ServerStep, meter

\* And it watches every step.
LEMMA WatchesAll ==
  ASSUME Next
  PROVE  (\E a \in Attempts : Admit(a)) \/ Second \/ Uncounted
BY DEF Next, ServerStep, Uncounted

LEMMA LevelType == IInv => level \in 0 .. B!Capacity
BY DEF IInv, BucketOK

LEMMA UncountedLevel ==
  ASSUME Uncounted \/ UNCHANGED vars
  PROVE  UNCHANGED level
BY DEF Uncounted, ClientStep, Submit, Wake, NetworkError, TimeOut, RateLimited, B!Refuse,
       Handle, Reply, ServerError, Lose, bucket, vars

LEMMA MeteredSteps == MInv /\ [MeteredNext]_<<vars, meter>> => MInv'
<1> SUFFICES ASSUME MInv, [MeteredNext]_<<vars, meter>> PROVE MInv'
  OBVIOUS
<1> DEFINE C == B!Capacity
<1>1. IInv /\ IInv'
  BY OnlyWatches, Steps DEF MInv
<1>2. /\ level \in 0 .. C /\ level' \in 0 .. C
      /\ C \in Nat /\ C' = C
      /\ Window \in Nat \ {0} /\ Requests \in Nat \ {0}
      /\ admitted \in Nat /\ elapsed \in Nat
      /\ admitted * Window + level <= C + elapsed * Requests
  BY <1>1, CapacityType, LimitsAssumption DEF MInv, IInv, BucketOK, B!Capacity
<1> HIDE DEF C
<1>3. /\ admitted * Window \in Nat /\ elapsed * Requests \in Nat
      /\ (admitted + 1) * Window = admitted * Window + Window
      /\ (elapsed + 1) * Requests = elapsed * Requests + Requests
      /\ 0 * Window = 0 /\ 0 * Requests = 0
  BY <1>2
<1>4. /\ admitted' \in Nat /\ elapsed' \in Nat
      /\ admitted' * Window + level' <= C + elapsed' * Requests
  <2>1. CASE (\E a \in Attempts : Admit(a)) /\ admitted' = admitted + 1 /\ UNCHANGED elapsed
    <3>1. level' = level - Window
      BY <2>1 DEF Admit, B!Admit
    <3> QED BY <2>1, <3>1, <1>2, <1>3
  <2>2. CASE Second /\ elapsed' = elapsed + 1 /\ UNCHANGED admitted
    <3>1. level' <= level + Requests
      BY <2>2, <1>2 DEF Second, B!Tick, B!AtMost
    <3>2. /\ admitted' * Window = admitted * Window
          /\ elapsed' * Requests = elapsed * Requests + Requests
      BY <2>2, <1>3
    <3>3. elapsed' \in Nat /\ admitted' = admitted
      BY <2>2, <1>2
    <3>4. level' \in Int /\ level \in Int /\ C \in Int
      BY <1>2
    <3>5. admitted' * Window + level' <= C + elapsed' * Requests
      BY <3>1, <3>2, <3>4, <1>2, <1>3
    <3> QED BY <3>3, <3>5, <1>2
  <2>3. CASE (Uncounted \/ UNCHANGED vars) /\ UNCHANGED meter
    BY <2>3, <1>2, UncountedLevel DEF meter
  <2>4. CASE Reset
    <3>1. level' = level /\ admitted' = 0 /\ elapsed' = 0
      BY <2>4 DEF Reset, vars, bucket
    <3>2. admitted' * Window = 0 /\ elapsed' * Requests = 0
      BY <3>1, <1>3
    <3>3. level \in Int /\ level <= C /\ C \in Int
      BY <1>2
    <3>4. admitted' * Window + level' <= C + elapsed' * Requests
      BY <3>1, <3>2, <3>3
    <3> QED BY <3>1, <3>4
  <2> QED BY <2>1, <2>2, <2>3, <2>4 DEF MeteredNext
<1> QED BY <1>1, <1>2, <1>4 DEF MInv, C

\* What the limiter is for: from whatever moment one counts, for whatever
\* number of seconds, it has not let through more than its burst and its
\* rate, whoever asks, retries and is refused.
THEOREM RateIsKept == Metered => []RateOK
<1>1. Init /\ admitted = 0 /\ elapsed = 0 => MInv
  <2> SUFFICES ASSUME Init, admitted = 0, elapsed = 0 PROVE MInv
    OBVIOUS
  <2>1. IInv /\ level = B!Capacity /\ B!Capacity \in Nat
    BY InitialStates, CapacityType DEF Init, B!Init
  <2>2. 0 * Window = 0 /\ 0 * Requests = 0
    BY LimitsAssumption
  <2> QED BY <2>1, <2>2 DEF MInv
<1>2. MInv => RateOK
  <2> SUFFICES ASSUME MInv PROVE RateOK
    OBVIOUS
  <2>1. level \in Nat /\ admitted \in Nat /\ elapsed \in Nat
    BY LevelType, CapacityType DEF MInv
  <2>2. admitted * Window \in Nat /\ elapsed * Requests \in Nat
    BY <2>1, LimitsAssumption
  <2> QED BY <2>1, <2>2, CapacityType DEF MInv, RateOK, B!Capacity
<1> QED BY <1>1, <1>2, MeteredSteps, PTL DEF Metered

=============================================================================
