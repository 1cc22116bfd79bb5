-------------------------- MODULE KernelRefinement --------------------------
(***************************************************************************)
(* The kernel implements Ledger, for every value of the constants: the     *)
(* INSERT of an action accepts a submission, the invocation of the         *)
(* governed function is its effect, the INSERT of a decision settles it,   *)
(* and a call tells its caller when it has its answer.  Every other step   *)
(* is invisible.                                                           *)
(***************************************************************************)
EXTENDS KernelInvariant

(* What the refinement mapping shows of a state, unchanged.                 *)
Invisible == UNCHANGED <<req, actions, ran, decision, answer>>

LEMMA InvisibleStutters == Invisible => UNCHANGED L!vars
BY DEF Invisible, L!vars, KeyOf, Verdict

(* A row of actions is inserted only under a free key.                      *)
LEMMA SaveActionAccepts ==
  ASSUME IInv, NEW r \in Requests, SaveAction(r)
  PROVE  [L!Next]_(L!vars)
<1> USE DEF SaveAction, locals, tables, world
<1>1. CASE KeyTaken(r)
  BY <1>1, InvisibleStutters DEF Invisible
<1>2. CASE ~KeyTaken(r)
  <2>1. r \notin actions /\ answer[r] = NONE
    BY DEF IInv, Ownership, At, BeforeInsert
  <2>2. ~ \E q \in actions : L!SameKey(r, q)
    BY <1>2 DEF KeyTaken, L!SameKey, KeyOf, IInv, TypeOK
  <2>3. UNCHANGED <<KeyOf, ran, Verdict, answer>> /\ actions' = actions \cup {r}
    BY <1>2 DEF KeyOf, Verdict
  <2>4. L!Accept(r)
    BY <2>1, <2>2, <2>3 DEF L!Accept
  <2> QED BY <2>4 DEF L!Next
<1> QED BY <1>1, <1>2

(* The governed function runs for an undecided action that has not run.     *)
LEMMA ExecuteHasEffect ==
  ASSUME IInv, NEW r \in Requests, Execute(r)
  PROVE  [L!Next]_(L!vars)
<1>1. r \in actions \ ran /\ decision[r] = NONE
  BY DEF Execute, IInv, Ownership, Decisions, At, Deciding
<1>2. UNCHANGED <<KeyOf, actions, Verdict, answer>> /\ ran' = ran \cup {r}
  BY DEF Execute, KeyOf, Verdict, tables
<1>3. L!Effect(r)
  BY <1>1, <1>2 DEF L!Effect, Verdict
<1> QED BY <1>3 DEF L!Next

(* A decision is stored once, as done exactly when the function ran.        *)
LEMMA SaveDecisionSettles ==
  ASSUME IInv, NEW r \in Requests, SaveDecision(r)
  PROVE  [L!Next]_(L!vars)
<1>1. CASE ~Storable(r)
  BY <1>1, InvisibleStutters DEF SaveDecision, Invisible, world
<1>2. CASE Storable(r)
  <2>1. r \in actions /\ decision[r] = NONE
    BY DEF SaveDecision, IInv, Ownership, Decisions, At, Deciding
  <2>2. rule[r] # NONE /\ (r \in ran <=> rule[r] \in Executed)
    BY DEF SaveDecision, IInv, Decisions, At
  <2>3. /\ UNCHANGED <<req, actions, ran, answer>>
        /\ decision' = [decision EXCEPT ![r] = rule[r]]
    BY <1>2 DEF SaveDecision, world
  <2>4. Verdict' = [Verdict EXCEPT ![r] = IF r \in ran THEN "done" ELSE "withheld"]
    BY <2>2, <2>3 DEF Verdict, IInv, TypeOK
  <2>5. L!Settle(r)
    BY <2>1, <2>3, <2>4 DEF L!Settle, Verdict, KeyOf
  <2> QED BY <2>5 DEF L!Next
<1> QED BY <1>1, <1>2

(* A call gets its answer once, from its own decision ...                   *)
LEMMA DecisionMadeTells ==
  ASSUME IInv, NEW r \in Requests, DecisionMade(r)
  PROVE  [L!Next]_(L!vars)
<1>1. answer[r] = NONE
  BY DEF DecisionMade, IInv, Ownership, At
<1>2. Verdict[r] # NONE
  BY NullAssumption DEF DecisionMade, IInv, Decisions, At, Decided, Verdict
<1>3. /\ UNCHANGED <<KeyOf, actions, ran, Verdict>>
      /\ answer' = [answer EXCEPT ![r] = r]
  BY DEF DecisionMade, KeyOf, Verdict, world
<1>4. L!Tell(r, r)
  BY <1>1, <1>2, <1>3 DEF L!Tell
<1> QED BY <1>4 DEF L!Next

(* ... or, before it has an action row, from one found for its key.         *)
LEMMA CachedAnswerTells ==
  ASSUME IInv, NEW r \in Requests, Lookup(r) \/ Poll(r)
  PROVE  [L!Next]_(L!vars)
<1> USE DEF Lookup, Poll, tables, world
<1>1. CASE UNCHANGED answer
  BY <1>1, InvisibleStutters DEF Invisible
<1>2. CASE \E a \in CachedActions(r) : answer' = [answer EXCEPT ![r] = a]
  <2>1. PICK a \in CachedActions(r) : answer' = [answer EXCEPT ![r] = a]
    BY <1>2
  <2>2. /\ a \in Requests
        /\ req[a].key = req[r].key
        /\ decision[a] # NONE
    BY DEF CachedActions, IInv, TypeOK
  <2>3. r \notin actions /\ answer[r] = NONE /\ req[r].key # NONE
    BY DEF IInv, Ownership, At, BeforeInsert
  <2>4. Verdict[a] # NONE /\ L!SameKey(r, a)
    BY <2>2, <2>3, NullAssumption DEF Verdict, L!SameKey, KeyOf
  <2>5. UNCHANGED <<KeyOf, actions, ran, Verdict>>
    BY DEF KeyOf, Verdict
  <2>6. L!Tell(r, a)
    BY <2>1, <2>3, <2>4, <2>5 DEF L!Tell
  <2> QED BY <2>2, <2>6 DEF L!Next
<1> QED BY <1>1, <1>2

(* No other step changes what the mapping shows.                            *)
LEMMA OtherStepsInvisible ==
  ASSUME [Next]_vars,
         ~ \E r \in Requests : \/ SaveAction(r) \/ Execute(r) \/ SaveDecision(r)
                               \/ DecisionMade(r) \/ Lookup(r) \/ Poll(r)
  PROVE  Invisible
<1> USE DEF Invisible, locals, tables, world
<1>1. ASSUME NEW r \in Requests, Step(r) PROVE Invisible
  BY <1>1 DEF Step, IdempotentReturn, ActionReceived, Scan, Resolve,
     PolicyEvaluated, PolicyFails, PolicyFailureAudited, KillCheck,
     CapabilityLookup, CapabilityConsume, TokenVerify, EvaluatePolicy,
     BudgetCheck, SpendLimitExceeded, ApprovalCheck, ApprovalRequested,
     SaveResult, ResultAudited
<1>2. ASSUME NEW r \in Requests, Enter(r) \/ Abort(r) PROVE Invisible
  BY <1>2 DEF Enter, Abort
<1>3. ASSUME Environment PROVE Invisible
  BY <1>3 DEF Environment, Review, LoseCapability, ActivatePolicy, EnableKill, DisableKill
<1>4. ASSUME UNCHANGED vars PROVE Invisible
  BY <1>4 DEF vars
<1> QED BY <1>1, <1>2, <1>3, <1>4 DEF Next, AllDone

(* Every behaviour of the kernel, crashes and races included, is one of the *)
(* ledger: at most one acceptance per key, an effect only before the        *)
(* decision, done only with an effect, answers only from decisions          *)
(* (kernel.py:64-260).                                                      *)
THEOREM Refinement == Spec => ImplementsLedger
<1>1. Init => L!Init
  BY DEF Init, L!Init, Verdict
<1>2. IInv /\ [Next]_vars => [L!Next]_(L!vars)
  <2> SUFFICES ASSUME IInv, [Next]_vars PROVE [L!Next]_(L!vars)
    OBVIOUS
  <2>1. CASE \E r \in Requests : \/ SaveAction(r) \/ Execute(r) \/ SaveDecision(r)
                                \/ DecisionMade(r) \/ Lookup(r) \/ Poll(r)
    BY <2>1, SaveActionAccepts, ExecuteHasEffect, SaveDecisionSettles,
       DecisionMadeTells, CachedAnswerTells
  <2>2. CASE ~ \E r \in Requests : \/ SaveAction(r) \/ Execute(r) \/ SaveDecision(r)
                                  \/ DecisionMade(r) \/ Lookup(r) \/ Poll(r)
    BY <2>2, OtherStepsInvisible, InvisibleStutters
  <2> QED BY <2>1, <2>2
<1> QED BY <1>1, <1>2, Invariance, PTL DEF Spec, ImplementsLedger, L!Spec

=============================================================================
