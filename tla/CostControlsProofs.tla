------------------------- MODULE CostControlsProofs -------------------------
(* Proofs about CostControls.                                              *)
EXTENDS CostControls, FiniteSetTheorems, TLAPS

(* What the top-ups keep: the budget a transaction has locked is its own,  *)
(* is not changed behind its back, and is at least its adjustments.        *)
Locked ==
  \A x \in Executives :
    /\ tpc[x] = "locked" => /\ target[x] \in Budgets
                            /\ owner[target[x]] = x
                            /\ read[x] = amount[target[x]]
                            /\ amount[target[x]] > 0
    /\ tpc[x] # "done" => adjusted[x] = NONE

TInv == TopUpType /\ Locked /\ TopUpsChain

LEMMA InitTInv == Init => TInv
<1> SUFFICES ASSUME Init PROVE TInv
  OBVIOUS
<1>1. TopUpType
  BY BudgetAssumption DEF Init, TopUpType
<1>2. Locked
  BY DEF Init, Locked
<1>3. TopUpsChain
  BY DEF Init, TopUpsChain, Adjusted
<1>4. QED
  BY <1>1, <1>2, <1>3 DEF TInv

\* Steps that touch neither the amounts nor the top-ups.
LEMMA Elsewhere == TInv /\ UNCHANGED <<amount, topups>> => TInv'
  BY DEF TInv, TopUpType, Locked, TopUpsChain, Adjusted, topups

LEMMA CreateTInv ==
  ASSUME TInv, NEW b \in Budgets, CreateBudget(b) PROVE TInv'
<1> USE DEF CreateBudget, topups
<1>1. TopUpType'
  BY BudgetAssumption DEF TInv, TopUpType
<1>2. Locked'
  BY DEF TInv, Locked, TopUpType
<1>3. Adjusted(b) = {}
  BY DEF TInv, TopUpsChain, TopUpType, Adjusted, Adjustments
<1>4. TopUpsChain'
  BY <1>3, BudgetAssumption DEF TInv, TopUpsChain, TopUpType, Adjusted
<1>5. QED
  BY <1>1, <1>2, <1>4 DEF TInv

LEMMA LockTInv ==
  ASSUME TInv, NEW x \in Executives, NEW b \in Budgets, LockBudget(x, b) PROVE TInv'
<1> USE DEF LockBudget, ledger
<1>1. TopUpType'
  BY DEF TInv, TopUpType
<1>2. Locked'
  BY AmountAssumption DEF TInv, Locked, TopUpType, RowFree
<1>3. TopUpsChain'
  BY DEF TInv, TopUpsChain, Adjusted
<1>4. QED
  BY <1>1, <1>2, <1>3 DEF TInv

LEMMA RollbackTInv ==
  ASSUME TInv, NEW x \in Executives, RollbackTopUp(x) PROVE TInv'
<1> USE DEF RollbackTopUp, ledger
<1>1. TopUpType'
  BY DEF TInv, TopUpType
<1>2. Locked'
  BY DEF TInv, Locked, TopUpType
<1>3. TopUpsChain'
  BY DEF TInv, TopUpsChain, Adjusted
<1>4. QED
  BY <1>1, <1>2, <1>3 DEF TInv

(* The committing transaction still reads the current amount, which is at  *)
(* least every resulting amount and so above every previous one: its       *)
(* adjustment goes to the end of the chain.                                *)
LEMMA CommitTInv ==
  ASSUME TInv, NEW x \in Executives, CommitTopUp(x) PROVE TInv'
<1> DEFINE b == target[x]
<1>1. /\ b \in Budgets
      /\ owner[b] = x
      /\ read[x] = amount[b]
      /\ amount[b] \in Nat /\ amount[b] > 0
      /\ adjusted[x] = NONE
  BY DEF TInv, Locked, TopUpType, CommitTopUp
<1>2. PICK a \in TopUps :
        /\ amount' = [amount EXCEPT ![b] = read[x] + a]
        /\ adjusted' = [adjusted EXCEPT ![x] = [budget |-> b, previous |-> read[x],
                                                resulting |-> read[x] + a]]
  BY DEF CommitTopUp
<1>3. a \in Nat /\ a > 0
  BY AmountAssumption
<1> DEFINE new == [budget |-> b, previous |-> amount[b], resulting |-> amount[b] + a]
<1>4. new \in Adjustments /\ new # NONE
  BY <1>1, <1>3, AmountAssumption DEF Adjustments
<1>5. /\ adjusted' = [adjusted EXCEPT ![x] = new]
      /\ amount' = [amount EXCEPT ![b] = amount[b] + a]
  BY <1>1, <1>2
<1>6. TopUpType'
  BY <1>1, <1>3, <1>4, <1>5 DEF TInv, TopUpType, CommitTopUp
<1>7. Locked'
  <2> SUFFICES ASSUME NEW y \in Executives
               PROVE  /\ tpc'[y] = "locked" => /\ target'[y] \in Budgets
                                               /\ owner'[target'[y]] = y
                                               /\ read'[y] = amount'[target'[y]]
                                               /\ amount'[target'[y]] > 0
                      /\ tpc'[y] # "done" => adjusted'[y] = NONE
    BY DEF Locked
  <2>1. CASE y = x
    BY <2>1 DEF TInv, TopUpType, CommitTopUp
  <2>2. CASE y # x
    <3>1. tpc[y] = "locked" => target[y] # b
      BY <1>1, <2>2 DEF TInv, Locked
    <3>2. QED
      BY <2>2, <3>1, <1>1, <1>5 DEF TInv, TopUpType, Locked, CommitTopUp
  <2>3. QED
    BY <2>1, <2>2
<1>8. TopUpsChain'
  <2>1. /\ \A d \in Budgets : Adjusted(d)' = IF d = b THEN Adjusted(d) \cup {x} ELSE Adjusted(d)
        /\ \A d \in Budgets : x \notin Adjusted(d)
    BY <1>1, <1>4, <1>5 DEF TInv, TopUpType, Adjusted
  <2>2. \A y \in Executives : y # x => adjusted'[y] = adjusted[y]
    BY <1>5 DEF TInv, TopUpType
  <2>3. adjusted'[x].previous = amount[b] /\ adjusted'[x].resulting = amount[b] + a
    BY <1>5 DEF TInv, TopUpType
  <2>4. \A d \in Budgets : amount'[d] = IF d = b THEN amount[b] + a ELSE amount[d]
    BY <1>5 DEF TInv, TopUpType
  <2>5. \A d \in Budgets : \A y \in Adjusted(d) :
          y \in Executives /\ adjusted[y].previous \in Nat /\ adjusted[y].resulting \in Nat
    BY DEF TInv, TopUpType, Adjusted, Adjustments
  <2> SUFFICES ASSUME NEW d \in Budgets
               PROVE  /\ \A y, z \in Adjusted(d)' :
                           adjusted'[y].previous = adjusted'[z].previous => y = z
                      /\ \A y \in Adjusted(d)' :
                           /\ adjusted'[y].previous < adjusted'[y].resulting
                           /\ adjusted'[y].resulting <= amount'[d]
                           /\ \/ adjusted'[y].previous = Limit[d]
                              \/ \E z \in Adjusted(d)' :
                                   adjusted'[z].resulting = adjusted'[y].previous
                      /\ \/ amount'[d] \in {0, Limit[d]}
                         \/ \E y \in Adjusted(d)' : adjusted'[y].resulting = amount'[d]
    BY DEF TopUpsChain
  <2>6. /\ \A y, z \in Adjusted(d) : adjusted[y].previous = adjusted[z].previous => y = z
        /\ \A y \in Adjusted(d) :
             /\ adjusted[y].previous < adjusted[y].resulting
             /\ adjusted[y].resulting <= amount[d]
             /\ \/ adjusted[y].previous = Limit[d]
                \/ \E z \in Adjusted(d) : adjusted[z].resulting = adjusted[y].previous
        /\ \/ amount[d] \in {0, Limit[d]}
           \/ \E y \in Adjusted(d) : adjusted[y].resulting = amount[d]
    BY DEF TInv, TopUpsChain
  <2>7. CASE d # b
    BY <2>7, <2>1, <2>2, <2>4, <2>5, <2>6
  <2>8. CASE d = b
    <3> HIDE DEF b, new
    <3>1. Adjusted(d)' = Adjusted(d) \cup {x} /\ amount'[d] = amount[d] + a
      BY <2>1, <2>4, <2>8
    <3>2. \A y \in Adjusted(d) : y # x /\ adjusted[y].previous < amount[d]
                                 /\ adjusted'[y] = adjusted[y]
      BY <1>1, <2>1, <2>2, <2>5, <2>6, <2>8
    <3>3. adjusted'[x].previous = amount[d] /\ adjusted'[x].resulting = amount[d] + a
      BY <2>3, <2>8
    <3>4. ASSUME NEW y \in Adjusted(d)', NEW z \in Adjusted(d)',
                 adjusted'[y].previous = adjusted'[z].previous
          PROVE  y = z
      BY <3>1, <3>2, <3>3, <3>4, <2>5, <2>6, <1>1, <2>8
    <3>5. ASSUME NEW y \in Adjusted(d)'
          PROVE  /\ adjusted'[y].previous < adjusted'[y].resulting
                 /\ adjusted'[y].resulting <= amount'[d]
      BY <3>1, <3>2, <3>3, <2>5, <2>6, <1>1, <1>3, <2>8
    <3>6. ASSUME NEW y \in Adjusted(d)'
          PROVE  \/ adjusted'[y].previous = Limit[d]
                 \/ \E z \in Adjusted(d)' : adjusted'[z].resulting = adjusted'[y].previous
      BY <3>1, <3>2, <3>3, <2>6, <1>1, <2>8
    <3>7. \E y \in Adjusted(d)' : adjusted'[y].resulting = amount'[d]
      BY <3>1, <3>3
    <3>8. QED
      BY <3>4, <3>5, <3>6, <3>7
  <2>9. QED
    BY <2>7, <2>8
<1>9. QED
  BY <1>6, <1>7, <1>8 DEF TInv

LEMMA NextTInv == TInv /\ [Next]_vars => TInv'
<1> SUFFICES ASSUME TInv, [Next]_vars PROVE TInv'
  OBVIOUS
<1>1. ASSUME NEW b \in Budgets, CreateBudget(b) PROVE TInv'
  BY <1>1, CreateTInv
<1>2. ASSUME NEW b \in Budgets, NewPeriod(b) PROVE TInv'
  BY <1>2, Elsewhere DEF NewPeriod
<1>3. ASSUME NEW c \in Callers, \/ Begin(c) \/ Select(c) \/ ReadSpend(c) \/ Evaluate(c)
                                \/ CheckFails(c) \/ Abandon(c) \/ RecordSpend(c)
      PROVE  TInv'
  BY <1>3, Elsewhere DEF Begin, Select, ReadSpend, Evaluate, CheckFails, Abandon,
                         RecordSpend, ledger
<1>4. ASSUME NEW x \in Executives, NEW b \in Budgets, LockBudget(x, b) PROVE TInv'
  BY <1>4, LockTInv
<1>5. ASSUME NEW x \in Executives, CommitTopUp(x) PROVE TInv'
  BY <1>5, CommitTInv
<1>6. ASSUME NEW x \in Executives, RollbackTopUp(x) PROVE TInv'
  BY <1>6, RollbackTInv
<1>7. ASSUME UNCHANGED vars PROVE TInv'
  BY <1>7, Elsewhere DEF vars, ledger
<1>8. QED
  BY <1>1, <1>2, <1>3, <1>4, <1>5, <1>6, <1>7 DEF Next

(* No top-up is lost: for any number of executives, budgets and amounts,   *)
(* the adjustments top_up_tenant_budget records for a budget are one chain *)
(* from its created amount to its current one.                             *)
THEOREM TopUpsChained == Spec => []TopUpsChain
<1>1. TInv => TopUpsChain
  BY DEF TInv
<1>2. QED
  BY <1>1, InitTInv, NextTInv, PTL DEF Spec
----------------------------------------------------------------------------
(* Overrun.  Of the callers that hold a passed reading of a budget, the    *)
(* last to read left room for its own cost, and the others hold at most m  *)
(* each; when any of them records, another takes its place.                *)

\* The callers whose reading of b leaves room for their cost.
Passed(b) ==
  {c \in Callers : b \in DOMAIN seen[c] /\ seen[c][b] + cost[c] <= shown[c][b]}

\* One caller of P needs only its cost k[w] of what is left, s.
RoomFor(s, P, k, m) ==
  \/ P = {} /\ 0 <= s
  \/ \E w \in P : k[w] + (Cardinality(P) - 1) * m <= s

Room(b, m) ==
  RoomFor(amount[b] + unchecked[b] - spent[b] + (Rivals(b) - 1) * m, Passed(b), cost, m)

LEMMA TimesMonotone ==
  ASSUME NEW m \in Nat, NEW i \in Int, NEW j \in Int, i <= j PROVE i * m <= j * m
<1>1. (j - i) * m >= 0
  OBVIOUS
<1>2. (j - i) * m = j * m - i * m
  OBVIOUS
<1>3. QED
  BY <1>1, <1>2

(* A caller gives up its reading, having spent at most its cost.           *)
LEMMA RoomLess ==
  ASSUME NEW m \in Nat, NEW s \in Int, NEW t \in Int,
         NEW P, IsFiniteSet(P), NEW k, NEW l, NEW c,
         \A w \in P : k[w] \in Nat /\ k[w] <= m,
         \A w \in P \ {c} : l[w] = k[w],
         t >= s \/ (c \in P /\ t >= s - k[c]),
         RoomFor(s, P, k, m)
  PROVE  RoomFor(t, P \ {c}, l, m)
<1>1. CASE c \notin P
  <2>1. P \ {c} = P /\ t >= s
    BY <1>1
  <2>2. CASE P = {}
    BY <2>1, <2>2 DEF RoomFor
  <2>3. CASE P # {}
    <3>1. PICK w \in P : k[w] + (Cardinality(P) - 1) * m <= s
      BY <2>3 DEF RoomFor
    <3>2. l[w] = k[w] /\ Cardinality(P) \in Nat
      BY <2>1, FS_CardinalityType
    <3>3. (Cardinality(P) - 1) * m \in Int
      BY <3>2
    <3>4. l[w] + (Cardinality(P) - 1) * m <= t
      BY <3>1, <3>2, <3>3, <2>1
    <3>5. QED
      BY <3>4, <2>1 DEF RoomFor
  <2>4. QED
    BY <2>2, <2>3
<1>2. CASE c \in P
  <2> DEFINE n == Cardinality(P)
  <2>1. n \in Nat /\ IsFiniteSet(P \ {c}) /\ Cardinality(P \ {c}) = n - 1
    BY <1>2, FS_CardinalityType, FS_RemoveElement
  <2>2. PICK w \in P : k[w] + (n - 1) * m <= s
    BY <1>2 DEF RoomFor
  <2>3. k[c] \in Nat /\ k[c] <= m /\ t >= s - k[c] /\ k[w] \in Nat /\ k[w] <= m
    BY <1>2
  <2>4. (n - 1) * m \in Int /\ (n - 2) * m = (n - 1) * m - m
    BY <2>1
  <2>5. CASE P \ {c} = {}
    <3>1. n - 1 = 0
      BY <2>1, <2>5, FS_EmptySet
    <3>2. w = c /\ (n - 1) * m = 0
      BY <2>5, <3>1
    <3>3. 0 <= t
      BY <2>2, <2>3, <3>2
    <3>4. QED
      BY <2>5, <3>3 DEF RoomFor
  <2>6. CASE P \ {c} # {}
    <3>1. PICK v \in P \ {c} : v = w \/ w = c
      BY <2>6
    <3>2. l[v] \in Nat /\ l[v] <= m /\ l[v] = k[v]
      OBVIOUS
    <3>3. l[v] + (n - 2) * m <= t
      BY <3>1, <3>2, <2>2, <2>3, <2>4
    <3>4. QED
      BY <3>3, <2>1 DEF RoomFor
  <2>7. QED
    BY <2>5, <2>6
<1>3. QED
  BY <1>1, <1>2

(* A caller of P has just read, or the period has just begun.              *)
LEMMA RoomLast ==
  ASSUME NEW m \in Nat, NEW s \in Int, NEW r \in Nat,
         NEW P, IsFiniteSet(P), Cardinality(P) <= r, NEW k, NEW w \in P,
         k[w] \in Nat, k[w] <= s
  PROVE  RoomFor(s + (r - 1) * m, P, k, m)
<1>1. Cardinality(P) \in Nat
  BY FS_CardinalityType
<1>2. (Cardinality(P) - 1) * m <= (r - 1) * m
  BY <1>1, TimesMonotone
<1>3. (Cardinality(P) - 1) * m \in Int /\ (r - 1) * m \in Int
  BY <1>1
<1>4. k[w] + (Cardinality(P) - 1) * m <= s + (r - 1) * m
  BY <1>2, <1>3
<1>5. QED
  BY <1>4 DEF RoomFor

(* Room is all that Overrun asks for.                                      *)
LEMMA RoomEnough ==
  ASSUME NEW m \in Nat, NEW s \in Int, NEW P, IsFiniteSet(P), NEW k,
         \A w \in P : k[w] \in Nat, RoomFor(s, P, k, m)
  PROVE  0 <= s
<1>1. CASE P = {}
  BY <1>1 DEF RoomFor
<1>2. CASE P # {}
  <2>1. PICK w \in P : k[w] + (Cardinality(P) - 1) * m <= s
    BY <1>2 DEF RoomFor
  <2>2. Cardinality(P) \in Nat /\ Cardinality(P) # 0
    BY <1>2, FS_CardinalityType, FS_EmptySet
  <2>3. 0 * m <= (Cardinality(P) - 1) * m
    BY <2>2, TimesMonotone
  <2>4. (Cardinality(P) - 1) * m \in Int
    BY <2>2
  <2>5. QED
    BY <2>1, <2>3, <2>4
<1>3. QED
  BY <1>1, <1>2
----------------------------------------------------------------------------
(* The checks.                                                             *)

(* A reading is never above the amount, which only grows; a call is        *)
(* allowed only with a passed reading of every budget it read.             *)
Readable ==
  \A c \in Callers :
    /\ \A b \in DOMAIN shown[c] : shown[c][b] <= amount[b]
    /\ pc[c] \in {"idle", "select"} => shown[c] = NoBudgets /\ seen[c] = NoBudgets
    /\ pc[c] # "run" => verdict[c] = NONE
    /\ verdict[c] = "allow" => \A b \in DOMAIN seen[c] : c \in Passed(b)

AllRoom ==
  \A b \in Budgets, m \in Costs :
    Rivals(b) > 0 /\ (\A p \in Costs : p <= m) => Room(b, m)

CInv == CheckType /\ Readable

LEMMA InitCInv == Init => CInv
<1> SUFFICES ASSUME Init PROVE CInv
  OBVIOUS
<1>1. IsReading(NoBudgets) /\ DOMAIN NoBudgets = {}
  BY DEF NoBudgets, IsReading
<1>2. CheckType
  BY <1>1, AmountAssumption DEF Init, CheckType
<1>3. Readable
  BY <1>1, AmountAssumption DEF Init, Readable, Actions
<1>4. QED
  BY <1>2, <1>3 DEF CInv

LEMMA ReadingsFact ==
  /\ IsReading(NoBudgets) /\ DOMAIN NoBudgets = {}
  /\ \A f : IsReading(f) => DOMAIN f \subseteq Budgets /\ \A b \in DOMAIN f : f[b] \in Nat
BY DEF NoBudgets, IsReading

LEMMA ReadNat ==
  ASSUME CInv, NEW c \in Callers
  PROVE  /\ cost[c] \in Nat
         /\ \A b \in DOMAIN shown[c] : shown[c][b] \in Nat
         /\ \A b \in DOMAIN seen[c] : seen[c][b] \in Nat /\ b \in DOMAIN shown[c]
<1>1. cost[c] \in Costs \cup {0} /\ Costs \subseteq Nat
  BY AmountAssumption DEF CInv, CheckType
<1>2. IsReading(shown[c]) /\ IsReading(seen[c]) /\ DOMAIN seen[c] \subseteq DOMAIN shown[c]
  BY DEF CInv, CheckType
<1>3. ASSUME NEW b \in DOMAIN shown[c] PROVE shown[c][b] \in Nat
  BY <1>2, ReadingsFact
<1>4. ASSUME NEW b \in DOMAIN seen[c] PROVE seen[c][b] \in Nat /\ b \in DOMAIN shown[c]
  BY <1>2, ReadingsFact
<1>5. cost[c] \in Nat
  <2>1. \A p : p \in Costs \cup {0} => p \in Nat
    BY AmountAssumption
  <2>2. QED
    BY <1>1, <2>1
<1>6. QED
  BY <1>3, <1>4, <1>5

LEMMA ReturnCInv ==
  ASSUME CInv, NEW c \in Callers, Return(c),
         amount' = amount, spent' \in [Budgets -> Nat], unchecked' \in [Budgets -> Nat],
         calls' = calls, rls' = rls
  PROVE  CInv'
<1>1. CheckType'
  BY ReadingsFact DEF CInv, CheckType, Return
<1>2. Readable'
  BY ReadingsFact, AmountAssumption DEF CInv, CheckType, Readable, Return, Passed
<1>3. QED
  BY <1>1, <1>2 DEF CInv

LEMMA BeginCInv ==
  ASSUME CInv, NEW c \in Callers, Begin(c) PROVE CInv'
<1>1. CheckType'
  BY AmountAssumption DEF CInv, CheckType, Begin, ledger, topups
<1>2. Readable'
  BY ReadingsFact, AmountAssumption
  DEF CInv, CheckType, Readable, Begin, ledger, Passed
<1>3. QED
  BY <1>1, <1>2 DEF CInv

LEMMA SelectCInv ==
  ASSUME TopUpType, CInv, NEW c \in Callers, Select(c) PROVE CInv'
<1> DEFINE new == [b \in Matching(c) |-> amount[b]]
<1>1. /\ IsReading(new)
      /\ DOMAIN new = Matching(c) /\ Matching(c) \subseteq Matches[c]
      /\ \A b \in DOMAIN new : new[b] = amount[b] /\ amount[b] \in Nat
  <2>1. Matching(c) \subseteq Matches[c] /\ Matches[c] \subseteq Budgets
    BY BudgetAssumption DEF Matching
  <2>2. \A b \in Matching(c) : amount[b] \in Nat
    BY <2>1 DEF TopUpType
  <2> HIDE DEF Matching
  <2>3. Matching(c) \in SUBSET Budgets /\ new \in [Matching(c) -> Nat]
    BY <2>1, <2>2
  <2>4. IsReading(new)
    BY <2>3 DEF IsReading
  <2>5. QED
    BY <2>1, <2>2, <2>4
<1>2. /\ pc[c] = "select" /\ seen[c] = NoBudgets /\ verdict[c] = NONE
      /\ shown' = [shown EXCEPT ![c] = new]
      /\ UNCHANGED <<amount, spent, unchecked, cost, seen, calls, rls>>
  BY DEF Select, CInv, Readable, ledger
<1>3. \/ /\ verdict' = [verdict EXCEPT ![c] = "allow"]
         /\ pc' = [pc EXCEPT ![c] = "run"]
      \/ /\ pc' = [pc EXCEPT ![c] = "read"]
         /\ UNCHANGED verdict
  BY DEF Select
<1> HIDE DEF new
<1>4. CheckType'
  BY <1>1, <1>2, <1>3, ReadingsFact DEF CInv, CheckType
<1>5. Readable'
  BY <1>1, <1>2, <1>3, ReadingsFact, AmountAssumption DEF CInv, CheckType, Readable, Passed
<1>6. QED
  BY <1>4, <1>5 DEF CInv

LEMMA ReadSpendCInv ==
  ASSUME CInv, NEW c \in Callers, ReadSpend(c) PROVE CInv'
<1> DEFINE todo == DOMAIN shown[c] \ DOMAIN seen[c]
<1>1. PICK b \in todo :
        /\ seen' = [seen EXCEPT ![c] = [d \in DOMAIN seen[c] \cup {b} |->
                                         IF d = b THEN spent[b] ELSE seen[c][d]]]
        /\ pc' = [pc EXCEPT ![c] = IF todo = {b} THEN "evaluate" ELSE "read"]
  BY DEF ReadSpend, MostSpecific
<1> DEFINE new == [d \in DOMAIN seen[c] \cup {b} |->
                     IF d = b THEN spent[b] ELSE seen[c][d]]
<1>2. /\ pc[c] = "read" /\ verdict[c] = NONE
      /\ UNCHANGED <<amount, spent, unchecked, cost, shown, verdict, calls, rls>>
  BY DEF ReadSpend, CInv, Readable, ledger
<1>3. /\ IsReading(seen[c]) /\ IsReading(shown[c])
      /\ DOMAIN seen[c] \subseteq DOMAIN shown[c]
  BY DEF CInv, CheckType
<1>4. IsReading(new)
  <2>1. DOMAIN seen[c] \cup {b} \in SUBSET Budgets
    BY <1>3, ReadingsFact
  <2>2. new \in [DOMAIN seen[c] \cup {b} -> Nat]
    BY <1>3, <2>1, ReadingsFact DEF CInv, CheckType
  <2>3. QED
    BY <2>1, <2>2 DEF IsReading
<1>5. /\ DOMAIN new \subseteq DOMAIN shown[c]
      /\ todo = {b} => DOMAIN new = DOMAIN shown[c]
  BY <1>3
<1>6. seen' = [seen EXCEPT ![c] = new]
  BY <1>1
<1>7. CheckType'
  <2> HIDE DEF new, todo
  <2>1. QED
    BY <1>1, <1>2, <1>4, <1>5, <1>6 DEF CInv, CheckType
<1>8. Readable'
  <2> HIDE DEF new, todo
  <2>1. QED
    BY <1>1, <1>2, <1>6, AmountAssumption DEF CInv, CheckType, Readable, Passed
<1>9. QED
  BY <1>7, <1>8 DEF CInv

LEMMA EvaluateCInv ==
  ASSUME CInv, NEW c \in Callers, Evaluate(c) PROVE CInv'
<1>1. UNCHANGED <<amount, spent, unchecked, calls, rls>>
  BY DEF Evaluate, ledger, topups
<1>2. PICK d \in Decisions(c) :
        \/ /\ d = "block"
           /\ Return(c)
        \/ /\ d # "block"
           /\ verdict' = [verdict EXCEPT ![c] = d]
           /\ pc' = [pc EXCEPT ![c] = "run"]
           /\ UNCHANGED <<cost, shown, seen>>
  BY DEF Evaluate
<1>3. CASE Return(c)
  BY <1>1, <1>3, ReturnCInv DEF CInv, CheckType
<1>4. CASE ~Return(c)
  <2>1. d \in Actions \cup {"allow"}
    BY BudgetAssumption, ReadingsFact
    DEF Decisions, MostSpecific, Exceeded, CInv, CheckType
  <2>2. d = "allow" => \A b \in DOMAIN seen[c] : c \in Passed(b)
    <3>1. SUFFICES ASSUME d = "allow", NEW b \in DOMAIN seen[c] PROVE c \in Passed(b)
      OBVIOUS
    <3>2. Exceeded(c) = {}
      BY <3>1, BudgetAssumption, ReadingsFact
      DEF Decisions, MostSpecific, Exceeded, Actions, CInv, CheckType
    <3>3. ~(seen[c][b] + cost[c] > shown[c][b])
      BY <3>2 DEF Exceeded
    <3>4. seen[c][b] \in Nat /\ shown[c][b] \in Nat /\ cost[c] \in Nat
      BY ReadNat
    <3>5. QED
      BY <3>3, <3>4 DEF Passed
  <2>3. CheckType'
    BY <1>1, <1>2, <1>4, <2>1 DEF CInv, CheckType
  <2>4. Readable'
    BY <1>1, <1>2, <1>4, <2>1, <2>2 DEF CInv, CheckType, Readable, Passed
  <2>5. QED
    BY <2>3, <2>4 DEF CInv
<1>5. QED
  BY <1>3, <1>4
LEMMA MoreAmountCInv ==
  ASSUME TopUpType, TopUpType', CInv, \A b \in Budgets : amount[b] <= amount'[b],
         UNCHANGED <<spent, unchecked, checks, rls>>
  PROVE  CInv'
<1>1. CheckType'
  BY DEF CInv, CheckType, checks
<1>2. \A c \in Callers : \A b \in DOMAIN shown[c] : shown[c][b] <= amount'[b]
  <2> SUFFICES ASSUME NEW c \in Callers, NEW b \in DOMAIN shown[c]
               PROVE  shown[c][b] <= amount'[b]
    OBVIOUS
  <2>1. b \in Budgets
    BY ReadingsFact DEF CInv, CheckType
  <2>2. amount[b] \in Nat /\ amount'[b] \in Nat /\ amount[b] <= amount'[b]
    BY <2>1 DEF TopUpType
  <2>3. shown[c][b] <= amount[b]
    BY DEF CInv, Readable
  <2>4. QED
    BY <2>2, <2>3, ReadNat
<1>3. Readable'
  BY <1>2 DEF CInv, Readable, checks, Passed
<1>4. QED
  BY <1>1, <1>3 DEF CInv

\* Top-ups and new budgets raise the amounts.
LEMMA TopUpsRaise ==
  /\ \A b \in Budgets : TInv /\ CreateBudget(b) => \A d \in Budgets : amount[d] <= amount'[d]
  /\ \A x \in Executives : TInv /\ CommitTopUp(x) => \A d \in Budgets : amount[d] <= amount'[d]
<1>1. ASSUME NEW b \in Budgets, TInv, CreateBudget(b), NEW d \in Budgets
      PROVE  amount[d] <= amount'[d]
  <2>1. amount[d] \in Nat /\ Limit[b] \in Nat /\ amount[b] = 0
    BY <1>1, BudgetAssumption DEF CreateBudget, TInv, TopUpType
  <2>2. amount'[d] = IF d = b THEN Limit[b] ELSE amount[d]
    BY <1>1 DEF CreateBudget, TInv, TopUpType
  <2>3. QED
    BY <2>1, <2>2
<1>2. ASSUME NEW x \in Executives, TInv, CommitTopUp(x), NEW d \in Budgets
      PROVE  amount[d] <= amount'[d]
  <2>1. target[x] \in Budgets /\ read[x] = amount[target[x]]
    BY <1>2 DEF CommitTopUp, TInv, Locked
  <2>2. PICK a \in TopUps : amount' = [amount EXCEPT ![target[x]] = read[x] + a]
    BY <1>2 DEF CommitTopUp
  <2>3. QED
    BY <1>2, <2>1, <2>2, AmountAssumption DEF TInv, TopUpType
<1>3. QED
  BY <1>1, <1>2

LEMMA NextCInv == TInv /\ TInv' /\ CInv /\ [Next]_vars => CInv'
<1> SUFFICES ASSUME TInv, TInv', CInv, [Next]_vars PROVE CInv'
  OBVIOUS
<1>1. ASSUME NEW b \in Budgets, CreateBudget(b) PROVE CInv'
  BY <1>1, TopUpsRaise, MoreAmountCInv DEF CreateBudget, TInv
<1>2. ASSUME NEW b \in Budgets, NewPeriod(b) PROVE CInv'
  BY <1>2 DEF NewPeriod, CInv, CheckType, Readable, Passed, checks
<1>3. ASSUME NEW c \in Callers, Begin(c) PROVE CInv'
  BY <1>3, BeginCInv
<1>4. ASSUME NEW c \in Callers, Select(c) PROVE CInv'
  BY <1>4, SelectCInv DEF TInv
<1>5. ASSUME NEW c \in Callers, ReadSpend(c) PROVE CInv'
  BY <1>5, ReadSpendCInv
<1>6. ASSUME NEW c \in Callers, Evaluate(c) PROVE CInv'
  BY <1>6, EvaluateCInv
<1>7. ASSUME NEW c \in Callers, CheckFails(c) PROVE CInv'
  BY <1>7, AmountAssumption
  DEF CheckFails, CInv, CheckType, Readable, Passed, ledger
<1>8. ASSUME NEW c \in Callers, Abandon(c) PROVE CInv'
  BY <1>8, ReturnCInv DEF Abandon, ledger, CInv, CheckType
<1>9. ASSUME NEW c \in Callers, RecordSpend(c) PROVE CInv'
  <2>1. spent' \in [Budgets -> Nat] /\ unchecked' \in [Budgets -> Nat]
    BY <1>9, ReadNat DEF RecordSpend, CInv, CheckType
  <2>2. QED
    BY <1>9, <2>1, ReturnCInv DEF RecordSpend
<1>10. ASSUME NEW x \in Executives, NEW b \in Budgets, LockBudget(x, b) PROVE CInv'
  BY <1>10 DEF LockBudget, CInv, CheckType, Readable, Passed, checks, ledger
<1>11. ASSUME NEW x \in Executives, CommitTopUp(x) PROVE CInv'
  BY <1>11, TopUpsRaise, MoreAmountCInv DEF CommitTopUp, TInv
<1>12. ASSUME NEW x \in Executives, RollbackTopUp(x) PROVE CInv'
  BY <1>12 DEF RollbackTopUp, CInv, CheckType, Readable, Passed, checks, ledger
<1>13. ASSUME UNCHANGED vars PROVE CInv'
  BY <1>13 DEF vars, CInv, CheckType, Readable, Passed, checks, ledger
<1>14. QED
  BY <1>1, <1>2, <1>3, <1>4, <1>5, <1>6, <1>7, <1>8, <1>9, <1>10, <1>11, <1>12, <1>13
  DEF Next

(* Variables keep their types, for any callers, budgets and amounts.       *)
THEOREM TypesOK == Spec => []TypeOK
<1>1. Init => TInv /\ CInv
  BY InitTInv, InitCInv
<1>2. TInv /\ CInv /\ [Next]_vars => (TInv /\ CInv)'
  BY NextTInv, NextCInv
<1>3. TInv /\ CInv => TypeOK
  BY DEF TInv, CInv, TypeOK
<1>4. QED
  BY <1>1, <1>2, <1>3, PTL DEF Spec
----------------------------------------------------------------------------
(* Room is kept.                                                           *)

LEMMA PassedFacts ==
  ASSUME CInv, TopUpType, NEW b \in Budgets, NEW m \in Costs, \A p \in Costs : p <= m
  PROVE  /\ m \in Nat
         /\ Rivals(b) \in Nat
         /\ IsFiniteSet(Passed(b)) /\ Cardinality(Passed(b)) <= Rivals(b)
         /\ \A w \in Passed(b) : cost[w] \in Nat /\ cost[w] <= m /\ cost[w] <= amount[b]
         /\ amount[b] \in Nat /\ spent[b] \in Nat /\ unchecked[b] \in Nat
<1>1. m \in Nat
  BY AmountAssumption
<1> DEFINE S == {c \in Callers : b \in Matches[c]}
<1>2. IsFiniteSet(S) /\ Rivals(b) = Cardinality(S) /\ Rivals(b) \in Nat
  BY BudgetAssumption, FS_Subset, FS_CardinalityType DEF Rivals
<1>3. Passed(b) \subseteq S
  BY DEF Passed, CInv, CheckType
<1>4. IsFiniteSet(Passed(b)) /\ Cardinality(Passed(b)) <= Rivals(b)
  BY <1>2, <1>3, FS_Subset
<1>5. amount[b] \in Nat /\ spent[b] \in Nat /\ unchecked[b] \in Nat
  BY DEF TopUpType, CInv, CheckType
<1>6. ASSUME NEW w \in Passed(b)
      PROVE  cost[w] \in Nat /\ cost[w] <= m /\ cost[w] <= amount[b]
  <2>1. w \in Callers /\ b \in DOMAIN seen[w] /\ seen[w][b] + cost[w] <= shown[w][b]
    BY DEF Passed
  <2>2. cost[w] \in Nat /\ seen[w][b] \in Nat /\ shown[w][b] \in Nat /\ b \in DOMAIN shown[w]
    BY <2>1, ReadNat
  <2>3. shown[w][b] <= amount[b]
    BY <2>1, <2>2 DEF CInv, Readable
  <2>4. cost[w] \in Costs \/ cost[w] = 0
    BY <2>1 DEF CInv, CheckType
  <2>5. cost[w] <= m
    <3>1. CASE cost[w] = 0
      BY <3>1, <1>1
    <3>2. CASE cost[w] \in Costs
      BY <3>2
    <3>3. QED
      BY <3>1, <3>2, <2>4
  <2>6. QED
    BY <2>1, <2>2, <2>3, <2>5, <1>5
<1>7. QED
  BY <1>1, <1>2, <1>4, <1>5, <1>6

\* Nothing is left but more: nobody joins, leaves or spends.
LEMMA RoomSame ==
  ASSUME CInv, TopUpType, CInv', TopUpType', NEW b \in Budgets, NEW m \in Costs,
         \A p \in Costs : p <= m, Room(b, m),
         amount[b] <= amount'[b], spent'[b] = spent[b], unchecked'[b] = unchecked[b],
         Passed(b)' = Passed(b), \A w \in Passed(b) : cost'[w] = cost[w]
  PROVE  Room(b, m)'
<1> DEFINE P == Passed(b)
           r == (Rivals(b) - 1) * m
           s == amount[b] + unchecked[b] - spent[b] + r
           t == amount'[b] + unchecked'[b] - spent'[b] + r
<1>1. r \in Int /\ s \in Int /\ t \in Int /\ s <= t
  BY PassedFacts DEF TopUpType
<1>2. CASE P = {}
  BY <1>1, <1>2 DEF Room, RoomFor, Rivals
<1>3. CASE P # {}
  <2>1. PICK w \in P : cost[w] + (Cardinality(P) - 1) * m <= s
    BY <1>3 DEF Room, RoomFor
  <2>2. Cardinality(P) \in Nat /\ cost[w] \in Nat /\ cost'[w] = cost[w]
    BY PassedFacts, FS_CardinalityType
  <2>3. (Cardinality(P) - 1) * m \in Int
    BY <2>2, PassedFacts
  <2>4. cost'[w] + (Cardinality(P) - 1) * m <= t
    BY <2>1, <2>2, <2>3, <1>1
  <2>5. QED
    BY <2>4 DEF Room, RoomFor, Rivals
<1>4. QED
  BY <1>2, <1>3

LEMMA ReturnRoom ==
  ASSUME CInv, TopUpType, CInv', TopUpType', NEW b \in Budgets, NEW m \in Costs,
         \A p \in Costs : p <= m, Room(b, m),
         NEW c \in Callers, Return(c), amount' = amount,
         LET s == unchecked[b] - spent[b]
             t == unchecked'[b] - spent'[b]
         IN  t >= s \/ (c \in Passed(b) /\ t >= s - cost[c])
  PROVE  Room(b, m)'
<1>1. Passed(b)' = Passed(b) \ {c}
  BY ReadingsFact DEF Passed, Return, CInv, CheckType
<1>2. \A w \in Passed(b) \ {c} : cost'[w] = cost[w]
  BY DEF Passed, Return, CInv, CheckType
<1> DEFINE r == (Rivals(b) - 1) * m
           s == amount[b] + unchecked[b] - spent[b] + r
           t == amount'[b] + unchecked'[b] - spent'[b] + r
<1>3. r \in Int /\ s \in Int /\ t \in Int
  BY PassedFacts DEF TopUpType, CInv, CheckType
<1>4. t >= s \/ (c \in Passed(b) /\ t >= s - cost[c])
  <2>1. /\ unchecked[b] \in Int /\ spent[b] \in Int
        /\ unchecked'[b] \in Int /\ spent'[b] \in Int
        /\ amount[b] \in Int /\ cost[c] \in Int
    BY PassedFacts, ReadNat DEF CInv, CheckType
  <2>2. QED
    BY <2>1, <1>3
<1>5. RoomFor(s, Passed(b), cost, m)
  BY DEF Room
<1> HIDE DEF r, s, t
<1>6. RoomFor(t, Passed(b) \ {c}, cost', m)
  BY <1>2, <1>3, <1>4, <1>5, PassedFacts, RoomLess
<1>7. QED
  BY <1>1, <1>6 DEF Room, Rivals, r, t
LEMMA ReadSpendRoom ==
  ASSUME TInv, CInv, TInv', CInv', NEW b \in Budgets, NEW m \in Costs,
         \A p \in Costs : p <= m, Room(b, m), NEW c \in Callers, ReadSpend(c)
  PROVE  Room(b, m)'
<1> DEFINE todo == DOMAIN shown[c] \ DOMAIN seen[c]
<1>1. PICK d \in todo :
        seen' = [seen EXCEPT ![c] = [e \in DOMAIN seen[c] \cup {d} |->
                                     IF e = d THEN spent[d] ELSE seen[c][e]]]
  BY DEF ReadSpend, MostSpecific
<1>2. UNCHANGED <<amount, spent, unchecked, cost, shown>>
  BY DEF ReadSpend, ledger
<1> DEFINE new == [e \in DOMAIN seen[c] \cup {d} |-> IF e = d THEN spent[d] ELSE seen[c][e]]
<1>3. /\ seen'[c] = new /\ \A w \in Callers : w # c => seen'[w] = seen[w]
      /\ c \notin Passed(d)
  BY <1>1 DEF CInv, CheckType, Passed
<1>4. \A w \in Callers : w # c => (w \in Passed(b)' <=> w \in Passed(b))
  BY <1>2, <1>3 DEF Passed
<1>5. CASE c \in Passed(b)' /\ d = b
  <2>1. cost[c] \in Nat /\ cost[c] <= amount[b] - spent[b] + unchecked[b]
    <3>1. spent[b] + cost[c] <= shown[c][b] /\ b \in DOMAIN shown[c]
      BY <1>2, <1>3, <1>5 DEF Passed
    <3>2. shown[c][b] <= amount[b]
      BY <3>1 DEF CInv, Readable
    <3>3. /\ amount[b] \in Nat /\ spent[b] \in Nat /\ unchecked[b] \in Nat
          /\ cost[c] \in Nat /\ shown[c][b] \in Nat
      BY <3>1, PassedFacts, ReadNat DEF TInv
    <3>4. QED
      BY <3>1, <3>2, <3>3
  <2> DEFINE P == Passed(b)'
             s == amount[b] + unchecked[b] - spent[b]
  <2>2. /\ IsFiniteSet(P) /\ Cardinality(P) <= Rivals(b)
        /\ m \in Nat /\ Rivals(b) \in Nat /\ s \in Int
    <3>1. IsFiniteSet(P) /\ Cardinality(P) <= Rivals(b)
      <4>1. P \subseteq {w \in Callers : b \in Matches[w]}
        BY DEF Passed, CInv, CheckType
      <4>2. QED
        BY <4>1, BudgetAssumption, FS_Subset DEF Rivals
    <3>2. QED
      BY <3>1, PassedFacts DEF TInv
  <2>3. c \in P /\ cost[c] <= s /\ cost[c] \in Nat
    BY <1>5, <2>1, <2>2, PassedFacts DEF TInv
  <2> HIDE DEF P, s
  <2>4. RoomFor(s + (Rivals(b) - 1) * m, P, cost, m)
    BY <2>2, <2>3, RoomLast
  <2>5. QED
    BY <2>4, <1>2 DEF Room, Rivals, P, s
<1>6. CASE ~(c \in Passed(b)' /\ d = b)
  <2>1. c \in Passed(b)' <=> c \in Passed(b)
    <3>1. CASE d = b
      BY <1>3, <1>6, <3>1
    <3>2. CASE d # b
      BY <1>2, <1>3, <3>2 DEF Passed
    <3>3. QED
      BY <3>1, <3>2
  <2>2. Passed(b)' = Passed(b)
    BY <1>4, <2>1 DEF Passed
  <2>3. amount[b] \in Nat /\ amount'[b] = amount[b]
    BY <1>2 DEF TInv, TopUpType
  <2>4. QED
    BY <1>2, <2>2, <2>3, RoomSame DEF TInv
<1>7. QED
  BY <1>5, <1>6

LEMMA NewPeriodRoom ==
  ASSUME TInv, CInv, TInv', CInv', NEW b \in Budgets, NEW m \in Costs,
         \A p \in Costs : p <= m, Room(b, m), Rivals(b) > 0, NewPeriod(b)
  PROVE  Room(b, m)'
<1>1. /\ spent'[b] = 0 /\ unchecked'[b] = 0
      /\ amount' = amount /\ cost' = cost /\ Passed(b)' = Passed(b)
  BY DEF NewPeriod, checks, Passed, CInv, CheckType
<1>2. /\ m \in Nat /\ Rivals(b) \in Nat /\ amount[b] \in Nat
      /\ IsFiniteSet(Passed(b)) /\ Cardinality(Passed(b)) <= Rivals(b)
      /\ \A w \in Passed(b) : cost[w] \in Nat /\ cost[w] <= amount[b]
  BY PassedFacts DEF TInv
<1>3. RoomFor(amount[b] + (Rivals(b) - 1) * m, Passed(b), cost, m)
  <2>1. CASE Passed(b) = {}
    <3>1. 0 * m <= (Rivals(b) - 1) * m
      BY <1>2, TimesMonotone
    <3>2. (Rivals(b) - 1) * m \in Int
      BY <1>2
    <3>3. QED
      BY <2>1, <3>1, <3>2, <1>2 DEF RoomFor
  <2>2. CASE Passed(b) # {}
    BY <2>2, <1>2, RoomLast
  <2>3. QED
    BY <2>1, <2>2
<1>4. (amount[b] + unchecked[b] - spent[b] + (Rivals(b) - 1) * m)' =
        amount[b] + (Rivals(b) - 1) * m
  BY <1>1, <1>2 DEF Rivals
<1>5. QED
  BY <1>1, <1>3, <1>4 DEF Room, Rivals

LEMMA RecordSpendRoom ==
  ASSUME TInv, CInv, TInv', CInv', NEW b \in Budgets, NEW m \in Costs,
         \A p \in Costs : p <= m, Room(b, m), NEW c \in Callers, RecordSpend(c)
  PROVE  Room(b, m)'
<1>1. spent[b] \in Nat /\ unchecked[b] \in Nat /\ cost[c] \in Nat
  BY ReadNat DEF CInv, CheckType
<1>2. /\ spent'[b] = IF b \in Matches[c] THEN spent[b] + cost[c] ELSE spent[b]
      /\ unchecked'[b] =
           IF b \in Matches[c] /\ ~(verdict[c] = "allow" /\ b \in DOMAIN seen[c])
           THEN unchecked[b] + cost[c] ELSE unchecked[b]
      /\ Return(c) /\ amount' = amount
  BY DEF RecordSpend
<1>3. CASE verdict[c] = "allow" /\ b \in DOMAIN seen[c]
  <2>1. c \in Passed(b) /\ b \in Matches[c]
    BY <1>3 DEF CInv, Readable, CheckType
  <2>2. unchecked'[b] - spent'[b] >= (unchecked[b] - spent[b]) - cost[c]
    BY <1>1, <1>2, <1>3, <2>1
  <2>3. QED
    BY <1>2, <2>1, <2>2, ReturnRoom DEF TInv
<1>4. CASE ~(verdict[c] = "allow" /\ b \in DOMAIN seen[c])
  <2>1. unchecked'[b] - spent'[b] >= unchecked[b] - spent[b]
    <3>1. CASE b \in Matches[c]
      BY <1>1, <1>2, <1>4, <3>1
    <3>2. CASE b \notin Matches[c]
      BY <1>1, <1>2, <3>2
    <3>3. QED
      BY <3>1, <3>2
  <2>2. QED
    BY <1>2, <2>1, ReturnRoom DEF TInv
<1>5. QED
  BY <1>3, <1>4
LEMMA InitAllRoom == Init => AllRoom
<1> SUFFICES ASSUME Init, NEW b \in Budgets, NEW m \in Costs, Rivals(b) > 0
             PROVE  Room(b, m)
  BY DEF AllRoom
<1>1. Passed(b) = {}
  BY ReadingsFact DEF Init, Passed
<1>2. /\ amount[b] \in Nat /\ spent[b] = 0 /\ unchecked[b] = 0
      /\ m \in Nat /\ Rivals(b) \in Nat
  BY BudgetAssumption, AmountAssumption, FS_CardinalityType, FS_Subset DEF Init, Rivals
<1>3. 0 * m <= (Rivals(b) - 1) * m /\ (Rivals(b) - 1) * m \in Int
  BY <1>2, TimesMonotone
<1>4. QED
  BY <1>1, <1>2, <1>3 DEF Room, RoomFor

LEMMA NextAllRoom ==
  TInv /\ CInv /\ TInv' /\ CInv' /\ AllRoom /\ [Next]_vars => AllRoom'
<1> SUFFICES ASSUME TInv, CInv, TInv', CInv', AllRoom, [Next]_vars,
                    NEW b \in Budgets, NEW m \in Costs,
                    Rivals(b) > 0, \A p \in Costs : p <= m
             PROVE  Room(b, m)'
  BY DEF AllRoom, Rivals
<1>0. Room(b, m) /\ amount[b] \in Nat /\ TopUpType /\ TopUpType'
  BY DEF AllRoom, TInv, TopUpType
<1>1. ASSUME NEW d \in Budgets, CreateBudget(d) PROVE Room(b, m)'
  BY <1>0, <1>1, TopUpsRaise, RoomSame DEF CreateBudget, checks, Passed
<1>2. ASSUME NEW d \in Budgets, NewPeriod(d) PROVE Room(b, m)'
  <2>1. CASE d = b
    BY <1>0, <1>2, <2>1, NewPeriodRoom
  <2>2. CASE d # b
    BY <1>0, <1>2, <2>2, RoomSame DEF NewPeriod, checks, Passed, CInv, CheckType
  <2>3. QED
    BY <2>1, <2>2
<1>3. ASSUME NEW c \in Callers, Begin(c) PROVE Room(b, m)'
  <2>1. /\ c \notin Passed(b) /\ Passed(b)' = Passed(b)
        /\ \A w \in Callers : w # c => cost'[w] = cost[w]
    BY <1>3, ReadingsFact DEF Begin, Passed, CInv, CheckType, Readable
  <2>2. /\ UNCHANGED <<amount, spent, unchecked>>
        /\ \A w \in Passed(b) : cost'[w] = cost[w]
    BY <1>3, <2>1 DEF Begin, ledger, Passed
  <2>3. QED
    BY <1>0, <2>1, <2>2, RoomSame
<1>4. ASSUME NEW c \in Callers, Select(c) PROVE Room(b, m)'
  <2>1. seen[c] = NoBudgets /\ \A w \in Callers : w # c => shown'[w] = shown[w]
    BY <1>4 DEF Select, CInv, CheckType, Readable
  <2>2. UNCHANGED <<amount, spent, unchecked, cost, seen>>
    BY <1>4 DEF Select, ledger
  <2>3. Passed(b)' = Passed(b)
    BY <2>1, <2>2, ReadingsFact DEF Passed
  <2>4. QED
    BY <1>0, <2>2, <2>3, RoomSame
<1>5. ASSUME NEW c \in Callers, ReadSpend(c) PROVE Room(b, m)'
  BY <1>0, <1>5, ReadSpendRoom
<1>6. ASSUME NEW c \in Callers, Evaluate(c) PROVE Room(b, m)'
  <2>1. UNCHANGED <<amount, spent, unchecked>>
    BY <1>6 DEF Evaluate, ledger
  <2>2. CASE Return(c)
    <3>1. unchecked'[b] - spent'[b] >= unchecked[b] - spent[b]
      BY <2>1 DEF CInv, CheckType
    <3>2. QED
      BY <1>0, <2>1, <2>2, <3>1, ReturnRoom
  <2>3. CASE UNCHANGED <<cost, shown, seen>>
    BY <1>0, <2>1, <2>3, RoomSame DEF Passed
  <2>4. QED
    BY <1>6, <2>2, <2>3 DEF Evaluate
<1>7. ASSUME NEW c \in Callers, CheckFails(c) PROVE Room(b, m)'
  BY <1>0, <1>7, RoomSame DEF CheckFails, ledger, Passed
<1>8. ASSUME NEW c \in Callers, Abandon(c) PROVE Room(b, m)'
  <2>1. unchecked'[b] - spent'[b] >= unchecked[b] - spent[b]
    BY <1>8 DEF Abandon, ledger, CInv, CheckType
  <2>2. QED
    BY <1>0, <1>8, <2>1, ReturnRoom DEF Abandon, ledger
<1>9. ASSUME NEW c \in Callers, RecordSpend(c) PROVE Room(b, m)'
  BY <1>0, <1>9, RecordSpendRoom
<1>10. ASSUME NEW x \in Executives, NEW d \in Budgets, LockBudget(x, d) PROVE Room(b, m)'
  BY <1>0, <1>10, RoomSame DEF LockBudget, ledger, checks, Passed
<1>11. ASSUME NEW x \in Executives, CommitTopUp(x) PROVE Room(b, m)'
  BY <1>0, <1>11, TopUpsRaise, RoomSame DEF CommitTopUp, checks, Passed
<1>12. ASSUME NEW x \in Executives, RollbackTopUp(x) PROVE Room(b, m)'
  BY <1>0, <1>12, RoomSame DEF RollbackTopUp, ledger, checks, Passed
<1>13. ASSUME UNCHANGED vars PROVE Room(b, m)'
  BY <1>0, <1>13, RoomSame DEF vars, ledger, checks, Passed
<1>14. QED
  BY <1>1, <1>2, <1>3, <1>4, <1>5, <1>6, <1>7, <1>8, <1>9, <1>10, <1>11, <1>12, <1>13
  DEF Next

(* However many callers check and record against a budget while it is      *)
(* topped up, the calls that passed a check of it overrun it by at most    *)
(* one call of each caller but one.                                        *)
THEOREM BoundedOverrun == Spec => []Overrun
<1>1. Init => TInv /\ CInv /\ AllRoom
  BY InitTInv, InitCInv, InitAllRoom
<1>2. TInv /\ CInv /\ AllRoom /\ [Next]_vars => (TInv /\ CInv /\ AllRoom)'
  BY NextTInv, NextCInv, NextAllRoom
<1>3. TInv /\ CInv /\ AllRoom => Overrun
  <2> SUFFICES ASSUME TInv, CInv, AllRoom, NEW b \in Budgets, NEW m \in Costs,
                      Rivals(b) > 0, \A p \in Costs : p <= m
               PROVE  spent[b] <= amount[b] + unchecked[b] + (Rivals(b) - 1) * m
    BY DEF Overrun
  <2> DEFINE s == amount[b] + unchecked[b] - spent[b] + (Rivals(b) - 1) * m
  <2>1. /\ m \in Nat /\ Rivals(b) \in Nat /\ IsFiniteSet(Passed(b))
        /\ \A w \in Passed(b) : cost[w] \in Nat
        /\ amount[b] \in Nat /\ spent[b] \in Nat /\ unchecked[b] \in Nat
    BY PassedFacts DEF TInv
  <2>2. (Rivals(b) - 1) * m \in Int /\ s \in Int
    BY <2>1
  <2>3. RoomFor(s, Passed(b), cost, m)
    BY DEF AllRoom, Room
  <2>4. 0 <= s
    <3> HIDE DEF s
    <3>1. QED
      BY <2>1, <2>2, <2>3, RoomEnough
  <2>5. QED
    BY <2>1, <2>2, <2>4
<1>4. QED
  BY <1>1, <1>2, <1>3, PTL DEF Spec
----------------------------------------------------------------------------
(* What a decision rests on.                                               *)

(* A call that runs after a completed check was allowed with nothing       *)
(* exceeded, or let through by one of the most specific exceeded budgets.  *)
Justified ==
  \A c \in Callers :
    pc[c] = "run" /\ verdict[c] # NONE =>
      \/ Exceeded(c) = {}
      \/ \E b \in MostSpecific(Exceeded(c)) : Enforces[b] # "block"

\* A check of e is where it was.
Settled(e) == /\ pc'[e] = "run" => pc[e] = "run" \/ verdict'[e] = NONE
              /\ verdict'[e] = verdict[e] /\ cost'[e] = cost[e]
              /\ shown'[e] = shown[e] /\ seen'[e] = seen[e]

LEMMA SettledKeeps ==
  ASSUME Justified, NEW e \in Callers, Settled(e),
         pc'[e] = "run", verdict'[e] # NONE
  PROVE  Exceeded(e)' = {} \/ \E b \in MostSpecific(Exceeded(e)') : Enforces[b] # "block"
<1>1. Exceeded(e)' = Exceeded(e)
  BY DEF Settled, Exceeded
<1>2. QED
  BY <1>1 DEF Settled, Justified

LEMMA NextJustified == CInv /\ Justified /\ [Next]_vars => Justified'
<1> SUFFICES ASSUME CInv, Justified, [Next]_vars, NEW e \in Callers,
                    pc'[e] = "run", verdict'[e] # NONE
             PROVE  Exceeded(e)' = {} \/ \E b \in MostSpecific(Exceeded(e)') :
                                           Enforces[b] # "block"
  BY DEF Justified, MostSpecific
<1> USE DEF CInv
<1>1. CASE UNCHANGED checks
  BY <1>1, SettledKeeps DEF checks, Settled
<1>2. ASSUME NEW c \in Callers, \/ Begin(c) \/ Select(c) \/ ReadSpend(c) \/ Evaluate(c)
                                \/ CheckFails(c) \/ Abandon(c) \/ RecordSpend(c)
      PROVE  Exceeded(e)' = {} \/ \E b \in MostSpecific(Exceeded(e)') : Enforces[b] # "block"
  <2>1. CASE e # c
    <3>1. Settled(e)
      BY <1>2, <2>1 DEF CheckType, Begin, Select, ReadSpend, Evaluate, CheckFails, Abandon,
                        RecordSpend, Return, Settled
    <3>2. QED
      BY <3>1, SettledKeeps
  <2>2. CASE e = c /\ (Begin(c) \/ ReadSpend(c) \/ Abandon(c) \/ RecordSpend(c))
    BY <2>2 DEF CheckType, Begin, ReadSpend, Abandon, RecordSpend, Return
  <2>3. CASE e = c /\ Select(c)
    <3>1. seen'[e] = NoBudgets
      BY <2>3 DEF Select, Readable
    <3>2. QED
      BY <3>1, ReadingsFact DEF Exceeded
  <2>4. CASE e = c /\ CheckFails(c)
    BY <2>4 DEF CheckFails, Readable
  <2>5. CASE e = c /\ Evaluate(c)
    <3>1. PICK d \in Decisions(c) :
            \/ /\ d = "block"
               /\ Return(c)
            \/ /\ d # "block"
               /\ verdict' = [verdict EXCEPT ![c] = d]
               /\ pc' = [pc EXCEPT ![c] = "run"]
               /\ UNCHANGED <<cost, shown, seen>>
      BY <2>5 DEF Evaluate
    <3>2. d # "block" /\ UNCHANGED <<cost, shown, seen>>
      BY <2>5, <3>1 DEF CheckType, Return
    <3>3. Exceeded(e)' = Exceeded(c)
      BY <2>5, <3>2 DEF Exceeded
    <3>4. Exceeded(c) = {} \/ \E b \in MostSpecific(Exceeded(c)) : Enforces[b] = d
      BY <3>1 DEF Decisions
    <3>5. QED
      BY <3>2, <3>3, <3>4
  <2>6. QED
    BY <1>2, <2>1, <2>2, <2>3, <2>4, <2>5
<1>3. QED
  BY <1>1, <1>2 DEF Next, CreateBudget, NewPeriod, LockBudget, CommitTopUp, RollbackTopUp, vars

\* Where budgets meet on a call, those that block are the more specific.
BlocksFirst ==
  \A c \in Callers : \A b, d \in Matches[c] :
    Enforces[b] = "block" /\ Enforces[d] # "block" => Priority[d] < Priority[b]

(* evaluate_budget_set lets the first exceeded budget of the SCOPE_PRIORITY*)
(* order decide alone, so a budget can be masked by a more specific one    *)
(* that only throttles.  That is the only way past a budget that blocks:   *)
(* where those come first on every call, no call goes ahead after a        *)
(* completed check that found one exceeded, whatever runs in between.      *)
THEOREM BlocksUnlessMasked == BlocksFirst => (Spec => []ExceededBlocks)
<1> SUFFICES ASSUME BlocksFirst PROVE Spec => []ExceededBlocks
  OBVIOUS
<1>1. Init => TInv /\ CInv /\ Justified
  BY InitTInv, InitCInv DEF Init, Justified
<1>2. TInv /\ CInv /\ Justified /\ [Next]_vars => (TInv /\ CInv /\ Justified)'
  BY NextTInv, NextCInv, NextJustified
<1>3. CInv /\ Justified => ExceededBlocks
  <2> SUFFICES ASSUME CInv, Justified, NEW c \in Callers, pc[c] = "run", verdict[c] # NONE,
                      NEW b \in Exceeded(c), Enforces[b] = "block"
               PROVE  FALSE
    BY DEF ExceededBlocks
  <2>1. Exceeded(c) \subseteq Matches[c] /\ Matches[c] \subseteq Budgets
    BY BudgetAssumption DEF CInv, CheckType, Exceeded
  <2>2. PICK d \in MostSpecific(Exceeded(c)) : Enforces[d] # "block"
    BY DEF Justified
  <2>3. d \in Exceeded(c) /\ Priority[b] <= Priority[d]
    BY DEF MostSpecific
  <2>4. Priority[d] < Priority[b]
    BY <2>1, <2>2, <2>3 DEF BlocksFirst
  <2>5. Priority[b] \in 1..4 /\ Priority[d] \in 1..4
    BY <2>1, <2>3, BudgetAssumption
  <2>6. QED
    BY <2>3, <2>4, <2>5
<1>4. QED
  BY <1>1, <1>2, <1>3, PTL DEF Spec
=============================================================================
