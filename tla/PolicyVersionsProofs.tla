------------------------ MODULE PolicyVersionsProofs ------------------------
(***************************************************************************)
(* Theorems about PolicyVersions.  What makes the overlap of applies       *)
(* harmless is that an UPDATE selects the active versions in the order     *)
(* they were committed, without a gap (Gapless): an apply cannot retire a  *)
(* version and leave behind one that this version had replaced.            *)
(***************************************************************************)
EXTENDS PolicyVersions, WellFoundedInduction, TLAPS

Working == {a \in Applies : pc[a] \in {"lock", "commit"}}

Selected(a) == todo[a] \cup held[a]

\* The clock is ahead of what it has dated, and dates no two begins alike.
Times ==
  /\ \A a \in Applies : began[a] < clock /\ ended[a] < clock
  /\ \A a, b \in Applies :
       a # b /\ pc[a] # "idle" /\ pc[b] # "idle" => began[a] # began[b]

\* Rows are selected by open transactions only, and exist when they are.
Rows ==
  /\ active \subseteq Committed
  /\ replaced \subseteq Committed \cup {NONE}
  /\ \A a \in Applies :
       /\ todo[a] \subseteq Committed
       /\ pc[a] # "lock" => todo[a] = {}
       /\ a \notin Working => held[a] = {}

\* An open UPDATE has everything that was committed before it began.
Seen ==
  \A a \in Working, v \in active : ended[v] <= began[a] => v \in Selected(a)

\* With a version it has all active ones that were committed before.
Gapless ==
  \A a \in Working, u, v \in active :
    v \in Selected(a) /\ ended[u] < ended[v] => u \in Selected(a)

\* A replaced version that is still active stands behind a newer one that
\* was also committed later.
Overtaken ==
  \A p \in replaced \cap active :
    \E x \in active : began[p] < began[x] /\ ended[p] < ended[x]

Resolutions ==
  /\ NONE \in replaced => active # {}
  /\ \A c \in Calls : outdated[c] \subseteq replaced
  /\ ResolvesCurrent

IInv ==
  TypeOK /\ Times /\ Rows /\ Seen /\ Gapless /\ NoStaleVersion /\ Overtaken /\ Resolutions

-----------------------------------------------------------------------------
(* The version in force. *)

LEMMA HasNewest ==
  ASSUME NEW S \in SUBSET Applies, S # {}, NEW f \in [Applies -> Nat], NEW n \in Nat,
         \A a \in Applies : f[a] < n
  PROVE  \E v \in S : \A w \in S : f[w] <= f[v]
<1> DEFINE Left == {n - f[a] : a \in S}
<1>1. Left \subseteq Nat /\ Left # {}
  OBVIOUS
<1>2. \E x \in Left : \A y \in Left : <<y, x>> \notin OpToRel(<, Nat)
  BY <1>1, NatLessThanWellFounded, WFMin
<1>3. PICK x \in Left : \A y \in Left : ~ (y < x)
  BY <1>1, <1>2 DEF OpToRel
<1>4. PICK v \in S : x = n - f[v]
  BY <1>3
<1>5. ASSUME NEW w \in S PROVE f[w] <= f[v]
  BY <1>3, <1>4
<1> QED BY <1>5

LEMMA InForceIsNewest ==
  ASSUME TypeOK, Times, active # {}
  PROVE  InForce \in active /\ \A w \in active : began[w] <= began[InForce]
<1>1. \E v \in active : \A w \in active : began[w] <= began[v]
  BY HasNewest DEF TypeOK, Times
<1> QED BY <1>1 DEF InForce

LEMMA InForceIsUnique ==
  ASSUME TypeOK, Times, Rows, NEW v \in active,
         \A w \in active : began[w] <= began[v]
  PROVE  InForce = v
<1>1. InForce \in active /\ began[v] <= began[InForce] /\ began[InForce] <= began[v]
  BY InForceIsNewest
<1>2. began[v] = began[InForce]
  BY <1>1 DEF TypeOK
<1>3. pc[v] # "idle" /\ pc[InForce] # "idle"
  BY <1>1 DEF Rows, Committed
<1> QED BY <1>1, <1>2, <1>3 DEF Times, TypeOK

LEMMA InForceNotReplaced ==
  ASSUME IInv
  PROVE  InForce \notin replaced
<1>1. CASE active = {}
  BY <1>1 DEF IInv, Resolutions, InForce
<1>2. CASE active # {}
  <2>1. InForce \in active /\ \A w \in active : began[w] <= began[InForce]
    BY <1>2, InForceIsNewest DEF IInv
  <2>2. ASSUME InForce \in replaced PROVE FALSE
    <3>1. PICK x \in active : began[InForce] < began[x]
      BY <2>1, <2>2 DEF IInv, Overtaken
    <3>2. began[x] <= began[InForce] /\ began[x] \in Nat /\ began[InForce] \in Nat
      BY <2>1, <3>1 DEF IInv, TypeOK
    <3> QED BY <3>1, <3>2
  <2> QED BY <2>2
<1> QED BY <1>1, <1>2

\* A step that commits nothing leaves the version in force.
LEMMA InForceFrame ==
  ASSUME IInv, active' = active, \A v \in active : began'[v] = began[v]
  PROVE  InForce' = InForce
<1>1. CASE active = {}
  BY <1>1 DEF InForce
<1>2. CASE active # {}
  <2>1. InForce \in active /\ \A w \in active : began[w] <= began[InForce]
    BY <1>2, InForceIsNewest DEF IInv
  <2>2. \E v \in active : \A w \in active : began'[w] <= began'[v]
    BY <2>1
  <2>3. InForce' \in active /\ \A w \in active : began'[w] <= began'[InForce']
    BY <1>2, <2>2 DEF InForce
  <2>4. \A w \in active : began[w] <= began[InForce']
    BY <2>3
  <2> QED BY <2>3, <2>4, InForceIsUnique DEF IInv
<1> QED BY <1>1, <1>2

-----------------------------------------------------------------------------
(* The steps. *)

LEMMA InitHolds == Init => IInv
BY DEF Init, IInv, TypeOK, Times, Rows, Seen, Gapless, NoStaleVersion, Overtaken,
       Resolutions, ResolvesCurrent, Committed, Working, Selected

LEMMA BeginStep ==
  ASSUME IInv, NEW a \in Applies, Begin(a)
  PROVE  IInv'
<1> USE DEF Begin, Goto, rows, callVars
<1>1. /\ Committed' = Committed /\ Working' = Working /\ Working \subseteq Applies
      /\ a \notin Committed /\ a \notin Working
  BY DEF IInv, TypeOK, Committed, Working
<1>2. /\ \A b \in Applies : Selected(b)' = Selected(b)
      /\ \A b \in Applies \ {a} : began'[b] = began[b]
  BY DEF IInv, TypeOK, Selected
<1>3. TypeOK' /\ Times'
  BY DEF IInv, TypeOK, Times
<1>4. Rows'
  BY <1>1 DEF IInv, TypeOK, Rows
<1>5. Seen' /\ Gapless' /\ NoStaleVersion'
  BY <1>1, <1>2 DEF IInv, Seen, Gapless, NoStaleVersion, Working, Committed
<1>6. a \notin active
  BY <1>1 DEF IInv, Rows
<1>7. Overtaken'
  BY <1>2, <1>6 DEF IInv, Overtaken, TypeOK
<1>8. Resolutions'
  BY DEF IInv, Resolutions, ResolvesCurrent
<1> QED BY <1>3, <1>4, <1>5, <1>7, <1>8 DEF IInv

LEMMA UpdateStep ==
  ASSUME IInv, NEW a \in Applies, Update(a)
  PROVE  IInv'
<1> USE DEF Update, Goto, rows, callVars
<1>1. /\ Committed' = Committed /\ Working' = Working \cup {a} /\ Working \subseteq Applies
      /\ Selected(a)' = active \cup held[a]
      /\ \A b \in Applies \ {a} : Selected(b)' = Selected(b)
  BY DEF IInv, TypeOK, Committed, Working, Selected
<1>2. TypeOK' /\ Times'
  BY DEF IInv, TypeOK, Times
<1>3. Rows'
  BY <1>1 DEF IInv, TypeOK, Rows
<1>4. Seen' /\ Gapless' /\ NoStaleVersion'
  BY <1>1 DEF IInv, Seen, Gapless, NoStaleVersion
<1>5. Overtaken' /\ Resolutions'
  BY DEF IInv, Overtaken, Resolutions, ResolvesCurrent
<1> QED BY <1>2, <1>3, <1>4, <1>5 DEF IInv

LEMMA LockRowStep ==
  ASSUME IInv, NEW a \in Applies, LockRow(a)
  PROVE  IInv'
<1> USE DEF LockRow, Obtains, rows, callVars
<1>1. PICK v \in todo[a] :
        /\ \A b \in Applies : v \notin held[b]
        /\ todo' = [todo EXCEPT ![a] = @ \ {v}]
        /\ held' = [held EXCEPT ![a] = @ \cup ({v} \cap active)]
  OBVIOUS
<1>2. /\ Committed' = Committed /\ Working' = Working
      /\ \A b \in Applies \ {a} : Selected(b)' = Selected(b)
      /\ \A u \in active : u \in Selected(a)' <=> u \in Selected(a)
  BY <1>1 DEF IInv, TypeOK, Committed, Working, Selected
<1>3. TypeOK' /\ Times'
  BY <1>1 DEF IInv, TypeOK, Times
<1>4. Rows'
  BY <1>1, <1>2 DEF IInv, TypeOK, Rows, Working
<1>5. Seen' /\ Gapless' /\ NoStaleVersion'
  BY <1>2 DEF IInv, Seen, Gapless, NoStaleVersion, Working
<1>6. Overtaken' /\ Resolutions'
  BY DEF IInv, Overtaken, Resolutions, ResolvesCurrent
<1> QED BY <1>3, <1>4, <1>5, <1>6 DEF IInv

LEMMA InsertStep ==
  ASSUME IInv, NEW a \in Applies, Insert(a)
  PROVE  IInv'
<1> USE DEF Insert, Goto, rows, callVars
<1>1. /\ Committed' = Committed /\ Working' = Working /\ Working \subseteq Applies
      /\ \A b \in Applies : Selected(b)' = Selected(b)
  BY DEF IInv, TypeOK, Committed, Working, Selected
<1>2. TypeOK' /\ Times'
  BY DEF IInv, TypeOK, Times
<1>3. Rows'
  BY <1>1 DEF IInv, TypeOK, Rows
<1>4. Seen' /\ Gapless' /\ NoStaleVersion'
  BY <1>1 DEF IInv, Seen, Gapless, NoStaleVersion
<1>5. Overtaken' /\ Resolutions'
  BY DEF IInv, Overtaken, Resolutions, ResolvesCurrent
<1> QED BY <1>2, <1>3, <1>4, <1>5 DEF IInv

\* Statement errors, lost connections and refused names.
LEMMA RollbackStep ==
  ASSUME IInv, NEW a \in Applies, pc[a] \in {"update", "lock", "commit"}, Rollback(a)
  PROVE  IInv'
<1> USE DEF Rollback, Goto, rows, callVars
<1>1. /\ Committed' = Committed /\ Working' = Working \ {a} /\ Working \subseteq Applies
      /\ \A b \in Applies \ {a} : Selected(b)' = Selected(b)
  BY DEF IInv, TypeOK, Committed, Working, Selected
<1>2. TypeOK' /\ Times'
  BY DEF IInv, TypeOK, Times
<1>3. Rows'
  BY <1>1 DEF IInv, TypeOK, Rows, Working
<1>4. Seen' /\ Gapless' /\ NoStaleVersion'
  BY <1>1 DEF IInv, Seen, Gapless, NoStaleVersion
<1>5. Overtaken' /\ Resolutions'
  BY DEF IInv, Overtaken, Resolutions, ResolvesCurrent
<1> QED BY <1>2, <1>3, <1>4, <1>5 DEF IInv

-----------------------------------------------------------------------------
(* The commit. *)

\* Whoever commits replaces the version in force, or stands behind it.
LEMMA CommitInForce ==
  ASSUME IInv, NEW a \in Applies, Commit(a)
  PROVE  /\ InForce' \in active'
         /\ \A w \in active' : began[w] <= began[InForce']
         /\ InForce' \notin replaced
<1> USE DEF Commit, Goto, rows, callVars
<1>1. active' # {} /\ active' \subseteq Applies /\ a \in active' /\ began' = began
  BY DEF IInv, TypeOK
<1>2. \E v \in active' : \A w \in active' : began[w] <= began[v]
  <2>1. began \in [Applies -> Nat] /\ clock \in Nat /\ \A b \in Applies : began[b] < clock
    BY DEF IInv, TypeOK, Times
  <2> QED BY <1>1, <2>1, HasNewest
<1>3. InForce' \in active' /\ \A w \in active' : began[w] <= began[InForce']
  BY <1>1, <1>2 DEF InForce
<1>4. a \notin replaced
  BY NoneAssumption DEF IInv, Rows, Committed
<1>5. ASSUME InForce' # a, InForce' \in replaced PROVE FALSE
  <2> DEFINE v == InForce'
  <2> HIDE DEF v
  <2>1. v \in active /\ v \notin held[a] /\ v \in replaced
    BY <1>3, <1>5 DEF v
  <2>2. PICK x \in active : began[v] < began[x] /\ ended[v] < ended[x]
    BY <2>1 DEF IInv, Overtaken
  <2>3. ~ (began[x] <= began[v])
    BY <2>1, <2>2 DEF IInv, TypeOK
  <2>4. x \in held[a]
    BY <1>3, <2>2, <2>3 DEF v
  <2>5. a \in Working /\ todo[a] = {}
    BY DEF IInv, Rows, Working
  <2>6. v \in held[a]
    BY <2>1, <2>2, <2>4, <2>5 DEF IInv, Gapless, Selected
  <2> QED BY <2>1, <2>6
<1> QED BY <1>3, <1>4, <1>5

LEMMA CommitStep ==
  ASSUME IInv, NEW a \in Applies, Commit(a)
  PROVE  IInv'
<1> USE DEF Commit, Goto, rows, callVars
<1>1. /\ Committed' = Committed \cup {a} /\ a \notin Committed
      /\ Working' = Working \ {a} /\ a \in Working
      /\ \A b \in Applies \ {a} : Selected(b)' = Selected(b)
      /\ todo[a] = {} /\ Selected(a) = held[a] /\ a \notin active
  BY DEF IInv, TypeOK, Rows, Committed, Working, Selected
<1>2. /\ active' = (active \ held[a]) \cup {a} /\ began' = began
      /\ ended'[a] = clock /\ \A b \in Applies \ {a} : ended'[b] = ended[b]
      /\ \A b \in Applies : began[b] < clock /\ ended[b] < clock
      /\ \A b \in Applies : began[b] \in Nat /\ ended[b] \in Nat /\ ended'[b] \in Nat
      /\ clock \in Nat /\ active \subseteq Applies
  BY DEF IInv, TypeOK, Times
<1>3. InForce \in active \cup {NONE}
  BY InForceIsNewest DEF IInv, InForce
<1>4. replaced' \subseteq replaced \cup {InForce}
  OBVIOUS
<1>5. TypeOK'
  BY <1>2, <1>3, <1>4 DEF IInv, TypeOK
<1>6. Times'
  BY <1>2 DEF IInv, TypeOK, Times
<1>7. Rows'
  <2>1. active' \subseteq Committed' /\ replaced' \subseteq Committed' \cup {NONE}
    BY <1>1, <1>2, <1>3, <1>4 DEF IInv, Rows
  <2>2. \A b \in Applies : todo'[b] \subseteq Committed'
    BY <1>1 DEF IInv, Rows
  <2>3. \A b \in Applies : pc'[b] # "lock" => todo'[b] = {}
    BY <1>1 DEF IInv, Rows, TypeOK
  <2>4. \A b \in Applies : b \notin Working' => held'[b] = {}
    BY <1>1 DEF IInv, Rows, TypeOK
  <2> QED BY <2>1, <2>2, <2>3, <2>4 DEF Rows
<1>8. \A b \in Working' : a \notin Selected(b)'
  BY <1>1 DEF IInv, Rows, Working, Selected, TypeOK
<1>9. Seen'
  <2> SUFFICES ASSUME NEW b \in Working', NEW v \in active', ended'[v] <= began'[b]
               PROVE  v \in Selected(b)'
    BY DEF Seen
  <2>1. v # a /\ b \in Applies \ {a} /\ b \in Working
    BY <1>1, <1>2 DEF Working
  <2> QED BY <2>1, <1>1, <1>2 DEF IInv, Seen
<1>10. Gapless'
  <2> SUFFICES ASSUME NEW b \in Working', NEW u \in active', NEW v \in active',
                      v \in Selected(b)', ended'[u] < ended'[v]
               PROVE  u \in Selected(b)'
    BY DEF Gapless
  <2>1. v # a /\ b \in Applies \ {a} /\ b \in Working
    BY <1>1, <1>8 DEF Working
  <2>2. u # a
    BY <1>2, <2>1
  <2> QED BY <2>1, <2>2, <1>1, <1>2 DEF IInv, Gapless
<1>11. NoStaleVersion'
  <2> SUFFICES ASSUME NEW v \in active', NEW b \in Committed'
               PROVE  began'[b] < ended'[v]
    BY DEF NoStaleVersion
  <2>1. CASE v = a
    BY <2>1, <1>2 DEF Committed
  <2>2. CASE v # a /\ b = a
    BY <2>2, <1>1, <1>2 DEF IInv, Seen
  <2>3. CASE v # a /\ b # a
    BY <2>3, <1>1, <1>2 DEF IInv, NoStaleVersion
  <2> QED BY <2>1, <2>2, <2>3
<1>12. Overtaken'
  <2> SUFFICES ASSUME NEW p \in replaced' \cap active'
               PROVE  \E x \in active' : began'[p] < began'[x] /\ ended'[p] < ended'[x]
    BY DEF Overtaken
  <2>1. CASE p \in replaced
    <3>1. p \in active /\ p \notin held[a] /\ p # a
      BY <2>1, <1>1, <1>2, NoneAssumption DEF IInv, Rows
    <3>2. PICK x \in active : began[p] < began[x] /\ ended[p] < ended[x]
      BY <2>1, <3>1 DEF IInv, Overtaken
    <3>3. x \notin held[a]
      BY <3>1, <3>2, <1>1 DEF IInv, Gapless
    <3>4. x \in active' /\ x # a
      BY <3>2, <3>3, <1>1, <1>2
    <3> QED BY <3>1, <3>2, <3>4, <1>2
  <2>2. CASE p \notin replaced
    <3>1. p = InForce /\ InForce' # InForce
      BY <2>2
    <3>2. p \in active /\ p # a
      BY <3>1, <1>1, <1>3, <1>2, NoneAssumption
    <3>3. \A w \in active : began[w] <= began[p]
      BY <3>1, <3>2, InForceIsNewest DEF IInv
    <3>4. InForce' \in active' /\ \A w \in active' : began[w] <= began[InForce']
      BY CommitInForce
    <3>5. InForce' = a
      <4> SUFFICES ASSUME InForce' # a PROVE FALSE
        OBVIOUS
      <4>1. InForce' \in active
        BY <3>4, <1>2
      <4>2. \A w \in active : began[w] <= began[InForce']
        BY <3>3, <3>4, <4>1, <1>2
      <4>3. InForce = InForce'
        BY <4>1, <4>2, InForceIsUnique DEF IInv
      <4> QED BY <3>1, <4>3
    <3>6. began[p] # began[a]
      BY <3>2, <1>1, <1>2 DEF IInv, Times, Rows, Committed
    <3>7. began[p] <= began[a] /\ a \in active'
      BY <3>4, <3>5, <1>2
    <3> QED BY <3>2, <3>6, <3>7, <1>2
  <2> QED BY <2>1, <2>2
<1>13. Resolutions'
  <2>1. active' # {}
    BY <1>2
  <2>2. \A c \in Calls : outdated'[c] \subseteq replaced'
    BY DEF IInv, Resolutions
  <2>3. ResolvesCurrent'
    BY DEF IInv, Resolutions, ResolvesCurrent
  <2> QED BY <2>1, <2>2, <2>3 DEF Resolutions
<1> QED BY <1>5, <1>6, <1>7, <1>9, <1>10, <1>11, <1>12, <1>13 DEF IInv

-----------------------------------------------------------------------------
(* The resolver. *)

LEMMA ResolverFrame ==
  ASSUME IInv, UNCHANGED applyVars, TypeOK', Resolutions'
  PROVE  IInv'
<1> USE DEF applyVars, rows
<1>1. Times' /\ Rows' /\ NoStaleVersion'
  BY DEF IInv, Times, Rows, NoStaleVersion, Committed, Working
<1>2. Seen' /\ Gapless' /\ Overtaken'
  BY DEF IInv, Seen, Gapless, Overtaken, Working, Selected
<1> QED BY <1>1, <1>2 DEF IInv

LEMMA ArriveStep ==
  ASSUME IInv, NEW c \in Calls, Arrive(c)
  PROVE  IInv'
<1> USE DEF Arrive, applyVars, rows
<1>1. TypeOK'
  BY DEF IInv, TypeOK
<1>2. Resolutions'
  BY DEF IInv, TypeOK, Resolutions, ResolvesCurrent
<1> QED BY <1>1, <1>2, ResolverFrame

LEMMA LookupStep ==
  ASSUME IInv, NEW c \in Calls, Lookup(c)
  PROVE  IInv'
<1> USE DEF Lookup, applyVars, rows
<1>1. InForce \in active \cup {NONE}
  BY InForceIsNewest DEF IInv, InForce
<1>2. TypeOK'
  BY <1>1 DEF IInv, TypeOK
<1>3. found'[c] = InForce /\ InForce \notin replaced
  BY InForceNotReplaced DEF IInv, TypeOK
<1>4. Resolutions'
  BY <1>3 DEF IInv, TypeOK, Resolutions, ResolvesCurrent
<1> QED BY <1>2, <1>4, ResolverFrame

LEMMA SnapshotStep ==
  ASSUME IInv, NEW c \in Calls, Snapshot(c)
  PROVE  IInv'
<1> USE DEF Snapshot, applyVars, rows
<1>1. TypeOK'
  BY DEF IInv, TypeOK
<1>2. Resolutions'
  BY DEF IInv, TypeOK, Resolutions, ResolvesCurrent
<1> QED BY <1>1, <1>2, ResolverFrame

-----------------------------------------------------------------------------
LEMMA NextStep == IInv /\ [Next]_vars => IInv'
<1> SUFFICES ASSUME IInv, [Next]_vars PROVE IInv'
  OBVIOUS
<1>1. ASSUME NEW a \in Applies, Apply(a) PROVE IInv'
  <2>1. CASE Begin(a) BY <2>1, BeginStep
  <2>2. CASE Update(a) BY <2>2, UpdateStep
  <2>3. CASE LockRow(a) BY <2>3, LockRowStep
  <2>4. CASE Insert(a) BY <2>4, InsertStep
  <2>5. CASE InsertRefused(a)
    BY <2>5, RollbackStep DEF InsertRefused
  <2>6. CASE Commit(a) BY <2>6, CommitStep
  <2> QED BY <1>1, <2>1, <2>2, <2>3, <2>4, <2>5, <2>6 DEF Apply
<1>2. ASSUME NEW a \in Applies, Abort(a) PROVE IInv'
  BY <1>2, RollbackStep DEF Abort
<1>3. ASSUME NEW c \in Calls, Arrive(c) \/ Lookup(c) \/ Snapshot(c) PROVE IInv'
  BY <1>3, ArriveStep, LookupStep, SnapshotStep
<1>4. CASE UNCHANGED vars
  <2>1. TypeOK' /\ Resolutions'
    BY <1>4 DEF IInv, TypeOK, Resolutions, ResolvesCurrent, vars
  <2> QED BY <1>4, <2>1, ResolverFrame DEF vars, applyVars, rows
<1> QED BY <1>1, <1>2, <1>3, <1>4 DEF Next

THEOREM Invariance == Spec => []IInv
BY InitHolds, NextStep, PTL DEF Spec

(* Types; and one transaction at most retires a row, while it is active    *)
(* (apply_approval_threshold, policy_controls.py:121).                     *)
THEOREM TypeCorrect == Spec => []TypeOK
BY Invariance, PTL DEF IInv

(* No version stays active behind an apply that began after it was         *)
(* committed, however many applies overlap or fail (policy_controls.py:140).*)
THEOREM NothingStale == Spec => []NoStaleVersion
BY Invariance, PTL DEF IInv

(* An action is checked against a version that governed at some moment     *)
(* since it arrived, and never against none once there is one              *)
(* (policy_resolver.py:57).                                                *)
THEOREM ResolvedCurrent == Spec => []ResolvesCurrent
<1>1. IInv => ResolvesCurrent
  BY DEF IInv, Resolutions
<1> QED BY <1>1, Invariance, PTL

(* Every behaviour of the overlapping transactions is one of the register  *)
(* the kernel relies on: the policy in force changes in single steps, never*)
(* back to an earlier version or to none.                                  *)
THEOREM Refinement == Spec => ImplementsRegister
<1>1. Init => Register!Init
  BY DEF Init, Register!Init, InForce
<1>2. IInv /\ [Next]_vars => [Register!Next]_<<InForce, replaced>>
  <2> SUFFICES ASSUME IInv, [Next]_vars
               PROVE  Register!Next \/ UNCHANGED <<InForce, replaced>>
    OBVIOUS
  <2>1. CASE \E a \in Applies : Commit(a)
    <3>1. PICK a \in Applies : Commit(a)
      BY <2>1
    <3>2. InForce' \in active' /\ InForce' \notin replaced
      BY <3>1, CommitInForce
    <3>3. InForce' \in Applies
      BY <3>1, <3>2 DEF Commit, IInv, TypeOK
    <3>4. CASE InForce' = InForce
      BY <3>1, <3>4 DEF Commit
    <3>5. CASE InForce' # InForce
      BY <3>1, <3>2, <3>3, <3>5 DEF Commit, Register!Next, Register!Activate
    <3> QED BY <3>4, <3>5
  <2>2. CASE ~ \E a \in Applies : Commit(a)
    <3>1. active' = active /\ replaced' = replaced
      BY <2>2 DEF Next, Apply, Begin, Update, LockRow, Insert, InsertRefused, Abort,
                  Rollback, Arrive, Lookup, Snapshot, vars, rows, applyVars
    <3>2. \A v \in active : began'[v] = began[v]
      <4>1. CASE \E a \in Applies : Begin(a)
        BY <4>1 DEF Begin, IInv, Rows, TypeOK, Committed
      <4>2. CASE ~ \E a \in Applies : Begin(a)
        BY <2>2, <4>2 DEF Next, Apply, Update, LockRow, Insert, InsertRefused, Abort,
                          Rollback, Arrive, Lookup, Snapshot, vars, rows, applyVars
      <4> QED BY <4>1, <4>2
    <3> QED BY <3>1, <3>2, InForceFrame
  <2> QED BY <2>1, <2>2
<1> QED BY <1>1, <1>2, Invariance, PTL DEF Spec, ImplementsRegister, Register!Spec

-----------------------------------------------------------------------------
(* Nobody waits in a circle. *)

\* An open apply that no lock is granted to: another transaction holds every
\* row it could take next, or its version name.
HeldUp(a) ==
  /\ pc[a] = "lock"
  /\ \A v \in todo[a] : ~Obtains(a, v)
  /\ todo[a] = {} => ~NameFree(a) /\ ~NameGone(a)

\* While a transaction is open, some open one is at a statement that nobody
\* holds up.
SomeApplyMoves ==
  LET open == {a \in Applies : pc[a] \in {"update", "lock", "commit"}}
  IN  open # {} => \E a \in open : ~HeldUp(a)

\* What an apply has locked is older than what it still waits for.
InOrder == \A a \in Applies : \A h \in held[a], t \in todo[a] : began[h] < began[t]

LEMMA InOrderStep == IInv /\ InOrder /\ [Next]_vars => InOrder'
<1> SUFFICES ASSUME IInv, InOrder, [Next]_vars PROVE InOrder'
  OBVIOUS
<1> USE DEF InOrder, rows, callVars
<1>1. ASSUME NEW a \in Applies, Begin(a) PROVE InOrder'
  <2>1. \A b \in Applies : b # a => began'[b] = began[b]
    BY <1>1 DEF Begin, IInv, TypeOK
  <2>2. a \notin active /\ \A b \in Applies : a \notin todo[b]
    BY <1>1 DEF Begin, IInv, Rows, Committed
  <2>3. \A b \in Applies : a \notin held[b] /\ held[b] \subseteq Applies /\ todo[b] \subseteq Applies
    BY <2>2 DEF IInv, TypeOK
  <2> QED BY <1>1, <2>1, <2>2, <2>3 DEF Begin
<1>2. ASSUME NEW a \in Applies, Update(a) PROVE InOrder'
  <2>1. held[a] = {}
    BY <1>2 DEF Update, IInv, Rows, Working
  <2> QED BY <1>2, <2>1 DEF Update, IInv, TypeOK
<1>3. ASSUME NEW a \in Applies, LockRow(a) PROVE InOrder'
  <2>1. PICK v \in todo[a] :
          /\ \A w \in todo[a] : began[v] <= began[w]
          /\ todo' = [todo EXCEPT ![a] = @ \ {v}]
          /\ held' = [held EXCEPT ![a] = @ \cup ({v} \cap active)]
    BY <1>3 DEF LockRow, Obtains
  <2>2. ASSUME NEW w \in todo[a] \ {v} PROVE began[v] < began[w]
    <3>1. v \in Applies /\ w \in Applies /\ pc[v] = "done" /\ pc[w] = "done"
      BY <2>2 DEF IInv, Rows, Committed
    <3>2. began[v] # began[w] /\ began[v] \in Nat /\ began[w] \in Nat
      BY <2>2, <3>1 DEF IInv, Times, TypeOK
    <3> QED BY <2>1, <3>2
  <2> QED BY <1>3, <2>1, <2>2 DEF LockRow, IInv, TypeOK
<1>4. ASSUME NEW a \in Applies, Insert(a) PROVE InOrder'
  BY <1>4 DEF Insert
<1>5. ASSUME NEW a \in Applies, Rollback(a) PROVE InOrder'
  BY <1>5 DEF Rollback, IInv, TypeOK
<1>6. ASSUME NEW a \in Applies, Commit(a) PROVE InOrder'
  BY <1>6 DEF Commit, IInv, TypeOK
<1>7. ASSUME NEW c \in Calls, Arrive(c) \/ Lookup(c) \/ Snapshot(c) PROVE InOrder'
  BY <1>7 DEF Arrive, Lookup, Snapshot, applyVars
<1>8. ASSUME UNCHANGED vars PROVE InOrder'
  BY <1>8 DEF vars
<1> QED BY <1>1, <1>2, <1>3, <1>4, <1>5, <1>6, <1>7, <1>8
        DEF Next, Apply, InsertRefused, Abort

LEMMA HasOldest ==
  ASSUME NEW S \in SUBSET Applies, S # {}, NEW f \in [Applies -> Nat]
  PROVE  \E v \in S : \A w \in S : f[v] <= f[w]
<1> DEFINE Values == {f[a] : a \in S}
<1>1. Values \subseteq Nat /\ Values # {}
  OBVIOUS
<1>2. \E x \in Values : \A y \in Values : <<y, x>> \notin OpToRel(<, Nat)
  BY <1>1, NatLessThanWellFounded, WFMin
<1>3. PICK x \in Values : \A y \in Values : ~ (y < x)
  BY <1>1, <1>2 DEF OpToRel
<1>4. PICK v \in S : x = f[v]
  BY <1>3
<1>5. ASSUME NEW w \in S PROVE f[v] <= f[w]
  BY <1>3, <1>4
<1> QED BY <1>5

\* If all open transactions were held up, take the youngest row that one of
\* them waits for: its holder waits for a younger one.
LEMMA NoCircle == IInv /\ InOrder => SomeApplyMoves
<1> SUFFICES ASSUME IInv, InOrder,
                    NEW o \in Applies, pc[o] \in {"update", "lock", "commit"},
                    \A a \in Applies : pc[a] \in {"update", "lock", "commit"} => HeldUp(a)
             PROVE  FALSE
  BY DEF SomeApplyMoves
<1> DEFINE Oldest(a, v) == v \in todo[a] /\ \A w \in todo[a] : began[v] <= began[w]
           Awaited == {v \in Applies : \E a \in Applies : pc[a] = "lock" /\ Oldest(a, v)}
<1>1. \A a \in Applies : pc[a] \notin {"update", "commit"}
  BY DEF HeldUp
<1>2. ASSUME NEW a \in Applies, pc[a] = "lock" PROVE todo[a] # {}
  BY <1>1, <1>2 DEF HeldUp, NameFree, NameGone, SameName
<1>3. ASSUME NEW a \in Applies, pc[a] = "lock" PROVE \E v \in Awaited : Oldest(a, v)
  <2>1. todo[a] \in SUBSET Applies /\ began \in [Applies -> Nat]
    BY DEF IInv, TypeOK
  <2>2. \E v \in todo[a] : \A w \in todo[a] : began[v] <= began[w]
    BY <1>2, <1>3, <2>1, HasOldest
  <2> QED BY <1>3, <2>1, <2>2
<1>4. Awaited # {} /\ Awaited \in SUBSET Applies
  BY <1>1, <1>3
<1>5. PICK v \in Awaited : \A w \in Awaited : began[w] <= began[v]
  <2>1. began \in [Applies -> Nat] /\ clock \in Nat /\ \A b \in Applies : began[b] < clock
    BY DEF IInv, TypeOK, Times
  <2> HIDE DEF Awaited
  <2> QED BY <1>4, <2>1, HasNewest
<1>6. PICK a \in Applies : pc[a] = "lock" /\ Oldest(a, v)
  BY <1>5
<1>7. PICK b \in Applies : v \in held[b]
  BY <1>6 DEF HeldUp, Obtains
<1>8. pc[b] = "lock"
  BY <1>1, <1>7 DEF IInv, Rows, Working
<1>9. PICK u \in Awaited : Oldest(b, u)
  BY <1>3, <1>8
<1>10. began[v] < began[u] /\ began[u] <= began[v]
  BY <1>5, <1>7, <1>9 DEF InOrder
<1>11. began[u] \in Nat /\ began[v] \in Nat
  BY <1>5, <1>9 DEF IInv, TypeOK
<1> QED BY <1>10, <1>11

(* However many applies overlap, lock each other's rows, compete for a     *)
(* version name and fail, they never all wait for one another              *)
(* (policy_controls.py:140), provided that every UPDATE takes its rows in  *)
(* the same order (Obtains) and because a version name is only waited for  *)
(* with all rows in hand.  What remains of EveryApplyEnds is fairness.     *)
THEOREM NeverAllWait == Spec => []SomeApplyMoves
<1>1. Init => InOrder
  BY DEF Init, InOrder
<1> QED BY <1>1, InOrderStep, NoCircle, Invariance, InitHolds, NextStep, PTL DEF Spec

=============================================================================
