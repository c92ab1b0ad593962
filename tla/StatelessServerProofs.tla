----------------------- MODULE StatelessServerProofs -----------------------
(***************************************************************************)
(* Proofs about StatelessServer, for any number of scope_ids, instances    *)
(* and applications allowed at a time.                                     *)
(***************************************************************************)
EXTENDS StatelessServer, FiniteSetTheorems, TLAPS

-----------------------------------------------------------------------------
(* The inductive invariant. *)

\* What is in the dictionary or in the checker's copy has been made, and no two
\* instances were made at the same time: the order of the dictionary is total.
MadeInv ==
    /\ \A i \in instances \cup todo : future[i] # "new"
    /\ \A i \in Instance : future[i] # "new" => added[i] < made
    /\ \A i, j \in Instance :
          future[i] # "new" /\ future[j] # "new" /\ added[i] = added[j] => i = j

\* The copy has one entry per scope_id.  While application_exception() is awaited
\* the first of them is the one that raised.  Without an await nothing is deleted
\* behind the checker's back.
CopyInv ==
    /\ \A i, j \in todo : scope[i] = scope[j] => i = j
    /\ checker = "exception" =>
          /\ TRUE \in Suspends
          /\ \A i \in todo : First(i) => future[i] = "error"
    /\ TRUE \notin Suspends /\ checker = "scan" => todo \subseteq instances

Inv ==
    /\ TypeOK
    /\ MadeInv
    /\ CopyInv
    /\ IsFiniteSet(instances)
    /\ AtMostMaxPlusOne

-----------------------------------------------------------------------------
(* Making room. *)

\* delete_oldest_application_instance takes the instances one by one in a total
\* order: who is older than an older one is older, and of two one is.
LEMMA OlderIsOrder ==
    ASSUME TypeOK, MadeInv
    PROVE  /\ \A i, j, k \in instances : Older(i, j) /\ Older(j, k) => Older(i, k)
           /\ \A i \in instances : ~Older(i, i)
           /\ \A i, j \in instances : i # j => Older(i, j) \/ Older(j, i)
  <1>1. \A i \in instances : /\ added[i] \in Nat
                             /\ last_used[i] \in Nat
                             /\ future[i] # "new"
                             /\ i \in Instance
    BY ServerAssumption DEF TypeOK, MadeInv
  <1>2. \A i, j \in instances : i # j => added[i] # added[j]
    BY <1>1 DEF MadeInv
  <1> QED  BY <1>1, <1>2 DEF Older

\* The rank of an instance is a number below the size of the dictionary, and an
\* older instance has a smaller one.
LEMMA RankFacts ==
    ASSUME TypeOK, MadeInv, IsFiniteSet(instances)
    PROVE  /\ \A i \in instances : Rank(i) \in Nat /\ Rank(i) < Cardinality(instances)
           /\ \A i, j \in instances : Older(i, j) => Rank(i) < Rank(j)
  <1> DEFINE Before(i) == {j \in instances : Older(j, i)}
  <1>1. ASSUME NEW i \in instances
        PROVE  /\ IsFiniteSet(Before(i))
               /\ Cardinality(Before(i)) \in Nat
               /\ Cardinality(Before(i)) < Cardinality(instances)
    <2>1. Before(i) \in SUBSET instances
      OBVIOUS
    <2>2. i \notin Before(i)
      BY OlderIsOrder
    <2>3. /\ IsFiniteSet(Before(i))
          /\ Cardinality(Before(i)) <= Cardinality(instances)
          /\ Cardinality(instances) = Cardinality(Before(i)) => instances = Before(i)
      BY <2>1, FS_Subset
    <2>4. Cardinality(Before(i)) \in Nat /\ Cardinality(instances) \in Nat
      BY <2>3, FS_CardinalityType
    <2>5. Cardinality(instances) # Cardinality(Before(i))
      BY <2>2, <2>3
    <2> HIDE DEF Before
    <2> QED  BY <2>3, <2>4, <2>5
  <1>2. ASSUME NEW i \in instances, NEW j \in instances, Older(i, j)
        PROVE  Cardinality(Before(i)) < Cardinality(Before(j))
    <2>1. Before(i) \in SUBSET Before(j) /\ i \in Before(j) /\ i \notin Before(i)
      BY <1>2, OlderIsOrder
    <2>2. /\ Cardinality(Before(i)) <= Cardinality(Before(j))
          /\ Cardinality(Before(j)) = Cardinality(Before(i)) => Before(j) = Before(i)
      BY <2>1, <1>1, FS_Subset
    <2>3. Cardinality(Before(j)) # Cardinality(Before(i))
      BY <2>1, <2>2
    <2>4. Cardinality(Before(i)) \in Nat /\ Cardinality(Before(j)) \in Nat
      BY <1>1
    <2> HIDE DEF Before
    <2> QED  BY <2>2, <2>3, <2>4
  <1> QED  BY <1>1, <1>2 DEF Rank

\* When room is made at most max_applications instances stay: those that stay have
\* different ranks, and only that many ranks are high enough.
LEMMA RoomIsMade ==
    ASSUME TypeOK, MadeInv, IsFiniteSet(instances)
    PROVE  /\ IsFiniteSet(instances \ Reclaimed)
           /\ Cardinality(instances \ Reclaimed) \in Nat
           /\ Cardinality(instances \ Reclaimed) <= MaxApplications
  <1> DEFINE Kept == instances \ Reclaimed
             n == Cardinality(instances)
             High == (n - MaxApplications)..(n - 1)
             f == [i \in Kept |-> Rank(i)]
  <1>1. IsFiniteSet(Kept) /\ Cardinality(Kept) \in Nat /\ n \in Nat
    BY FS_Difference, FS_CardinalityType
  <1>2. IsFiniteSet(High) /\ Cardinality(High) = MaxApplications
    <2>1. n - MaxApplications \in Int /\ n - 1 \in Int
      BY <1>1, ServerAssumption
    <2>2. /\ IsFiniteSet(High)
          /\ Cardinality(High) = IF n - MaxApplications > n - 1 THEN 0
                                 ELSE (n - 1) - (n - MaxApplications) + 1
      BY <2>1, FS_Interval
    <2> HIDE DEF High
    <2> QED  BY <2>2, <1>1, ServerAssumption
  <1>3. f \in [Kept -> High]
    <2>1. \A i \in Kept : Rank(i) \in High
      BY RankFacts, <1>1, ServerAssumption DEF Reclaimed
    <2> QED  BY <2>1
  <1>4. \A i, j \in Kept : i # j => f[i] # f[j]
    <2> SUFFICES ASSUME NEW i \in Kept, NEW j \in Kept, i # j
                 PROVE  Rank(i) # Rank(j)
      OBVIOUS
    <2>1. Rank(i) < Rank(j) \/ Rank(j) < Rank(i)
      BY OlderIsOrder, RankFacts
    <2>2. Rank(i) \in Nat /\ Rank(j) \in Nat
      BY RankFacts
    <2> QED  BY <2>1, <2>2
  <1>5. ~(Cardinality(High) < Cardinality(Kept))
    <2> HIDE DEF High, f, Kept
    <2> QED  BY <1>1, <1>2, <1>3, <1>4, FS_PigeonHole
  <1> HIDE DEF High, f
  <1> QED  BY <1>1, <1>2, <1>5, ServerAssumption

\* delete_application_instance touches a task only if it is running, and leaves none
\* of the deleted ones running.
LEMMA StoppedFacts ==
    ASSUME TypeOK, NEW D
    PROVE  /\ Stopped(D) \in [Instance -> FutureState]
           /\ \A i \in Instance : /\ Stopped(D)[i] = "new" <=> future[i] = "new"
                                  /\ Stopped(D)[i] = "error" <=> future[i] = "error"
                                  /\ i \in D => Stopped(D)[i] # "pending"
  BY DEF Stopped, TypeOK, FutureState

-----------------------------------------------------------------------------
(* Every step keeps the invariant. *)

\* At the start there is nothing.
LEMMA InitInv == Init => Inv
  <1> SUFFICES ASSUME Init PROVE Inv
    OBVIOUS
  <1>1. TypeOK
    BY ServerAssumption DEF Init, TypeOK, FutureState
  <1>2. MadeInv /\ CopyInv
    BY DEF Init, MadeInv, CopyInv, First
  <1>3. IsFiniteSet(instances) /\ AtMostMaxPlusOne
    BY FS_EmptySet, ServerAssumption DEF Init, AtMostMaxPlusOne
  <1> QED  BY <1>1, <1>2, <1>3 DEF Inv

\* Taking entries out of the dictionary keeps its bound.
LEMMA FewerIsFine ==
    ASSUME Inv, instances' \subseteq instances
    PROVE  IsFiniteSet(instances') /\ AtMostMaxPlusOne'
  <1>1. /\ IsFiniteSet(instances')
        /\ Cardinality(instances') <= Cardinality(instances)
    BY FS_Subset DEF Inv
  <1>2. Cardinality(instances') \in Nat /\ Cardinality(instances) \in Nat
    BY <1>1, FS_CardinalityType DEF Inv
  <1> QED  BY <1>1, <1>2, ServerAssumption DEF Inv, AtMostMaxPlusOne

\* The new instance is the last of the order, and the one that may be too many.
LEMMA CreateInv ==
    ASSUME Inv, NEW i \in Instance, Create(i)
    PROVE  Inv'
  <1> USE DEF Create, Added
  <1>1. /\ Stopped(Reclaimed) \in [Instance -> FutureState]
        /\ \A j \in Instance : /\ Stopped(Reclaimed)[j] = "new" <=> future[j] = "new"
                               /\ Stopped(Reclaimed)[j] = "error" <=> future[j] = "error"
    BY StoppedFacts DEF Inv
  <1>2. \A j \in Instance : /\ future'[j] = "new" <=> future[j] = "new" /\ j # i
                            /\ j # i => (future'[j] = "error" <=> future[j] = "error")
                            /\ j # i => added'[j] = added[j]
                            /\ j = i => added'[j] = made
    BY <1>1 DEF Inv, TypeOK
  <1>3. TypeOK'
    <2>1. future' \in [Instance -> FutureState]
      BY <1>1 DEF FutureState
    <2>2. \A j, k \in instances' : scope'[j] = scope'[k] => j = k
      BY DEF Inv, TypeOK
    <2> QED  BY <2>1, <2>2 DEF Inv, TypeOK
  <1>4. MadeInv'
    <2>1. \A j \in instances' \cup todo' : future'[j] # "new"
      BY <1>2 DEF Inv, TypeOK, MadeInv
    <2>2. \A j \in Instance : future'[j] # "new" => added'[j] < made'
      BY <1>2 DEF Inv, TypeOK, MadeInv
    <2>3. \A j, k \in Instance :
             future'[j] # "new" /\ future'[k] # "new" /\ added'[j] = added'[k] => j = k
      BY <1>2 DEF Inv, TypeOK, MadeInv
    <2> QED  BY <2>1, <2>2, <2>3 DEF MadeInv
  <1>5. CopyInv'
    <2>1. \A j \in todo : j \in Instance /\ j # i
      BY DEF Inv, TypeOK, MadeInv
    <2>2. \A j \in todo : First(j)' => First(j)
      BY <1>2, <2>1 DEF First
    <2>3. \A j \in todo : First(j)' /\ checker' = "exception" => future'[j] = "error"
      BY <1>2, <2>1, <2>2 DEF Inv, CopyInv
    <2>4. checker' # "scan"
      BY DEF Free
    <2> QED  BY <2>3, <2>4 DEF Inv, CopyInv
  <1>6. IsFiniteSet(instances') /\ AtMostMaxPlusOne'
    <2>1. /\ IsFiniteSet(instances \ Reclaimed)
          /\ Cardinality(instances \ Reclaimed) \in Nat
          /\ Cardinality(instances \ Reclaimed) <= MaxApplications
      BY RoomIsMade DEF Inv
    <2>2. /\ IsFiniteSet(instances')
          /\ Cardinality(instances') <= Cardinality(instances \ Reclaimed) + 1
      <3>1. /\ IsFiniteSet((instances \ Reclaimed) \cup {i})
            /\ Cardinality((instances \ Reclaimed) \cup {i})
                  = IF i \in instances \ Reclaimed THEN Cardinality(instances \ Reclaimed)
                    ELSE Cardinality(instances \ Reclaimed) + 1
        BY <2>1, FS_AddElement
      <3> QED  BY <2>1, <3>1
    <2>3. Cardinality(instances') \in Nat
      BY <2>2, FS_CardinalityType
    <2> QED  BY <2>1, <2>2, <2>3, ServerAssumption DEF AtMostMaxPlusOne
  <1> QED  BY <1>3, <1>4, <1>5, <1>6 DEF Inv

\* The server's own code uses or deletes an instance, or handle() returns.
LEMMA HandleInv ==
    ASSUME Inv,
           \/ \E id \in ScopeId : Reuse(id)
           \/ \E i \in Instance : Delete(i)
           \/ HandleReturns
    PROVE  Inv'
  <1>1. ASSUME NEW id \in ScopeId, Reuse(id)  PROVE Inv'
    <2>1. TypeOK'
      BY <1>1 DEF Inv, TypeOK, Reuse
    <2>2. MadeInv' /\ CopyInv'
      BY <1>1 DEF Inv, MadeInv, CopyInv, First, Reuse
    <2> QED  BY <1>1, <2>1, <2>2, FewerIsFine DEF Inv, Reuse
  <1>2. ASSUME NEW D,
               instances' \subseteq instances,
               future' = Stopped(D),
               checker' = checker, checker # "scan",
               server' \in {"run", "returned", "failed"},
               UNCHANGED <<added, made, scope, last_used, now, todo>>
        PROVE  Inv'
    <2>1. /\ future' \in [Instance -> FutureState]
          /\ \A i \in Instance : /\ future'[i] = "new" <=> future[i] = "new"
                                 /\ future'[i] = "error" <=> future[i] = "error"
      BY <1>2, StoppedFacts DEF Inv
    <2>2. TypeOK'
      BY <1>2, <2>1 DEF Inv, TypeOK
    <2>3. MadeInv'
      BY <1>2, <2>1 DEF Inv, TypeOK, MadeInv
    <2>4. CopyInv'
      BY <1>2, <2>1 DEF Inv, TypeOK, CopyInv, First
    <2> QED  BY <1>2, <2>2, <2>3, <2>4, FewerIsFine DEF Inv
  <1>3. ASSUME NEW i \in Instance, Delete(i)  PROVE Inv'
    <2>1. /\ Without(scope[i]) \subseteq instances
          /\ checker # "scan"
          /\ server' \in {"run", "returned", "failed"}
      BY <1>3 DEF Delete, Without, Free
    <2> QED  BY <1>2, <1>3, <2>1 DEF Delete
  <1>4. ASSUME HandleReturns  PROVE Inv'
    BY <1>2, <1>4 DEF HandleReturns, Free
  <1> QED  BY <1>1, <1>3, <1>4

\* An application ends, or time passes.
LEMMA EnvironmentInv ==
    ASSUME Inv,
           \/ \E i \in Instance, r \in FutureState : AppEnds(i, r)
           \/ Tick
    PROVE  Inv'
  <1>1. ASSUME NEW i \in Instance, NEW r \in FutureState, AppEnds(i, r)  PROVE Inv'
    <2>1. /\ future' \in [Instance -> FutureState]
          /\ \A j \in Instance : /\ future'[j] = "new" <=> future[j] = "new"
                                 /\ future[j] = "error" => future'[j] = "error"
      BY <1>1 DEF Inv, TypeOK, AppEnds
    <2>2. TypeOK'
      BY <1>1, <2>1 DEF Inv, TypeOK, AppEnds
    <2>3. MadeInv'
      BY <1>1, <2>1 DEF Inv, TypeOK, MadeInv, AppEnds
    <2>4. CopyInv'
      <3>1. \A j \in todo : j \in Instance /\ (First(j)' => First(j))
        BY <1>1 DEF Inv, TypeOK, First, AppEnds
      <3>2. UNCHANGED <<instances, scope, checker, todo>>
        BY <1>1 DEF AppEnds
      <3>3. checker = "exception" => \A j \in todo : First(j)' => future'[j] = "error"
        BY <2>1, <3>1 DEF Inv, CopyInv
      <3> QED  BY <3>2, <3>3 DEF Inv, CopyInv
    <2> QED  BY <1>1, <2>2, <2>3, <2>4, FewerIsFine DEF Inv, AppEnds
  <1>2. ASSUME Tick  PROVE Inv'
    <2>1. TypeOK'
      BY <1>2, ServerAssumption DEF Inv, TypeOK, Tick
    <2>2. MadeInv' /\ CopyInv'
      BY <1>2 DEF Inv, MadeInv, CopyInv, First, Tick
    <2> QED  BY <1>2, <2>1, <2>2, FewerIsFine DEF Inv, Tick
  <1> QED  BY <1>1, <1>2

\* The checker only removes: from its copy, and entries of the scope_id it looks at.
LEMMA CheckerInv ==
    ASSUME Inv, CheckerStep
    PROVE  Inv'
  <1>1. CASE CheckerWakes
    <2>1. TypeOK' /\ MadeInv' /\ CopyInv'
      BY <1>1 DEF Inv, TypeOK, MadeInv, CopyInv, CheckerWakes
    <2> QED  BY <1>1, <2>1, FewerIsFine DEF Inv, CheckerWakes
  <1>2. CASE CheckerSleeps
    <2>1. TypeOK' /\ MadeInv' /\ CopyInv'
      BY <1>2 DEF Inv, TypeOK, MadeInv, CopyInv, CheckerSleeps
    <2> QED  BY <1>2, <2>1, FewerIsFine DEF Inv, CheckerSleeps
  <1>3. ASSUME NEW i \in Instance, SkipRunning(i)  PROVE Inv'
    <2>1. TypeOK'
      BY <1>3 DEF Inv, TypeOK, SkipRunning
    <2>2. MadeInv'
      BY <1>3 DEF Inv, MadeInv, SkipRunning
    <2>3. CopyInv'
      BY <1>3 DEF Inv, CopyInv, SkipRunning
    <2> QED  BY <1>3, <2>1, <2>2, <2>3, FewerIsFine DEF Inv, SkipRunning
  <1>4. ASSUME NEW i \in Instance, RemoveFinished(i) \/ RemoveErrored(i)  PROVE Inv'
    <2>1. /\ i \in todo
          /\ checker' = "scan"
          /\ instances' = {j \in instances : scope[j] # scope[i]}
          /\ todo' = todo \ {i}
          /\ checker = "scan" \/ checker = "exception"
          /\ UNCHANGED <<added, made, scope, future, last_used, now, server>>
      BY <1>4 DEF RemoveFinished, RemoveErrored, Removed, Without, First
    <2>2. TypeOK' /\ MadeInv'
      BY <2>1 DEF Inv, TypeOK, MadeInv
    <2>3. CopyInv'
      <3>1. TRUE \notin Suspends => checker = "scan" /\ todo \subseteq instances
        BY <2>1 DEF Inv, CopyInv
      <3>2. TRUE \notin Suspends => todo' \subseteq instances'
        BY <2>1, <3>1 DEF Inv, CopyInv
      <3> QED  BY <2>1, <3>2 DEF Inv, CopyInv
    <2> QED  BY <2>1, <2>2, <2>3, FewerIsFine DEF Inv
  <1>5. ASSUME NEW i \in Instance, AwaitException(i)  PROVE Inv'
    <2>1. \A j \in todo : First(j) => j = i
      BY <1>5 DEF AwaitException, First, Inv, TypeOK, MadeInv
    <2>2. TypeOK' /\ MadeInv'
      BY <1>5 DEF Inv, TypeOK, MadeInv, AwaitException
    <2>3. CopyInv'
      <3>1. \A j \in todo : First(j)' => First(j)
        BY <1>5 DEF First, AwaitException
      <3> QED  BY <1>5, <2>1, <3>1 DEF Inv, CopyInv, AwaitException
    <2> QED  BY <1>5, <2>2, <2>3, FewerIsFine DEF Inv, AwaitException
  <1>6. ASSUME NEW i \in Instance, CheckerDies(i)  PROVE Inv'
    <2>1. TypeOK' /\ MadeInv' /\ CopyInv'
      BY <1>6 DEF Inv, TypeOK, MadeInv, CopyInv, CheckerDies
    <2> QED  BY <1>6, <2>1, FewerIsFine DEF Inv, CheckerDies
  <1> QED  BY <1>1, <1>2, <1>3, <1>4, <1>5, <1>6 DEF CheckerStep

LEMMA NextInv == Inv /\ [Next]_vars => Inv'
  <1> SUFFICES ASSUME Inv, [Next]_vars PROVE Inv'
    OBVIOUS
  <1>1. CASE Next
    BY <1>1, CreateInv, HandleInv, EnvironmentInv, CheckerInv DEF Next
  <1>2. CASE UNCHANGED vars
    <2>1. TypeOK' /\ MadeInv'
      BY <1>2 DEF Inv, vars, TypeOK, MadeInv
    <2>2. CopyInv'
      BY <1>2 DEF Inv, vars, CopyInv, First
    <2> QED  BY <1>2, <2>1, <2>2, FewerIsFine DEF Inv, vars
  <1> QED  BY <1>1, <1>2

LEMMA Invariance == Spec => []Inv
  BY InitInv, NextInv, PTL DEF Spec

-----------------------------------------------------------------------------
(* The theorems. *)

\* Every value has its type, and the dictionary has one entry per scope_id: the
\* lookup in get_or_create_application_instance comes before every insertion.
THEOREM TypeCorrect == Spec => []TypeOK
  BY Invariance, PTL DEF Inv

\* There are never more than max_applications + 1 instances, whatever the limit and
\* however many have the same last_used.
THEOREM LimitIsKept == Spec => []AtMostMaxPlusOne
  BY Invariance, PTL DEF Inv

\* delete_oldest_application_instance stops nobody who was used later than somebody
\* who stays.
THEOREM OldestIsReclaimed == Spec => LeastRecentlyUsed
  <1>1. Inv /\ [Next]_vars =>
           [\A i \in Instance : Create(i) =>
               \A j \in instances \ instances' :
                   \A k \in instances \cap instances' :
                       last_used[j] <= last_used[k]]_vars
    <2> SUFFICES ASSUME Inv, NEW i \in Instance, Create(i),
                        NEW j \in instances \ instances',
                        NEW k \in instances \cap instances'
                 PROVE  last_used[j] <= last_used[k]
      OBVIOUS
    <2>1. j \in Reclaimed /\ k \notin Reclaimed
      <3>1. future[k] # "new" /\ future[i] = "new"
        BY DEF Inv, MadeInv, Create
      <3> QED  BY <3>1 DEF Create, Added
    <2>2. /\ Rank(j) + MaxApplications < Cardinality(instances)
          /\ ~(Rank(k) + MaxApplications < Cardinality(instances))
      BY <2>1 DEF Reclaimed
    <2>3. /\ Rank(j) \in Nat /\ Rank(k) \in Nat /\ Cardinality(instances) \in Nat
          /\ Older(k, j) => Rank(k) < Rank(j)
      BY RankFacts, FS_CardinalityType DEF Inv
    <2>4. ~Older(k, j)
      BY <2>2, <2>3, ServerAssumption
    <2>5. last_used[j] \in Nat /\ last_used[k] \in Nat
      BY ServerAssumption DEF Inv, TypeOK
    <2> QED  BY <2>4, <2>5 DEF Older
  <1> QED  BY <1>1, Invariance, PTL DEF Spec, LeastRecentlyUsed

\* Whoever leaves the dictionary with its task running and not cancelled was taken
\* for the older instance of the same scope_id that the checker has in its copy,
\* and that takes an application_exception() that awaits.
THEOREM OnlyStaleCopyLoses == Spec => LostOnlyByStaleCopy
  <1>1. Inv /\ [Next]_vars =>
           [\A i \in instances \ instances' :
               future'[i] = "pending" =>
                   /\ TRUE \in Suspends
                   /\ i \notin todo
                   /\ \E h \in todo : First(h) /\ scope[h] = scope[i]]_vars
    <2> SUFFICES ASSUME Inv, Next,
                        NEW i \in instances \ instances', future'[i] = "pending"
                 PROVE  /\ TRUE \in Suspends
                        /\ i \notin todo
                        /\ \E h \in todo : First(h) /\ scope[h] = scope[i]
      BY DEF vars
    <2>1. i \in Instance
      BY DEF Inv, TypeOK
    <2>2. ASSUME NEW j \in Instance, Create(j)  PROVE FALSE
      <3>1. i \in Reclaimed /\ i # j
        BY <2>2 DEF Create, Added
      <3>2. future'[i] = Stopped(Reclaimed)[i]
        BY <2>1, <2>2, <3>1, StoppedFacts DEF Create, Added, Inv
      <3> QED  BY <2>1, <3>1, <3>2, StoppedFacts DEF Inv
    <2>3. ASSUME NEW j \in Instance, Delete(j)  PROVE FALSE
      <3>1. i = j
        BY <2>3 DEF Delete, Without, Inv, TypeOK
      <3> QED  BY <2>1, <2>3, <3>1, StoppedFacts DEF Delete, Inv
    <2>4. PICK h \in Instance : RemoveFinished(h) \/ RemoveErrored(h)
      BY <2>2, <2>3 DEF Next, CheckerStep, Reuse, AppEnds, Tick, HandleReturns,
         CheckerWakes, CheckerSleeps, SkipRunning, AwaitException, CheckerDies
    <2>5. /\ First(h) /\ h \in todo
          /\ scope[h] = scope[i]
          /\ future' = future
      BY <2>4 DEF RemoveFinished, RemoveErrored, Removed, Without, First
    <2>6. future[h] # "pending"
      BY <2>4, <2>5 DEF RemoveFinished, RemoveErrored, Inv, CopyInv
    <2>7. i \notin todo
      BY <2>5, <2>6 DEF Inv, CopyInv
    <2>8. TRUE \in Suspends
      <3> SUFFICES ASSUME TRUE \notin Suspends PROVE FALSE
        OBVIOUS
      <3>1. h \in instances
        BY <2>4, <2>5 DEF RemoveFinished, RemoveErrored, Inv, CopyInv
      <3> QED  BY <3>1, <2>5, <2>6 DEF Inv, TypeOK
    <2> QED  BY <2>5, <2>7, <2>8
  <1> QED  BY <1>1, Invariance, PTL DEF Spec, LostOnlyByStaleCopy

=============================================================================
