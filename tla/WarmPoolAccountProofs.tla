------------------------ MODULE WarmPoolAccountProofs ------------------------
(***************************************************************************)
(* Proofs of what the warm pool accounts for: the vCPUs of a node, the     *)
(* VMs of sandboxes and members, and the size of the pool.                 *)
(*                                                                         *)
(* Each is a layer of its own on top of the invariant of WarmPoolProofs.   *)
(* They rest on sums over finite sets, as the community modules define     *)
(* them: a fold that takes out one element after the other.  The sum does  *)
(* not depend on the order.  Induction over the finite subsets is by a     *)
(* smallest counterexample.                                                *)
(***************************************************************************)
EXTENDS WarmPoolProofs, FiniteSetsExt, FiniteSetTheorems

-----------------------------------------------------------------------------
(* Sums over finite sets. *)

\* The sum of a function over a set, as Committed and the needs of the refills are.
SumOver(f, S) == MapThenSumSet(LAMBDA i : f[i], S)

\* The element the fold takes first, and the function that it computes.
First(s) == CHOOSE x \in s : TRUE

Folds(f, S, g) ==
    g = [s \in SUBSET S |-> IF s = {} THEN 0 ELSE f[First(s)] + g[s \ {First(s)}]]

\* A set of subsets of a finite set has a smallest one.
LEMMA LeastSubset ==
    ASSUME NEW S, IsFiniteSet(S), NEW T, T \subseteq SUBSET S, T # {}
    PROVE  \E x \in T : \A y \in T : y \subseteq x => y = x
<1>1. IsWellFoundedOn(StrictSubsetOrdering(S), SUBSET S)
    BY FS_StrictSubsetOrderingWellFounded, FS_FiniteSubsetsOfFinite
<1>2. PICK x \in T : \A y \in T : ~ (<<y, x>> \in StrictSubsetOrdering(S))
    BY <1>1, WFMin
<1>3. \A y \in T : y \subseteq x => y = x
    BY <1>2 DEF StrictSubsetOrdering
<1> QED BY <1>2, <1>3

\* The sum is what the recursive function says, if there is one.
LEMMA SumUnfolds ==
    ASSUME NEW f, NEW S
    PROVE  SumOver(f, S) = (CHOOSE g : Folds(f, S, g))[S]
BY DEF SumOver, MapThenSumSet, MapThenFoldSet, Folds, First

\* Two such functions agree where both are defined.
LEMMA FoldsUnique ==
    ASSUME NEW f, NEW S, IsFiniteSet(S), NEW T \in SUBSET S, NEW g, NEW h,
           Folds(f, S, g), Folds(f, T, h)
    PROVE  \A s \in SUBSET T : g[s] = h[s]
<1> DEFINE bad == {s \in SUBSET T : g[s] # h[s]}
<1> SUFFICES ASSUME bad # {} PROVE FALSE
    OBVIOUS
<1>1. PICK s \in bad : \A t \in bad : t \subseteq s => t = s
    <2>1. bad \subseteq SUBSET S /\ bad # {}
        OBVIOUS
    <2> HIDE DEF bad
    <2> QED BY <2>1, LeastSubset
<1>2. \A t \in SUBSET T : /\ g[t] = IF t = {} THEN 0 ELSE f[First(t)] + g[t \ {First(t)}]
                          /\ h[t] = IF t = {} THEN 0 ELSE f[First(t)] + h[t \ {First(t)}]
    BY DEF Folds
<1>3. s # {}
    BY <1>1, <1>2
<1>4. First(s) \in s
    BY <1>3 DEF First
<1>5. g[s \ {First(s)}] = h[s \ {First(s)}]
    <2>1. s \ {First(s)} \in SUBSET T /\ s \ {First(s)} \subseteq s /\ s \ {First(s)} # s
        BY <1>1, <1>4
    <2> QED BY <1>1, <2>1
<1> QED BY <1>1, <1>2, <1>5

\* There is one, and it computes the sums of the subsets.
LEMMA FoldsExists ==
    ASSUME NEW f, NEW S, IsFiniteSet(S)
    PROVE  \A T \in SUBSET S : \E g : Folds(f, T, g)
<1> DEFINE bad == {T \in SUBSET S : ~ \E g : Folds(f, T, g)}
<1> SUFFICES ASSUME bad # {} PROVE FALSE
    OBVIOUS
<1>1. PICK T \in bad : \A U \in bad : U \subseteq T => U = T
    <2>1. bad \subseteq SUBSET S /\ bad # {}
        OBVIOUS
    <2> HIDE DEF bad
    <2> QED BY <2>1, LeastSubset
<1>2. ASSUME NEW U \in SUBSET T, U # T
      PROVE  /\ \E g : Folds(f, U, g)
             /\ Folds(f, U, CHOOSE g : Folds(f, U, g))
             /\ IsFiniteSet(U)
    <2>1. U \in SUBSET S /\ U \notin bad
        BY <1>1, <1>2
    <2> QED BY <2>1, FS_Subset
<1>3. ASSUME NEW U \in SUBSET T, U # T
      PROVE  SumOver(f, U) = IF U = {} THEN 0 ELSE f[First(U)] + SumOver(f, U \ {First(U)})
    <2> DEFINE g == CHOOSE g : Folds(f, U, g)
    <2>1. Folds(f, U, g) /\ SumOver(f, U) = g[U] /\ IsFiniteSet(U)
        BY <1>2, <1>3, SumUnfolds
    <2>2. g[U] = IF U = {} THEN 0 ELSE f[First(U)] + g[U \ {First(U)}]
        <3> HIDE DEF g
        <3> QED BY <2>1 DEF Folds
    <2>3. CASE U # {}
        <3> DEFINE V == U \ {First(U)}
                   h == CHOOSE h : Folds(f, V, h)
        <3>1. V \in SUBSET T /\ V # T /\ V \in SUBSET U
            BY <1>3
        <3>2. Folds(f, V, h) /\ SumOver(f, V) = h[V]
            BY <1>2, <3>1, SumUnfolds
        <3>3. g[V] = h[V]
            <4> HIDE DEF g, h, V
            <4> QED BY <2>1, <3>1, <3>2, FoldsUnique
        <3> QED BY <2>1, <2>2, <2>3, <3>2, <3>3
    <2> QED BY <2>1, <2>2, <2>3
<1> DEFINE total == [s \in SUBSET T |-> IF s = {} THEN 0
                                        ELSE f[First(s)] + SumOver(f, s \ {First(s)})]
<1>4. ASSUME NEW s \in SUBSET T, s # {}
      PROVE  total[s \ {First(s)}] = SumOver(f, s \ {First(s)})
    <2> DEFINE U == s \ {First(s)}
    <2>1. First(s) \in s
        BY <1>4 DEF First
    <2>2. U \in SUBSET T /\ U # T
        BY <2>1
    <2> QED BY <2>2, <1>3
<1>5. Folds(f, T, total)
    BY <1>4 DEF Folds
<1> QED BY <1>1, <1>5

\* A sum takes out its first element,
LEMMA SumFirst ==
    ASSUME NEW f, NEW S, IsFiniteSet(S)
    PROVE  SumOver(f, S) = IF S = {} THEN 0 ELSE f[First(S)] + SumOver(f, S \ {First(S)})
<1> DEFINE g == CHOOSE g : Folds(f, S, g)
           V == S \ {First(S)}
           h == CHOOSE h : Folds(f, V, h)
<1>1. Folds(f, S, g) /\ SumOver(f, S) = g[S]
    BY FoldsExists, SumUnfolds
<1>2. Folds(f, V, h) /\ SumOver(f, V) = h[V]
    BY FoldsExists, SumUnfolds
<1>3. g[V] = h[V]
    <2>1. V \in SUBSET S
        OBVIOUS
    <2> HIDE DEF g, h, V
    <2> QED BY <1>1, <1>2, <2>1, FoldsUnique
<1>4. g[S] = IF S = {} THEN 0 ELSE f[First(S)] + g[V]
    <2> HIDE DEF g
    <2> QED BY <1>1 DEF Folds
<1> QED BY <1>1, <1>2, <1>3, <1>4

\* is a number,
LEMMA SumType ==
    ASSUME NEW S, IsFiniteSet(S), NEW f, \A x \in S : f[x] \in Int
    PROVE  SumOver(f, S) \in Int
<1> DEFINE bad == {T \in SUBSET S : SumOver(f, T) \notin Int}
<1> SUFFICES ASSUME bad # {} PROVE FALSE
    OBVIOUS
<1>1. PICK T \in bad : \A U \in bad : U \subseteq T => U = T
    <2>1. bad \subseteq SUBSET S /\ bad # {}
        OBVIOUS
    <2> HIDE DEF bad
    <2> QED BY <2>1, LeastSubset
<1>2. SumOver(f, T) = IF T = {} THEN 0 ELSE f[First(T)] + SumOver(f, T \ {First(T)})
    BY FS_Subset, SumFirst
<1>3. T # {} /\ First(T) \in T
    BY <1>1, <1>2 DEF First
<1>4. SumOver(f, T \ {First(T)}) \in Int
    BY <1>1, <1>3
<1> QED BY <1>1, <1>2, <1>3, <1>4

\* and may take out any other element first.
LEMMA SumRemove ==
    ASSUME NEW S, IsFiniteSet(S), NEW f, \A x \in S : f[x] \in Int, NEW x \in S
    PROVE  SumOver(f, S) = f[x] + SumOver(f, S \ {x})
<1> DEFINE bad == {T \in SUBSET S : \E y \in T : SumOver(f, T) # f[y] + SumOver(f, T \ {y})}
<1> SUFFICES ASSUME bad # {} PROVE FALSE
    OBVIOUS
<1>1. PICK T \in bad : \A U \in bad : U \subseteq T => U = T
    <2>1. bad \subseteq SUBSET S /\ bad # {}
        OBVIOUS
    <2> HIDE DEF bad
    <2> QED BY <2>1, LeastSubset
<1>2. PICK y \in T : SumOver(f, T) # f[y] + SumOver(f, T \ {y})
    BY <1>1
<1>3. First(T) \in T
    BY <1>2 DEF First
<1>4. \A U \in SUBSET S : SumOver(f, U) \in Int /\ IsFiniteSet(U)
    BY FS_Subset, SumType
<1> DEFINE z == First(T)
<1>5. SumOver(f, T) = f[z] + SumOver(f, T \ {z})
    BY <1>1, <1>2, <1>4, SumFirst
<1>6. z # y
    BY <1>2, <1>5
<1>7. \A U \in SUBSET T : U # T =>
        \A w \in U : SumOver(f, U) = f[w] + SumOver(f, U \ {w})
    BY <1>1
<1>8. SumOver(f, T \ {z}) = f[y] + SumOver(f, (T \ {z}) \ {y})
    <2>1. T \ {z} \in SUBSET T /\ T \ {z} # T /\ y \in T \ {z}
        BY <1>2, <1>3, <1>6
    <2> QED BY <1>7, <2>1
<1>9. SumOver(f, T \ {y}) = f[z] + SumOver(f, (T \ {z}) \ {y})
    <2>1. T \ {y} \in SUBSET T /\ T \ {y} # T /\ z \in T \ {y}
        BY <1>2, <1>3, <1>6
    <2>2. (T \ {y}) \ {z} = (T \ {z}) \ {y}
        OBVIOUS
    <2> QED BY <1>7, <2>1, <2>2
<1>10. f[y] \in Int /\ f[z] \in Int /\ SumOver(f, (T \ {z}) \ {y}) \in Int
    BY <1>1, <1>2, <1>3, <1>4
<1> HIDE DEF z, bad
<1> QED BY <1>2, <1>5, <1>8, <1>9, <1>10

\* A sum depends on what is summed only.
LEMMA SumSame ==
    ASSUME NEW S, IsFiniteSet(S), NEW f, NEW g, \A x \in S : f[x] = g[x]
    PROVE  SumOver(f, S) = SumOver(g, S)
<1> DEFINE bad == {T \in SUBSET S : SumOver(f, T) # SumOver(g, T)}
<1> SUFFICES ASSUME bad # {} PROVE FALSE
    OBVIOUS
<1>1. PICK T \in bad : \A U \in bad : U \subseteq T => U = T
    <2>1. bad \subseteq SUBSET S /\ bad # {}
        OBVIOUS
    <2> HIDE DEF bad
    <2> QED BY <2>1, LeastSubset
<1>2. /\ SumOver(f, T) = IF T = {} THEN 0 ELSE f[First(T)] + SumOver(f, T \ {First(T)})
      /\ SumOver(g, T) = IF T = {} THEN 0 ELSE g[First(T)] + SumOver(g, T \ {First(T)})
    BY FS_Subset, SumFirst
<1>3. T # {} /\ First(T) \in T
    BY <1>1, <1>2 DEF First
<1>4. SumOver(f, T \ {First(T)}) = SumOver(g, T \ {First(T)})
    BY <1>1, <1>3
<1> QED BY <1>1, <1>2, <1>3, <1>4

\* What one summand's change does to a sum.
LEMMA SumChange ==
    ASSUME NEW S, IsFiniteSet(S), NEW x \in S, NEW f, NEW g,
           \A y \in S : f[y] \in Int /\ g[y] \in Int,
           \A y \in S \ {x} : f[y] = g[y]
    PROVE  SumOver(g, S) = SumOver(f, S) - f[x] + g[x]
<1>1. SumOver(f, S) = f[x] + SumOver(f, S \ {x}) /\ SumOver(g, S) = g[x] + SumOver(g, S \ {x})
    BY SumRemove
<1>2. SumOver(f, S \ {x}) = SumOver(g, S \ {x})
    BY FS_RemoveElement, SumSame
<1>3. SumOver(f, S \ {x}) \in Int
    BY FS_RemoveElement, SumType
<1> QED BY <1>1, <1>2, <1>3

\* Bounded summands have a bounded sum.
LEMMA SumBounded ==
    ASSUME NEW S, IsFiniteSet(S), NEW f, NEW B \in Nat,
           \A x \in S : f[x] \in 0 .. B
    PROVE  SumOver(f, S) \in 0 .. B * Cardinality(S)
<1> DEFINE bad == {T \in SUBSET S : SumOver(f, T) \notin 0 .. B * Cardinality(T)}
<1> SUFFICES ASSUME bad # {} PROVE FALSE
    OBVIOUS
<1>1. PICK T \in bad : \A U \in bad : U \subseteq T => U = T
    <2>1. bad \subseteq SUBSET S /\ bad # {}
        OBVIOUS
    <2> HIDE DEF bad
    <2> QED BY <2>1, LeastSubset
<1>2. SumOver(f, T) = IF T = {} THEN 0 ELSE f[First(T)] + SumOver(f, T \ {First(T)})
    BY FS_Subset, SumFirst
<1>3. T # {} /\ First(T) \in T
    <2>1. B * Cardinality({}) = 0
        BY FS_EmptySet
    <2>2. SumOver(f, T) \notin 0 .. B * Cardinality(T)
        BY <1>1
    <2>3. T # {}
        <3>1. SUFFICES ASSUME T = {} PROVE FALSE
            OBVIOUS
        <3>2. SumOver(f, T) = 0 /\ B * Cardinality(T) = 0
            BY <1>2, <2>1, <3>1
        <3> QED BY <2>2, <3>2
    <2> QED BY <2>3 DEF First
<1> DEFINE U == T \ {First(T)}
<1>4. SumOver(f, U) \in 0 .. B * Cardinality(U)
    BY <1>1, <1>3
<1>5. IsFiniteSet(T) /\ Cardinality(T) \in Nat /\ Cardinality(U) = Cardinality(T) - 1
    BY <1>1, <1>3, FS_Subset, FS_RemoveElement, FS_CardinalityType
<1>6. B * Cardinality(T) = B * Cardinality(U) + B /\ B * Cardinality(U) \in Int
    <2>1. \A d \in Int : B * (d + 1) = B * d + B /\ B * d \in Int
        OBVIOUS
    <2> HIDE DEF U
    <2>2. Cardinality(T) = Cardinality(U) + 1 /\ Cardinality(U) \in Int
        BY <1>5
    <2> QED BY <2>1, <2>2
<1>7. f[First(T)] \in 0 .. B
    BY <1>1, <1>3
<1> HIDE DEF U
<1>8. SumOver(f, T) \in 0 .. B * Cardinality(T)
    <2>1. SumOver(f, T) = f[First(T)] + SumOver(f, U)
        BY <1>2, <1>3 DEF U
    <2> DEFINE a == B * Cardinality(T)
               b == B * Cardinality(U)
    <2>2. a = b + B /\ b \in Int /\ SumOver(f, U) \in 0 .. b
        BY <1>4, <1>6
    <2> HIDE DEF a, b
    <2>3. SumOver(f, T) \in 0 .. a
        BY <2>1, <2>2, <1>7
    <2> QED BY <2>3 DEF a
<1> QED BY <1>1, <1>8

\* Summands that are zero do not count.
LEMMA SumSupport ==
    ASSUME NEW S, IsFiniteSet(S), NEW T \in SUBSET S, NEW f,
           \A x \in S : f[x] \in Int, \A x \in S \ T : f[x] = 0
    PROVE  SumOver(f, S) = SumOver(f, T)
<1> DEFINE bad == {R \in SUBSET S : SumOver(f, R) # SumOver(f, R \cap T)}
<1>1. S \cap T = T
    OBVIOUS
<1> SUFFICES ASSUME bad # {} PROVE FALSE
    BY <1>1
<1>2. PICK R \in bad : \A U \in bad : U \subseteq R => U = R
    <2>1. bad \subseteq SUBSET S /\ bad # {}
        OBVIOUS
    <2> HIDE DEF bad
    <2> QED BY <2>1, LeastSubset
<1>3. IsFiniteSet(R) /\ IsFiniteSet(R \cap T)
    BY <1>2, FS_Subset
<1>4. PICK x \in R : TRUE
    <2>1. CASE R = {}
        <3>1. R \cap T = R
            BY <2>1
        <3> QED BY <1>2, <3>1
    <2> QED BY <2>1
<1> DEFINE U == R \ {x}
<1>5. SumOver(f, U) = SumOver(f, U \cap T)
    BY <1>2, <1>4
<1>6. SumOver(f, R) = f[x] + SumOver(f, U)
    BY <1>2, <1>3, SumRemove
<1>7. SumOver(f, U) \in Int
    BY <1>2, <1>3, FS_RemoveElement, SumType
<1>8. CASE x \in T
    <2>1. (R \cap T) \ {x} = U \cap T
        OBVIOUS
    <2>2. SumOver(f, R \cap T) = f[x] + SumOver(f, (R \cap T) \ {x})
        BY <1>2, <1>3, <1>8, SumRemove
    <2> QED BY <1>2, <1>5, <1>6, <2>1, <2>2
<1>9. CASE x \notin T
    <2>1. R \cap T = U \cap T /\ f[x] = 0
        BY <1>2, <1>4, <1>9
    <2> QED BY <1>2, <1>5, <1>6, <1>7, <2>1
<1> QED BY <1>8, <1>9

-----------------------------------------------------------------------------
(* The vCPUs. *)

\* A request is a resume of a sandbox from a member, or has no source.
ResumeInv ==
    \A c \in calls : c.kind = "resume" => c.id \in Sandbox /\ c.src \in Member

\* A request that has begun starts a VM that does not run yet, and is the only
\* one of its id on its node.
BegunInv ==
    \A c \in calls : c.step = "begun" =>
        /\ c.kind \in {"create", "resume"}
        /\ vm[c.node][c.id] # "running"
        /\ c.kind = "create" => used[c.node][c.id] = Size
        /\ \A d \in calls : d.step = "begun" /\ d.id = c.id /\ d.node = c.node => d = c

Begun(n, i) == \E c \in calls : c.node = n /\ c.id = i /\ c.step = "begun"

\* vCPUs are committed for a VM exactly while it runs or is being started...
LeakInv ==
    \A n \in Node, i \in Id : used[n][i] > 0 <=> vm[n][i] = "running" \/ Begun(n, i)

\* ...fewer than its size only for a sandbox that runs in a member's directory...
HintInv ==
    \A n \in Node, i \in Id :
        vm[n][i] = "running" /\ used[n][i] < Size => i \in Sandbox /\ from[n][i] # None

\* ...and never more than the node has.
CapacityInv == \A n \in Node : Committed(n) <= Capacity

VcpuInv == ResumeInv /\ BegunInv /\ LeakInv /\ HintInv /\ CapacityInv

\* The invariant says that what is committed is right.
LEMMA VcpuInvReserved == VcpuInv => Reserved
BY DEF VcpuInv, LeakInv, HintInv, CapacityInv, Reserved, Begun

\* What a node commits is the sum over its ids.
LEMMA CommittedSum ==
    /\ IsFiniteSet(Id)
    /\ \A n \in Node : Committed(n) = SumOver(used[n], Id)
    /\ \A n \in Node, i \in Id :
          \A v : Fits(n, i, v) <=> v + SumOver(used[n], Id \ {i}) <= Capacity
<1>1. IsFiniteSet(Id)
    BY PoolNodeAssumption, FS_Union DEF Id
<1> QED BY <1>1 DEF Committed, Fits, SumOver

\* Setting the vCPUs of one id to what fits, or to less, keeps the bound.
LEMMA ReserveFits ==
    ASSUME NodeTypeOK, CapacityInv, NEW n \in Node, NEW i \in Id, NEW v \in 0 .. Size,
           Reserve(n, i, v), Fits(n, i, v) \/ v <= used[n][i]
    PROVE  /\ CapacityInv'
           /\ \A k \in Node, j \in Id : used'[k][j] = IF k = n /\ j = i THEN v ELSE used[k][j]
<1>1. \A k \in Node, j \in Id : used'[k][j] = IF k = n /\ j = i THEN v ELSE used[k][j]
    <2>1. used' = [used EXCEPT ![n][i] = v]
        BY DEF Reserve
    <2>2. used \in [Node -> [Id -> 0 .. Size]]
        BY DEF NodeTypeOK
    <2> QED BY <2>1, <2>2, TwoLevels
<1>2. \A k \in Node, j \in Id : used[k][j] \in Int /\ used'[k][j] \in Int
    <2>1. \A k \in Node, j \in Id : used[k][j] \in 0 .. Size
        BY DEF NodeTypeOK
    <2> QED BY <1>1, <2>1, PoolNodeAssumption
<1>3. IsFiniteSet(Id)
    BY CommittedSum
<1>4. ASSUME NEW k \in Node
      PROVE  Committed(k)' <= Capacity
    <2>1. Committed(k)' = SumOver(used'[k], Id) /\ Committed(k) = SumOver(used[k], Id)
        BY DEF Committed, SumOver, MapThenSumSet, MapThenFoldSet
    <2>2. CASE k # n
        <3>1. \A j \in Id : used'[k][j] = used[k][j]
            BY <1>1, <2>2
        <3>2. SumOver(used'[k], Id) = SumOver(used[k], Id)
            BY <1>3, <3>1, SumSame
        <3> QED BY <2>1, <3>2 DEF CapacityInv
    <2>3. CASE k = n
        <3>1. \A j \in Id \ {i} : used[n][j] = used'[n][j]
            BY <1>1
        <3>2. used'[n][i] = v
            BY <1>1
        <3>3. SumOver(used'[n], Id) = SumOver(used[n], Id) - used[n][i] + used'[n][i]
            BY <1>2, <1>3, <3>1, SumChange
        <3>4. SumOver(used[n], Id) = used[n][i] + SumOver(used[n], Id \ {i})
            BY <1>2, <1>3, SumRemove
        <3>5. SumOver(used[n], Id \ {i}) \in Int
            BY <1>2, <1>3, FS_RemoveElement, SumType
        <3>6. Fits(n, i, v) => v + SumOver(used[n], Id \ {i}) <= Capacity
            BY CommittedSum
        <3>7. SumOver(used[n], Id) <= Capacity
            BY <2>1, <2>3 DEF CapacityInv
        <3>8. used[n][i] \in Int /\ v \in Int /\ Capacity \in Int
            BY <1>2, PoolNodeAssumption
        <3>9. SumOver(used'[n], Id) <= Capacity
            BY <3>2, <3>3, <3>4, <3>5, <3>6, <3>7, <3>8
        <3> QED BY <2>1, <2>3, <3>9
    <2> QED BY <2>2, <2>3
<1>5. CapacityInv'
    BY <1>4 DEF CapacityInv
<1> QED BY <1>1, <1>5

\* What is committed depends on the reservations only.
LEMMA CapacityKept ==
    ASSUME CapacityInv, UNCHANGED used
    PROVE  CapacityInv'
<1>1. \A n \in Node : Committed(n)' = Committed(n)
    BY DEF Committed, MapThenSumSet, MapThenFoldSet
<1> QED BY <1>1 DEF CapacityInv

\* What a replica does to the nodes: it sends requests, and takes answers or
\* gives up requests that wait for their turn.
Sends ==
    /\ UNCHANGED <<vm, from, used>>
    /\ \A c \in calls : c.step = "begun" => c \in calls'
    /\ \A c \in calls' :
        \/ c \in calls
        \/ c.step = "queued" /\ (c.kind = "resume" => c.id \in Sandbox /\ c.src \in Member)

LEMMA SendsVcpus ==
    ASSUME VcpuInv, Sends
    PROVE  VcpuInv'
<1> USE DEF VcpuInv, Sends
<1>1. ResumeInv'
    BY DEF ResumeInv
<1>2. BegunInv'
    BY DEF BegunInv
<1>3. LeakInv'
    BY DEF LeakInv, Begun
<1>4. HintInv'
    BY DEF HintInv
<1>5. CapacityInv'
    BY CapacityKept
<1> QED BY <1>1, <1>2, <1>3, <1>4, <1>5

LEMMA RefillingSends ==
    ASSUME Control, NEW w \in Worker, Refilling(w)
    PROVE  Sends
<1>1. CASE Replenish(w)
    BY <1>1 DEF Replenish, nodeVars, Sends
<1>2. CASE MakeMember(w)
    BY <1>2 DEF MakeMember, Sends, Asked
<1>3. CASE MemberRuns(w)
    BY <1>3 DEF MemberRuns, Sends, Asked, Answer
<1>4. CASE MemberElsewhere(w)
    BY <1>4 DEF MemberElsewhere, Sends, Answer
<1>5. CASE MemberWarm(w)
    BY <1>5 DEF MemberWarm, Sends, Answer
<1>6. CASE MemberFails(w)
    BY <1>6 DEF MemberFails, Sends, Answer
<1> QED BY <1>1, <1>2, <1>3, <1>4, <1>5, <1>6 DEF Refilling

LEMMA CreatingSends ==
    ASSUME Control, NEW w \in Worker, Creating(w)
    PROVE  Sends
<1>1. CASE ClaimAgain(w) \/ ClaimMember(w)
    BY <1>1 DEF ClaimAgain, ClaimMember, nodeVars, Sends
<1>2. job[w].pc \in {"journal", "resume"} => job[w].sb \in Sandbox /\ job[w].src \in Member
    BY DEF Control, TypeOK, Job, JobInv
<1>3. CASE ClaimJournal(w)
    BY <1>2, <1>3 DEF ClaimJournal, Sends, Asked
<1>4. CASE ClaimRetries(w)
    BY <1>2, <1>4 DEF ClaimRetries, Sends, Asked, Answer
<1>5. CASE ClaimClear(w)
    BY <1>5 DEF ClaimClear, Sends, Answer
<1>6. CASE ClaimFinish(w)
    BY <1>6 DEF ClaimFinish, Sends, Answer
<1>7. CASE Place(w)
    <2>1. \/ calls' = calls
          \/ \E n : calls' = calls \cup {Asked(job[w].sb, n, "create", None)}
        BY <1>7 DEF Place
    <2>2. UNCHANGED <<vm, from, used>>
        BY <1>7 DEF Place
    <2> QED BY <2>1, <2>2 DEF Sends, Asked
<1>8. CASE Booted(w)
    BY <1>8 DEF Booted, Sends, Answer
<1>9. CASE Elsewhere(w)
    BY <1>9 DEF Elsewhere, Sends, Answer
<1>10. CASE BootFails(w)
    BY <1>10 DEF BootFails, Sends, Answer
<1>11. CASE Destroyed(w)
    BY <1>11 DEF Destroyed, Sends, Answer
<1>12. CASE DestroyFails(w)
    BY <1>12 DEF DestroyFails, Sends, Answer
<1> QED BY <1>1, <1>3, <1>4, <1>5, <1>6, <1>7, <1>8, <1>9, <1>10, <1>11, <1>12
    DEF Creating

\* Only a crash gives up a request that has begun, and a step of a handler
\* carries one on.
LEMMA StepSends ==
    ASSUME Control, [Next]_vars,
           ~(Handler /\ UNCHANGED <<leaderVars, item, rec, job, refill, lost>>),
           \A w \in Worker : ~Crash(w)
    PROVE  Sends
<1>1. CASE LockExpires
    BY <1>1 DEF LockExpires, Sends
<1>2. ASSUME NEW s \in Sandbox, DeleteUnplaced(s) PROVE Sends
    BY <1>2 DEF DeleteUnplaced, nodeVars, Sends
<1>3. ASSUME NEW w \in Worker, Lead(w) \/ LeadFails(w) PROVE Sends
    BY <1>3 DEF Lead, LeadFails, nodeVars, Sends
<1>4. ASSUME NEW w \in Worker, NEW s \in Sandbox, Create(w, s) \/ Delete(w, s) PROVE Sends
    BY <1>4 DEF Create, Delete, Sends, Asked
<1>5. CASE UNCHANGED vars
    BY <1>5 DEF vars, nodeVars, Sends
<1> QED BY <1>1, <1>2, <1>3, <1>4, <1>5, RefillingSends, CreatingSends DEF Next

\* A replica's death gives up requests, and the nodes go on with them.
LEMMA CrashVcpus ==
    ASSUME Control, VcpuInv, NEW w \in Worker, Crash(w)
    PROVE  VcpuInv'
<1> USE DEF VcpuInv
<1> DEFINE ids == {job[w].sb, refill[w].id}
           mine == {c \in calls : c.heard /\ c.id \in ids}
<1>1. /\ UNCHANGED <<vm, from, used>>
      /\ calls' = (calls \ mine) \cup
             {[c EXCEPT !.heard = FALSE] : c \in {d \in mine : d.step \in {"queued", "begun"}}}
    BY DEF Crash
<1>2. calls \subseteq Call
    BY DEF Control, TypeOK, NodeTypeOK
<1>3. \A d \in calls' :
        \/ d \in calls \ mine
        \/ \E c \in mine : d = [c EXCEPT !.heard = FALSE]
    BY <1>1
<1>4. \A d \in calls' : \E c \in calls :
        /\ d.id = c.id /\ d.node = c.node /\ d.kind = c.kind /\ d.src = c.src /\ d.step = c.step
        /\ IF c \in mine THEN d = [c EXCEPT !.heard = FALSE] ELSE d = c
    BY <1>2, <1>3 DEF Call
<1>5. \A c \in calls : c.step = "begun" => \E d \in calls' :
        d.id = c.id /\ d.node = c.node /\ d.step = c.step
    <2> SUFFICES ASSUME NEW c \in calls, c.step = "begun"
                 PROVE  \E d \in calls' : d.id = c.id /\ d.node = c.node /\ d.step = c.step
        OBVIOUS
    <2>1. CASE c \in mine
        <3>1. [c EXCEPT !.heard = FALSE] \in calls'
            BY <1>1, <2>1
        <3> QED BY <1>2, <3>1 DEF Call
    <2>2. CASE c \notin mine
        BY <1>1, <2>2
    <2> QED BY <2>1, <2>2
<1> HIDE DEF mine
<1>6. ResumeInv'
    BY <1>4 DEF ResumeInv
<1>7. BegunInv'
    <2> SUFFICES ASSUME NEW d \in calls', d.step = "begun"
                 PROVE  /\ d.kind \in {"create", "resume"}
                        /\ vm'[d.node][d.id] # "running"
                        /\ d.kind = "create" => used'[d.node][d.id] = Size
                        /\ \A e \in calls' :
                              e.step = "begun" /\ e.id = d.id /\ e.node = d.node => e = d
        BY DEF BegunInv
    <2>1. PICK c \in calls :
            /\ d.id = c.id /\ d.node = c.node /\ d.kind = c.kind /\ d.src = c.src /\ d.step = c.step
            /\ IF c \in mine THEN d = [c EXCEPT !.heard = FALSE] ELSE d = c
        BY <1>4
    <2>2. \A e \in calls' : e.step = "begun" /\ e.id = d.id /\ e.node = d.node => e = d
        <3> SUFFICES ASSUME NEW e \in calls', e.step = "begun", e.id = d.id, e.node = d.node
                     PROVE  e = d
            OBVIOUS
        <3>1. PICK b \in calls :
                /\ e.id = b.id /\ e.node = b.node /\ e.step = b.step
                /\ IF b \in mine THEN e = [b EXCEPT !.heard = FALSE] ELSE e = b
            BY <1>4
        <3>2. b = c
            BY <2>1, <3>1 DEF BegunInv
        <3> QED BY <2>1, <3>1, <3>2
    <2> QED BY <1>1, <2>1, <2>2 DEF BegunInv
<1>8. LeakInv'
    <2>1. \A n \in Node, i \in Id : Begun(n, i)' => Begun(n, i)
        BY <1>4 DEF Begun
    <2>2. \A n \in Node, i \in Id : Begun(n, i) => Begun(n, i)'
        BY <1>5 DEF Begun
    <2> QED BY <1>1, <2>1, <2>2 DEF LeakInv
<1>9. HintInv'
    BY <1>1 DEF HintInv
<1>10. CapacityInv'
    BY <1>1, CapacityKept
<1> QED BY <1>6, <1>7, <1>8, <1>9, <1>10

-----------------------------------------------------------------------------
(* The handlers and the vCPUs. *)

\* What a request turns into, and where it was.
LEMMA CallFields ==
    ASSUME NodeTypeOK, NEW c \in calls
    PROVE  /\ calls \subseteq Call /\ c \in Call
           /\ c.node \in Node /\ c.id \in Id /\ c.heard \in BOOLEAN
           /\ \A k : LET d == [c EXCEPT !.step = k]
                     IN  /\ d.id = c.id /\ d.node = c.node /\ d.kind = c.kind /\ d.src = c.src
                         /\ d.heard = c.heard /\ d.step = k
           /\ LET d == [c EXCEPT !.heard = FALSE]
              IN  /\ d.id = c.id /\ d.node = c.node /\ d.kind = c.kind /\ d.src = c.src
                  /\ ~d.heard /\ d.step = c.step
BY DEF NodeTypeOK, Call

\* A request goes on, as done or begun: the others stay.
Moves(c, k) ==
    /\ \A d \in calls' : d \in calls \ {c} \/ d = [c EXCEPT !.step = k]
    /\ \A d \in calls \ {c} : d \in calls'
    /\ k = "begun" => [c EXCEPT !.step = k] \in calls'

\* What a handler does to the vCPUs: it begins, turns away, finishes or ends.
LEMMA MovesVcpus ==
    ASSUME NodeTypeOK, VcpuInv, CapacityInv', NEW c \in calls, NEW k,
           Moves(c, k), k # "queued",
           \A d \in calls : d.id = c.id /\ d.node = c.node /\ d.step = "begun" => d = c,
           k = "begun" => /\ c.step # "begun"
                          /\ c.kind \in {"create", "resume"}
                          /\ vm'[c.node][c.id] # "running"
                          /\ c.kind = "create" => used'[c.node][c.id] = Size,
           \A n \in Node, i \in Id : ~(n = c.node /\ i = c.id) =>
              /\ used'[n][i] = used[n][i]
              /\ vm'[n][i] = "running" <=> vm[n][i] = "running"
              /\ i \in Sandbox => from'[n][i] = from[n][i],
           used'[c.node][c.id] > 0 <=> vm'[c.node][c.id] = "running" \/ k = "begun",
           vm'[c.node][c.id] = "running" /\ used'[c.node][c.id] < Size =>
              c.id \in Sandbox /\ from'[c.node][c.id] # None
    PROVE  VcpuInv'
<1> USE DEF VcpuInv
<1> DEFINE e == [c EXCEPT !.step = k]
<1>1. /\ e.id = c.id /\ e.node = c.node /\ e.kind = c.kind /\ e.src = c.src /\ e.step = k
      /\ c.node \in Node /\ c.id \in Id
    BY CallFields
<1>2. \A d \in calls' : d \in calls \ {c} \/ (d = e /\ d \in calls')
    BY DEF Moves
<1>3. k = "begun" => e \in calls'
    BY DEF Moves
<1> HIDE DEF e
<1>4. \A d \in calls : d.node \in Node /\ d.id \in Id
    BY CallFields
<1>5. ResumeInv'
    BY <1>1, <1>2 DEF ResumeInv
<1>6. BegunInv'
    <2> SUFFICES ASSUME NEW d \in calls', d.step = "begun"
                 PROVE  /\ d.kind \in {"create", "resume"}
                        /\ vm'[d.node][d.id] # "running"
                        /\ d.kind = "create" => used'[d.node][d.id] = Size
                        /\ \A b \in calls' :
                              b.step = "begun" /\ b.id = d.id /\ b.node = d.node => b = d
        BY DEF BegunInv
    <2>1. CASE d = e
        BY <1>1, <1>2, <2>1
    <2>2. CASE d # e
        <3>1. d \in calls \ {c}
            BY <1>2, <2>2
        <3>2. ~(d.node = c.node /\ d.id = c.id)
            BY <3>1
        <3>3. /\ d.kind \in {"create", "resume"}
              /\ vm[d.node][d.id] # "running"
              /\ d.kind = "create" => used[d.node][d.id] = Size
              /\ \A b \in calls : b.step = "begun" /\ b.id = d.id /\ b.node = d.node => b = d
            BY <3>1 DEF BegunInv
        <3> QED BY <1>1, <1>2, <1>4, <3>1, <3>2, <3>3
    <2> QED BY <2>1, <2>2
<1>7. ASSUME NEW n \in Node, NEW i \in Id
      PROVE  used'[n][i] > 0 <=> vm'[n][i] = "running" \/ Begun(n, i)'
    <2>1. CASE n = c.node /\ i = c.id
        <3>1. Begun(n, i)' <=> k = "begun"
            BY <1>1, <1>2, <1>3, <2>1 DEF Begun
        <3> QED BY <2>1, <3>1
    <2>2. CASE ~(n = c.node /\ i = c.id)
        <3>1. Begun(n, i)' <=> Begun(n, i)
            BY <1>1, <1>2, <2>2 DEF Begun, Moves
        <3> QED BY <2>2, <3>1 DEF LeakInv
    <2> QED BY <2>1, <2>2
<1>8. LeakInv'
    BY <1>7 DEF LeakInv
<1>9. HintInv'
    BY DEF HintInv
<1> QED BY <1>5, <1>6, <1>8, <1>9

\* An answer is one such step.
LEMMA ReplyMoves ==
    ASSUME NodeTypeOK, NEW c \in calls, NEW k, k # "begun", Reply(c, k)
    PROVE  Moves(c, k)
BY DEF Reply, Moves

\* What it means that a request starts.
LEMMA StartsAlone ==
    ASSUME NodeTypeOK, NEW c \in calls, NEW kind, Starts(c, kind)
    PROVE  /\ c.kind = kind /\ c.step = "queued"
           /\ \A d \in calls : d.id = c.id /\ d.node = c.node => d.step # "begun"
           /\ ~Begun(c.node, c.id)
BY DEF Starts, Begun

LEMMA AdmitCreateVcpus ==
    ASSUME NodeTypeOK, VcpuInv, NEW c \in calls, AdmitCreate(c)
    PROVE  VcpuInv'
<1> USE DEF VcpuInv
<1>1. /\ c.node \in Node /\ c.id \in Id
      /\ c.kind = "create" /\ c.step = "queued" /\ ~Begun(c.node, c.id)
      /\ \A d \in calls : d.id = c.id /\ d.node = c.node => d.step # "begun"
    BY CallFields, StartsAlone DEF AdmitCreate
<1>2. UNCHANGED <<vm, from>>
    BY DEF AdmitCreate
<1>3. CASE UNCHANGED used /\ \E k \in {"ok", "full"} : Reply(c, k)
    <2>1. PICK k \in {"ok", "full"} : Reply(c, k)
        BY <1>3
    <2>2. Moves(c, k)
        BY <2>1, ReplyMoves
    <2>3. CapacityInv'
        BY <1>3, CapacityKept
    <2>4. /\ used[c.node][c.id] > 0 <=> vm[c.node][c.id] = "running"
          /\ vm[c.node][c.id] = "running" /\ used[c.node][c.id] < Size =>
                c.id \in Sandbox /\ from[c.node][c.id] # None
        BY <1>1 DEF LeakInv, HintInv
    <2> QED BY <1>1, <1>2, <1>3, <2>2, <2>3, <2>4, MovesVcpus
<1>4. CASE /\ vm[c.node][c.id] # "running"
           /\ Fits(c.node, c.id, Size) /\ Reserve(c.node, c.id, Size)
           /\ calls' = (calls \ {c}) \cup {[c EXCEPT !.step = "begun"]}
    <2>1. Moves(c, "begun")
        BY <1>4 DEF Moves
    <2>2. Size \in 0 .. Size /\ Size > 0
        BY PoolNodeAssumption
    <2>3. /\ CapacityInv'
          /\ \A n \in Node, i \in Id :
                used'[n][i] = IF n = c.node /\ i = c.id THEN Size ELSE used[n][i]
        BY <1>1, <1>4, <2>2, ReserveFits
    <2> QED BY <1>1, <1>2, <1>4, <2>1, <2>2, <2>3, MovesVcpus
<1> QED BY <1>3, <1>4 DEF AdmitCreate

LEMMA BecomeRuns ==
    ASSUME NodeTypeOK, NEW n \in Node, NEW i \in Id, NEW k, Become(n, i, k)
    PROVE  \A m \in Node, j \in Id : vm'[m][j] = IF m = n /\ j = i THEN k ELSE vm[m][j]
<1>1. vm' = [vm EXCEPT ![n][i] = k]
    BY DEF Become
<1>2. vm \in [Node -> [Id -> {"none", "running", "suspended"}]]
    BY DEF NodeTypeOK
<1> QED BY <1>1, <1>2, TwoLevels

LEMMA BootVcpus ==
    ASSUME NodeTypeOK, VcpuInv, NEW c \in calls, Boot(c)
    PROVE  VcpuInv'
<1> USE DEF VcpuInv
<1>1. /\ c.node \in Node /\ c.id \in Id
      /\ c.kind = "create" /\ c.step = "begun" /\ used[c.node][c.id] = Size
      /\ \A d \in calls : d.id = c.id /\ d.node = c.node /\ d.step = "begun" => d = c
    BY CallFields DEF Boot, BegunInv
<1>2. UNCHANGED <<used, from>> /\ Moves(c, "ok")
    BY ReplyMoves DEF Boot
<1>3. \A m \in Node, j \in Id :
        vm'[m][j] = IF m = c.node /\ j = c.id THEN "running" ELSE vm[m][j]
    BY <1>1, BecomeRuns DEF Boot
<1>4. CapacityInv'
    BY <1>2, CapacityKept
<1>5. Size \in Int /\ Size > 0
    BY PoolNodeAssumption
<1> QED BY <1>1, <1>2, <1>3, <1>4, <1>5, MovesVcpus

\* A sandbox that comes up runs from a member; nothing else comes up or goes.
LEMMA AdoptEffect ==
    ASSUME NodeTypeOK, NEW c \in calls, c.id \in Sandbox, c.src \in Member, Adopt(c)
    PROVE  /\ \A n \in Node, i \in Id :
                vm'[n][i] = "running" <=> vm[n][i] = "running" \/ (n = c.node /\ i = c.id)
           /\ \A n \in Node, s \in Sandbox :
                from'[n][s] = IF n = c.node /\ s = c.id THEN c.src ELSE from[n][s]
<1>1. c.node \in Node /\ c.id \in Id
    BY CallFields
<1>2. vm' = [vm EXCEPT ![c.node] =
                 [i \in Id |-> IF i = c.id THEN "running"
                               ELSE IF i = c.src /\ vm[c.node][i] = "suspended" THEN "none"
                               ELSE vm[c.node][i]]]
    BY DEF Adopt
<1>3. \A n \in Node, i \in Id :
        vm'[n][i] = "running" <=> vm[n][i] = "running" \/ (n = c.node /\ i = c.id)
    <2> SUFFICES ASSUME NEW n \in Node, NEW i \in Id
                 PROVE  vm'[n][i] = "running" <=>
                            vm[n][i] = "running" \/ (n = c.node /\ i = c.id)
        OBVIOUS
    <2>1. CASE n # c.node
        BY <1>2, <2>1 DEF NodeTypeOK
    <2>2. CASE n = c.node
        <3>1. vm'[n][i] = IF i = c.id THEN "running"
                          ELSE IF i = c.src /\ vm[n][i] = "suspended" THEN "none"
                          ELSE vm[n][i]
            BY <1>2, <2>2 DEF NodeTypeOK
        <3> QED BY <2>2, <3>1
    <2> QED BY <2>1, <2>2
<1>4. from' = [from EXCEPT ![c.node][c.id] = c.src]
    BY DEF Adopt
<1>5. \A n \in Node, s \in Sandbox :
        from'[n][s] = IF n = c.node /\ s = c.id THEN c.src ELSE from[n][s]
    BY <1>1, <1>4, TwoLevels DEF NodeTypeOK
<1> QED BY <1>3, <1>5

LEMMA AdmitResumeVcpus ==
    ASSUME NodeTypeOK, VcpuInv, NEW c \in calls, AdmitResume(c)
    PROVE  VcpuInv'
<1> USE DEF VcpuInv
<1>1. /\ c.node \in Node /\ c.id \in Id
      /\ c.kind = "resume" /\ c.step = "queued" /\ ~Begun(c.node, c.id)
      /\ \A d \in calls : d.id = c.id /\ d.node = c.node => d.step # "begun"
    BY CallFields, StartsAlone DEF AdmitResume
<1>2. c.id \in Sandbox /\ c.src \in Member
    BY <1>1 DEF ResumeInv
<1>3. /\ used[c.node][c.id] > 0 <=> vm[c.node][c.id] = "running"
      /\ vm[c.node][c.id] = "running" /\ used[c.node][c.id] < Size =>
            c.id \in Sandbox /\ from[c.node][c.id] # None
    BY <1>1 DEF LeakInv, HintInv
<1>4. CASE vm[c.node][c.id] = "running" /\ Reply(c, "ok") /\ Adopt(c) /\ UNCHANGED used
    <2>1. Moves(c, "ok")
        BY <1>4, ReplyMoves
    <2>2. CapacityInv'
        BY <1>4, CapacityKept
    <2>3. c.src # None
        BY <1>2, PoolNodeAssumption
    <2>4. /\ \A n \in Node, i \in Id :
                vm'[n][i] = "running" <=> vm[n][i] = "running" \/ (n = c.node /\ i = c.id)
          /\ \A n \in Node, s \in Sandbox :
                from'[n][s] = IF n = c.node /\ s = c.id THEN c.src ELSE from[n][s]
        BY <1>2, <1>4, AdoptEffect
    <2> QED BY <1>1, <1>2, <1>3, <1>4, <2>1, <2>2, <2>3, <2>4, MovesVcpus
<1>5. CASE vm[c.node][c.id] # "running" /\ Reply(c, "error") /\ UNCHANGED <<vm, from, used>>
    <2>1. Moves(c, "error")
        BY <1>5, ReplyMoves
    <2>2. CapacityInv'
        BY <1>5, CapacityKept
    <2> QED BY <1>1, <1>3, <1>5, <2>1, <2>2, MovesVcpus
<1>6. CASE /\ vm[c.node][c.id] # "running" /\ UNCHANGED <<vm, from>>
           /\ Fits(c.node, c.id, Hint(c.node, c.id))
           /\ Reserve(c.node, c.id, Hint(c.node, c.id))
           /\ calls' = (calls \ {c}) \cup {[c EXCEPT !.step = "begun"]}
    <2>1. Moves(c, "begun")
        BY <1>6 DEF Moves
    <2>2. Hint(c.node, c.id) = 1 /\ 1 \in 0 .. Size
        BY <1>6, PoolNodeAssumption DEF Hint
    <2>3. /\ CapacityInv'
          /\ \A n \in Node, i \in Id :
                used'[n][i] = IF n = c.node /\ i = c.id THEN 1 ELSE used[n][i]
        BY <1>1, <1>6, <2>2, ReserveFits
    <2> QED BY <1>1, <1>6, <2>1, <2>3, MovesVcpus
<1> QED BY <1>4, <1>5, <1>6 DEF AdmitResume

LEMMA ResumeDoneVcpus ==
    ASSUME NodeTypeOK, VcpuInv, NEW c \in calls, ResumeDone(c)
    PROVE  VcpuInv'
<1> USE DEF VcpuInv
<1>1. /\ c.node \in Node /\ c.id \in Id
      /\ c.kind = "resume" /\ c.step = "begun"
      /\ \A d \in calls : d.id = c.id /\ d.node = c.node /\ d.step = "begun" => d = c
    BY CallFields DEF ResumeDone, BegunInv
<1>2. c.id \in Sandbox /\ c.src \in Member /\ c.src # None
    BY <1>1, PoolNodeAssumption DEF ResumeInv
<1>3. used[c.node][c.id] > 0
    BY <1>1 DEF LeakInv, Begun
<1>4. /\ \A n \in Node, i \in Id :
            vm'[n][i] = "running" <=> vm[n][i] = "running" \/ (n = c.node /\ i = c.id)
      /\ \A n \in Node, s \in Sandbox :
            from'[n][s] = IF n = c.node /\ s = c.id THEN c.src ELSE from[n][s]
    BY <1>2, AdoptEffect DEF ResumeDone
<1>5. Moves(c, "ok")
    BY ReplyMoves DEF ResumeDone
<1>6. /\ CapacityInv'
      /\ \A n \in Node, i \in Id :
            ~(n = c.node /\ i = c.id) => used'[n][i] = used[n][i]
      /\ used'[c.node][c.id] > 0
    <2>1. CASE UNCHANGED used
        BY <1>3, <2>1, CapacityKept
    <2>2. CASE Fits(c.node, c.id, Size) /\ Reserve(c.node, c.id, Size)
        <3>1. Size \in 0 .. Size /\ Size > 0
            BY PoolNodeAssumption
        <3>2. /\ CapacityInv'
              /\ \A n \in Node, i \in Id :
                    used'[n][i] = IF n = c.node /\ i = c.id THEN Size ELSE used[n][i]
            BY <1>1, <2>2, <3>1, ReserveFits
        <3> QED BY <1>1, <3>1, <3>2
    <2> QED BY <2>1, <2>2 DEF ResumeDone
<1> QED BY <1>1, <1>2, <1>4, <1>5, <1>6, MovesVcpus

\* What gives the vCPUs back and leaves no VM.
LEMMA EndsVcpus ==
    ASSUME NodeTypeOK, VcpuInv, NEW c \in calls, NEW k \in {"ok", "error"},
           Reserve(c.node, c.id, 0), Reply(c, k),
           \A d \in calls : d.id = c.id /\ d.node = c.node /\ d.step = "begun" => d = c,
           \A n \in Node, i \in Id : IF n = c.node /\ i = c.id THEN vm'[n][i] # "running"
                                     ELSE vm'[n][i] = vm[n][i],
           \A n \in Node, s \in Sandbox : ~(n = c.node /\ s = c.id) => from'[n][s] = from[n][s]
    PROVE  VcpuInv'
<1> USE DEF VcpuInv
<1>1. c.node \in Node /\ c.id \in Id /\ Moves(c, k)
    BY CallFields, ReplyMoves
<1>2. 0 \in 0 .. Size /\ 0 <= used[c.node][c.id]
    <2>1. used[c.node][c.id] \in 0 .. Size
        BY <1>1 DEF NodeTypeOK
    <2> QED BY <2>1, PoolNodeAssumption
<1>3. /\ CapacityInv'
      /\ \A n \in Node, i \in Id :
            used'[n][i] = IF n = c.node /\ i = c.id THEN 0 ELSE used[n][i]
    BY <1>1, <1>2, ReserveFits
<1> QED BY <1>1, <1>3, MovesVcpus

LEMMA EndingVcpus ==
    ASSUME NodeTypeOK, VcpuInv, NEW c \in calls, Fails(c) \/ OpSuspend(c) \/ OpDestroy(c)
    PROVE  VcpuInv'
<1> USE DEF VcpuInv
<1>1. c.node \in Node /\ c.id \in Id
    BY CallFields
<1>2. CASE Fails(c)
    <2>1. /\ vm[c.node][c.id] # "running"
          /\ \A d \in calls : d.id = c.id /\ d.node = c.node /\ d.step = "begun" => d = c
        BY <1>2 DEF Fails, BegunInv
    <2> QED BY <1>2, <2>1, EndsVcpus DEF Fails
<1>3. CASE Starts(c, "suspend") /\ UNCHANGED from
           /\ Become(c.node, c.id, "suspended") /\ Reserve(c.node, c.id, 0) /\ Reply(c, "ok")
    <2>1. \A d \in calls : d.id = c.id /\ d.node = c.node => d.step # "begun"
        BY <1>3, StartsAlone
    <2>2. \A m \in Node, j \in Id :
            vm'[m][j] = IF m = c.node /\ j = c.id THEN "suspended" ELSE vm[m][j]
        BY <1>1, <1>3, BecomeRuns
    <2> QED BY <1>3, <2>1, <2>2, EndsVcpus
<1>4. CASE Starts(c, "suspend") /\ UNCHANGED <<vm, from, used>> /\ Reply(c, "error")
    <2>1. /\ \A d \in calls : d.id = c.id /\ d.node = c.node => d.step # "begun"
          /\ ~Begun(c.node, c.id)
        BY <1>4, StartsAlone
    <2>2. /\ used[c.node][c.id] > 0 <=> vm[c.node][c.id] = "running"
          /\ vm[c.node][c.id] = "running" /\ used[c.node][c.id] < Size =>
                c.id \in Sandbox /\ from[c.node][c.id] # None
        BY <1>1, <2>1 DEF LeakInv, HintInv
    <2>3. CapacityInv' /\ Moves(c, "error")
        BY <1>4, ReplyMoves, CapacityKept
    <2> QED BY <1>4, <2>1, <2>2, <2>3, MovesVcpus
<1>5. CASE OpDestroy(c)
    <2>1. \A d \in calls : d.id = c.id /\ d.node = c.node => d.step # "begun"
        BY <1>5, StartsAlone DEF OpDestroy
    <2>2. \A m \in Node, j \in Id :
            vm'[m][j] = IF m = c.node /\ j = c.id THEN "none" ELSE vm[m][j]
        BY <1>1, <1>5, BecomeRuns DEF OpDestroy
    <2>3. \A n \in Node, s \in Sandbox : ~(n = c.node /\ s = c.id) => from'[n][s] = from[n][s]
        BY <1>5, TwoLevels DEF OpDestroy, NodeTypeOK
    <2> QED BY <1>5, <2>1, <2>2, <2>3, EndsVcpus DEF OpDestroy
<1> QED BY <1>2, <1>3, <1>4, <1>5 DEF OpSuspend

\* A caller that gives up leaves its request to the node.
LEMMA TimeoutVcpus ==
    ASSUME NodeTypeOK, VcpuInv, NEW c \in calls, Timeout(c)
    PROVE  VcpuInv'
<1> USE DEF VcpuInv
<1> DEFINE e == [c EXCEPT !.step = "error"]
           u == [c EXCEPT !.heard = FALSE]
<1>1. /\ e.id = c.id /\ e.node = c.node /\ e.kind = c.kind /\ e.src = c.src /\ e.step = "error"
      /\ u.id = c.id /\ u.node = c.node /\ u.kind = c.kind /\ u.src = c.src /\ u.step = c.step
    BY CallFields
<1>2. calls' = (calls \ {c}) \cup {e, u} /\ UNCHANGED <<vm, from, used>>
    BY DEF Timeout
<1> HIDE DEF e, u
<1>3. ResumeInv'
    BY <1>1, <1>2 DEF ResumeInv
<1>4. BegunInv'
    <2> SUFFICES ASSUME NEW d \in calls', d.step = "begun"
                 PROVE  /\ d.kind \in {"create", "resume"}
                        /\ vm'[d.node][d.id] # "running"
                        /\ d.kind = "create" => used'[d.node][d.id] = Size
                        /\ \A b \in calls' :
                              b.step = "begun" /\ b.id = d.id /\ b.node = d.node => b = d
        BY DEF BegunInv
    <2>1. CASE d = u
        <3>1. c.step = "begun"
            BY <1>1, <2>1
        <3> QED BY <1>1, <1>2, <2>1, <3>1 DEF BegunInv
    <2>2. CASE d \in calls \ {c}
        BY <1>1, <1>2, <2>2 DEF BegunInv
    <2> QED BY <1>1, <1>2, <2>1, <2>2
<1>5. \A n \in Node, i \in Id : Begun(n, i)' <=> Begun(n, i)
    BY <1>1, <1>2 DEF Begun
<1>6. LeakInv'
    BY <1>2, <1>5 DEF LeakInv
<1>7. HintInv'
    BY <1>2 DEF HintInv
<1>8. CapacityInv'
    BY <1>2, CapacityKept
<1> QED BY <1>3, <1>4, <1>6, <1>7, <1>8

LEMMA HandlerVcpus ==
    ASSUME NodeTypeOK, VcpuInv, Handler
    PROVE  VcpuInv'
BY AdmitCreateVcpus, BootVcpus, AdmitResumeVcpus, ResumeDoneVcpus, EndingVcpus, TimeoutVcpus
DEF Handler

LEMMA InitVcpus == Init => VcpuInv
<1> SUFFICES ASSUME Init PROVE VcpuInv
    OBVIOUS
<1>1. calls = {} /\ \A n \in Node : used[n] = [i \in Id |-> 0] /\ vm[n] = [i \in Id |-> "none"]
    BY DEF Init, NodeInit
<1>2. \A n \in Node : Committed(n) = 0
    <2> SUFFICES ASSUME NEW n \in Node PROVE Committed(n) = 0
        OBVIOUS
    <2>1. \A i \in Id : used[n][i] \in 0 .. 0
        BY <1>1
    <2>2. SumOver(used[n], Id) \in 0 .. 0 * Cardinality(Id)
        BY <2>1, CommittedSum, SumBounded
    <2>3. 0 * Cardinality(Id) = 0
        BY CommittedSum, FS_CardinalityType
    <2> QED BY <2>2, <2>3, CommittedSum
<1> QED BY <1>1, <1>2, PoolNodeAssumption
    DEF VcpuInv, ResumeInv, BegunInv, LeakInv, HintInv, CapacityInv, Begun

\* Every step keeps what is committed right.
LEMMA NextVcpus == PoolInv /\ VcpuInv /\ [Next]_vars => VcpuInv'
<1> SUFFICES ASSUME PoolInv, VcpuInv, [Next]_vars PROVE VcpuInv'
    OBVIOUS
<1>1. Control /\ NodeTypeOK
    BY DEF PoolInv, Control, TypeOK
<1> QED BY <1>1, HandlerVcpus, CrashVcpus, StepSends, SendsVcpus

\* vCPU admission is sound on every node: with any number of sandboxes, members,
\* replicas and nodes, and whatever answer is lost and whatever replica dies,
\* no node commits more than it has, and none leaks what it committed.
THEOREM VcpusReserved == Spec => []Reserved
<1>1. Init => PoolInv /\ VcpuInv
    BY InitPool, InitVcpus
<1>2. PoolInv /\ VcpuInv /\ [Next]_vars => (PoolInv /\ VcpuInv)'
    BY NextPool, NextVcpus
<1> QED BY <1>1, <1>2, VcpuInvReserved, PTL DEF Spec

-----------------------------------------------------------------------------
(* Where a VM may come up. *)

\* A VM may still come up from it.
Starting(c) == c.kind \in {"create", "resume"} /\ c.step \in {"queued", "begun"}

\* What is not let go of stays accounted for, or is let go of.
StartsKept ==
    /\ \A n \in Node, i \in Id : vm'[n][i] = "running" =>
          vm[n][i] = "running" \/ \E c \in calls : Starting(c) /\ c.id = i /\ c.node = n
    /\ \A d \in calls' : Starting(d) =>
          \E c \in calls : Starting(c) /\ c.id = d.id /\ c.node = d.node

\* A handler starts no VM that was not asked for on that node.
LEMMA HandlerStarts ==
    ASSUME NodeTypeOK, ResumeInv, Handler
    PROVE  StartsKept
<1>1. PICK c \in calls :
        \/ AdmitCreate(c)
        \/ Boot(c)
        \/ AdmitResume(c)
        \/ ResumeDone(c)
        \/ Fails(c)
        \/ OpSuspend(c)
        \/ OpDestroy(c)
        \/ Timeout(c)
    BY DEF Handler
<1> DEFINE u == [c EXCEPT !.heard = FALSE]
<1>2. /\ c.node \in Node /\ c.id \in Id
      /\ u.id = c.id /\ u.node = c.node /\ u.kind = c.kind /\ u.step = c.step
      /\ \A k : LET d == [c EXCEPT !.step = k]
                IN  d.id = c.id /\ d.node = c.node /\ d.kind = c.kind /\ d.step = k
    BY CallFields
<1>3. \A d \in calls' : Starting(d) =>
          \E b \in calls : Starting(b) /\ b.id = d.id /\ b.node = d.node
    <2>1. \A d \in calls' :
            \/ d \in calls
            \/ d = u
            \/ \E k \in {"ok", "full", "error"} : d = [c EXCEPT !.step = k]
            \/ d = [c EXCEPT !.step = "begun"] /\ c.step = "queued"
        BY <1>1 DEF AdmitCreate, Boot, AdmitResume, ResumeDone, Fails, OpSuspend,
            OpDestroy, Timeout, Reply, Starts
    <2> HIDE DEF u
    <2> SUFFICES ASSUME NEW d \in calls', Starting(d)
                 PROVE  \E b \in calls : Starting(b) /\ b.id = d.id /\ b.node = d.node
        OBVIOUS
    <2>2. Starting(d)
        OBVIOUS
    <2>3. d \in calls \/ (Starting(c) /\ c.id = d.id /\ c.node = d.node)
        <3>1. CASE d \in calls
            BY <3>1
        <3>2. CASE d = u
            BY <1>2, <2>2, <3>2 DEF Starting
        <3>3. ASSUME NEW k \in {"ok", "full", "error"}, d = [c EXCEPT !.step = k] PROVE FALSE
            <4>1. d.step = k
                BY <1>2, <3>3
            <4> QED BY <2>2, <3>3, <4>1 DEF Starting
        <3>4. CASE d = [c EXCEPT !.step = "begun"] /\ c.step = "queued"
            <4>1. d.id = c.id /\ d.node = c.node /\ d.kind = c.kind
                BY <1>2, <3>4
            <4> QED BY <2>2, <3>4, <4>1 DEF Starting
        <3> QED BY <2>1, <3>1, <3>2, <3>3, <3>4
    <2> QED BY <2>3
<1>4. CASE Boot(c)
    <2>1. Starting(c)
        BY <1>4 DEF Boot, Starting
    <2>2. \A m \in Node, j \in Id :
            vm'[m][j] = IF m = c.node /\ j = c.id THEN "running" ELSE vm[m][j]
        BY <1>2, <1>4, BecomeRuns DEF Boot
    <2> QED BY <1>3, <2>1, <2>2 DEF StartsKept
<1>5. CASE AdmitResume(c) \/ ResumeDone(c)
    <2>1. Starting(c) /\ c.id \in Sandbox /\ c.src \in Member
        BY <1>5 DEF AdmitResume, Starts, ResumeDone, Starting, ResumeInv
    <2>2. UNCHANGED vm \/ Adopt(c)
        BY <1>5 DEF AdmitResume, ResumeDone
    <2>3. \A n \in Node, i \in Id :
            vm'[n][i] = "running" => vm[n][i] = "running" \/ (n = c.node /\ i = c.id)
        BY <2>1, <2>2, AdoptEffect
    <2> QED BY <1>3, <2>1, <2>3 DEF StartsKept
<1>6. CASE \E k \in {"suspended", "none"} : Become(c.node, c.id, k)
    <2>1. PICK k \in {"suspended", "none"} : Become(c.node, c.id, k)
        BY <1>6
    <2>2. \A m \in Node, j \in Id :
            vm'[m][j] = IF m = c.node /\ j = c.id THEN k ELSE vm[m][j]
        BY <1>2, <2>1, BecomeRuns
    <2> QED BY <1>3, <2>1, <2>2 DEF StartsKept
<1>7. CASE UNCHANGED vm
    BY <1>3, <1>7 DEF StartsKept
<1> QED BY <1>1, <1>4, <1>5, <1>6, <1>7 DEF AdmitCreate, Fails, OpSuspend, OpDestroy, Timeout

-----------------------------------------------------------------------------
(* The members' VMs. *)

\* A member that is being suspended has its item where its VM is.
PutInv == \A w \in Worker : refill[w].pc = "suspend" => item[refill[w].id].node = refill[w].node

Held(m, n) ==
    \/ item[m].pool = "running" /\ item[m].node = n
    \/ \E w \in Worker : refill[w].id = m /\ refill[w].node = n

Making(m, n) == \E w \in Worker : refill[w].id = m /\ refill[w].node = n /\ refill[w].pc = "boot"

\* A member's VM is found unless it was let go of, and may come up only where
\* its refill waits for it.
MadeInv ==
    \A m \in Member \ lost :
        /\ \A n \in Node : vm[n][m] = "running" => Held(m, n)
        /\ \A c \in calls : c.id = m /\ Starting(c) => Making(m, c.node)

MadeInvs == PutInv /\ MadeInv

\* A step that is no refill's leaves the members, and what they are at, alone.
MadeKept ==
    /\ MembersKept
    /\ lost \subseteq lost'
    /\ \A m \in Member : item[m].pool = "running" => item'[m] = item[m]

LEMMA MadeKeptHolds ==
    ASSUME Control, MadeInvs, MadeKept
    PROVE  MadeInvs'
<1>1. PutInv'
    BY DEF MadeInvs, PutInv, MadeKept, MembersKept, Control, RefillInv, TypeOK, Refill
<1>2. MadeInv'
    BY DEF MadeInvs, MadeInv, MadeKept, MembersKept, Held, Making
<1> QED BY <1>1, <1>2 DEF MadeInvs

LEMMA CreatingKeepsMade ==
    ASSUME Control, NEW w \in Worker, Creating(w)
    PROVE  MadeKept
<1>1. MembersKept
    BY CreatingKeepsMembers
<1>2. lost \subseteq lost'
    <2>1. ClaimAgain(w) => lost \subseteq lost'
        BY DEF ClaimAgain
    <2>2. ClaimMember(w) => lost \subseteq lost'
        BY DEF ClaimMember
    <2>3. ClaimJournal(w) => lost \subseteq lost'
        BY DEF ClaimJournal
    <2>4. ClaimRetries(w) => lost \subseteq lost'
        BY DEF ClaimRetries
    <2>5. ClaimClear(w) => lost \subseteq lost'
        BY DEF ClaimClear
    <2>6. ClaimFinish(w) => lost \subseteq lost'
        BY DEF ClaimFinish
    <2>7. Place(w) => lost \subseteq lost'
        BY DEF Place
    <2>8. Booted(w) => lost \subseteq lost'
        BY DEF Booted
    <2>9. Elsewhere(w) => lost \subseteq lost'
        BY DEF Elsewhere
    <2>10. BootFails(w) => lost \subseteq lost'
        BY DEF BootFails
    <2>11. Destroyed(w) => lost \subseteq lost'
        BY DEF Destroyed
    <2>12. DestroyFails(w) => lost \subseteq lost'
        BY DEF DestroyFails
    <2> QED BY <2>1, <2>2, <2>3, <2>4, <2>5, <2>6, <2>7, <2>8, <2>9, <2>10, <2>11, <2>12 DEF Creating
<1>3. \A m \in Member : item[m].pool = "running" => item'[m] = item[m]
    <2>1. \/ UNCHANGED item
          \/ ClaimMember(w)
          \/ job[w].pc = "resume" /\ item' = [item EXCEPT ![job[w].src] = Gone]
        <3>1. ClaimClear(w) \/ ClaimFinish(w) =>
                job[w].pc = "resume" /\ item' = [item EXCEPT ![job[w].src] = Gone]
            BY DEF ClaimClear, ClaimFinish
        <3>2. ClaimAgain(w) \/ ClaimJournal(w) \/ ClaimRetries(w) => UNCHANGED item
            BY DEF ClaimAgain, ClaimJournal, ClaimRetries
        <3>3. Place(w) \/ Booted(w) \/ Elsewhere(w) \/ BootFails(w) => UNCHANGED item
            BY DEF Place, Booted, Elsewhere, BootFails
        <3>4. Destroyed(w) \/ DestroyFails(w) => UNCHANGED item
            BY DEF Destroyed, DestroyFails
        <3> QED BY <3>1, <3>2, <3>3, <3>4 DEF Creating
    <2>2. job[w].pc = "resume" => job[w].src \in Member /\ item[job[w].src].pool = "claimed"
        BY DEF Control, TypeOK, JobInv, Job, GivenInv, Given
    <2> QED BY <2>1, <2>2 DEF Control, TypeOK, ClaimMember, CanClaim
<1> QED BY <1>1, <1>2, <1>3 DEF MadeKept

LEMMA BeginningKeepsMade ==
    ASSUME Control, NEW w \in Worker, NEW s \in Sandbox,
           Create(w, s) \/ Delete(w, s) \/ DeleteUnplaced(s) \/ Lead(w) \/ LeadFails(w)
    PROVE  MadeKept
<1>1. MembersKept
    BY BeginningKeepsMembers DEF DeleteUnplaced, Lead, LeadFails, MembersKept, nodeVars
<1>2. UNCHANGED <<item, lost>>
    BY DEF Create, Delete, DeleteUnplaced, Lead, LeadFails
<1> QED BY <1>1, <1>2 DEF MadeKept

LEMMA HandlerKeepsMade ==
    ASSUME NodeTypeOK, ResumeInv, MadeInvs, Handler, UNCHANGED <<item, refill, lost>>
    PROVE  MadeInvs'
<1>1. StartsKept
    BY HandlerStarts
<1>2. PutInv'
    BY DEF MadeInvs, PutInv
<1>3. MadeInv'
    <2> SUFFICES ASSUME NEW m \in Member \ lost
                 PROVE  /\ \A n \in Node : vm'[n][m] = "running" => Held(m, n)
                        /\ \A d \in calls' : d.id = m /\ Starting(d) => Making(m, d.node)
        BY DEF MadeInv, Held, Making
    <2>1. \A c \in calls : c.id = m /\ Starting(c) => Making(m, c.node) /\ Held(m, c.node)
        BY DEF MadeInvs, MadeInv, Making, Held
    <2>2. m \in Id
        BY DEF Id
    <2> QED BY <1>1, <2>1, <2>2 DEF StartsKept, MadeInvs, MadeInv
<1> QED BY <1>2, <1>3 DEF MadeInvs

\* The steps of a refill.
LEMMA ReplenishKeepsMade ==
    ASSUME Control, MadeInvs, NEW w \in Worker, Replenish(w)
    PROVE  MadeInvs'
<1>1. UNCHANGED <<vm, calls, item, lost>>
    BY DEF Replenish, nodeVars
<1>2. refill[w].id = None /\ refill[w].pc = "idle"
    BY DEF Replenish, Rest, Filling
<1>3. /\ \A v \in Worker \ {w} : refill'[v] = refill[v]
      /\ refill'[w].pc = "make"
    BY DEF Replenish, Control, TypeOK, Filling
<1>4. PutInv'
    BY <1>1, <1>3 DEF MadeInvs, PutInv
<1>5. MadeInv'
    BY <1>1, <1>2, <1>3, PoolNodeAssumption DEF MadeInvs, MadeInv, Held, Making
<1> QED BY <1>4, <1>5 DEF MadeInvs

LEMMA MakeMemberKeepsMade ==
    ASSUME Control, QuietInv, MadeInvs, NEW w \in Worker, MakeMember(w)
    PROVE  MadeInvs'
<1>1. PICK n \in Node, m \in Member :
        /\ IF refill[w].id = None THEN item[m].pool = "unused" ELSE m = refill[w].id
        /\ item' = [item EXCEPT ![m].pool = "drawn"]
        /\ calls' = calls \cup {Asked(m, n, "create", None)}
        /\ refill' = [refill EXCEPT ![w] = Filling("boot", refill[w].need, m, n, refill[w].full)]
    BY DEF MakeMember
<1>2. UNCHANGED <<vm, lost>> /\ refill[w].pc = "make"
    BY DEF MakeMember
<1>3. Quiet(m)
    BY <1>1, <1>2 DEF QuietInv, Waits
<1>4. /\ \A v \in Worker \ {w} : refill'[v] = refill[v]
      /\ refill'[w].id = m /\ refill'[w].node = n /\ refill'[w].pc = "boot"
      /\ \A k \in Member \ {m} : item'[k] = item[k]
    BY <1>1 DEF Control, TypeOK, Filling
<1>5. \A v \in Worker \ {w} : refill[v].id # m
    BY <1>1, PoolNodeAssumption DEF Control, RefillInv
<1>6. PutInv'
    BY <1>4, <1>5 DEF MadeInvs, PutInv, Control, TypeOK, Refill, RefillInv
<1>7. MadeInv'
    <2> SUFFICES ASSUME NEW k \in Member \ lost
                 PROVE  /\ \A j \in Node : vm[j][k] = "running" => Held(k, j)'
                        /\ \A c \in calls' : c.id = k /\ Starting(c) => Making(k, c.node)'
        BY <1>2 DEF MadeInv
    <2>1. CASE k = m
        <3>1. \A c \in calls' : c.id = m => c = Asked(m, n, "create", None)
            BY <1>1, <1>3 DEF Quiet
        <3>2. Making(m, n)'
            BY <1>4 DEF Making
        <3> QED BY <1>3, <2>1, <3>1, <3>2 DEF Quiet, Asked
    <2>2. CASE k # m
        <3>1. \A c \in calls' : c.id = k => c \in calls
            BY <1>1, <2>2 DEF Asked
        <3>2. \A j \in Node : Held(k, j) => Held(k, j)'
            BY <1>1, <1>2, <1>4, <2>2, PoolNodeAssumption DEF Held
        <3>3. \A j : Making(k, j) => Making(k, j)'
            BY <1>2, <1>4 DEF Making
        <3> QED BY <3>1, <3>2, <3>3 DEF MadeInvs, MadeInv
    <2> QED BY <2>1, <2>2
<1> QED BY <1>6, <1>7 DEF MadeInvs

LEMMA OtherMembersMade ==
    ASSUME Control, MadeInvs, UNCHANGED vm, lost \subseteq lost',
           NEW w \in Worker, NEW m \in Member,
           refill[w].id = m, refill'[w].id \in {m, None},
           refill'[w].pc = "suspend" => refill'[w].id = m /\ item'[m].node = refill'[w].node,
           \A v \in Worker \ {w} : refill'[v] = refill[v],
           \A k \in Member \ {m} : item'[k] = item[k],
           \A c \in calls' : c.id # m => c \in calls,
           m \notin lost' =>
              /\ \A n \in Node : vm[n][m] = "running" => Held(m, n)'
              /\ \A c \in calls' : c.id = m /\ Starting(c) => Making(m, c.node)'
    PROVE  MadeInvs'
<1>1. \A v \in Worker \ {w} : refill[v].id # m
    BY PoolNodeAssumption DEF Control, RefillInv
<1>2. PutInv'
    BY <1>1 DEF MadeInvs, PutInv, Control, TypeOK, Refill, RefillInv
<1>3. MadeInv'
    <2> SUFFICES ASSUME NEW k \in Member \ lost', k # m
                 PROVE  /\ \A j \in Node : vm[j][k] = "running" => Held(k, j)'
                        /\ \A c \in calls' : c.id = k /\ Starting(c) => Making(k, c.node)'
        BY DEF MadeInv
    <2>1. \A j \in Node : Held(k, j) => Held(k, j)'
        BY DEF Held
    <2>2. \A j : Making(k, j) => Making(k, j)'
        BY DEF Making
    <2> QED BY <2>1, <2>2 DEF MadeInvs, MadeInv
<1> QED BY <1>2, <1>3 DEF MadeInvs

LEMMA MemberRunsKeepsMade ==
    ASSUME Control, Custody, MemberInv, MadeInvs, NEW w \in Worker, MemberRuns(w)
    PROVE  MadeInvs'
<1>0. PICK m, n, a : m = refill[w].id /\ n = refill[w].node /\ a = Asked(m, n, "suspend", None)
    OBVIOUS
<1>1. PICK c \in Answer(m, "ok") : calls' = (calls \ {c}) \cup {a}
    BY <1>0 DEF MemberRuns
<1>2. /\ refill[w].pc = "boot" /\ UNCHANGED <<vm, lost>>
      /\ item' = [item EXCEPT ![m] = [pool |-> "running", node |-> n]]
      /\ refill' = [refill EXCEPT ![w].pc = "suspend"]
    BY <1>0 DEF MemberRuns
<1>3. /\ m \in Member /\ Alone(c) /\ c.node = n /\ c.kind = "create" /\ c \in calls /\ c.id = m
    BY <1>0, <1>1, <1>2, RefillCall DEF Answer
<1>4. /\ refill'[w].id = m /\ refill'[w].node = n /\ refill'[w].pc = "suspend"
      /\ \A v \in Worker \ {w} : refill'[v] = refill[v]
      /\ item'[m].pool = "running" /\ item'[m].node = n
      /\ \A k \in Member \ {m} : item'[k] = item[k]
    BY <1>0, <1>2, <1>3 DEF Control, TypeOK, Refill
<1>5. a.id = m /\ a.kind = "suspend" /\ a.node = n
    BY <1>0 DEF Asked
<1>6. \A d \in calls' : d.id = m => d = a
    BY <1>1, <1>3 DEF Alone
<1>7. \A d \in calls' : d.id # m => d \in calls
    BY <1>1, <1>5
<1>8. \A j \in Node : vm[j][m] = "running" => Held(m, j)'
    BY <1>3, <1>4 DEF Alone, Held
<1>9. \A d \in calls' : d.id = m => ~Starting(d)
    BY <1>5, <1>6 DEF Starting
<1> QED BY <1>0, <1>2, <1>3, <1>4, <1>7, <1>8, <1>9, OtherMembersMade

LEMMA MemberElsewhereKeepsMade ==
    ASSUME Control, Custody, MemberInv, QuietInv', MadeInvs, NEW w \in Worker, MemberElsewhere(w)
    PROVE  MadeInvs'
<1>0. PICK m : m = refill[w].id
    OBVIOUS
<1>1. /\ refill[w].pc = "boot" /\ UNCHANGED <<vm, item, lost>>
      /\ calls' \subseteq calls
    BY <1>0 DEF MemberElsewhere, Control, TypeOK, Filling
<1>2. m \in Member
    BY <1>0, <1>1, RefillCall
<1>3. /\ refill'[w].id = m /\ refill'[w].pc = "make"
      /\ \A v \in Worker \ {w} : refill'[v] = refill[v]
    BY <1>0 DEF MemberElsewhere, Control, TypeOK, Filling
<1>4. Quiet(m)'
    <2>1. Waits(m)'
        BY <1>3 DEF Waits
    <2> QED BY <1>2, <2>1 DEF QuietInv
<1>5. /\ \A j \in Node : vm[j][m] # "running"
      /\ \A d \in calls' : d.id # m
    BY <1>1, <1>2, <1>4 DEF Quiet
<1> QED BY <1>0, <1>1, <1>2, <1>3, <1>5, OtherMembersMade

LEMMA MemberWarmKeepsMade ==
    ASSUME Control, Custody, MemberInv, QuietInv', MadeInvs, NEW w \in Worker, MemberWarm(w)
    PROVE  MadeInvs'
<1>0. PICK m : m = refill[w].id
    OBVIOUS
<1>1. /\ refill[w].pc = "suspend" /\ UNCHANGED <<vm, lost>>
      /\ item' = [item EXCEPT ![m].pool = "warm"]
      /\ calls' \subseteq calls
    BY <1>0 DEF MemberWarm
<1>2. m \in Member
    BY <1>0, <1>1, RefillCall
<1>3. /\ refill'[w].id = None /\ refill'[w].pc # "suspend"
      /\ \A v \in Worker \ {w} : refill'[v] = refill[v]
    BY DEF MemberWarm, NextMember, Control, TypeOK, Filling, Rest
<1>4. item'[m].pool = "warm" /\ \A k \in Member \ {m} : item'[k] = item[k]
    BY <1>1, <1>2 DEF Control, TypeOK, Item
<1>5. Quiet(m)'
    <2>1. Waits(m)'
        BY <1>4 DEF Waits
    <2> QED BY <1>2, <2>1 DEF QuietInv
<1>6. /\ \A j \in Node : vm[j][m] # "running"
      /\ \A d \in calls' : d.id # m
    BY <1>1, <1>2, <1>5 DEF Quiet
<1> QED BY <1>0, <1>1, <1>2, <1>3, <1>4, <1>6, OtherMembersMade

LEMMA MemberFailsKeepsMade ==
    ASSUME Control, Custody, MemberInv, MadeInvs, NEW w \in Worker, MemberFails(w)
    PROVE  MadeInvs'
<1> DEFINE m == refill[w].id
<1>1. /\ refill[w].pc \in {"boot", "suspend"} /\ UNCHANGED vm
      /\ item' = [item EXCEPT ![m] = Gone]
      /\ lost' = IF NoVm(m) THEN lost ELSE lost \cup {m}
      /\ calls' \subseteq calls
    BY DEF MemberFails
<1>2. m \in Member
    BY <1>1, RefillCall
<1>3. /\ refill'[w].id = None /\ refill'[w].pc # "suspend"
      /\ \A v \in Worker \ {w} : refill'[v] = refill[v]
    BY DEF MemberFails, NextMember, Control, TypeOK, Filling, Rest
<1>4. \A k \in Member \ {m} : item'[k] = item[k]
    BY <1>1, <1>2 DEF Control, TypeOK
<1>5. calls \subseteq Call
    BY DEF Control, TypeOK, NodeTypeOK
<1> HIDE DEF m
<1>6. m \notin lost' =>
        /\ \A j \in Node : vm[j][m] # "running"
        /\ \A d \in calls' : d.id = m => ~Starting(d)
    BY <1>1, <1>5 DEF NoVm, Pending, Starting, Call
<1> QED BY <1>1, <1>2, <1>3, <1>4, <1>6, OtherMembersMade DEF m

LEMMA CrashKeepsMade ==
    ASSUME Control, QuietInv, MadeInvs, NEW w \in Worker, Crash(w)
    PROVE  MadeInvs'
<1> DEFINE m == refill[w].id
<1>1. /\ UNCHANGED <<vm, item>>
      /\ lost' = IF refill[w].pc = "boot" /\ ~NoVm(m) THEN lost \cup {m} ELSE lost
      /\ refill' = [refill EXCEPT ![w] = Rest]
    BY DEF Crash
<1>2. calls \subseteq Call
    BY DEF Control, TypeOK, NodeTypeOK
<1>3. \A d \in calls' : Starting(d) =>
          \E c \in calls : Starting(c) /\ c.id = d.id /\ c.node = d.node
    <2> SUFFICES ASSUME NEW d \in calls', Starting(d)
                 PROVE  \E c \in calls : Starting(c) /\ c.id = d.id /\ c.node = d.node
        OBVIOUS
    <2>1. d \in calls \/ \E c \in calls : d = [c EXCEPT !.heard = FALSE]
        BY DEF Crash
    <2> QED BY <1>2, <2>1 DEF Starting, Call
<1>4. /\ refill'[w].id = None /\ refill'[w].pc = "idle"
      /\ \A v \in Worker \ {w} : refill'[v] = refill[v]
    BY <1>1 DEF Control, TypeOK, Rest, Filling
<1>5. PutInv'
    BY <1>1, <1>4 DEF MadeInvs, PutInv
<1>6. MadeInv'
    <2> SUFFICES ASSUME NEW k \in Member \ lost'
                 PROVE  /\ \A j \in Node : vm[j][k] = "running" => Held(k, j)'
                        /\ \A d \in calls' : d.id = k /\ Starting(d) => Making(k, d.node)'
        BY <1>1 DEF MadeInv
    <2>1. k \notin lost
        BY <1>1
    <2>2. CASE k # m
        <3>1. \A j : Held(k, j) => Held(k, j)'
            BY <1>1, <1>4, <2>2 DEF Held
        <3>2. \A j : Making(k, j) => Making(k, j)'
            BY <1>4, <2>2 DEF Making
        <3> QED BY <1>3, <2>1, <3>1, <3>2 DEF MadeInvs, MadeInv
    <2>3. CASE k = m
        <3>1. /\ refill[w].pc \in {"make", "boot", "suspend"}
              /\ \A v \in Worker : refill[v].id = m => v = w
            BY <2>3, PoolNodeAssumption DEF Control, TypeOK, Refill, RefillInv
        <3>2. CASE refill[w].pc = "make"
            <4>1. Quiet(k)
                BY <2>3, <3>2 DEF QuietInv, Waits
            <4> QED BY <1>3, <4>1 DEF Quiet
        <3>3. CASE refill[w].pc = "boot"
            <4>1. NoVm(k)
                BY <1>1, <2>3, <3>3
            <4>2. \A d \in calls' : d.id = k => ~Starting(d)
                BY <1>2, <1>3, <4>1 DEF NoVm, Pending, Starting, Call
            <4> QED BY <4>1, <4>2 DEF NoVm
        <3>4. CASE refill[w].pc = "suspend"
            <4>1. item[k].pool = "running" /\ item[k].node = refill[w].node
                BY <2>3, <3>4, PoolNodeAssumption DEF Control, RefillInv, MadeInvs, PutInv
            <4>2. \A j : ~Making(k, j)
                BY <2>3, <3>1, <3>4 DEF Making
            <4>3. \A d \in calls' : d.id = k => ~Starting(d)
                BY <1>3, <2>1, <4>2 DEF MadeInvs, MadeInv
            <4>4. \A j \in Node : vm[j][k] = "running" => j = refill[w].node
                BY <2>1, <2>3, <3>1, <4>1 DEF MadeInvs, MadeInv, Held
            <4> QED BY <1>1, <4>1, <4>3, <4>4 DEF Held
        <3> QED BY <3>1, <3>2, <3>3, <3>4
    <2> QED BY <2>2, <2>3
<1> QED BY <1>5, <1>6 DEF MadeInvs

LEMMA StepMade ==
    ASSUME PoolInv, PoolInv', VcpuInv, MadeInvs, [Next]_vars
    PROVE  MadeInvs'
<1> USE DEF PoolInv
<1>1. CASE Handler /\ UNCHANGED <<leaderVars, item, rec, job, refill, lost>>
    BY <1>1, HandlerKeepsMade DEF Control, TypeOK, VcpuInv
<1>2. LockExpires \/ UNCHANGED vars => MadeKept
    BY DEF LockExpires, vars, nodeVars, MadeKept, MembersKept
<1>3. ASSUME NEW w \in Worker, Refilling(w)
      PROVE  MadeInvs'
    BY <1>3, ReplenishKeepsMade, MakeMemberKeepsMade, MemberRunsKeepsMade,
        MemberElsewhereKeepsMade, MemberWarmKeepsMade, MemberFailsKeepsMade DEF Refilling
<1>4. ASSUME NEW s \in Sandbox, DeleteUnplaced(s)
      PROVE  MadeKept
    <2>1. MembersKept
        BY <1>4 DEF DeleteUnplaced, nodeVars, MembersKept
    <2> QED BY <1>4, <2>1 DEF DeleteUnplaced, MadeKept
<1>5. ASSUME NEW w \in Worker, Lead(w) \/ LeadFails(w)
      PROVE  MadeKept
    <2>1. MembersKept
        BY <1>5 DEF Lead, LeadFails, nodeVars, MembersKept
    <2> QED BY <1>5, <2>1 DEF Lead, LeadFails, MadeKept
<1> QED BY <1>1, <1>2, <1>3, <1>4, <1>5, CrashKeepsMade, CreatingKeepsMade,
    BeginningKeepsMade, MadeKeptHolds DEF Next

-----------------------------------------------------------------------------
(* The sandboxes' VMs: the answer a creation or deletion waits for. *)

OneHeard == \A c, d \in calls : c.id \in Sandbox /\ c.id = d.id /\ c.heard /\ d.heard => c = d

\* A replica waits for the answer from the node of the record.
Awaits(w, c) ==
    job[w].sb = c.id /\ job[w].pc = IF c.kind = "create" THEN "boot" ELSE c.kind

HeardInv ==
    \A c \in calls : c.id \in Sandbox /\ c.heard =>
        c.node = rec[c.id].node /\ \E w \in Worker : Awaits(w, c)

\* A request that has begun or was answered has outlived those sent before it:
\* one that found the node full, and a deletion, leave no VM.
Last(c) ==
    /\ \A d \in calls : d.id = c.id /\ d.node = c.node /\ d.step \in {"queued", "begun"} => d = c
    /\ c.step = "full" \/ (c.step = "ok" /\ c.kind = "destroy") => vm[c.node][c.id] # "running"

LastInv ==
    \A c \in calls : c.id \in Sandbox /\ c.heard /\ c.step \in {"begun", "ok", "full"} => Last(c)

AnswerInv == OneHeard /\ HeardInv /\ LastInv

\* What a step of the replica at s does to the answers: there is at most a new
\* request a, which the replica waits for.
Turn(s, w, a) ==
    /\ UNCHANGED vm
    /\ job[w].sb \in {s, None}
    /\ \A v \in Worker \ {w} : job'[v] = job[v]
    /\ \A t \in Sandbox \ {s} : rec'[t] = rec[t]
    /\ a.id = s
    /\ \A d \in calls' :
        \/ d \in calls /\ (d.id = s => ~d.heard)
        \/ d = a /\ d.heard /\ d.step = "queued" /\ d.node = rec'[s].node /\ Awaits(w, d)'

LEMMA TurnAnswers ==
    ASSUME Control, AnswerInv, NEW s \in Sandbox, NEW w \in Worker, NEW a, Turn(s, w, a)
    PROVE  AnswerInv'
<1> USE DEF AnswerInv
<1>1. \A d \in calls' : d.heard => d = a \/ (d \in calls /\ d.id # s)
    BY DEF Turn
<1>2. OneHeard'
    BY <1>1 DEF OneHeard, Turn
<1>3. HeardInv'
    <2> SUFFICES ASSUME NEW c \in calls', c.id \in Sandbox, c.heard
                 PROVE  c.node = rec'[c.id].node /\ \E v \in Worker : Awaits(v, c)'
        BY DEF HeardInv
    <2>1. CASE c.id = s
        BY <2>1 DEF Turn
    <2>2. CASE c.id # s
        <3>1. c \in calls
            BY <2>2 DEF Turn
        <3>2. PICK v \in Worker : Awaits(v, c)
            BY <3>1 DEF HeardInv
        <3>3. v # w
            BY <2>2, <3>2, PoolNodeAssumption, WarmPoolAssumption DEF Awaits, Turn
        <3> QED BY <2>2, <3>1, <3>2, <3>3 DEF HeardInv, Turn, Awaits
    <2> QED BY <2>1, <2>2
<1>4. LastInv'
    <2> SUFFICES ASSUME NEW c \in calls', c.id \in Sandbox, c.heard,
                        c.step \in {"begun", "ok", "full"}
                 PROVE  Last(c)'
        BY DEF LastInv
    <2>1. c \in calls /\ c.id # s
        BY DEF Turn
    <2>2. Last(c)
        BY <2>1 DEF LastInv
    <2>3. \A d \in calls' : d.id = c.id => d \in calls
        BY <2>1 DEF Turn
    <2> QED BY <2>2, <2>3 DEF Last, Turn
<1> QED BY <1>2, <1>3, <1>4

\* While a replica has sent nothing, nobody waits for an answer about its sandbox...
LEMMA NobodyWaits ==
    ASSUME Control, AnswerInv, NEW s \in Sandbox, NEW d \in calls, d.id = s,
           \A w \in Worker : job[w].sb = s => job[w].pc \notin {"boot", "resume", "destroy"}
    PROVE  ~d.heard
<1> SUFFICES ASSUME d.heard PROVE FALSE
    OBVIOUS
<1>1. PICK w \in Worker : Awaits(w, d)
    BY DEF AnswerInv, HeardInv
<1>2. d.kind \in {"create", "resume", "suspend", "destroy"}
    BY DEF Control, TypeOK, NodeTypeOK, Call
<1>3. d.kind # "suspend"
    BY <1>1 DEF Awaits, Control, TypeOK, Job
<1> QED BY <1>1, <1>2, <1>3 DEF Awaits

\* ...and when it has got its answer, it waits for no other.
LEMMA AnswerTaken ==
    ASSUME Control, AnswerInv, NEW s \in Sandbox, NEW k, NEW c \in Answer(s, k)
    PROVE  /\ c \in calls /\ c.id = s /\ c.heard /\ c.step = k
           /\ c.node = rec[s].node
           /\ \A w \in Worker : job[w].sb = s => Awaits(w, c)
           /\ \A d \in calls \ {c} : d.id = s => ~d.heard
           /\ k \in {"ok", "full"} => Last(c)
<1>1. c \in calls /\ c.id = s /\ c.heard /\ c.step = k
    BY DEF Answer
<1>2. c.node = rec[s].node /\ \E w \in Worker : Awaits(w, c)
    BY <1>1 DEF AnswerInv, HeardInv
<1>3. \A w \in Worker : job[w].sb = s => Awaits(w, c)
    BY <1>1, <1>2, WarmPoolAssumption DEF Control, JobInv, Awaits
<1>4. \A d \in calls \ {c} : d.id = s => ~d.heard
    BY <1>1 DEF AnswerInv, OneHeard
<1>5. k \in {"ok", "full"} => Last(c)
    BY <1>1 DEF AnswerInv, LastInv
<1> QED BY <1>1, <1>2, <1>3, <1>4, <1>5

-----------------------------------------------------------------------------
(* The sandboxes' VMs: where they are. *)

\* The VM runs nowhere but at the record's node, none can come up anywhere
\* else, and none at all once every node tried was full.
Found(s) ==
    /\ \A n \in Node : vm[n][s] = "running" => rec[s].node = n
    /\ \A c \in calls : c.id = s /\ Starting(c) => c.node = rec[s].node
    /\ \A w \in Worker :
          job[w].sb = s /\ job[w].pc \in {"claim", "place"} /\ job[w].full # {} =>
          /\ \A n \in Node : vm[n][s] # "running"
          /\ \A c \in calls : c.id = s => ~Starting(c)

FoundInv == \A s \in Sandbox \ lost : Found(s)

\* A turn leaves the other sandboxes where they are.
LEMMA TurnFound ==
    ASSUME Control, FoundInv, NEW s \in Sandbox, NEW w \in Worker, NEW a, Turn(s, w, a),
           job'[w].sb \in {s, None}, lost \subseteq lost', s \in lost' \/ Found(s)'
    PROVE  FoundInv'
<1> SUFFICES ASSUME NEW t \in Sandbox \ lost', t # s PROVE Found(t)'
    BY DEF FoundInv
<1>1. Found(t)
    BY DEF FoundInv
<1>2. \A d \in calls' : d.id = t => d \in calls
    BY DEF Turn
<1>3. \A v \in Worker : job'[v].sb = t => v # w
    BY WarmPoolAssumption
<1> QED BY <1>1, <1>2, <1>3 DEF Found, Turn

LEMMA HandlerFound ==
    ASSUME NodeTypeOK, ResumeInv, FoundInv, Handler, UNCHANGED <<rec, job, lost>>
    PROVE  FoundInv'
<1> SUFFICES ASSUME NEW s \in Sandbox \ lost PROVE Found(s)'
    BY DEF FoundInv
<1>1. StartsKept
    BY HandlerStarts
<1>2. Found(s) /\ s \in Id
    BY DEF FoundInv, Id
<1> QED BY <1>1, <1>2 DEF Found, StartsKept

\* What a turn comes to.
TurnDone(s, w) ==
    /\ \E a : Turn(s, w, a)
    /\ job'[w].sb \in {s, None}
    /\ lost \subseteq lost'
    /\ s \in lost' \/ Found(s)'

\* A step that is nobody's turn leaves the sandboxes alone.
SandboxesKept ==
    /\ UNCHANGED <<vm, job>>
    /\ lost \subseteq lost'
    /\ \A s \in Sandbox : rec'[s].node = rec[s].node
    /\ \A d \in calls' : d.id \in Sandbox => d \in calls

LEMMA SandboxesKeptHolds ==
    ASSUME AnswerInv, FoundInv, SandboxesKept
    PROVE  AnswerInv' /\ FoundInv'
<1>1. OneHeard'
    BY DEF AnswerInv, OneHeard, SandboxesKept
<1>2. HeardInv'
    BY DEF AnswerInv, HeardInv, SandboxesKept, Awaits
<1>3. LastInv'
    BY DEF AnswerInv, LastInv, SandboxesKept, Last
<1>4. FoundInv'
    BY DEF FoundInv, Found, SandboxesKept
<1> QED BY <1>1, <1>2, <1>3, <1>4 DEF AnswerInv

LEMMA CreateTurn ==
    ASSUME Control, AnswerInv, FoundInv, NEW w \in Worker, NEW s \in Sandbox, Create(w, s)
    PROVE  TurnDone(s, w)
<1> DEFINE a == Asked(s, None, "create", None)
<1>1. \A d \in calls : d.id = s => ~d.heard
    BY NobodyWaits DEF Create, Begins
<1>2. /\ UNCHANGED <<vm, calls, lost>> /\ job[w].sb = None
      /\ job' = [job EXCEPT ![w] = Working("claim", s, None, {})]
      /\ rec' = [rec EXCEPT ![s].state = "creating"]
    BY DEF Create, Begins, Free, Working
<1>3. /\ job'[w].sb = s /\ job'[w].pc = "claim" /\ job'[w].full = {}
      /\ \A v \in Worker \ {w} : job'[v] = job[v] /\ job[v].sb # s
      /\ rec'[s].node = rec[s].node /\ \A t \in Sandbox \ {s} : rec'[t] = rec[t]
    BY <1>2 DEF Control, TypeOK, Working, Create, Begins, Rec
<1>4. Turn(s, w, a)
    BY <1>1, <1>2, <1>3 DEF Turn, Asked
<1>5. s \in lost' \/ Found(s)'
    BY <1>2, <1>3 DEF FoundInv, Found
<1> QED BY <1>2, <1>3, <1>4, <1>5 DEF TurnDone

LEMMA DeleteTurn ==
    ASSUME Control, AnswerInv, FoundInv, NEW w \in Worker, NEW s \in Sandbox, Delete(w, s)
    PROVE  TurnDone(s, w)
<1>0. PICK a : a = Asked(s, rec[s].node, "destroy", None)
    OBVIOUS
<1>1. \A d \in calls : d.id = s => ~d.heard
    BY NobodyWaits DEF Delete, Begins
<1>2. /\ UNCHANGED <<vm, lost>> /\ job[w].sb = None /\ calls' = calls \cup {a}
      /\ job' = [job EXCEPT ![w] = Working("destroy", s, None, {})]
      /\ rec' = [rec EXCEPT ![s].state = "destroying"]
    BY <1>0 DEF Delete, Begins, Free, Working
<1>3. /\ job'[w].sb = s /\ job'[w].pc = "destroy"
      /\ \A v \in Worker \ {w} : job'[v] = job[v] /\ job[v].sb # s
      /\ rec'[s].node = rec[s].node /\ \A t \in Sandbox \ {s} : rec'[t] = rec[t]
    BY <1>2 DEF Control, TypeOK, Working, Delete, Begins, Rec
<1>4. a.id = s /\ a.heard /\ a.step = "queued" /\ a.node = rec[s].node /\ a.kind = "destroy"
    BY <1>0 DEF Asked
<1>5. Awaits(w, a)'
    BY <1>3, <1>4 DEF Awaits
<1>6. Turn(s, w, a)
    BY <1>1, <1>2, <1>3, <1>4, <1>5 DEF Turn
<1>7. s \in lost' \/ Found(s)'
    BY <1>2, <1>3, <1>4 DEF FoundInv, Found, Starting
<1> QED BY <1>2, <1>3, <1>6, <1>7 DEF TurnDone

LEMMA ClaimTurn ==
    ASSUME Control, AnswerInv, FoundInv, NEW w \in Worker, ClaimAgain(w) \/ ClaimMember(w)
    PROVE  TurnDone(job[w].sb, w)
<1>1. PICK s \in Sandbox : s = job[w].sb
    BY DEF ClaimAgain, ClaimMember, Control, TypeOK, JobInv, Job
<1> DEFINE a == Asked(s, None, "create", None)
<1>2. job[w].pc = "claim" /\ UNCHANGED <<vm, calls, rec, lost>>
      /\ job'[w].sb = s /\ job'[w].pc = "journal"
      /\ \A v \in Worker \ {w} : job'[v] = job[v]
    BY <1>1 DEF ClaimAgain, ClaimMember, nodeVars, Control, TypeOK, Working
<1>3. \A v \in Worker : job[v].sb = s => v = w
    BY <1>1, WarmPoolAssumption DEF Control, JobInv
<1>4. \A d \in calls : d.id = s => ~d.heard
    BY <1>2, <1>3, NobodyWaits
<1>5. Turn(s, w, a)
    BY <1>1, <1>2, <1>4 DEF Turn, Asked
<1>6. s \in lost' \/ Found(s)'
    BY <1>2, <1>3 DEF FoundInv, Found
<1> QED BY <1>1, <1>2, <1>5, <1>6 DEF TurnDone

LEMMA ClaimJournalTurn ==
    ASSUME Control, AnswerInv, FoundInv, NEW w \in Worker, ClaimJournal(w)
    PROVE  TurnDone(job[w].sb, w)
<1>1. PICK s \in Sandbox, m \in Member : s = job[w].sb /\ m = job[w].src
    BY DEF ClaimJournal, Control, TypeOK, JobInv, Job
<1>2. /\ job[w].pc = "journal" /\ UNCHANGED vm /\ lost \subseteq lost'
      /\ \A v \in Worker \ {w} : job'[v] = job[v]
    BY DEF ClaimJournal, NoMember, Goto, Control, TypeOK
<1>3. \A v \in Worker : job[v].sb = s => v = w
    BY <1>1, WarmPoolAssumption DEF Control, JobInv
<1>4. \A d \in calls : d.id = s => ~d.heard
    BY <1>2, <1>3, NobodyWaits
<1>5. CASE item[m] = Gone
    <2> DEFINE a == Asked(s, None, "create", None)
    <2>1. /\ UNCHANGED <<calls, lost>>
          /\ rec' = [rec EXCEPT ![s].src = None]
          /\ job' = [job EXCEPT ![w] = Working("place", s, None, {})]
        BY <1>1, <1>5 DEF ClaimJournal, NoMember
    <2>2. /\ rec'[s].node = rec[s].node /\ \A t \in Sandbox \ {s} : rec'[t] = rec[t]
          /\ job'[w].sb = s /\ job'[w].full = {}
        BY <2>1 DEF Control, TypeOK, Rec, Working
    <2>3. Turn(s, w, a)
        BY <1>1, <1>2, <1>4, <2>1, <2>2 DEF Turn, Asked
    <2>4. s \in lost' \/ Found(s)'
        BY <1>2, <1>3, <2>1, <2>2 DEF FoundInv, Found
    <2> QED BY <1>1, <1>2, <2>2, <2>3, <2>4 DEF TurnDone
<1>6. CASE item[m] # Gone
    <2>1. PICK n, a, old : n = item[m].node /\ a = Asked(s, n, "resume", m) /\ old = rec[s].node
        OBVIOUS
    <2>2. /\ calls' = calls \cup {a}
          /\ rec' = [rec EXCEPT ![s] = Entry(rec[s].state, n, m)]
          /\ job' = [job EXCEPT ![w].pc = "resume"]
          /\ lost' = IF old \in {None, n} \/ (~Runs(s) /\ ~Pending(old, s))
                     THEN lost ELSE lost \cup {s}
        BY <1>1, <1>6, <2>1 DEF ClaimJournal, Journal, Goto
    <2>3. /\ rec'[s].node = n /\ \A t \in Sandbox \ {s} : rec'[t] = rec[t]
          /\ job'[w].sb = s /\ job'[w].pc = "resume"
        BY <1>1, <2>2 DEF Control, TypeOK, Entry, Job
    <2>4. a.id = s /\ a.heard /\ a.step = "queued" /\ a.node = n /\ a.kind = "resume"
        BY <2>1 DEF Asked
    <2>5. Awaits(w, a)'
        BY <2>3, <2>4 DEF Awaits
    <2>6. Turn(s, w, a)
        BY <1>1, <1>2, <1>4, <2>2, <2>3, <2>4, <2>5 DEF Turn
    <2>7. ASSUME s \notin lost'
          PROVE  Found(s)'
        <3>1. Found(s) /\ s \notin lost
            BY <2>2, <2>7 DEF FoundInv
        <3>2. old \in {None, n} \/ (~Runs(s) /\ ~Pending(old, s))
            BY <2>2, <2>7
        <3>3. rec[s].node \in Node \cup {None} /\ calls \subseteq Call
            BY DEF Control, TypeOK, NodeTypeOK, Rec
        <3>4. \A k \in Node : vm[k][s] = "running" => k = n
            BY <2>1, <3>1, <3>2, PoolNodeAssumption DEF Found, Runs
        <3>5. \A c \in calls : c.id = s /\ Starting(c) => c.node = n
            BY <2>1, <3>1, <3>2, <3>3, PoolNodeAssumption DEF Found, Pending, Starting, Call
        <3>6. \A v \in Worker : job'[v].sb = s => job'[v].pc \notin {"claim", "place"}
            BY <1>2, <1>3, <2>3
        <3> QED BY <1>2, <2>2, <2>3, <2>4, <3>4, <3>5, <3>6 DEF Found
    <2> QED BY <1>1, <1>2, <2>3, <2>6, <2>7 DEF TurnDone
<1> QED BY <1>5, <1>6

LEMMA ClaimRetriesTurn ==
    ASSUME Control, AnswerInv, FoundInv, NEW w \in Worker, ClaimRetries(w)
    PROVE  TurnDone(job[w].sb, w)
<1>1. PICK s \in Sandbox : s = job[w].sb
    BY DEF ClaimRetries, Control, TypeOK, JobInv, Job
<1>2. PICK a : a = Asked(s, rec[s].node, "resume", job[w].src)
    OBVIOUS
<1>3. PICK c \in Answer(s, "error") : calls' = (calls \ {c}) \cup {a}
    BY <1>1, <1>2 DEF ClaimRetries
<1>4. UNCHANGED <<vm, rec, lost>> /\ job' = [job EXCEPT ![w].again = TRUE]
    BY DEF ClaimRetries
<1>5. /\ job'[w].sb = s /\ job'[w].pc = "resume"
      /\ \A v \in Worker \ {w} : job'[v] = job[v]
    BY <1>1, <1>4 DEF Control, TypeOK, Job, ClaimRetries
<1>6. \A v \in Worker : job[v].sb = s => v = w
    BY <1>1, WarmPoolAssumption DEF Control, JobInv
<1>7. a.id = s /\ a.heard /\ a.step = "queued" /\ a.node = rec[s].node /\ a.kind = "resume"
    BY <1>2 DEF Asked
<1>8. Awaits(w, a)'
    BY <1>5, <1>7 DEF Awaits
<1>9. \A d \in calls \ {c} : d.id = s => ~d.heard
    BY AnswerTaken
<1>10. Turn(s, w, a)
    BY <1>1, <1>3, <1>4, <1>5, <1>7, <1>8, <1>9 DEF Turn
<1>11. s \in lost' \/ Found(s)'
    <2>1. \A v \in Worker : job'[v].sb = s => job'[v].pc \notin {"claim", "place"}
        BY <1>5, <1>6
    <2>2. \A d \in calls' : d.id = s /\ Starting(d) => d \in calls \/ d.node = rec[s].node
        BY <1>3, <1>7
    <2> QED BY <1>4, <2>1, <2>2 DEF FoundInv, Found
<1> QED BY <1>1, <1>4, <1>5, <1>10, <1>11 DEF TurnDone

\* A turn that takes an answer, and asks for nothing.
LEMMA AnsweredTurn ==
    ASSUME Control, AnswerInv, NEW w \in Worker, NEW s \in Sandbox, job[w].sb = s, NEW k,
           \E c \in Answer(s, k) : calls' = calls \ {c},
           UNCHANGED vm,
           \A v \in Worker \ {w} : job'[v] = job[v],
           \A t \in Sandbox \ {s} : rec'[t] = rec[t]
    PROVE  \E a : Turn(s, w, a)
<1>1. PICK c \in Answer(s, k) : calls' = calls \ {c}
    OBVIOUS
<1>2. PICK a : a = Asked(s, None, "create", None)
    OBVIOUS
<1>3. a.id = s
    BY <1>2 DEF Asked
<1>4. \A d \in calls \ {c} : d.id = s => ~d.heard
    BY AnswerTaken
<1>5. Turn(s, w, a)
    BY <1>1, <1>3, <1>4 DEF Turn
<1> QED BY <1>5

\* A replica that is done with its sandbox leaves it where it is.
LEMMA FinishedTurn ==
    ASSUME Control, AnswerInv, FoundInv, NEW w \in Worker, NEW s \in Sandbox, job[w].sb = s, NEW k,
           \E c \in Answer(s, k) : calls' = calls \ {c},
           UNCHANGED <<vm, lost>>, job' = [job EXCEPT ![w] = Free],
           rec'[s].node = rec[s].node,
           \A t \in Sandbox \ {s} : rec'[t] = rec[t]
    PROVE  TurnDone(s, w)
<1>1. job'[w].sb = None /\ \A v \in Worker \ {w} : job'[v] = job[v]
    BY DEF Control, TypeOK, Free, Working
<1>2. \A v \in Worker : job'[v].sb # s
    BY <1>1, WarmPoolAssumption DEF Control, JobInv
<1>3. \E a : Turn(s, w, a)
    BY <1>1, AnsweredTurn
<1>4. calls' \subseteq calls
    OBVIOUS
<1>5. s \in lost' \/ Found(s)'
    BY <1>2, <1>4 DEF FoundInv, Found
<1> QED BY <1>1, <1>3, <1>5 DEF TurnDone

\* A replica at work on a sandbox is the only one.
LEMMA OneAtWork ==
    ASSUME Control, NEW w \in Worker, job[w].pc # "idle"
    PROVE  job[w].sb \in Sandbox /\ \A v \in Worker : job[v].sb = job[w].sb => v = w
BY DEF Control, TypeOK, JobInv, Job

LEMMA ClaimFinishTurn ==
    ASSUME Control, AnswerInv, FoundInv, NEW w \in Worker, ClaimFinish(w)
    PROVE  TurnDone(job[w].sb, w)
<1>1. PICK s \in Sandbox : s = job[w].sb
    BY OneAtWork DEF ClaimFinish
<1>2. /\ UNCHANGED <<vm, lost>> /\ job' = [job EXCEPT ![w] = Free]
      /\ rec' = [rec EXCEPT ![s] = Entry("running", rec[s].node, None)]
      /\ \E c \in Answer(s, "ok") : calls' = calls \ {c}
    BY <1>1 DEF ClaimFinish, Finish
<1>3. rec'[s].node = rec[s].node /\ \A t \in Sandbox \ {s} : rec'[t] = rec[t]
    BY <1>2 DEF Control, TypeOK, Entry
<1> QED BY <1>1, <1>2, <1>3, FinishedTurn

LEMMA BootedTurn ==
    ASSUME Control, AnswerInv, FoundInv, NEW w \in Worker, Booted(w)
    PROVE  TurnDone(job[w].sb, w)
<1>1. PICK s \in Sandbox : s = job[w].sb
    BY OneAtWork DEF Booted
<1>2. /\ UNCHANGED <<vm, lost>> /\ job' = [job EXCEPT ![w] = Free]
      /\ rec' = [rec EXCEPT ![s].state = "running"]
      /\ \E c \in Answer(s, "ok") : calls' = calls \ {c}
    BY <1>1 DEF Booted, Finish
<1>3. rec'[s].node = rec[s].node /\ \A t \in Sandbox \ {s} : rec'[t] = rec[t]
    BY <1>2 DEF Control, TypeOK, Rec
<1> QED BY <1>1, <1>2, <1>3, FinishedTurn

LEMMA BootFailsTurn ==
    ASSUME Control, AnswerInv, FoundInv, NEW w \in Worker, BootFails(w)
    PROVE  TurnDone(job[w].sb, w)
<1>1. PICK s \in Sandbox : s = job[w].sb
    BY OneAtWork DEF BootFails
<1>2. /\ UNCHANGED <<vm, lost>> /\ job' = [job EXCEPT ![w] = Free]
      /\ rec' = [rec EXCEPT ![s].state = "failed"]
    BY <1>1 DEF BootFails, Finish
<1>3. rec'[s].node = rec[s].node /\ \A t \in Sandbox \ {s} : rec'[t] = rec[t]
    BY <1>2 DEF Control, TypeOK, Rec
<1>4. PICK k \in {"error", "full"} : \E c \in Answer(s, k) : calls' = calls \ {c}
    BY <1>1 DEF BootFails
<1> QED BY <1>1, <1>2, <1>3, <1>4, FinishedTurn

LEMMA DestroyFailsTurn ==
    ASSUME Control, AnswerInv, FoundInv, NEW w \in Worker, DestroyFails(w)
    PROVE  TurnDone(job[w].sb, w)
<1>1. PICK s \in Sandbox : s = job[w].sb
    BY OneAtWork DEF DestroyFails
<1>2. /\ UNCHANGED <<vm, rec, lost>> /\ job' = [job EXCEPT ![w] = Free]
      /\ \E c \in Answer(s, "error") : calls' = calls \ {c}
    BY <1>1 DEF DestroyFails, Finish
<1> QED BY <1>1, <1>2, FinishedTurn

LEMMA ClaimClearTurn ==
    ASSUME Control, AnswerInv, FoundInv, NEW w \in Worker, ClaimClear(w)
    PROVE  TurnDone(job[w].sb, w)
<1>1. PICK s \in Sandbox : s = job[w].sb
    BY OneAtWork DEF ClaimClear
<1>2. /\ UNCHANGED vm
      /\ job' = [job EXCEPT ![w] = Working("place", s, None, {})]
      /\ rec' = [rec EXCEPT ![s] = Entry(rec[s].state, None, None)]
      /\ lost' = IF NoVm(s) THEN lost ELSE lost \cup {s}
      /\ \E c \in Answer(s, "error") : calls' = calls \ {c}
    BY <1>1 DEF ClaimClear, NoMember
<1>3. /\ \A t \in Sandbox \ {s} : rec'[t] = rec[t]
      /\ job'[w].sb = s /\ job'[w].full = {}
      /\ \A v \in Worker \ {w} : job'[v] = job[v] /\ job[v].sb # s
    BY <1>1, <1>2, WarmPoolAssumption DEF Control, TypeOK, JobInv, Working
<1>4. \E a : Turn(s, w, a)
    BY <1>1, <1>2, <1>3, AnsweredTurn
<1>5. ASSUME s \notin lost'
      PROVE  Found(s)'
    <2>1. NoVm(s) /\ calls \subseteq Call /\ calls' \subseteq calls
        BY <1>2, <1>5 DEF Control, TypeOK, NodeTypeOK
    <2>2. \A d \in calls' : d.id = s => ~Starting(d)
        BY <2>1 DEF NoVm, Pending, Starting, Call
    <2> QED BY <1>2, <1>3, <2>1, <2>2 DEF Found, NoVm
<1> QED BY <1>1, <1>2, <1>3, <1>4, <1>5 DEF TurnDone

LEMMA ElsewhereTurn ==
    ASSUME Control, AnswerInv, FoundInv, NEW w \in Worker, Elsewhere(w)
    PROVE  TurnDone(job[w].sb, w)
<1>1. PICK s \in Sandbox : s = job[w].sb
    BY OneAtWork DEF Elsewhere
<1>2. /\ UNCHANGED <<vm, rec, lost>>
      /\ job' = [job EXCEPT ![w] =
                    Working("place", s, None, job[w].full \cup {rec[s].node})]
    BY <1>1 DEF Elsewhere
<1>3. PICK c \in Answer(s, "full") : calls' = calls \ {c}
    BY <1>1 DEF Elsewhere
<1>4. job'[w].sb = s /\ \A v \in Worker \ {w} : job'[v] = job[v] /\ job[v].sb # s
    BY <1>1, <1>2, WarmPoolAssumption DEF Control, TypeOK, JobInv, Working
<1>5. \E a : Turn(s, w, a)
    BY <1>1, <1>2, <1>3, <1>4, AnsweredTurn
<1>6. c.step = "full" /\ c.node = rec[s].node /\ c.id = s /\ Last(c)
    BY <1>3, AnswerTaken
<1>7. ASSUME s \notin lost
      PROVE  Found(s)'
    <2>1. Found(s) /\ calls' \subseteq calls
        BY <1>3, <1>7 DEF FoundInv
    <2>2. vm[c.node][c.id] # "running"
        BY <1>6 DEF Last
    <2>3. \A n \in Node : vm[n][s] # "running"
        BY <1>6, <2>1, <2>2 DEF Found
    <2>4. \A d \in calls : d.id = s => ~Starting(d)
        BY <1>6, <2>1 DEF Found, Last, Starting
    <2> QED BY <1>2, <2>1, <2>3, <2>4 DEF Found
<1> QED BY <1>1, <1>2, <1>4, <1>5, <1>7 DEF TurnDone

LEMMA DestroyedTurn ==
    ASSUME Control, AnswerInv, FoundInv, NEW w \in Worker, Destroyed(w)
    PROVE  TurnDone(job[w].sb, w)
<1>1. PICK s \in Sandbox : s = job[w].sb
    BY OneAtWork DEF Destroyed
<1>2. /\ UNCHANGED <<vm, lost>> /\ job' = [job EXCEPT ![w] = Free]
      /\ rec' = [rec EXCEPT ![s] = Entry("deleted", None, None)]
    BY <1>1 DEF Destroyed, Finish
<1>3. PICK c \in Answer(s, "ok") : calls' = calls \ {c}
    BY <1>1 DEF Destroyed
<1>4. /\ \A t \in Sandbox \ {s} : rec'[t] = rec[t]
      /\ job'[w].sb = None /\ \A v \in Worker \ {w} : job'[v] = job[v] /\ job[v].sb # s
    BY <1>1, <1>2, WarmPoolAssumption DEF Control, TypeOK, JobInv, Free, Working
<1>5. \E a : Turn(s, w, a)
    BY <1>1, <1>2, <1>3, <1>4, AnsweredTurn
<1>6. c.step = "ok" /\ c.node = rec[s].node /\ c.id = s /\ Last(c) /\ Awaits(w, c)
    BY <1>1, <1>3, AnswerTaken
<1>7. c.kind = "destroy"
    BY <1>6 DEF Destroyed, Awaits
<1>8. s \notin lost => /\ \A n \in Node : vm[n][s] # "running"
                       /\ \A d \in calls : d.id = s => ~Starting(d)
    BY <1>6, <1>7 DEF FoundInv, Found, Last, Starting
<1>9. \A v \in Worker : job'[v].sb # s
    BY <1>4, WarmPoolAssumption
<1>10. s \in lost' \/ Found(s)'
    BY <1>2, <1>3, <1>8, <1>9 DEF Found
<1>11. TurnDone(s, w)
    BY <1>2, <1>4, <1>5, <1>10 DEF TurnDone
<1> QED BY <1>1, <1>11

LEMMA PlaceTurn ==
    ASSUME Control, AnswerInv, FoundInv, NEW w \in Worker, Place(w)
    PROVE  TurnDone(job[w].sb, w)
<1>1. PICK s \in Sandbox : s = job[w].sb
    BY OneAtWork DEF Place, NoClaim
<1>2. job[w].pc \in {"claim", "place"} /\ UNCHANGED <<vm, lost>>
    BY DEF Place, NoClaim
<1>3. \A v \in Worker : job[v].sb = s => v = w
    BY <1>1, <1>2, OneAtWork
<1>4. \A d \in calls : d.id = s => ~d.heard
    BY <1>2, <1>3, NobodyWaits
<1>5. CASE /\ rec' = [rec EXCEPT ![s].state = "running"]
           /\ job' = [job EXCEPT ![w] = Free]
           /\ UNCHANGED calls
    <2>1. PICK a : a = Asked(s, None, "create", None)
        OBVIOUS
    <2>2. /\ rec'[s].node = rec[s].node /\ \A t \in Sandbox \ {s} : rec'[t] = rec[t]
          /\ job'[w].sb = None /\ \A v \in Worker \ {w} : job'[v] = job[v]
        BY <1>5 DEF Control, TypeOK, Rec, Free, Working
    <2>3. a.id = s
        BY <2>1 DEF Asked
    <2>4. Turn(s, w, a)
        BY <1>1, <1>2, <1>4, <1>5, <2>2, <2>3 DEF Turn
    <2>5. \A v \in Worker : job'[v].sb # s
        BY <1>3, <2>2, WarmPoolAssumption
    <2>6. s \in lost' \/ Found(s)'
        BY <1>2, <1>5, <2>2, <2>5 DEF FoundInv, Found
    <2>7. TurnDone(s, w)
        BY <1>2, <2>2, <2>4, <2>6 DEF TurnDone
    <2> QED BY <1>1, <2>7
<1>6. ASSUME NEW n, NEW a, a = Asked(s, n, "create", None),
             rec' = [rec EXCEPT ![s].node = n], calls' = calls \cup {a},
             job' = [job EXCEPT ![w].pc = "boot"],
             \/ n = rec[s].node
             \/ rec[s].node = None \/ job[w].full # {}
      PROVE  TurnDone(s, w)
    <2>1. /\ rec'[s].node = n /\ \A t \in Sandbox \ {s} : rec'[t] = rec[t]
          /\ job'[w].sb = s /\ job'[w].pc = "boot"
          /\ \A v \in Worker \ {w} : job'[v] = job[v]
        BY <1>1, <1>6 DEF Control, TypeOK, Rec, Job
    <2>2. a.id = s /\ a.heard /\ a.step = "queued" /\ a.node = n /\ a.kind = "create"
        BY <1>6 DEF Asked
    <2>3. Awaits(w, a)'
        BY <2>1, <2>2 DEF Awaits
    <2>4. Turn(s, w, a)
        BY <1>1, <1>2, <1>4, <1>6, <2>1, <2>2, <2>3 DEF Turn
    <2>5. ASSUME s \notin lost'
          PROVE  Found(s)'
        <3>1. Found(s) /\ calls \subseteq Call
            BY <1>2, <2>5 DEF FoundInv, Control, TypeOK, NodeTypeOK
        <3>2. \A k \in Node : vm[k][s] = "running" => k = n
            BY <1>1, <1>2, <1>6, <3>1, PoolNodeAssumption DEF Found
        <3>3. \A d \in calls : d.id = s /\ Starting(d) => d.node = n
            BY <1>1, <1>2, <1>6, <3>1, PoolNodeAssumption DEF Found, Call
        <3>4. \A v \in Worker : job'[v].sb = s => job'[v].pc = "boot"
            BY <1>3, <2>1
        <3> QED BY <1>2, <1>6, <2>1, <2>2, <3>2, <3>3, <3>4 DEF Found
    <2> QED BY <1>2, <2>1, <2>4, <2>5 DEF TurnDone
<1>7. CASE \E n \in IF rec[s].node # None /\ job[w].full = {}
                    THEN {rec[s].node} ELSE Node \ job[w].full :
              /\ rec' = [rec EXCEPT ![s].node = n]
              /\ calls' = calls \cup {Asked(s, n, "create", None)}
              /\ job' = [job EXCEPT ![w].pc = "boot"]
    BY <1>1, <1>6, <1>7
<1> QED BY <1>1, <1>5, <1>7 DEF Place, Goto, Finish

\* A request of a sandbox that the node takes up, or has taken up, with somebody
\* waiting, has no other beside it.
LEMMA AloneAtWork ==
    ASSUME AnswerInv, NEW c \in calls, c.id \in Sandbox, c.heard,
           (\E kind : Starts(c, kind)) \/ c.step = "begun",
           NEW d \in calls, d.id = c.id, d.node = c.node, d.step \in {"queued", "begun"}
    PROVE  d = c
<1>1. CASE c.step = "begun"
    BY <1>1 DEF AnswerInv, LastInv, Last
<1>2. CASE \E kind : Starts(c, kind)
    <2>1. d.heard
        BY <1>2 DEF Starts
    <2> QED BY <2>1 DEF AnswerInv, OneHeard
<1> QED BY <1>1, <1>2

\* A request that goes one step further, or ends.
LEMMA MovesAnswers ==
    ASSUME AnswerInv, StartsKept, UNCHANGED <<rec, job>>, NodeTypeOK,
           NEW c \in calls, NEW k, NEW d,
           d.id = c.id, d.node = c.node, d.kind = c.kind, d.heard = c.heard, d.step = k,
           (\E kind : Starts(c, kind)) \/ c.step = "begun",
           calls' \subseteq (calls \ {c}) \cup {d},
           k = "full" \/ (k = "ok" /\ c.kind = "destroy") => vm'[c.node][c.id] # "running"
    PROVE  AnswerInv'
<1>1. OneHeard'
    BY DEF AnswerInv, OneHeard
<1>2. HeardInv'
    BY DEF AnswerInv, HeardInv, Awaits
<1>3. LastInv'
    <2> SUFFICES ASSUME NEW e \in calls', e.id \in Sandbox, e.heard,
                        e.step \in {"begun", "ok", "full"}
                 PROVE  Last(e)'
        BY DEF LastInv
    <2>1. c.step \in {"queued", "begun"}
        BY DEF Starts
    <2>2. CASE e = d
        <3>1. \A b \in calls' : b.id = e.id /\ b.node = e.node /\ b.step \in {"queued", "begun"} =>
                    b = e
            BY <2>2, AloneAtWork
        <3>2. e.step = "full" \/ (e.step = "ok" /\ e.kind = "destroy") => vm'[e.node][e.id] # "running"
            BY <2>2
        <3> QED BY <3>1, <3>2 DEF Last
    <2>3. CASE e \in calls \ {c}
        <3>1. Last(e)
            BY <2>3 DEF AnswerInv, LastInv
        <3>2. \A b \in calls' : b.id = e.id /\ b.node = e.node /\ b.step \in {"queued", "begun"} =>
                    b = e
            BY <2>1, <2>3, <3>1 DEF Last
        <3>3. ASSUME e.step = "full" \/ (e.step = "ok" /\ e.kind = "destroy")
              PROVE  vm'[e.node][e.id] # "running"
            <4>1. vm[e.node][e.id] # "running"
                BY <3>1, <3>3 DEF Last
            <4>2. \A b \in calls : ~(Starting(b) /\ b.id = e.id /\ b.node = e.node)
                BY <3>1, <3>3 DEF Last, Starting
            <4>3. e.node \in Node /\ e.id \in Id
                BY <2>3 DEF NodeTypeOK, Call
            <4> QED BY <4>1, <4>2, <4>3 DEF StartsKept
        <3> QED BY <3>2, <3>3 DEF Last
    <2> QED BY <2>2, <2>3
<1> QED BY <1>1, <1>2, <1>3 DEF AnswerInv

LEMMA TimeoutAnswers ==
    ASSUME AnswerInv, NodeTypeOK, NEW c \in calls, Timeout(c), UNCHANGED <<rec, job>>
    PROVE  AnswerInv'
<1>1. PICK e, u : e = [c EXCEPT !.step = "error"] /\ u = [c EXCEPT !.heard = FALSE]
    OBVIOUS
<1>2. /\ e.id = c.id /\ e.node = c.node /\ e.kind = c.kind /\ e.step = "error"
      /\ u.id = c.id /\ u.node = c.node /\ u.kind = c.kind /\ u.step = c.step /\ ~u.heard
    BY <1>1, CallFields DEF NodeTypeOK, Call
<1>3. calls' = (calls \ {c}) \cup {e, u} /\ UNCHANGED vm /\ c.heard /\ c.step \in {"queued", "begun"}
    BY <1>1 DEF Timeout
<1>4. OneHeard'
    BY <1>2, <1>3 DEF AnswerInv, OneHeard
<1>5. HeardInv'
    BY <1>2, <1>3 DEF AnswerInv, HeardInv, Awaits
<1>6. LastInv'
    <2> SUFFICES ASSUME NEW d \in calls', d.id \in Sandbox, d.heard,
                        d.step \in {"begun", "ok", "full"}
                 PROVE  Last(d)'
        BY DEF LastInv
    <2>1. d \in calls \ {c}
        BY <1>2, <1>3
    <2>2. Last(d)
        BY <2>1 DEF AnswerInv, LastInv
    <2> QED BY <1>2, <1>3, <2>1, <2>2 DEF Last
<1> QED BY <1>4, <1>5, <1>6 DEF AnswerInv

LEMMA HandlerAnswers ==
    ASSUME NodeTypeOK, ResumeInv, AnswerInv, Handler, UNCHANGED <<rec, job>>
    PROVE  AnswerInv'
<1>1. PICK c \in calls :
        \/ AdmitCreate(c)
        \/ Boot(c)
        \/ AdmitResume(c)
        \/ ResumeDone(c)
        \/ Fails(c)
        \/ OpSuspend(c)
        \/ OpDestroy(c)
        \/ Timeout(c)
    BY DEF Handler
<1>2. StartsKept
    BY HandlerStarts
<1>3. CASE Timeout(c)
    BY <1>3, TimeoutAnswers
<1>4. ASSUME NEW k \in {"begun", "ok", "full", "error"},
             (\E kind : Starts(c, kind)) \/ c.step = "begun",
             calls' \subseteq (calls \ {c}) \cup {[c EXCEPT !.step = k]},
             k = "full" \/ (k = "ok" /\ c.kind = "destroy") => vm'[c.node][c.id] # "running"
      PROVE  AnswerInv'
    <2>1. PICK d : d = [c EXCEPT !.step = k]
        OBVIOUS
    <2>2. c \in Call
        BY DEF NodeTypeOK
    <2>3. d.id = c.id /\ d.node = c.node /\ d.kind = c.kind /\ d.heard = c.heard /\ d.step = k
        BY <2>1, <2>2 DEF Call
    <2> QED BY <1>2, <1>4, <2>1, <2>3, MovesAnswers
<1>5. CASE AdmitCreate(c)
    <2>1. Starts(c, "create") /\ c.kind = "create" /\ UNCHANGED vm
        BY <1>5 DEF AdmitCreate, Starts
    <2>2. \/ calls' \subseteq (calls \ {c}) \cup {[c EXCEPT !.step = "ok"]}
          \/ calls' \subseteq (calls \ {c}) \cup {[c EXCEPT !.step = "begun"]}
          \/ /\ calls' \subseteq (calls \ {c}) \cup {[c EXCEPT !.step = "full"]}
             /\ vm[c.node][c.id] # "running"
        BY <1>5 DEF AdmitCreate, Reply
    <2> QED BY <1>4, <2>1, <2>2
<1>6. CASE Boot(c) \/ ResumeDone(c) \/ Fails(c)
    <2>1. c.step = "begun" /\ c.kind # "destroy"
        BY <1>6 DEF Boot, ResumeDone, Fails
    <2>2. \/ calls' \subseteq (calls \ {c}) \cup {[c EXCEPT !.step = "ok"]}
          \/ calls' \subseteq (calls \ {c}) \cup {[c EXCEPT !.step = "error"]}
        BY <1>6 DEF Boot, ResumeDone, Fails, Reply
    <2> QED BY <1>4, <2>1, <2>2
<1>7. CASE AdmitResume(c) \/ OpSuspend(c)
    <2>1. (\E kind : Starts(c, kind)) /\ c.kind # "destroy"
        BY <1>7 DEF AdmitResume, OpSuspend, Starts
    <2>2. \/ calls' \subseteq (calls \ {c}) \cup {[c EXCEPT !.step = "ok"]}
          \/ calls' \subseteq (calls \ {c}) \cup {[c EXCEPT !.step = "begun"]}
          \/ calls' \subseteq (calls \ {c}) \cup {[c EXCEPT !.step = "error"]}
        BY <1>7 DEF AdmitResume, OpSuspend, Reply
    <2> QED BY <1>4, <2>1, <2>2
<1>8. CASE OpDestroy(c)
    <2>1. Starts(c, "destroy") /\ calls' \subseteq (calls \ {c}) \cup {[c EXCEPT !.step = "ok"]}
        BY <1>8 DEF OpDestroy, Reply
    <2>2. c.node \in Node /\ c.id \in Id
        BY DEF NodeTypeOK, Call
    <2>3. vm'[c.node][c.id] # "running"
        BY <1>8, <2>2, BecomeRuns DEF OpDestroy
    <2> QED BY <1>4, <2>1, <2>3
<1> QED BY <1>1, <1>3, <1>5, <1>6, <1>7, <1>8

\* A member's refill, and the lock, are no sandbox's business.
LEMMA RefillingKeepsSandboxes ==
    ASSUME Control, NEW w \in Worker, Refilling(w)
    PROVE  SandboxesKept
<1>1. UNCHANGED <<vm, job, rec>> /\ lost \subseteq lost'
    BY DEF Refilling, Replenish, MakeMember, MemberRuns, MemberElsewhere, MemberWarm,
        MemberFails, nodeVars
<1>2. \A d \in calls' : d.id \in Sandbox => d \in calls
    <2>1. CASE MakeMember(w)
        BY <2>1, PoolNodeAssumption DEF MakeMember, Asked
    <2>2. CASE MemberRuns(w)
        <3>1. PICK m, a : m = refill[w].id /\ a = Asked(m, refill[w].node, "suspend", None)
            OBVIOUS
        <3>2. m \in Member /\ a.id = m
            BY <2>2, <3>1 DEF MemberRuns, Asked, Control, TypeOK, RefillInv, Refill
        <3>3. \A d \in calls' : d \in calls \/ d = a
            BY <2>2, <3>1 DEF MemberRuns
        <3> QED BY <3>2, <3>3, PoolNodeAssumption
    <2>3. CASE Replenish(w) \/ MemberElsewhere(w) \/ MemberWarm(w) \/ MemberFails(w)
        BY <2>3 DEF Replenish, MemberElsewhere, MemberWarm, MemberFails, nodeVars
    <2> QED BY <2>1, <2>2, <2>3 DEF Refilling
<1> QED BY <1>1, <1>2 DEF SandboxesKept

LEMMA IdleKeepsSandboxes ==
    ASSUME Control,
           \/ LockExpires \/ UNCHANGED vars
           \/ \E w \in Worker : Lead(w) \/ LeadFails(w)
           \/ \E s \in Sandbox : DeleteUnplaced(s)
    PROVE  SandboxesKept
<1>1. UNCHANGED <<vm, job, calls, lost>>
    BY DEF LockExpires, Lead, LeadFails, DeleteUnplaced, vars, nodeVars
<1>2. \A s \in Sandbox : rec'[s].node = rec[s].node
    <2>1. CASE UNCHANGED rec
        BY <2>1
    <2>2. ASSUME NEW s \in Sandbox, DeleteUnplaced(s)
          PROVE  \A t \in Sandbox : rec'[t].node = rec[t].node
        BY <2>2 DEF DeleteUnplaced, Entry, Control, TypeOK
    <2> QED BY <2>1, <2>2 DEF LockExpires, Lead, LeadFails, vars
<1> QED BY <1>1, <1>2 DEF SandboxesKept

\* A replica that dies waits for nothing any more, and its requests go on.
LEMMA CrashKeepsSandboxes ==
    ASSUME Control, AnswerInv, FoundInv, NEW w \in Worker, Crash(w)
    PROVE  AnswerInv' /\ FoundInv'
<1>1. PICK ids : ids = {job[w].sb, refill[w].id}
    OBVIOUS
<1>2. \A d \in calls' :
        \/ d \in calls /\ ~(d.heard /\ d.id \in ids)
        \/ \E c \in calls : c.heard /\ c.id \in ids /\ d = [c EXCEPT !.heard = FALSE]
    BY <1>1 DEF Crash
<1>3. \A d \in calls' :
        \/ d \in calls /\ ~(d.heard /\ d.id \in ids)
        \/ \E c \in calls : /\ c.heard /\ c.id \in ids /\ ~d.heard
                            /\ d.id = c.id /\ d.node = c.node /\ d.kind = c.kind /\ d.step = c.step
    <2> SUFFICES ASSUME NEW d \in calls', ~(d \in calls /\ ~(d.heard /\ d.id \in ids))
                 PROVE  \E c \in calls :
                            /\ c.heard /\ c.id \in ids /\ ~d.heard
                            /\ d.id = c.id /\ d.node = c.node /\ d.kind = c.kind /\ d.step = c.step
        OBVIOUS
    <2>1. PICK c \in calls : c.heard /\ c.id \in ids /\ d = [c EXCEPT !.heard = FALSE]
        BY <1>2
    <2>2. c \in Call
        BY DEF Control, TypeOK, NodeTypeOK
    <2> QED BY <2>1, <2>2 DEF Call
<1>4. /\ UNCHANGED <<vm, rec>> /\ lost \subseteq lost'
      /\ job'[w].sb = None /\ \A v \in Worker \ {w} : job'[v] = job[v]
    BY DEF Crash, Control, TypeOK, Free, Working
<1>5. OneHeard'
    BY <1>3 DEF AnswerInv, OneHeard
<1>6. HeardInv'
    <2> SUFFICES ASSUME NEW c \in calls', c.id \in Sandbox, c.heard
                 PROVE  c.node = rec[c.id].node /\ \E v \in Worker : Awaits(v, c)'
        BY <1>4 DEF HeardInv
    <2>1. c \in calls /\ c.id # job[w].sb
        BY <1>1, <1>3
    <2>2. PICK v \in Worker : Awaits(v, c)
        BY <2>1 DEF AnswerInv, HeardInv
    <2>3. v # w
        BY <2>1, <2>2 DEF Awaits
    <2> QED BY <1>4, <2>1, <2>2, <2>3 DEF AnswerInv, HeardInv, Awaits
<1>7. LastInv'
    <2> SUFFICES ASSUME NEW c \in calls', c.id \in Sandbox, c.heard,
                        c.step \in {"begun", "ok", "full"}
                 PROVE  Last(c)'
        BY DEF LastInv
    <2>1. c \in calls /\ c.id \notin ids
        BY <1>3
    <2>2. \A d \in calls' : d.id = c.id => d \in calls
        BY <1>3, <2>1
    <2> QED BY <1>4, <2>1, <2>2 DEF AnswerInv, LastInv, Last
<1>8. FoundInv'
    <2> SUFFICES ASSUME NEW s \in Sandbox \ lost' PROVE Found(s)'
        BY DEF FoundInv
    <2>1. Found(s)
        BY <1>4 DEF FoundInv
    <2>2. \A d \in calls' : Starting(d) =>
              \E c \in calls : Starting(c) /\ c.id = d.id /\ c.node = d.node
        BY <1>3 DEF Starting
    <2>3. \A v \in Worker : job'[v].sb = s => v # w
        BY <1>4, WarmPoolAssumption
    <2> QED BY <1>4, <2>1, <2>2, <2>3 DEF Found
<1> QED BY <1>5, <1>6, <1>7, <1>8 DEF AnswerInv

LEMMA CreatingTurn ==
    ASSUME Control, AnswerInv, FoundInv, NEW w \in Worker, Creating(w)
    PROVE  job[w].sb \in Sandbox /\ TurnDone(job[w].sb, w)
<1>1. job[w].pc # "idle"
    <2>1. CASE ClaimAgain(w) \/ ClaimMember(w) \/ ClaimJournal(w)
        BY <2>1 DEF ClaimAgain, ClaimMember, ClaimJournal
    <2>2. CASE ClaimRetries(w) \/ ClaimClear(w) \/ ClaimFinish(w)
        BY <2>2 DEF ClaimRetries, ClaimClear, ClaimFinish
    <2>3. CASE Place(w) \/ Booted(w) \/ Elsewhere(w) \/ BootFails(w)
        BY <2>3 DEF Place, NoClaim, Booted, Elsewhere, BootFails
    <2>4. CASE Destroyed(w) \/ DestroyFails(w)
        BY <2>4 DEF Destroyed, DestroyFails
    <2> QED BY <2>1, <2>2, <2>3, <2>4 DEF Creating
<1>2. TurnDone(job[w].sb, w)
    BY ClaimTurn, ClaimJournalTurn, ClaimRetriesTurn, ClaimClearTurn, ClaimFinishTurn,
        PlaceTurn, BootedTurn, ElsewhereTurn, BootFailsTurn, DestroyedTurn, DestroyFailsTurn
    DEF Creating
<1>3. job[w].sb \in Sandbox
    BY <1>1, OneAtWork
<1> QED BY <1>2, <1>3

LEMMA TurnDoneHolds ==
    ASSUME Control, AnswerInv, FoundInv, NEW w \in Worker, NEW s \in Sandbox, TurnDone(s, w)
    PROVE  AnswerInv' /\ FoundInv'
<1>1. PICK a : Turn(s, w, a)
    BY DEF TurnDone
<1> QED BY <1>1, TurnAnswers, TurnFound DEF TurnDone

LEMMA StepFound ==
    ASSUME PoolInv, VcpuInv, AnswerInv, FoundInv, [Next]_vars
    PROVE  AnswerInv' /\ FoundInv'
<1>1. Control /\ NodeTypeOK /\ ResumeInv
    BY DEF PoolInv, Control, TypeOK, VcpuInv
<1>2. CASE Handler /\ UNCHANGED <<leaderVars, item, rec, job, refill, lost>>
    BY <1>1, <1>2, HandlerAnswers, HandlerFound
<1>3. ASSUME NEW w \in Worker, Refilling(w) PROVE AnswerInv' /\ FoundInv'
    BY <1>1, <1>3, RefillingKeepsSandboxes, SandboxesKeptHolds
<1>4. ASSUME NEW w \in Worker, Creating(w) PROVE AnswerInv' /\ FoundInv'
    BY <1>1, <1>4, CreatingTurn, TurnDoneHolds
<1>5. ASSUME NEW w \in Worker, NEW s \in Sandbox, Create(w, s) \/ Delete(w, s)
      PROVE  AnswerInv' /\ FoundInv'
    BY <1>1, <1>5, CreateTurn, DeleteTurn, TurnDoneHolds
<1>6. ASSUME \/ LockExpires \/ UNCHANGED vars
             \/ \E w \in Worker : Lead(w) \/ LeadFails(w)
             \/ \E s \in Sandbox : DeleteUnplaced(s)
      PROVE  AnswerInv' /\ FoundInv'
    BY <1>1, <1>6, IdleKeepsSandboxes, SandboxesKeptHolds
<1>7. ASSUME NEW w \in Worker, Crash(w) PROVE AnswerInv' /\ FoundInv'
    BY <1>1, <1>7, CrashKeepsSandboxes
<1> QED BY <1>2, <1>3, <1>4, <1>5, <1>6, <1>7 DEF Next

LEMMA InitFound == Init => MadeInvs /\ AnswerInv /\ FoundInv
<1> SUFFICES ASSUME Init PROVE MadeInvs /\ AnswerInv /\ FoundInv
    OBVIOUS
<1>1. /\ calls = {} /\ \A n \in Node, i \in Id : vm[n][i] = "none"
      /\ \A w \in Worker : refill[w].pc = "idle" /\ job[w].pc = "idle"
    BY DEF Init, NodeInit, Rest, Filling, Free, Working
<1>2. MadeInvs
    BY <1>1 DEF MadeInvs, PutInv, MadeInv, Id
<1>3. AnswerInv
    BY <1>1 DEF AnswerInv, OneHeard, HeardInv, LastInv
<1>4. FoundInv
    BY <1>1 DEF FoundInv, Found, Id
<1> QED BY <1>2, <1>3, <1>4

\* A VM that runs is found where it is looked for, or is one of those that
\* were knowingly let go of.
LEMMA FoundIsAccounted == MadeInvs /\ FoundInv => Accounted
BY DEF MadeInvs, MadeInv, FoundInv, Found, Accounted, Held

\* Every VM of a sandbox or member that no failure path let go of stays where
\* its record, item or refill says: with any number of replicas, however many
\* of them lead, and whatever answer is lost and whatever replica dies.
THEOREM VmsAccountedFor == Spec => []Accounted
<1> DEFINE AInv == PoolInv /\ VcpuInv /\ MadeInvs /\ AnswerInv /\ FoundInv
<1>1. Init => AInv
    BY InitPool, InitVcpus, InitFound
<1>2. AInv /\ [Next]_vars => AInv'
    <2> SUFFICES ASSUME AInv, [Next]_vars PROVE AInv'
        OBVIOUS
    <2>1. PoolInv'
        BY NextPool
    <2>2. VcpuInv'
        BY NextVcpus
    <2>3. MadeInvs'
        BY <2>1, StepMade
    <2>4. AnswerInv' /\ FoundInv'
        BY StepFound
    <2> QED BY <2>1, <2>2, <2>3, <2>4
<1>3. AInv => Accounted
    BY FoundIsAccounted
<1> QED BY <1>1, <1>2, <1>3, PTL DEF Spec

-----------------------------------------------------------------------------
(* The size of the pool. *)

\* The faults so far.
Faults == Budget - budget

\* The replicas that may refill: they believe they lead, or still refill...
Active == {w \in Worker : w \in leads \/ refill[w] # Rest}

\* ...and those of them that are not the leader.
Behind == {w \in Active : ~(lock = w /\ w \in leads)}

\* Each cost a fault.
BehindInv == Cardinality(Behind) <= Faults

\* A refill that is at work has a member to make.
NeedInv == \A w \in Worker : refill[w] = Rest \/ refill[w].need > 0

Needs == [w \in Worker |-> refill[w].need]

\* The pool, with the members still to be made, has room for them.
FilledInv == Cardinality(Warm) + SumOver(Needs, Worker) <= PoolSize * (1 + Faults)

SizeInv == BehindInv /\ NeedInv /\ FilledInv

\* A step only spends faults.
LEMMA FaultsGrow ==
    ASSUME TypeOK, TypeOK', [Next]_vars
    PROVE  Faults \in Nat /\ Faults' \in Nat /\ Faults <= Faults'
<1>1. budget \in 0 .. Budget /\ budget' \in 0 .. Budget /\ Budget \in Nat
    BY PoolNodeAssumption DEF TypeOK, NodeTypeOK
<1>2. budget' = budget \/ budget' = budget - 1
    <2>1. ASSUME Handler
          PROVE  budget' = budget \/ budget' = budget - 1
        BY <2>1 DEF Handler, AdmitCreate, Boot, AdmitResume, ResumeDone, Fails, OpSuspend,
            OpDestroy, Timeout, Spend
    <2>2. ASSUME NEW w \in Worker, Refilling(w)
          PROVE  budget' = budget
        BY <2>2 DEF Refilling, Replenish, MakeMember, MemberRuns, MemberElsewhere, MemberWarm,
            MemberFails, nodeVars
    <2>3. ASSUME NEW w \in Worker, Creating(w)
          PROVE  budget' = budget \/ budget' = budget - 1
        <3>1. ClaimAgain(w) \/ ClaimMember(w) => budget' = budget
            BY DEF ClaimAgain, ClaimMember, nodeVars
        <3>2. ClaimJournal(w) \/ ClaimRetries(w) \/ ClaimFinish(w) => budget' = budget
            BY DEF ClaimJournal, ClaimRetries, ClaimFinish
        <3>3. ClaimClear(w) => budget' = budget \/ budget' = budget - 1
            BY DEF ClaimClear, Spend
        <3>4. Place(w) \/ Booted(w) \/ Elsewhere(w) \/ BootFails(w) => budget' = budget
            BY DEF Place, Booted, Elsewhere, BootFails
        <3>5. Destroyed(w) \/ DestroyFails(w) => budget' = budget
            BY DEF Destroyed, DestroyFails
        <3> QED BY <2>3, <3>1, <3>2, <3>3, <3>4, <3>5 DEF Creating
    <2>4. ASSUME NEW w \in Worker, Lead(w) \/ LeadFails(w) \/ Crash(w)
          PROVE  budget' = budget \/ budget' = budget - 1
        BY <2>4 DEF Lead, LeadFails, Crash, Spend, nodeVars
    <2>5. ASSUME NEW w \in Worker, NEW s \in Sandbox, Create(w, s) \/ Delete(w, s)
          PROVE  budget' = budget \/ budget' = budget - 1
        BY <2>5 DEF Create, Delete, Spend
    <2>6. ASSUME NEW s \in Sandbox, DeleteUnplaced(s)
          PROVE  budget' = budget
        BY <2>6 DEF DeleteUnplaced, nodeVars
    <2>7. LockExpires \/ UNCHANGED vars => budget' = budget \/ budget' = budget - 1
        BY DEF LockExpires, Spend, vars, nodeVars
    <2> QED BY <2>1, <2>2, <2>3, <2>4, <2>5, <2>6, <2>7 DEF Next
<1>3. PICK b, c : b = budget /\ c = budget'
    OBVIOUS
<1>4. b \in 0 .. Budget /\ c \in 0 .. Budget /\ Budget \in Nat /\ (c = b \/ c = b - 1)
    BY <1>1, <1>2, <1>3
<1>5. Faults = Budget - b /\ Faults' = Budget - c
    BY <1>3 DEF Faults
<1> QED BY <1>4, <1>5

\* More faults allow for more.
LEMMA MoreFaults ==
    ASSUME NEW a \in Nat, NEW b \in Nat, a <= b
    PROVE  /\ PoolSize * (1 + a) <= PoolSize * (1 + b)
           /\ PoolSize * (1 + a) = PoolSize + PoolSize * a
           /\ PoolSize * a <= PoolSize * b
           /\ PoolSize * a \in Nat /\ PoolSize * (1 + a) \in Nat /\ PoolSize * (1 + b) \in Nat
<1> DEFINE p == PoolSize
<1>1. p \in Nat
    BY WarmPoolAssumption
<1> HIDE DEF p
<1>2. PICK d \in Nat : b = a + d
    OBVIOUS
<1>3. /\ p * (a + d) = p * a + p * d /\ p * (1 + a) = p + p * a
      /\ p * (1 + (a + d)) = p + p * a + p * d
      /\ p * a \in Nat /\ p * d \in Nat
    BY <1>1
<1> QED BY <1>1, <1>2, <1>3 DEF p

\* The sets and sums are finite, and of numbers.
LEMMA SizeTypes ==
    ASSUME TypeOK
    PROVE  /\ \A v \in Worker : Needs[v] \in 0 .. PoolSize /\ Needs[v] \in Int
           /\ SumOver(Needs, Worker) \in Int
           /\ IsFiniteSet(Warm) /\ Cardinality(Warm) \in Nat
           /\ IsFiniteSet(Behind) /\ Cardinality(Behind) \in Nat
           /\ IsFiniteSet(Active)
<1>1. \A v \in Worker : Needs[v] \in 0 .. PoolSize /\ Needs[v] \in Int
    BY WarmPoolAssumption DEF Needs, TypeOK, Refill
<1>2. SumOver(Needs, Worker) \in Int
    BY <1>1, WarmPoolAssumption, SumType
<1>3. IsFiniteSet(Warm) /\ IsFiniteSet(Active)
    BY PoolNodeAssumption, WarmPoolAssumption, FS_Subset DEF Warm, Active
<1>4. IsFiniteSet(Behind)
    BY <1>3, FS_Subset DEF Behind
<1> QED BY <1>1, <1>2, <1>3, <1>4, FS_CardinalityType

\* A step that is no refill's, and leaves the leaders alone.
LEMMA StillFilled ==
    ASSUME TypeOK, TypeOK', [Next]_vars, SizeInv, UNCHANGED refill, Warm' \subseteq Warm
    PROVE  NeedInv' /\ FilledInv'
<1>1. NeedInv'
    BY DEF SizeInv, NeedInv
<1>2. Needs' = Needs
    BY DEF Needs
<1>3. Cardinality(Warm') <= Cardinality(Warm) /\ Cardinality(Warm') \in Nat
    BY SizeTypes, FS_Subset, FS_CardinalityType
<1>4. SumOver(Needs', Worker) = SumOver(Needs, Worker)
    BY <1>2
<1>5. FilledInv'
    <2>1. PoolSize * (1 + Faults) <= PoolSize * (1 + Faults')
        BY FaultsGrow, MoreFaults
    <2>2. PoolSize * (1 + Faults) \in Nat /\ PoolSize * (1 + Faults') \in Nat
        BY FaultsGrow, MoreFaults
    <2>3. SumOver(Needs, Worker) \in Int /\ Cardinality(Warm) \in Nat
        BY SizeTypes
    <2>4. Cardinality(Warm) + SumOver(Needs, Worker) <= PoolSize * (1 + Faults)
        BY DEF SizeInv, FilledInv
    <2>5. Cardinality(Warm') + SumOver(Needs', Worker) <= PoolSize * (1 + Faults')
        BY <1>3, <1>4, <2>1, <2>2, <2>3, <2>4
    <2> QED BY <2>5 DEF FilledInv, SumOver, MapThenSumSet, MapThenFoldSet
<1> QED BY <1>1, <1>5

\* A replica that falls behind costs a fault.
LEMMA BehindCosts ==
    ASSUME TypeOK, TypeOK', [Next]_vars, SizeInv,
           Behind' \subseteq Behind \/ (Spend /\ \E v : Behind' \subseteq Behind \cup {v})
    PROVE  BehindInv'
<1>1. Faults \in Nat /\ Faults' \in Nat /\ Faults <= Faults'
    BY FaultsGrow
<1>2. IsFiniteSet(Behind) /\ Cardinality(Behind) \in Nat /\ Cardinality(Behind) <= Faults
    BY SizeTypes DEF SizeInv, BehindInv
<1>3. CASE Behind' \subseteq Behind
    <2>1. Cardinality(Behind') <= Cardinality(Behind) /\ Cardinality(Behind') \in Nat
        BY <1>2, <1>3, FS_Subset, FS_CardinalityType
    <2> QED BY <1>1, <1>2, <2>1 DEF BehindInv
<1>4. ASSUME Spend, NEW v, Behind' \subseteq Behind \cup {v}
      PROVE  BehindInv'
    <2>1. IsFiniteSet(Behind \cup {v}) /\ Cardinality(Behind \cup {v}) <= Cardinality(Behind) + 1
        <3>1. PICK S : S = Behind
            OBVIOUS
        <3>2. IsFiniteSet(S) /\ Cardinality(S) \in Nat
            BY <1>2, <3>1
        <3>3. /\ IsFiniteSet(S \cup {v})
              /\ Cardinality(S \cup {v}) = IF v \in S THEN Cardinality(S) ELSE Cardinality(S) + 1
            BY <3>2, FS_AddElement
        <3>4. Cardinality(S \cup {v}) <= Cardinality(S) + 1
            BY <3>2, <3>3
        <3> QED BY <3>1, <3>3, <3>4
    <2>2. Cardinality(Behind') <= Cardinality(Behind \cup {v}) /\ Cardinality(Behind') \in Nat
          /\ Cardinality(Behind \cup {v}) \in Nat
        BY <1>4, <2>1, FS_Subset, FS_CardinalityType
    <2>3. Faults' = Faults + 1
        <3>1. budget \in Int /\ budget' = budget - 1 /\ Budget \in Int
            BY <1>4, PoolNodeAssumption DEF Spend, TypeOK, NodeTypeOK
        <3> QED BY <3>1 DEF Faults
    <2>4. Cardinality(Behind') <= Faults'
        BY <1>1, <1>2, <2>1, <2>2, <2>3
    <2> QED BY <2>4 DEF BehindInv
<1> QED BY <1>3, <1>4

\* The leader lock.
LEMMA LeadSize ==
    ASSUME TypeOK, TypeOK', [Next]_vars, SizeInv, NEW w \in Worker, Lead(w) \/ LeadFails(w)
    PROVE  SizeInv'
<1>1. UNCHANGED <<item, refill>>
    BY DEF Lead, LeadFails
<1>2. Warm' \subseteq Warm
    BY <1>1 DEF Warm
<1>3. CASE Lead(w)
    <2>1. Behind' \subseteq Behind
        BY <1>1, <1>3, WarmPoolAssumption DEF Lead, CanLead, Behind, Active, TypeOK
    <2> QED BY <1>1, <1>2, <2>1, BehindCosts, StillFilled DEF SizeInv
<1>4. CASE LeadFails(w)
    <2>1. leads' = leads \ {w} /\ UNCHANGED lock /\ w \in leads
        BY <1>4 DEF LeadFails
    <2>2. Behind' \subseteq Behind \cup {w}
        BY <1>1, <2>1 DEF Behind, Active
    <2>3. CASE lock = w
        <3>1. Spend
            BY <1>4, <2>3 DEF LeadFails, CanLead
        <3> QED BY <1>1, <1>2, <2>2, <3>1, BehindCosts, StillFilled DEF SizeInv
    <2>4. CASE lock # w
        <3>1. w \in Behind
            BY <2>1, <2>4 DEF Behind, Active
        <3> QED BY <1>1, <1>2, <2>2, <3>1, BehindCosts, StillFilled DEF SizeInv
    <2> QED BY <2>3, <2>4
<1> QED BY <1>3, <1>4

LEMMA LockExpiresSize ==
    ASSUME TypeOK, TypeOK', [Next]_vars, SizeInv, LockExpires
    PROVE  SizeInv'
<1>1. UNCHANGED <<item, refill, leads>> /\ lock' = None
    BY DEF LockExpires
<1>2. Warm' \subseteq Warm
    BY <1>1 DEF Warm
<1>3. Behind' \subseteq Behind \cup {lock}
    BY <1>1 DEF Behind, Active
<1>4. lock \notin leads => Behind' \subseteq Behind
    BY <1>1 DEF Behind, Active
<1>5. lock \in leads => Spend
    BY DEF LockExpires
<1> QED BY <1>1, <1>2, <1>3, <1>4, <1>5, BehindCosts, StillFilled DEF SizeInv

\* A step that has nothing to do with the pool.
LEMMA OtherSize ==
    ASSUME TypeOK, TypeOK', [Next]_vars, SizeInv,
           UNCHANGED <<lock, leads, refill>>, Warm' \subseteq Warm
    PROVE  SizeInv'
<1>1. Behind' \subseteq Behind
    BY DEF Behind, Active
<1> QED BY <1>1, BehindCosts, StillFilled DEF SizeInv

\* A creation makes no member warm.
LEMMA CreatingSize ==
    ASSUME TypeOK, NEW w \in Worker, Creating(w)
    PROVE  UNCHANGED <<lock, leads, refill>> /\ Warm' \subseteq Warm
<1>1. CASE ClaimAgain(w) \/ ClaimJournal(w) \/ ClaimRetries(w)
    BY <1>1 DEF ClaimAgain, ClaimJournal, ClaimRetries, leaderVars, Warm
<1>2. CASE ClaimMember(w)
    BY <1>2 DEF ClaimMember, CanClaim, leaderVars, Warm, TypeOK
<1>3. CASE ClaimClear(w) \/ ClaimFinish(w)
    <2>1. item' = [item EXCEPT ![job[w].src] = Gone] /\ UNCHANGED <<lock, leads, refill>>
        BY <1>3 DEF ClaimClear, ClaimFinish, leaderVars
    <2> QED BY <2>1 DEF Warm, Gone, TypeOK
<1>4. CASE Place(w) \/ Booted(w) \/ Elsewhere(w)
    BY <1>4 DEF Place, Booted, Elsewhere, leaderVars, Warm
<1>5. CASE BootFails(w) \/ Destroyed(w) \/ DestroyFails(w)
    BY <1>5 DEF BootFails, Destroyed, DestroyFails, leaderVars, Warm
<1> QED BY <1>1, <1>2, <1>3, <1>4, <1>5 DEF Creating

\* A refill's step: at most as much is left to be made and warm as before.
LEMMA RefillSize ==
    ASSUME TypeOK, TypeOK', [Next]_vars, SizeInv, NEW w \in Worker,
           lock' = lock,
           leads' \in {leads, leads \ {w}}, leads' # leads => refill'[w] = Rest,
           refill[w] = Rest => refill'[w] = Rest,
           \A v \in Worker \ {w} : refill'[v] = refill[v],
           refill'[w] = Rest \/ refill'[w].need > 0,
           NEW k \in {0, 1}, refill'[w].need + k <= refill[w].need,
           Cardinality(Warm') <= Cardinality(Warm) + k
    PROVE  SizeInv'
<1>1. Behind' \subseteq Behind
    BY DEF Behind, Active
<1>2. BehindInv'
    BY <1>1, BehindCosts
<1>3. NeedInv'
    BY DEF SizeInv, NeedInv
<1>4. FilledInv'
    <2>1. PICK f, g : f = Needs /\ g = Needs'
        OBVIOUS
    <2>2. \A v \in Worker : f[v] \in 0 .. PoolSize /\ f[v] \in Int
        BY <2>1, SizeTypes
    <2>3. \A v \in Worker : g[v] \in Int
        BY <2>1, WarmPoolAssumption DEF Needs, TypeOK, Refill
    <2>4. \A v \in Worker \ {w} : f[v] = g[v]
        BY <2>1 DEF Needs
    <2>5. SumOver(g, Worker) = SumOver(f, Worker) - f[w] + g[w]
        BY <2>2, <2>3, <2>4, WarmPoolAssumption, SumChange
    <2>6. f[w] = refill[w].need /\ g[w] = refill'[w].need
        BY <2>1 DEF Needs
    <2>7. SumOver(f, Worker) \in Int /\ Cardinality(Warm) \in Nat /\ Cardinality(Warm') \in Nat
        BY <2>1, SizeTypes, PoolNodeAssumption, FS_Subset, FS_CardinalityType DEF Warm
    <2>8. Cardinality(Warm) + SumOver(f, Worker) <= PoolSize * (1 + Faults)
        BY <2>1 DEF SizeInv, FilledInv
    <2>9. /\ PoolSize * (1 + Faults) <= PoolSize * (1 + Faults')
          /\ PoolSize * (1 + Faults) \in Nat /\ PoolSize * (1 + Faults') \in Nat
        BY FaultsGrow, MoreFaults
    <2>10. Cardinality(Warm') + SumOver(g, Worker) <= PoolSize * (1 + Faults')
        BY <2>2, <2>3, <2>5, <2>6, <2>7, <2>8, <2>9
    <2> QED BY <2>1, <2>10 DEF FilledInv, SumOver, MapThenSumSet, MapThenFoldSet
<1> QED BY <1>2, <1>3, <1>4 DEF SizeInv

\* A refill begins: the others that are at work are no more than the faults.
LEMMA ReplenishSize ==
    ASSUME TypeOK, TypeOK', [Next]_vars, SizeInv, NEW w \in Worker, Replenish(w)
    PROVE  SizeInv'
<1>1. /\ refill[w] = Rest /\ w \in leads /\ Cardinality(Warm) < PoolSize
      /\ UNCHANGED <<budget, lock, leads, item>>
      /\ refill' = [refill EXCEPT ![w] =
                       Filling("make", PoolSize - Cardinality(Warm), None, None, {})]
    BY DEF Replenish, nodeVars, leaderVars
<1>2. /\ refill'[w].need = PoolSize - Cardinality(Warm) /\ refill[w].need = 0
      /\ \A v \in Worker \ {w} : refill'[v] = refill[v]
      /\ refill'[w] # Rest
    BY <1>1 DEF TypeOK, Filling, Rest
<1>3. BehindInv'
    <2>1. Behind' \subseteq Behind
        BY <1>1, <1>2 DEF Behind, Active
    <2> QED BY <2>1, BehindCosts
<1>4. PoolSize \in Nat /\ Cardinality(Warm) \in Nat
    BY WarmPoolAssumption, SizeTypes
<1>5. NeedInv'
    BY <1>1, <1>2, <1>4 DEF SizeInv, NeedInv
<1>6. PICK S : S = Active \ {w}
    OBVIOUS
<1>7. IsFiniteSet(S) /\ Cardinality(S) \in Nat /\ Cardinality(S) <= Faults
    <2>1. PICK B : B = Behind
        OBVIOUS
    <2>2. IsFiniteSet(B) /\ Cardinality(B) \in Nat /\ Cardinality(B) <= Faults
        BY <2>1, SizeTypes DEF SizeInv, BehindInv
    <2>3. IsFiniteSet(S) /\ Cardinality(S) \in Nat
        BY <1>6, SizeTypes, FS_Subset, FS_CardinalityType
    <2>4. Faults \in Nat
        BY FaultsGrow
    <2>5. CASE lock = w
        <3>1. S \subseteq B
            BY <1>6, <2>1, <2>5 DEF Behind
        <3>2. Cardinality(S) <= Cardinality(B)
            BY <2>2, <3>1, FS_Subset
        <3> QED BY <2>2, <2>3, <2>4, <3>2
    <2>6. CASE lock # w
        <3>1. PICK x : x = lock
            OBVIOUS
        <3>2. w \in B /\ S \subseteq (B \ {w}) \cup {x}
            BY <1>1, <1>6, <2>1, <2>6, <3>1 DEF Behind, Active
        <3>3. IsFiniteSet(B \ {w}) /\ Cardinality(B \ {w}) = Cardinality(B) - 1
            BY <2>2, <3>2, FS_RemoveElement
        <3>4. IsFiniteSet((B \ {w}) \cup {x}) /\ Cardinality((B \ {w}) \cup {x}) <= Cardinality(B)
            <4>1. PICK D : D = B \ {w}
                OBVIOUS
            <4>2. /\ IsFiniteSet(D \cup {x})
                  /\ Cardinality(D \cup {x}) = IF x \in D THEN Cardinality(D) ELSE Cardinality(D) + 1
                BY <3>3, <4>1, FS_AddElement
            <4>3. Cardinality(D) = Cardinality(B) - 1
                BY <3>3, <4>1
            <4>4. Cardinality(D \cup {x}) <= Cardinality(B)
                BY <2>2, <4>2, <4>3
            <4> QED BY <4>1, <4>2, <4>4
        <3>5. Cardinality(S) <= Cardinality((B \ {w}) \cup {x})
            BY <3>2, <3>4, FS_Subset
        <3>6. Cardinality((B \ {w}) \cup {x}) \in Nat
            BY <3>4, FS_CardinalityType
        <3> QED BY <2>2, <2>3, <2>4, <3>4, <3>5, <3>6
    <2> QED BY <2>3, <2>5, <2>6
<1>8. PICK f, g : f = Needs /\ g = Needs'
    OBVIOUS
<1>9. \A v \in Worker : f[v] \in 0 .. PoolSize /\ f[v] \in Int /\ g[v] \in Int
    BY <1>8, SizeTypes, WarmPoolAssumption DEF Needs, TypeOK, Refill
<1>10. SumOver(f, Worker) \in 0 .. PoolSize * Cardinality(S)
    <2>1. S \in SUBSET Worker /\ IsFiniteSet(Worker)
        BY <1>6, WarmPoolAssumption DEF Active
    <2>2. \A v \in Worker \ S : f[v] = 0
        BY <1>2, <1>6, <1>8 DEF Needs, Active, Rest, Filling
    <2>3. SumOver(f, Worker) = SumOver(f, S)
        BY <1>9, <2>1, <2>2, SumSupport
    <2>4. \A v \in S : f[v] \in 0 .. PoolSize
        BY <1>9, <2>1
    <2>5. SumOver(f, S) \in 0 .. PoolSize * Cardinality(S)
        BY <1>4, <1>7, <2>4, SumBounded
    <2> QED BY <2>3, <2>5
<1>11. FilledInv'
    <2>1. \A v \in Worker \ {w} : f[v] = g[v]
        BY <1>2, <1>8 DEF Needs
    <2>2. SumOver(g, Worker) = SumOver(f, Worker) - f[w] + g[w]
        BY <1>9, <2>1, WarmPoolAssumption, SumChange
    <2>3. f[w] = 0 /\ g[w] = PoolSize - Cardinality(Warm)
        BY <1>2, <1>8 DEF Needs
    <2>4. Faults' = Faults /\ Warm' = Warm /\ Faults \in Nat
        BY <1>1, FaultsGrow DEF Faults, Warm
    <2>5. PoolSize * Cardinality(S) <= PoolSize * Faults /\ PoolSize * Cardinality(S) \in Nat
        BY <1>7, <2>4, MoreFaults
    <2>6. PoolSize * (1 + Faults) = PoolSize + PoolSize * Faults /\ PoolSize * Faults \in Nat
        BY <2>4, MoreFaults
    <2>7. SumOver(f, Worker) \in Int /\ SumOver(f, Worker) <= PoolSize * Cardinality(S)
        BY <1>10, <2>5
    <2>8. Cardinality(Warm) + SumOver(g, Worker) = PoolSize + SumOver(f, Worker)
        BY <1>4, <2>2, <2>3, <2>7
    <2>9. Cardinality(Warm) + SumOver(g, Worker) <= PoolSize * (1 + Faults)
        BY <1>4, <2>5, <2>6, <2>7, <2>8
    <2>10. Cardinality(Warm') + SumOver(g, Worker) <= PoolSize * (1 + Faults')
        BY <2>4, <2>9
    <2> QED BY <1>8, <2>10 DEF FilledInv, SumOver, MapThenSumSet, MapThenFoldSet
<1> QED BY <1>3, <1>5, <1>11 DEF SizeInv

\* What is warm, when one member changes.
LEMMA WarmCounts ==
    ASSUME TypeOK, Warm' \subseteq Warm
    PROVE  Cardinality(Warm') <= Cardinality(Warm) + 0
<1>1. Cardinality(Warm') <= Cardinality(Warm) /\ Cardinality(Warm) \in Nat
    BY SizeTypes, FS_Subset
<1>2. IsFiniteSet(Warm')
    BY SizeTypes, FS_Subset
<1>3. Cardinality(Warm') \in Nat
    BY <1>2, FS_CardinalityType
<1> QED BY <1>1, <1>3

\* A refill that is at work, and that goes on with the next member.
LEMMA NextMemberNeeds ==
    ASSUME TypeOK, NeedInv, NEW w \in Worker, refill[w].pc # "idle", NextMember(w)
    PROVE  /\ refill[w] # Rest
           /\ \A v \in Worker \ {w} : refill'[v] = refill[v]
           /\ refill'[w] = Rest \/ refill'[w].need > 0
           /\ refill'[w].need + 1 <= refill[w].need
           /\ refill'[w].need + 0 <= refill[w].need
<1>1. refill[w] # Rest
    BY DEF Rest, Filling
<1>2. refill[w].need > 0 /\ refill[w].need \in Int
    BY <1>1, WarmPoolAssumption DEF NeedInv, TypeOK, Refill
<1>3. /\ \A v \in Worker \ {w} : refill'[v] = refill[v]
      /\ refill'[w] = IF refill[w].need <= 1 THEN Rest
                      ELSE Filling("make", refill[w].need - 1, None, None, {})
    BY DEF NextMember, TypeOK
<1>4. Rest.need = 0 /\ \A n : Filling("make", n, None, None, {}).need = n
    BY DEF Rest, Filling
<1> QED BY <1>1, <1>2, <1>3, <1>4

LEMMA RefillingSize ==
    ASSUME Control, TypeOK', [Next]_vars, SizeInv, NEW w \in Worker, Refilling(w)
    PROVE  SizeInv'
<1>0. TypeOK /\ NeedInv
    BY DEF Control, SizeInv
<1>1. CASE Replenish(w)
    BY <1>0, <1>1, ReplenishSize
<1>2. CASE MakeMember(w) \/ MemberRuns(w) \/ MemberElsewhere(w)
    <2>1. refill[w].pc # "idle" /\ UNCHANGED <<lock, leads>>
        BY <1>2 DEF MakeMember, MemberRuns, MemberElsewhere, leaderVars
    <2>2. refill[w] # Rest
        BY <2>1 DEF Rest, Filling
    <2>3. refill[w].need > 0 /\ refill[w].need \in Int
        BY <1>0, <2>2, WarmPoolAssumption DEF NeedInv, TypeOK, Refill
    <2>4. /\ \A v \in Worker \ {w} : refill'[v] = refill[v]
          /\ refill'[w].need = refill[w].need
        <3>1. MakeMember(w) => /\ \A v \in Worker \ {w} : refill'[v] = refill[v]
                               /\ refill'[w].need = refill[w].need
            BY <1>0 DEF MakeMember, TypeOK, Filling
        <3>2. MemberRuns(w) => /\ \A v \in Worker \ {w} : refill'[v] = refill[v]
                               /\ refill'[w].need = refill[w].need
            BY <1>0 DEF MemberRuns, TypeOK, Refill
        <3>3. MemberElsewhere(w) => /\ \A v \in Worker \ {w} : refill'[v] = refill[v]
                                    /\ refill'[w].need = refill[w].need
            BY <1>0 DEF MemberElsewhere, TypeOK, Filling
        <3> QED BY <1>2, <3>1, <3>2, <3>3
    <2>5. Warm' \subseteq Warm
        BY <1>0, <1>2 DEF MakeMember, MemberRuns, MemberElsewhere, Warm, TypeOK, Item
    <2>6. Cardinality(Warm') <= Cardinality(Warm) + 0
        BY <1>0, <2>5, WarmCounts
    <2>7. refill'[w].need + 0 <= refill[w].need /\ refill'[w].need > 0
        BY <2>3, <2>4
    <2> QED BY <1>0, <2>1, <2>2, <2>4, <2>6, <2>7, RefillSize
<1>3. CASE MemberWarm(w)
    <2>1. /\ refill[w].pc = "suspend" /\ NextMember(w) /\ UNCHANGED <<lock, leads>>
          /\ item' = [item EXCEPT ![refill[w].id].pool = "warm"]
        BY <1>3 DEF MemberWarm, leaderVars
    <2>2. /\ refill[w] # Rest
          /\ \A v \in Worker \ {w} : refill'[v] = refill[v]
          /\ refill'[w] = Rest \/ refill'[w].need > 0
          /\ refill'[w].need + 1 <= refill[w].need
        BY <1>0, <2>1, NextMemberNeeds
    <2>3. PICK S, m : S = Warm /\ m = refill[w].id
        OBVIOUS
    <2>4. Warm' \subseteq S \cup {m}
        BY <1>0, <2>1, <2>3 DEF Warm, TypeOK
    <2>5. IsFiniteSet(S) /\ Cardinality(S) \in Nat
        BY <1>0, <2>3, SizeTypes
    <2>6. /\ IsFiniteSet(S \cup {m})
          /\ Cardinality(S \cup {m}) = IF m \in S THEN Cardinality(S) ELSE Cardinality(S) + 1
        BY <2>5, FS_AddElement
    <2>7. Cardinality(Warm') <= Cardinality(S \cup {m}) /\ Cardinality(Warm') \in Nat
        BY <2>4, <2>6, FS_Subset, FS_CardinalityType
    <2>8. Cardinality(Warm') <= Cardinality(Warm) + 1
        BY <2>3, <2>5, <2>6, <2>7
    <2> QED BY <1>0, <2>1, <2>2, <2>8, RefillSize
<1>4. CASE MemberFails(w)
    <2>1. /\ refill[w].pc # "idle" /\ NextMember(w) /\ UNCHANGED <<lock, leads>>
          /\ item' = [item EXCEPT ![refill[w].id] = Gone]
        BY <1>4 DEF MemberFails, leaderVars
    <2>2. /\ refill[w] # Rest
          /\ \A v \in Worker \ {w} : refill'[v] = refill[v]
          /\ refill'[w] = Rest \/ refill'[w].need > 0
          /\ refill'[w].need + 0 <= refill[w].need
        BY <1>0, <2>1, NextMemberNeeds
    <2>3. Warm' \subseteq Warm
        BY <1>0, <2>1 DEF Warm, Gone, TypeOK
    <2>4. Cardinality(Warm') <= Cardinality(Warm) + 0
        BY <1>0, <2>3, WarmCounts
    <2> QED BY <1>0, <2>1, <2>2, <2>4, RefillSize
<1> QED BY <1>1, <1>2, <1>3, <1>4 DEF Refilling

LEMMA CrashSize ==
    ASSUME TypeOK, TypeOK', [Next]_vars, SizeInv, NEW w \in Worker, Crash(w)
    PROVE  SizeInv'
<1>1. /\ refill' = [refill EXCEPT ![w] = Rest] /\ leads' = leads \ {w}
      /\ UNCHANGED <<lock, item>>
    BY DEF Crash
<1>2. /\ refill'[w] = Rest /\ Rest.need = 0
      /\ \A v \in Worker \ {w} : refill'[v] = refill[v]
    BY <1>1 DEF TypeOK, Rest, Filling
<1>3. refill'[w].need + 0 <= refill[w].need
    BY <1>2, WarmPoolAssumption DEF TypeOK, Refill
<1>4. Cardinality(Warm') <= Cardinality(Warm) + 0
    <2>1. Warm' \subseteq Warm
        BY <1>1 DEF Warm
    <2> QED BY <2>1, WarmCounts
<1> QED BY <1>1, <1>2, <1>3, <1>4, RefillSize

LEMMA NextSize == Control /\ Control' /\ SizeInv /\ [Next]_vars => SizeInv'
<1> SUFFICES ASSUME Control, Control', SizeInv, [Next]_vars PROVE SizeInv'
    OBVIOUS
<1>0. TypeOK /\ TypeOK'
    BY DEF Control
<1>1. CASE Handler /\ UNCHANGED <<leaderVars, item, rec, job, refill, lost>>
    BY <1>0, <1>1, OtherSize DEF leaderVars, Warm
<1>2. CASE UNCHANGED vars
    BY <1>0, <1>2, OtherSize DEF vars, Warm
<1>3. CASE LockExpires
    BY <1>0, <1>3, LockExpiresSize
<1>4. ASSUME NEW s \in Sandbox, DeleteUnplaced(s)
      PROVE  SizeInv'
    BY <1>0, <1>4, OtherSize DEF DeleteUnplaced, leaderVars, Warm
<1>5. ASSUME NEW w \in Worker, Lead(w) \/ LeadFails(w)
      PROVE  SizeInv'
    BY <1>0, <1>5, LeadSize
<1>6. ASSUME NEW w \in Worker, Refilling(w)
      PROVE  SizeInv'
    BY <1>0, <1>6, RefillingSize
<1>7. ASSUME NEW w \in Worker, Creating(w)
      PROVE  SizeInv'
    BY <1>0, <1>7, CreatingSize, OtherSize
<1>8. ASSUME NEW w \in Worker, NEW s \in Sandbox, Create(w, s) \/ Delete(w, s)
      PROVE  SizeInv'
    BY <1>0, <1>8, OtherSize DEF Create, Delete, leaderVars, Warm
<1>9. ASSUME NEW w \in Worker, Crash(w)
      PROVE  SizeInv'
    BY <1>0, <1>9, CrashSize
<1> QED BY <1>1, <1>2, <1>3, <1>4, <1>5, <1>6, <1>7, <1>8, <1>9 DEF Next

LEMMA InitSize == Init => SizeInv
<1> SUFFICES ASSUME Init PROVE SizeInv
    OBVIOUS
<1>1. /\ budget = Budget /\ \A w \in Worker : refill[w] = Rest
      /\ leads = {} /\ \A m \in Member : item[m].pool = "unused"
    BY DEF Init, NodeInit
<1>2. Faults = 0
    BY <1>1, PoolNodeAssumption DEF Faults
<1>3. Behind = {} /\ Warm = {}
    BY <1>1 DEF Behind, Active, Warm
<1>4. \A w \in Worker : Needs[w] \in 0 .. 0
    BY <1>1 DEF Needs, Rest, Filling
<1>5. SumOver(Needs, Worker) = 0
    <2>1. SumOver(Needs, Worker) \in 0 .. 0 * Cardinality(Worker)
        BY <1>4, WarmPoolAssumption, SumBounded
    <2>2. 0 * Cardinality(Worker) = 0
        BY WarmPoolAssumption, FS_CardinalityType
    <2> QED BY <2>1, <2>2
<1>6. BehindInv /\ FilledInv
    BY <1>2, <1>3, <1>5, FS_EmptySet, WarmPoolAssumption DEF BehindInv, FilledInv
<1> QED BY <1>1, <1>6 DEF SizeInv, NeedInv

LEMMA FilledIsBounded == TypeOK /\ SizeInv => PoolBounded
<1> SUFFICES ASSUME TypeOK, SizeInv PROVE PoolBounded
    OBVIOUS
<1>1. \A v \in Worker : Needs[v] \in 0 .. PoolSize
    BY SizeTypes
<1>2. SumOver(Needs, Worker) \in 0 .. PoolSize * Cardinality(Worker)
    BY <1>1, WarmPoolAssumption, SumBounded
<1>3. Faults \in Nat /\ 1 + Faults = 1 + Budget - budget
    BY PoolNodeAssumption DEF Faults, TypeOK, NodeTypeOK
<1>4. PoolSize * (1 + Faults) \in Nat
    BY <1>3, MoreFaults
<1>5. Cardinality(Warm) \in Nat
    BY SizeTypes
<1>6. SumOver(Needs, Worker) \in Int /\ SumOver(Needs, Worker) >= 0
    BY <1>2, WarmPoolAssumption, FS_CardinalityType
<1>7. Cardinality(Warm) + SumOver(Needs, Worker) <= PoolSize * (1 + Faults)
    BY DEF SizeInv, FilledInv
<1>8. Cardinality(Warm) <= PoolSize * (1 + Faults)
    BY <1>4, <1>5, <1>6, <1>7
<1>9. PoolSize * (1 + Faults) = PoolSize * (1 + Budget - budget)
    BY <1>3
<1> QED BY <1>8, <1>9 DEF PoolBounded

\* Leaders overfill the pool by at most one pool per fault: with any number of
\* replicas, each of which may lead late, die, and lead again.
THEOREM PoolSizeBounded == Spec => []PoolBounded
<1>1. Init => PoolInv /\ SizeInv
    BY InitPool, InitSize
<1>2. PoolInv /\ SizeInv /\ [Next]_vars => (PoolInv /\ SizeInv)'
    BY NextPool, NextSize DEF PoolInv
<1>3. PoolInv /\ SizeInv => PoolBounded
    BY FilledIsBounded DEF PoolInv, Control
<1> QED BY <1>1, <1>2, <1>3, PTL DEF Spec
=============================================================================
