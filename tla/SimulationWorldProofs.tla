------------------------- MODULE SimulationWorldProofs -------------------------
(***************************************************************************)
(* The simulation world for every capacity: its registry, free list, store *)
(* of positions and counters agree, and it implements EntityPositions.     *)
(***************************************************************************)
EXTENDS SimulationWorld, FiniteSetTheorems, SequenceTheorems, TLAPS

(***************************************************************************)
(* The inductive invariant.                                                *)
(***************************************************************************)

\* Every coordinate ever stored is representable, whatever was added to it.
TypeOK ==
    /\ slots \in [Indices -> [generation : 1..MaxGeneration, alive : BOOLEAN]]
    /\ free_indices \in Seq(Indices)
    /\ alive_count \in Int /\ retired_count \in Int
    /\ store \in [Indices -> [generation : 0..MaxGeneration, value : SUBSET Positions]]
    /\ occupied \in 0..MaxPositioned
    /\ steps \in 0..MaxSteps
    /\ terminated \in BOOLEAN

IsFree(i) == \E k \in 1..Len(free_indices) : free_indices[k] = i

\* An index is free once, or alive, or has used its last generation.
FreeList ==
    /\ \A k \in 1..Len(free_indices) : ~ slots[free_indices[k]].alive
    /\ \A j, k \in 1..Len(free_indices) : free_indices[j] = free_indices[k] => j = k
    /\ \A i \in Indices : \/ slots[i].alive \/ IsFree(i)
                          \/ slots[i].generation = MaxGeneration

\* A position is that of the entity that lives in the slot.
StoreInStep ==
    \A i \in Indices :
        \/ store[i].value = {}
        \/ /\ \E p \in Positions : store[i].value = {p}
           /\ slots[i].alive /\ slots[i].generation = store[i].generation

CountsAreExact ==
    /\ IsFiniteSet(Living) /\ alive_count = Cardinality(Living)
    /\ IsFiniteSet(Positioned) /\ occupied = Cardinality(Positioned)
    /\ alive_count + retired_count + Len(free_indices) = Capacity

WorldInvariant ==
    TypeOK /\ FreeList /\ StoreInStep /\ CountsAreExact /\ ~ terminated

-------------------------------------------------------------------------------
(***************************************************************************)
(* What the identities say about the slots.                                *)
(***************************************************************************)

LEMMA Constants ==
    /\ Capacity \in Nat \ {0} /\ MaxGeneration \in Nat \ {0} /\ MaxPositioned \in Nat \ {0}
    /\ MaxCoordinate \in Nat /\ MaxSteps \in Nat
    /\ MaxPositioned <= Capacity
BY CapacityAssumption, RangeAssumption

LEMMA OnlyOne == ASSUME NEW p PROVE Only({p}) = p
BY DEF Only

\* The entity of a slot.
At(i) == <<i, slots[i].generation>>

LEMMA AliveIs ==
    ASSUME TypeOK, NEW id \in Handles
    PROVE  /\ IsAlive(id) <=> id \in Living
           /\ IsAlive(id) => id \in Ids /\ id[1] \in Indices /\ id = At(id[1]) /\ slots[id[1]].alive
BY Constants DEF TypeOK, Handles, Ids, Indices, IsAlive, Living, At

LEMMA FindIs ==
    ASSUME TypeOK, StoreInStep, NEW id \in Handles
    PROVE  /\ Find(id) # {} <=> id \in Positioned
           /\ Find(id) # {} => /\ IsAlive(id) /\ Find(id) = store[id[1]].value
                               /\ Find(id) = {PositionOf[id]} /\ PositionOf[id] \in Positions
<1>1. Find(id) # {} => IsAlive(id) /\ Find(id) = store[id[1]].value
  BY DEF Find
<1>2. Find(id) # {} => id \in Ids
  BY <1>1, AliveIs
<1>3. Find(id) # {} => \E p \in Positions : Find(id) = {p}
  BY <1>1, <1>2, AliveIs DEF StoreInStep
<1>4. Find(id) # {} <=> id \in Positioned
  BY <1>2 DEF Positioned
<1> QED
  BY <1>1, <1>3, <1>4, OnlyOne DEF PositionOf

(***************************************************************************)
(* How the caller's view changes when the answers of Find do.              *)
(***************************************************************************)
LEMMA SamePositions ==
    ASSUME \A x \in Ids : Find(x)' = Find(x)
    PROVE  Positioned' = Positioned /\ PositionOf' = PositionOf
BY DEF Positioned, PositionOf

LEMMA OnePositionMore ==
    ASSUME NEW id \in Ids, NEW p,
           \A x \in Ids : Find(x)' = IF x = id THEN {p} ELSE Find(x)
    PROVE  /\ Positioned' = Positioned \cup {id}
           /\ PositionOf' = [k \in Positioned \cup {id} |-> IF k = id THEN p ELSE PositionOf[k]]
<1>1. Positioned' = Positioned \cup {id}
  BY DEF Positioned
<1>2. \A k \in Positioned' : Only(Find(k))' = IF k = id THEN p ELSE PositionOf[k]
  BY <1>1, OnlyOne DEF Positioned, PositionOf
<1> QED
  BY <1>1, <1>2 DEF PositionOf

LEMMA OnePositionLess ==
    ASSUME NEW id \in Ids, \A x \in Ids : Find(x)' = IF x = id THEN {} ELSE Find(x)
    PROVE  /\ Positioned' = Positioned \ {id}
           /\ PositionOf' = [k \in Positioned \ {id} |-> PositionOf[k]]
<1>1. Positioned' = Positioned \ {id}
  BY DEF Positioned
<1>2. \A k \in Positioned' : Only(Find(k))' = PositionOf[k]
  BY <1>1 DEF Positioned, PositionOf
<1> QED
  BY <1>1, <1>2 DEF PositionOf

(***************************************************************************)
(* The registry: an identity that is made was never used, and one that     *)
(* ends stays used for ever.                                               *)
(***************************************************************************)
LEMMA Registered ==
    ASSUME TypeOK, FreeList, free_indices # <<>>, Register
    PROVE  /\ NextIndex \in Indices /\ NextEntity \in Ids /\ NextEntity \notin Used
           /\ ~ slots[NextIndex].alive
           /\ \A other \in Living : other[1] # NextIndex
           /\ Living' = Living \cup {NextEntity} /\ Used' = Used \cup {NextEntity}
           /\ slots' \in [Indices -> [generation : 1..MaxGeneration, alive : BOOLEAN]]
           /\ \A i \in Indices : /\ slots'[i].generation = slots[i].generation
                                 /\ slots'[i].alive = IF i = NextIndex THEN TRUE ELSE slots[i].alive
           /\ free_indices' \in Seq(Indices) /\ Len(free_indices') = Len(free_indices) - 1
           /\ FreeList'
<1> DEFINE n == Len(free_indices)
<1>1. n \in Nat \ {0} /\ NextIndex = free_indices[n] /\ NextIndex \in Indices
  BY DEF TypeOK, NextIndex
<1>2. NextEntity \in Ids /\ ~ slots[NextIndex].alive
  BY <1>1 DEF TypeOK, FreeList, NextEntity, Ids
<1>3. /\ slots' \in [Indices -> [generation : 1..MaxGeneration, alive : BOOLEAN]]
      /\ \A i \in Indices : /\ slots'[i].generation = slots[i].generation
                            /\ slots'[i].alive = IF i = NextIndex THEN TRUE ELSE slots[i].alive
  BY <1>1 DEF TypeOK, Register
<1>4. /\ free_indices' \in Seq(Indices) /\ Len(free_indices') = n - 1
      /\ \A k \in 1..(n - 1) : free_indices'[k] = free_indices[k]
  <2> HIDE DEF n
  <2>1. n \in Nat \ {0} /\ n = Len(free_indices) /\ \A k \in 1..n : free_indices[k] \in Indices
    BY <1>1 DEF TypeOK, n
  <2>2. free_indices' = SubSeq(free_indices, 1, n - 1)
    BY DEF Register, n
  <2>3. /\ SubSeq(free_indices, 1, n - 1) \in Seq(Indices)
        /\ Len(SubSeq(free_indices, 1, n - 1)) = IF 1 <= n - 1 THEN (n - 1) - 1 + 1 ELSE 0
        /\ \A k \in 1..((n - 1) - 1 + 1) :
              SubSeq(free_indices, 1, n - 1)[k] = free_indices[1 + k - 1]
    BY <2>1, SubSeqProperties
  <2> QED
    BY <2>1, <2>2, <2>3
<1>5. \A i \in Indices : IsFree(i)' <=> IsFree(i) /\ i # NextIndex
  BY <1>1, <1>4 DEF IsFree, FreeList
<1>6. FreeList'
  <2>1. \A k \in 1..(n - 1) : free_indices'[k] \in Indices /\ free_indices'[k] # NextIndex
    <3>1. \A k \in 1..(n - 1) : k \in 1..n /\ k # n /\ n \in 1..n
      BY <1>1
    <3>2. \A k \in 1..n : free_indices[k] \in Indices
      BY <1>1 DEF TypeOK
    <3>3. \A k \in 1..(n - 1) : free_indices[k] # free_indices[n]
      BY <3>1 DEF FreeList
    <3> QED
      BY <1>1, <1>4, <3>1, <3>2, <3>3
  <2>2. \A k \in 1..(n - 1) : ~ slots'[free_indices'[k]].alive
    <3>1. \A k \in 1..(n - 1) : k \in 1..n
      BY <1>1
    <3> QED
      BY <1>3, <1>4, <2>1, <3>1 DEF FreeList
  <2>3. \A j, k \in 1..(n - 1) : free_indices'[j] = free_indices'[k] => j = k
    BY <1>1, <1>4 DEF FreeList
  <2>4. \A i \in Indices : \/ slots'[i].alive \/ IsFree(i)'
                            \/ slots'[i].generation = MaxGeneration
    BY <1>3, <1>5 DEF FreeList
  <2> QED
    BY <1>4, <2>2, <2>3, <2>4 DEF FreeList
<1>7. \A x \in Ids : IsAlive(x)' <=> IsAlive(x) \/ x = NextEntity
  <2> SUFFICES ASSUME NEW x \in Ids PROVE IsAlive(x)' <=> IsAlive(x) \/ x = NextEntity
    OBVIOUS
  <2>1. x[1] \in Indices /\ (x = NextEntity <=> x[1] = NextIndex /\ x[2] = slots[NextIndex].generation)
    BY <1>2 DEF NextEntity, Ids
  <2> QED
    BY <1>1, <1>2, <1>3, <2>1 DEF IsAlive
<1>8. Living' = Living \cup {NextEntity}
  BY <1>2, <1>7 DEF Living
<1>9. \A other \in Living : other[1] # NextIndex
  BY <1>2 DEF Living, IsAlive
<1>10. \A x \in Ids : x \in Used <=> \/ x[2] < slots[x[1]].generation \/ IsAlive(x)
                                     \/ x[2] = slots[x[1]].generation /\ ~ IsFree(x[1])
  BY DEF Used, IsFree
<1>11. \A x \in Ids : x \in Used' <=> \/ x[2] < slots'[x[1]].generation \/ IsAlive(x)'
                                      \/ x[2] = slots'[x[1]].generation /\ ~ IsFree(x[1])'
  BY DEF Used, IsFree
<1>12. NextEntity \notin Used
  <2>1. IsFree(NextIndex)
    BY <1>1 DEF IsFree
  <2>2. ~ IsAlive(NextEntity) /\ NextEntity[1] = NextIndex
        /\ NextEntity[2] = slots[NextIndex].generation
    BY <1>2 DEF IsAlive, NextEntity
  <2>3. ~ (slots[NextIndex].generation < slots[NextIndex].generation)
    BY <1>1 DEF TypeOK
  <2> QED
    BY <1>2, <1>10, <2>1, <2>2, <2>3
<1>13. \A x \in Ids : x \in Used' <=> x \in Used \/ x = NextEntity
  <2> SUFFICES ASSUME NEW x \in Ids PROVE x \in Used' <=> x \in Used \/ x = NextEntity
    OBVIOUS
  <2>1. x[1] \in Indices /\ (x = NextEntity <=> x[1] = NextIndex /\ x[2] = slots[NextIndex].generation)
    BY <1>2 DEF NextEntity, Ids
  <2>2. slots'[x[1]].generation = slots[x[1]].generation
    BY <1>3, <2>1
  <2> QED
    BY <1>5, <1>7, <1>10, <1>11, <2>1, <2>2
<1>14. Used \subseteq Ids /\ Used' \subseteq Ids
  BY DEF Used
<1> QED
  BY <1>1, <1>2, <1>3, <1>4, <1>6, <1>8, <1>9, <1>12, <1>13, <1>14

LEMMA Unregistered ==
    ASSUME TypeOK, FreeList, NEW id \in Handles, IsAlive(id), Unregister(id)
    PROVE  /\ id \in Living /\ Living' = Living \ {id} /\ Used' = Used
           /\ slots' \in [Indices -> [generation : 1..MaxGeneration, alive : BOOLEAN]]
           /\ \A i \in Indices \ {id[1]} : slots'[i] = slots[i]
           /\ \A x \in Ids : IsAlive(x)' <=> IsAlive(x) /\ x # id
           /\ free_indices' \in Seq(Indices)
           /\ Len(free_indices') + retired_count' = Len(free_indices) + retired_count + 1
           /\ retired_count' \in Int
           /\ FreeList'
<1> DEFINE last == slots[id[1]].generation = MaxGeneration
           i == id[1]
           n == Len(free_indices)
<1>1. id \in Ids /\ i \in Indices /\ id[2] = slots[i].generation /\ slots[i].alive /\ id \in Living
  BY AliveIs DEF IsAlive
<1>2. /\ slots' \in [Indices -> [generation : 1..MaxGeneration, alive : BOOLEAN]]
      /\ \A j \in Indices \ {i} : slots'[j] = slots[j]
      /\ slots'[i].generation = IF last THEN slots[i].generation ELSE slots[i].generation + 1
      /\ ~ slots'[i].alive
  <2>1. slots' = [slots EXCEPT ![i] =
                     [generation |-> IF last THEN slots[i].generation ELSE slots[i].generation + 1,
                      alive |-> FALSE]]
    BY <1>1 DEF Unregister, TypeOK
  <2>2. (IF last THEN slots[i].generation ELSE slots[i].generation + 1) \in 1..MaxGeneration
    BY <1>1, Constants DEF TypeOK
  <2> QED
    BY <1>1, <2>1, <2>2 DEF TypeOK
<1>3. n \in Nat /\ ~ IsFree(i)
  BY <1>1 DEF TypeOK, FreeList, IsFree
<1>4. /\ free_indices' \in Seq(Indices) /\ free_indices' = IF last THEN free_indices ELSE Append(free_indices, i)
      /\ Len(free_indices') = IF last THEN n ELSE n + 1
      /\ \A k \in 1..n : free_indices'[k] = free_indices[k]
      /\ ~ last => free_indices'[n + 1] = i
  BY <1>1, <1>3 DEF TypeOK, Unregister
<1>5. \A j \in Indices : IsFree(j)' <=> IsFree(j) \/ (~ last /\ j = i)
  BY <1>3, <1>4 DEF IsFree
<1>6. FreeList'
  <2>1. \A k \in 1..n : free_indices[k] \in Indices \ {i} /\ ~ slots[free_indices[k]].alive
    BY <1>1, <1>3 DEF FreeList, IsFree, TypeOK
  <2>2. \A k \in 1..Len(free_indices') : ~ slots'[free_indices'[k]].alive
    BY <1>2, <1>3, <1>4, <2>1
  <2>3. \A j, k \in 1..Len(free_indices') : free_indices'[j] = free_indices'[k] => j = k
    BY <1>3, <1>4, <2>1 DEF FreeList
  <2>4. \A j \in Indices : \/ slots'[j].alive \/ IsFree(j)'
                            \/ slots'[j].generation = MaxGeneration
    BY <1>1, <1>2, <1>5 DEF FreeList
  <2> QED
    BY <2>2, <2>3, <2>4 DEF FreeList
<1>7. \A x \in Ids : IsAlive(x)' <=> IsAlive(x) /\ x # id
  BY <1>1, <1>2 DEF IsAlive, Ids
<1>8. Living' = Living \ {id}
  BY <1>7 DEF Living
<1>9. \A x \in Ids : x \in Used <=> \/ x[2] < slots[x[1]].generation \/ IsAlive(x)
                                    \/ x[2] = slots[x[1]].generation /\ ~ IsFree(x[1])
  BY DEF Used, IsFree
<1>10. \A x \in Ids : x \in Used' <=> \/ x[2] < slots'[x[1]].generation \/ IsAlive(x)'
                                      \/ x[2] = slots'[x[1]].generation /\ ~ IsFree(x[1])'
  BY DEF Used, IsFree
<1>11. \A x \in Ids : x[1] # i => (x \in Used' <=> x \in Used)
  BY <1>1, <1>2, <1>5, <1>7, <1>9, <1>10 DEF Ids
<1>12. \A x \in Ids : x[1] = i => (x \in Used' <=> x \in Used)
  <2> SUFFICES ASSUME NEW x \in Ids, x[1] = i PROVE x \in Used' <=> x \in Used
    OBVIOUS
  <2>1. /\ x[2] \in 1..MaxGeneration /\ slots[i].generation \in 1..MaxGeneration
        /\ MaxGeneration \in Nat
    BY <1>1, Constants DEF Ids, TypeOK
  <2>2. x = id <=> x[2] = slots[i].generation
    BY <1>1 DEF Ids
  <2>3. IsAlive(x) <=> x = id
    BY <1>1, <2>2 DEF IsAlive
  <2>4. x \in Used <=> x[2] <= slots[i].generation
    BY <1>3, <1>9, <2>1, <2>2, <2>3
  <2>5. x \in Used' <=> \/ x[2] < slots'[i].generation
                        \/ x[2] = slots'[i].generation /\ ~ IsFree(i)'
    BY <1>7, <1>10, <2>3
  <2>6. IsFree(i)' <=> ~ last
    BY <1>1, <1>3, <1>5
  <2> HIDE DEF i
  <2> QED
    BY <1>2, <2>1, <2>4, <2>5, <2>6
<1>13. Used' = Used
  <2>1. Used \subseteq Ids /\ Used' \subseteq Ids
    BY DEF Used
  <2> QED
    BY <1>11, <1>12, <2>1
<1>14. /\ Len(free_indices') + retired_count' = n + retired_count + 1
       /\ retired_count' \in Int
  BY <1>1, <1>3, <1>4 DEF TypeOK, Unregister
<1> QED
  BY <1>1, <1>2, <1>4, <1>6, <1>7, <1>8, <1>13, <1>14

(***************************************************************************)
(* The caller sees that the free list is empty.                            *)
(***************************************************************************)
LEMMA ExhaustedIs ==
    ASSUME WorldInvariant PROVE Entities!Exhausted <=> free_indices = <<>>
<1> USE DEF WorldInvariant
<1>1. ASSUME free_indices = <<>> PROVE Entities!Exhausted
  <2> SUFFICES ASSUME NEW id \in Ids
               PROVE  \/ <<id[1], MaxGeneration>> \in Used
                      \/ \E other \in Living : other[1] = id[1]
    BY DEF Entities!Exhausted
  <2>1. id[1] \in Indices /\ ~ IsFree(id[1])
    BY <1>1 DEF Ids, IsFree
  <2>2. CASE slots[id[1]].alive
    <3>1. At(id[1]) \in Living /\ At(id[1])[1] = id[1]
      BY <2>1, <2>2 DEF At, Living, Ids, IsAlive, TypeOK
    <3> QED
      BY <3>1
  <2>3. CASE slots[id[1]].generation = MaxGeneration
    <3>1. <<id[1], MaxGeneration>> \in Ids
      BY <2>1, Constants DEF Ids
    <3> QED
      BY <1>1, <2>3, <3>1 DEF Used
  <2> QED
    BY <2>1, <2>2, <2>3 DEF FreeList
<1>2. ASSUME free_indices # <<>> PROVE ~ Entities!Exhausted
  <2>1. /\ NextIndex \in Indices /\ IsFree(NextIndex) /\ ~ slots[NextIndex].alive
        /\ Len(free_indices) \in 1..Len(free_indices) /\ free_indices[Len(free_indices)] = NextIndex
    BY <1>2 DEF TypeOK, FreeList, NextIndex, IsFree
  <2>2. <<NextIndex, MaxGeneration>> \in Ids
    BY <2>1, Constants DEF Ids
  <2>3. \A other \in Living : other[1] # NextIndex
    BY <2>1 DEF Living, IsAlive
  <2>4. ~ (MaxGeneration < slots[NextIndex].generation)
    BY <2>1, Constants DEF TypeOK
  <2>5. <<NextIndex, MaxGeneration>> \notin Used
    BY <2>1, <2>4 DEF Used, IsAlive
  <2> QED
    BY <2>2, <2>3, <2>5 DEF Entities!Exhausted
<1> QED
  BY <1>1, <1>2

(***************************************************************************)
(* A call that changes nothing, or nothing but the clock.                  *)
(***************************************************************************)
View == <<Living, Used, PositionOf>>

LEMMA NothingChanged ==
    ASSUME WorldInvariant, steps' \in 0..MaxSteps,
           UNCHANGED <<slots, free_indices, alive_count, retired_count, store, occupied, terminated>>
    PROVE  WorldInvariant' /\ View' = View
<1>1. \A id \in Ids : IsAlive(id)' <=> IsAlive(id)
  BY DEF IsAlive
<1>2. Living' = Living /\ Used' = Used
  BY <1>1 DEF Living, Used
<1>3. Positioned' = Positioned /\ PositionOf' = PositionOf
  BY <1>1, SamePositions DEF Find
<1>4. TypeOK' /\ FreeList' /\ StoreInStep' /\ ~ terminated'
  BY DEF WorldInvariant, TypeOK, FreeList, IsFree, StoreInStep
<1>5. CountsAreExact'
  BY <1>2, <1>3 DEF WorldInvariant, CountsAreExact
<1> QED
  BY <1>2, <1>3, <1>4, <1>5 DEF WorldInvariant, View

LEMMA RefuseStep ==
    ASSUME WorldInvariant, NEW why, Refuse(why)
    PROVE  WorldInvariant' /\ Entities!Refuse(why)
<1>1. WorldInvariant' /\ View' = View
  BY NothingChanged DEF Refuse, WorldInvariant, TypeOK
<1> QED
  BY <1>1 DEF Refuse, Entities!Refuse, View

LEMMA AdvanceStep ==
    ASSUME WorldInvariant, AdvanceOneStep
    PROVE  WorldInvariant' /\ Entities!Advance
<1>1. CASE steps = MaxSteps
  BY <1>1, RefuseStep DEF AdvanceOneStep, Entities!Advance
<1>2. CASE steps # MaxSteps
  <2>1. steps' = steps + 1 /\ steps' \in 0..MaxSteps
    BY <1>2, Constants DEF AdvanceOneStep, WorldInvariant, TypeOK
  <2>2. WorldInvariant' /\ View' = View
    BY <1>2, <2>1, NothingChanged DEF AdvanceOneStep
  <2> QED
    BY <1>2, <2>2 DEF AdvanceOneStep, Entities!Advance, View
<1> QED
  BY <1>1, <1>2

(***************************************************************************)
(* A new entity: both stores have room, or neither is touched.             *)
(***************************************************************************)
LEMMA CountsAfterRegister ==
    ASSUME WorldInvariant, free_indices # <<>>, Register
    PROVE  /\ IsFiniteSet(Living)' /\ alive_count' = Cardinality(Living)'
           /\ alive_count' \in Int /\ retired_count' \in Int
           /\ alive_count' + retired_count' + Len(free_indices') = Capacity
<1>1. /\ Living' = Living \cup {NextEntity} /\ NextEntity \notin Living
      /\ Len(free_indices') = Len(free_indices) - 1
  <2>1. NextEntity \notin Used /\ Living' = Living \cup {NextEntity}
        /\ Len(free_indices') = Len(free_indices) - 1
    BY Registered DEF WorldInvariant
  <2>2. Living \subseteq Used
    BY DEF Living, Used
  <2> QED
    BY <2>1, <2>2
<1>2. /\ IsFiniteSet(Living') /\ Cardinality(Living') = Cardinality(Living) + 1
  BY <1>1, FS_AddElement DEF WorldInvariant, CountsAreExact
<1>3. alive_count' = alive_count + 1 /\ retired_count' = retired_count
  BY DEF Register
<1>4. /\ alive_count \in Int /\ retired_count \in Int /\ Len(free_indices) \in Nat
      /\ alive_count = Cardinality(Living)
      /\ alive_count + retired_count + Len(free_indices) = Capacity
  BY DEF WorldInvariant, TypeOK, CountsAreExact
<1> QED
  BY <1>1, <1>2, <1>3, <1>4, Constants

LEMMA CreateStep ==
    ASSUME WorldInvariant, CreateEntity
    PROVE  WorldInvariant' /\ Entities!Create({})
<1>1. CASE free_indices = <<>>
  BY <1>1, RefuseStep, ExhaustedIs DEF CreateEntity, Entities!Create
<1>2. CASE free_indices # <<>>
  <2>1. Register /\ UNCHANGED <<store, occupied, steps, terminated>> /\ answer' = "Created"
    BY <1>2 DEF CreateEntity
  <2>2. /\ NextIndex \in Indices /\ NextEntity \in Ids /\ NextEntity \notin Used
        /\ ~ slots[NextIndex].alive
        /\ \A other \in Living : other[1] # NextIndex
        /\ Living' = Living \cup {NextEntity} /\ Used' = Used \cup {NextEntity}
        /\ slots' \in [Indices -> [generation : 1..MaxGeneration, alive : BOOLEAN]]
        /\ \A i \in Indices : /\ slots'[i].generation = slots[i].generation
                              /\ slots'[i].alive = IF i = NextIndex THEN TRUE ELSE slots[i].alive
        /\ free_indices' \in Seq(Indices)
        /\ FreeList'
    BY <1>2, <2>1, Registered DEF WorldInvariant
  <2>3. store[NextIndex].value = {}
    BY <2>2 DEF WorldInvariant, StoreInStep
  <2>4. \A x \in Ids : Find(x)' = Find(x)
    BY <2>1, <2>2, <2>3 DEF Find, IsAlive, Ids
  <2>5. Positioned' = Positioned /\ PositionOf' = PositionOf
    BY <2>4, SamePositions
  <2>6. StoreInStep'
    BY <2>1, <2>2, <2>3 DEF WorldInvariant, StoreInStep
  <2>7. TypeOK' /\ CountsAreExact'
    BY <1>2, <2>1, <2>2, <2>5, CountsAfterRegister DEF WorldInvariant, TypeOK, CountsAreExact
  <2>8. WorldInvariant'
    BY <2>1, <2>2, <2>6, <2>7 DEF WorldInvariant
  <2>9. ~ Entities!Exhausted
    BY <1>2, ExhaustedIs
  <2> QED
    <3>1. NextEntity \in Ids \ Used /\ \A other \in Living : other[1] # NextEntity[1]
      BY <2>2 DEF NextEntity
    <3> QED
      BY <2>1, <2>2, <2>5, <2>8, <2>9, <3>1 DEF Entities!Create
<1> QED
  BY <1>1, <1>2

\* EntityPositions counts with its own instance of FiniteSets.
LEMMA SameCardinality == \A S : Entities!Cardinality(S) = Cardinality(S)
<1>1. \A S : Entities!IsFiniteSet(S) <=> IsFiniteSet(S)
  BY DEF Entities!IsFiniteSet, IsFiniteSet
<1> QED
  BY <1>1 DEF Entities!Cardinality, Cardinality

LEMMA StoreHasRoom ==
    ASSUME WorldInvariant
    PROVE  occupied >= MaxPositioned <=> Entities!Cardinality(DOMAIN PositionOf) = MaxPositioned
<1>1. Entities!Cardinality(DOMAIN PositionOf) = Cardinality(Positioned)
  BY SameCardinality DEF PositionOf
<1> QED
  BY <1>1, Constants DEF WorldInvariant, TypeOK, CountsAreExact

LEMMA CreatePositionedStep ==
    ASSUME WorldInvariant, NEW p \in Starts, CreatePositionedEntity(p)
    PROVE  WorldInvariant' /\ Entities!Create({p})
<1>1. CASE free_indices = <<>>
  BY <1>1, RefuseStep, ExhaustedIs DEF CreatePositionedEntity, Entities!Create
<1>2. CASE free_indices # <<>> /\ occupied >= MaxPositioned
  <2>1. Refuse("PositionCapacityExhausted")
    BY <1>2 DEF CreatePositionedEntity
  <2>2. ~ Entities!Exhausted /\ Entities!Cardinality(DOMAIN PositionOf) = MaxPositioned /\ {p} # {}
    BY <1>2, ExhaustedIs, StoreHasRoom
  <2>3. WorldInvariant' /\ Entities!Refuse("PositionCapacityExhausted")
    BY <2>1, RefuseStep
  <2> QED
    BY <2>2, <2>3 DEF Entities!Create
<1>3. CASE free_indices # <<>> /\ ~ (occupied >= MaxPositioned)
  <2>1. /\ Register /\ Store(NextEntity, p) /\ steps' = steps /\ answer' = "Created"
        /\ terminated' = (StoreAnswer(NextEntity) # "Inserted")
    BY <1>3 DEF CreatePositionedEntity
  <2>2. /\ NextIndex \in Indices /\ NextEntity \in Ids /\ NextEntity \notin Used
        /\ ~ slots[NextIndex].alive
        /\ \A other \in Living : other[1] # NextIndex
        /\ Living' = Living \cup {NextEntity} /\ Used' = Used \cup {NextEntity}
        /\ slots' \in [Indices -> [generation : 1..MaxGeneration, alive : BOOLEAN]]
        /\ \A i \in Indices : /\ slots'[i].generation = slots[i].generation
                              /\ slots'[i].alive = IF i = NextIndex THEN TRUE ELSE slots[i].alive
        /\ free_indices' \in Seq(Indices)
        /\ FreeList'
    BY <1>3, <2>1, Registered DEF WorldInvariant
  <2>3. /\ store[NextIndex].value = {}
        /\ NextEntity[1] = NextIndex /\ NextEntity[2] = slots[NextIndex].generation
    BY <2>2 DEF WorldInvariant, StoreInStep, NextEntity
  <2>4. StoreAnswer(NextEntity) = "Inserted"
    BY <1>3, <2>3 DEF StoreAnswer
  <2>5. /\ store' = [store EXCEPT ![NextIndex] =
                        [generation |-> slots[NextIndex].generation, value |-> {p}]]
        /\ occupied' = occupied + 1 /\ ~ terminated'
    BY <2>1, <2>3, <2>4 DEF Store
  <2>6. p \in Positions
    BY PositionAssumption
  <2>7. /\ store' \in [Indices -> [generation : 0..MaxGeneration, value : SUBSET Positions]]
        /\ \A i \in Indices \ {NextIndex} : store'[i] = store[i]
        /\ store'[NextIndex].value = {p}
        /\ store'[NextIndex].generation = slots[NextIndex].generation
    <3>1. slots[NextIndex].generation \in 0..MaxGeneration
      BY <2>2, Constants DEF WorldInvariant, TypeOK
    <3> QED
      BY <2>2, <2>5, <2>6, <3>1 DEF WorldInvariant, TypeOK
  <2>8. \A x \in Ids : Find(x)' = IF x = NextEntity THEN {p} ELSE Find(x)
    <3> SUFFICES ASSUME NEW x \in Ids
                 PROVE  Find(x)' = IF x = NextEntity THEN {p} ELSE Find(x)
      OBVIOUS
    <3>1. x[1] \in Indices
          /\ (x = NextEntity <=> x[1] = NextIndex /\ x[2] = slots[NextIndex].generation)
      BY <2>2 DEF NextEntity, Ids
    <3>2. CASE x[1] = NextIndex
      BY <2>2, <2>3, <2>7, <3>1, <3>2 DEF Find, IsAlive
    <3>3. CASE x[1] # NextIndex
      BY <2>2, <2>7, <3>1, <3>3 DEF Find, IsAlive
    <3> QED
      BY <3>2, <3>3
  <2>9. /\ Positioned' = Positioned \cup {NextEntity}
        /\ PositionOf' = [k \in Positioned \cup {NextEntity} |->
                             IF k = NextEntity THEN p ELSE PositionOf[k]]
    BY <2>2, <2>8, OnePositionMore
  <2>10. NextEntity \notin Positioned
    BY <2>2, <2>3 DEF Positioned, Find
  <2>11. StoreInStep'
    <3>1. ASSUME NEW i \in Indices, i # NextIndex, store'[i].value # {}
          PROVE  /\ \E q \in Positions : store'[i].value = {q}
                 /\ slots'[i].alive /\ slots'[i].generation = store'[i].generation
      <4>1. /\ store'[i] = store[i] /\ slots'[i].generation = slots[i].generation
            /\ slots'[i].alive = slots[i].alive
        BY <2>2, <2>7, <3>1
      <4>2. /\ \E q \in Positions : store[i].value = {q}
            /\ slots[i].alive /\ slots[i].generation = store[i].generation
        BY <3>1, <4>1 DEF WorldInvariant, StoreInStep
      <4> QED
        BY <4>1, <4>2
    <3>2. /\ \E q \in Positions : store'[NextIndex].value = {q}
          /\ slots'[NextIndex].alive /\ slots'[NextIndex].generation = store'[NextIndex].generation
      BY <2>2, <2>6, <2>7
    <3> QED
      BY <3>1, <3>2 DEF StoreInStep
  <2>12. IsFiniteSet(Positioned)' /\ occupied' = Cardinality(Positioned)'
    BY <2>5, <2>9, <2>10, FS_AddElement DEF WorldInvariant, CountsAreExact
  <2>13. occupied' \in 0..MaxPositioned
    BY <1>3, <2>5, Constants DEF WorldInvariant, TypeOK
  <2>14. TypeOK' /\ CountsAreExact'
    BY <1>3, <2>1, <2>2, <2>5, <2>7, <2>12, <2>13, CountsAfterRegister
       DEF WorldInvariant, TypeOK, CountsAreExact
  <2>15. WorldInvariant'
    BY <2>2, <2>5, <2>11, <2>14 DEF WorldInvariant
  <2>16. ~ Entities!Exhausted /\ Entities!Cardinality(DOMAIN PositionOf) # MaxPositioned
    BY <1>3, ExhaustedIs, StoreHasRoom
  <2>17. DOMAIN PositionOf = Positioned /\ terminated' = terminated
    <3>1. terminated = FALSE
      BY DEF WorldInvariant, TypeOK
    <3>2. terminated' = FALSE
      BY <2>1, <2>5
    <3> QED
      BY <3>1, <3>2 DEF PositionOf
  <2>18. NextEntity \in Ids \ Used /\ \A other \in Living : other[1] # NextEntity[1]
    BY <2>2, <2>3
  <2>19. \E q \in {p} : PositionOf' = [k \in DOMAIN PositionOf \cup {NextEntity} |->
                                         IF k = NextEntity THEN q ELSE PositionOf[k]]
    BY <2>9, <2>17
  <2> QED
    <3>1. \E id \in Ids \ Used :
             /\ \A other \in Living : other[1] # id[1]
             /\ Living' = Living \cup {id} /\ Used' = Used \cup {id}
             /\ \E q \in {p} : PositionOf' = [k \in DOMAIN PositionOf \cup {id} |->
                                               IF k = id THEN q ELSE PositionOf[k]]
      BY <2>2, <2>18, <2>19
    <3> QED
      BY <2>1, <2>15, <2>16, <2>17, <3>1 DEF Entities!Create
<1> QED
  BY <1>1, <1>2, <1>3

LEMMA MovedCount ==
    ASSUME NEW a \in Int, NEW b \in Int, NEW c \in Int, NEW d \in Int, NEW n \in Nat, NEW m \in Nat,
           NEW total \in Nat, a + b + n = total, c = a - 1, m + d = n + b + 1
    PROVE  c + d + m = total
OBVIOUS

(***************************************************************************)
(* The end of an entity takes its position with it.                        *)
(***************************************************************************)
LEMMA DestroyStep ==
    ASSUME WorldInvariant, NEW id \in Handles, DestroyEntity(id)
    PROVE  WorldInvariant' /\ Entities!Destroy(id)
<1> USE DEF WorldInvariant
<1>1. CASE ~ IsAlive(id)
  BY <1>1, RefuseStep, AliveIs DEF DestroyEntity, Entities!Destroy
<1>2. CASE IsAlive(id)
  <2>1. /\ Erase(id) /\ Unregister(id) /\ answer' = "Destroyed" /\ steps' = steps
        /\ terminated' = terminated
    BY <1>2 DEF DestroyEntity
  <2>2. /\ id \in Ids /\ id[1] \in Indices /\ id[2] = slots[id[1]].generation
    BY <1>2, AliveIs DEF IsAlive
  <2>3. /\ id \in Living /\ Living' = Living \ {id} /\ Used' = Used
        /\ slots' \in [Indices -> [generation : 1..MaxGeneration, alive : BOOLEAN]]
        /\ \A i \in Indices \ {id[1]} : slots'[i] = slots[i]
        /\ \A x \in Ids : IsAlive(x)' <=> IsAlive(x) /\ x # id
        /\ free_indices' \in Seq(Indices)
        /\ Len(free_indices') + retired_count' = Len(free_indices) + retired_count + 1
        /\ retired_count' \in Int
        /\ FreeList'
    BY <1>2, <2>1, Unregistered
  <2>4. /\ store' \in [Indices -> [generation : 0..MaxGeneration, value : SUBSET Positions]]
        /\ \A i \in Indices \ {id[1]} : store'[i] = store[i]
        /\ store'[id[1]].value = {}
    <3>1. CASE Find(id) = {}
      <4>1. store[id[1]].value = {}
        BY <1>2, <2>2, <3>1 DEF Find, StoreInStep
      <4> QED
        BY <2>1, <3>1, <4>1 DEF Erase, storeVars, TypeOK
    <3>2. CASE Find(id) # {}
      <4>1. store' = [store EXCEPT ![id[1]].value = {}]
        BY <2>1, <3>2 DEF Erase
      <4>2. /\ store \in [Indices -> [generation : 0..MaxGeneration, value : SUBSET Positions]]
            /\ {} \in SUBSET Positions
        BY DEF TypeOK
      <4>3. store'[id[1]] = [store[id[1]] EXCEPT !.value = {}]
        BY <2>2, <4>1, <4>2
      <4> HIDE DEF WorldInvariant
      <4>4. /\ store'[id[1]] \in [generation : 0..MaxGeneration, value : SUBSET Positions]
            /\ store'[id[1]].value = {}
        BY <2>2, <4>2, <4>3
      <4> QED
        BY <2>2, <4>1, <4>2, <4>4
    <3> QED
      BY <3>1, <3>2
  <2>5. \A x \in Ids : Find(x)' = IF x = id THEN {} ELSE Find(x)
    <3> SUFFICES ASSUME NEW x \in Ids
                 PROVE  Find(x)' = IF x = id THEN {} ELSE Find(x)
      OBVIOUS
    <3>1. CASE x[1] = id[1]
      <4>1. IsAlive(x) => x = id
        BY <2>2, <3>1 DEF IsAlive, Ids
      <4>2. ~ IsAlive(x)'
        BY <2>3, <4>1
      <4> QED
        BY <2>3, <4>1, <4>2 DEF Find
    <3>2. CASE x[1] # id[1]
      BY <2>3, <2>4, <3>2 DEF Find, Ids
    <3> QED
      BY <3>1, <3>2
  <2>6. /\ Positioned' = Positioned \ {id}
        /\ PositionOf' = [k \in Positioned \ {id} |-> PositionOf[k]]
    BY <2>2, <2>5, OnePositionLess
  <2>7. IsFiniteSet(Positioned)' /\ occupied' = Cardinality(Positioned)'
    <3>1. CASE Find(id) = {}
      BY <2>1, <2>6, <3>1, FindIs, FS_RemoveElement DEF Erase, storeVars, CountsAreExact
    <3>2. CASE Find(id) # {}
      BY <2>1, <2>6, <3>2, FindIs, FS_RemoveElement DEF Erase, CountsAreExact
    <3> QED
      BY <3>1, <3>2
  <2>8. occupied' \in 0..MaxPositioned
    <3>1. Cardinality(Positioned') \in Nat /\ (occupied' = occupied \/ occupied' = occupied - 1)
      BY <2>1, <2>7, FS_CardinalityType DEF Erase, storeVars
    <3> QED
      BY <2>7, <3>1, Constants DEF TypeOK
  <2>9. /\ IsFiniteSet(Living)' /\ alive_count' = Cardinality(Living)'
        /\ alive_count' = alive_count - 1
    BY <2>1, <2>3, FS_RemoveElement DEF Unregister, CountsAreExact
  <2>10. alive_count' + retired_count' + Len(free_indices') = Capacity
    <3>1. Len(free_indices) \in Nat /\ Len(free_indices') \in Nat
      BY <2>3 DEF TypeOK
    <3> QED
      <4>1. /\ alive_count \in Int /\ retired_count \in Int
            /\ alive_count + retired_count + Len(free_indices) = Capacity
        BY DEF TypeOK, CountsAreExact
      <4> HIDE DEF WorldInvariant
      <4> QED
        BY <2>3, <2>9, <3>1, <4>1, Constants, MovedCount
  <2>11. StoreInStep'
    BY <2>2, <2>3, <2>4 DEF StoreInStep
  <2>12. TypeOK'
    BY <2>1, <2>3, <2>4, <2>8, <2>9 DEF TypeOK
  <2>13. CountsAreExact'
    BY <2>7, <2>9, <2>10 DEF CountsAreExact
  <2>14. DOMAIN PositionOf = Positioned
    BY DEF PositionOf
  <2> QED
    BY <2>1, <2>3, <2>6, <2>11, <2>12, <2>13, <2>14 DEF Entities!Destroy
<1> QED
  BY <1>1, <1>2

(***************************************************************************)
(* A position that is written over.                                        *)
(***************************************************************************)
LEMMA PutStep ==
    ASSUME WorldInvariant, NEW id \in Handles, Find(id) # {}, NEW p \in Positions,
           PutPosition(id, p), steps' \in 0..MaxSteps,
           UNCHANGED <<slots, free_indices, alive_count, retired_count, occupied, terminated>>
    PROVE  /\ WorldInvariant' /\ Living' = Living /\ Used' = Used
           /\ id \in DOMAIN PositionOf /\ PositionOf' = [PositionOf EXCEPT ![id] = p]
<1> USE DEF WorldInvariant
<1>1. /\ id \in Ids /\ id[1] \in Indices /\ id[2] = slots[id[1]].generation /\ id \in Positioned
      /\ IsAlive(id) /\ store[id[1]].value # {} /\ store[id[1]].generation = id[2]
  BY AliveIs, FindIs DEF IsAlive, StoreInStep, Find
<1>2. /\ store' \in [Indices -> [generation : 0..MaxGeneration, value : SUBSET Positions]]
      /\ \A i \in Indices \ {id[1]} : store'[i] = store[i]
      /\ store'[id[1]].value = {p} /\ store'[id[1]].generation = store[id[1]].generation
  BY <1>1 DEF PutPosition, TypeOK
<1>3. \A x \in Ids : IsAlive(x)' <=> IsAlive(x)
  BY DEF IsAlive
<1>4. \A x \in Ids : Find(x)' = IF x = id THEN {p} ELSE Find(x)
  <2> SUFFICES ASSUME NEW x \in Ids PROVE Find(x)' = IF x = id THEN {p} ELSE Find(x)
    OBVIOUS
  <2>1. CASE x[1] = id[1]
    <3>1. IsAlive(x) <=> x = id
      BY <1>1, <2>1 DEF IsAlive, Ids
    <3> QED
      BY <1>1, <1>2, <1>3, <3>1 DEF Find
  <2>2. CASE x[1] # id[1]
    BY <1>2, <1>3, <2>2 DEF Find, Ids
  <2> QED
    BY <2>1, <2>2
<1>5. /\ Positioned' = Positioned
      /\ PositionOf' = [k \in Positioned |-> IF k = id THEN p ELSE PositionOf[k]]
  <2>1. Positioned \cup {id} = Positioned
    BY <1>1
  <2>2. /\ Positioned' = Positioned \cup {id}
        /\ PositionOf' = [k \in Positioned \cup {id} |-> IF k = id THEN p ELSE PositionOf[k]]
    BY <1>1, <1>4, OnePositionMore
  <2> QED
    BY <2>1, <2>2
<1>6. id \in DOMAIN PositionOf /\ PositionOf' = [PositionOf EXCEPT ![id] = p]
  BY <1>1, <1>5 DEF PositionOf
<1>7. Living' = Living /\ Used' = Used
  BY <1>3 DEF Living, Used
<1>8. StoreInStep'
  BY <1>1, <1>2 DEF StoreInStep, IsAlive
<1>9. TypeOK' /\ FreeList' /\ CountsAreExact'
  BY <1>2, <1>5, <1>7 DEF TypeOK, FreeList, IsFree, CountsAreExact
<1> QED
  BY <1>6, <1>7, <1>8, <1>9

LEMMA MissingIs ==
    ASSUME WorldInvariant, NEW id \in Handles, Find(id) = {}
    PROVE  id \notin DOMAIN PositionOf /\ Missing(id) = Entities!NoPosition(id)
<1>1. id \notin Positioned /\ (IsAlive(id) <=> id \in Living)
  BY FindIs, AliveIs DEF WorldInvariant
<1> QED
  BY <1>1 DEF PositionOf, Missing, Entities!NoPosition

LEMMA ResetStep ==
    ASSUME WorldInvariant, NEW id \in Handles, NEW p \in Starts, ResetPosition(id, p)
    PROVE  WorldInvariant' /\ Entities!Reset(id, p)
<1>1. CASE Find(id) = {}
  BY <1>1, RefuseStep, MissingIs DEF ResetPosition, Entities!Reset
<1>2. CASE Find(id) # {}
  <2>1. /\ PutPosition(id, p) /\ answer' = "Reset"
        /\ UNCHANGED <<slots, free_indices, alive_count, retired_count, occupied, steps, terminated>>
    BY <1>2 DEF ResetPosition
  <2>2. p \in Positions /\ steps' \in 0..MaxSteps
    BY <2>1, PositionAssumption DEF WorldInvariant, TypeOK
  <2>3. /\ WorldInvariant' /\ Living' = Living /\ Used' = Used
        /\ id \in DOMAIN PositionOf /\ PositionOf' = [PositionOf EXCEPT ![id] = p]
    BY <1>2, <2>1, <2>2, PutStep
  <2> QED
    BY <2>1, <2>3 DEF Entities!Reset
<1> QED
  BY <1>1, <1>2

(***************************************************************************)
(* A sum that fits is representable: no coordinate ever overflows.         *)
(***************************************************************************)
LEMMA TranslatedIsRepresentable ==
    ASSUME NEW p \in Positions, NEW delta \in Positions, NEW q \in Translated(p, delta)
    PROVE  q \in Positions
<1>1. DOMAIN p = {"x", "y", "z"}
  BY DEF Positions
<1>2. /\ \A c \in {"x", "y", "z"} : Fits(p[c], delta[c])
      /\ q = [c \in {"x", "y", "z"} |-> p[c] + delta[c]]
  BY <1>1 DEF Translated
<1>3. ASSUME NEW c \in {"x", "y", "z"}
      PROVE  p[c] + delta[c] \in (-MaxCoordinate - 1)..MaxCoordinate
  <2>1. /\ p[c] \in (-MaxCoordinate - 1)..MaxCoordinate
        /\ delta[c] \in (-MaxCoordinate - 1)..MaxCoordinate
    BY DEF Positions
  <2> QED
    BY <1>2, <2>1, Constants DEF Fits
<1> QED
  BY <1>2, <1>3 DEF Positions

LEMMA TranslateStep ==
    ASSUME WorldInvariant, NEW id \in Handles, NEW delta \in Deltas, TranslateOneStep(id, delta)
    PROVE  WorldInvariant' /\ Entities!Translate(id, delta)
<1>1. CASE steps = MaxSteps
  BY <1>1, RefuseStep DEF TranslateOneStep, Entities!Translate
<1>2. CASE steps # MaxSteps /\ Find(id) = {}
  BY <1>2, RefuseStep, MissingIs DEF TranslateOneStep, Entities!Translate
<1>3. CASE steps # MaxSteps /\ Find(id) # {}
  <2> DEFINE p == PositionOf[id]
  <2>1. Find(id) = {p} /\ p \in Positions /\ id \in DOMAIN PositionOf
    BY <1>3, FindIs DEF WorldInvariant, PositionOf
  <2> HIDE DEF p
  <2>2. CASE Translated(p, delta) = {}
    <3>1. Refuse("PositionRepresentationExhausted")
      BY <1>3, <2>1, <2>2 DEF TranslateOneStep
    <3> QED
      BY <1>3, <2>1, <2>2, <3>1, RefuseStep DEF Entities!Translate, p
  <2>3. CASE Translated(p, delta) # {}
    <3>1. /\ \E q \in Translated(p, delta) : PutPosition(id, q)
          /\ steps' = steps + 1 /\ answer' = "Advanced"
          /\ UNCHANGED <<slots, free_indices, alive_count, retired_count, occupied, terminated>>
      BY <1>3, <2>1, <2>3 DEF TranslateOneStep
    <3>2. PICK q \in Translated(p, delta) : PutPosition(id, q)
      BY <3>1
    <3>3. q \in Positions
      BY <2>1, TranslatedIsRepresentable, PositionAssumption
    <3>4. steps' \in 0..MaxSteps
      BY <1>3, <3>1, Constants DEF WorldInvariant, TypeOK
    <3>5. /\ WorldInvariant' /\ Living' = Living /\ Used' = Used
          /\ PositionOf' = [PositionOf EXCEPT ![id] = q]
      BY <1>3, <3>1, <3>2, <3>3, <3>4, PutStep
    <3>6. \E r \in Translated(PositionOf[id], delta) : PositionOf' = [PositionOf EXCEPT ![id] = r]
      BY <3>5 DEF p
    <3> QED
      BY <1>3, <2>1, <2>3, <3>1, <3>5, <3>6 DEF Entities!Translate, p
  <2> QED
    BY <2>2, <2>3
<1> QED
  BY <1>1, <1>2, <1>3

(***************************************************************************)
(* The theorems.                                                           *)
(***************************************************************************)

LEMMA WorldInit == Init => WorldInvariant /\ Entities!Init
<1> SUFFICES ASSUME Init PROVE WorldInvariant /\ Entities!Init
  OBVIOUS
<1>1. \A k \in 1..Capacity : Capacity - k \in Indices
  BY Constants DEF Indices
<1>2. /\ free_indices \in Seq(Indices) /\ Len(free_indices) = Capacity
      /\ \A k \in 1..Capacity : free_indices[k] = Capacity - k
  BY <1>1, Constants DEF Init
<1>3. \A i \in Indices : Capacity - i \in 1..Capacity /\ Capacity - (Capacity - i) = i
  BY Constants DEF Indices
<1>4. \A i \in Indices : IsFree(i)
  BY <1>2, <1>3 DEF IsFree
<1>5. FreeList
  <2>1. \A j, k \in 1..Capacity : Capacity - j = Capacity - k => j = k
    BY Constants
  <2> QED
    BY <1>1, <1>2, <1>4, <2>1 DEF FreeList, Init
<1>6. TypeOK
  <2>1. /\ 1 \in 1..MaxGeneration /\ 0 \in 0..MaxGeneration /\ 0 \in 0..MaxPositioned
        /\ 0 \in 0..MaxSteps /\ 0 \in Int /\ {} \in SUBSET Positions
    BY Constants
  <2> QED
    BY <1>2, <2>1 DEF TypeOK, Init
<1>7. Living = {} /\ Positioned = {}
  BY DEF Living, Positioned, Find, IsAlive, Init, Ids
<1>8. Used = {}
  <2> SUFFICES ASSUME NEW x \in Used PROVE FALSE
    OBVIOUS
  <2>1. x \in Ids /\ x[1] \in Indices /\ x[2] \in 1..MaxGeneration /\ slots[x[1]].generation = 1
        /\ ~ IsAlive(x)
    BY DEF Used, Ids, Init, IsAlive
  <2>2. ~ (x[2] < 1)
    BY <2>1
  <2> QED
    BY <1>4, <2>1, <2>2 DEF Used, IsFree
<1>9. StoreInStep
  BY DEF StoreInStep, Init
<1>10. CountsAreExact
  BY <1>2, <1>7, FS_EmptySet, Constants DEF CountsAreExact, Init
<1>11. PositionOf = <<>>
  BY <1>7 DEF PositionOf
<1> QED
  BY <1>5, <1>6, <1>7, <1>8, <1>9, <1>10, <1>11 DEF WorldInvariant, Init, Entities!Init

LEMMA WorldStep ==
    WorldInvariant /\ [Next]_vars => WorldInvariant' /\ [Entities!Next]_(Entities!entityVars)
<1> SUFFICES ASSUME WorldInvariant, [Next]_vars
             PROVE  WorldInvariant' /\ [Entities!Next]_(Entities!entityVars)
  OBVIOUS
<1>1. CASE CreateEntity
  BY <1>1, CreateStep DEF Entities!Next
<1>2. ASSUME NEW p \in Starts, CreatePositionedEntity(p)
      PROVE  WorldInvariant' /\ [Entities!Next]_(Entities!entityVars)
  BY <1>2, CreatePositionedStep DEF Entities!Next
<1>3. CASE AdvanceOneStep
  BY <1>3, AdvanceStep DEF Entities!Next
<1>4. ASSUME NEW id \in Handles, DestroyEntity(id)
      PROVE  WorldInvariant' /\ [Entities!Next]_(Entities!entityVars)
  BY <1>4, DestroyStep DEF Entities!Next
<1>5. ASSUME NEW id \in Handles, NEW p \in Starts, ResetPosition(id, p)
      PROVE  WorldInvariant' /\ [Entities!Next]_(Entities!entityVars)
  BY <1>5, ResetStep DEF Entities!Next
<1>6. ASSUME NEW id \in Handles, NEW delta \in Deltas, TranslateOneStep(id, delta)
      PROVE  WorldInvariant' /\ [Entities!Next]_(Entities!entityVars)
  BY <1>6, TranslateStep DEF Entities!Next
<1>7. CASE UNCHANGED vars
  <2>1. WorldInvariant' /\ View' = View
    BY <1>7, NothingChanged DEF vars, WorldInvariant, TypeOK
  <2> QED
    BY <1>7, <2>1 DEF vars, View, Entities!entityVars
<1> QED
  BY <1>1, <1>2, <1>3, <1>4, <1>5, <1>6, <1>7 DEF Next

(***************************************************************************)
(* Registry, free list, store and counters agree after any number of       *)
(* calls, every stored coordinate is representable, and no call ends the   *)
(* process.                                                                *)
(***************************************************************************)
THEOREM WorldInvariantHolds == Spec => []WorldInvariant
<1>1. WorldInvariant /\ [Next]_vars => WorldInvariant'
  BY WorldStep
<1> QED
  BY <1>1, WorldInit, PTL DEF Spec

(***************************************************************************)
(* The world is what its caller sees through identities alone, whatever    *)
(* its capacities and however often its slots are used again.              *)
(***************************************************************************)
THEOREM EntitiesImplemented == Spec => ImplementsEntityPositions
<1>1. Init => Entities!Init
  BY WorldInit
<1>2. WorldInvariant /\ [Next]_vars => [Entities!Next]_(Entities!entityVars)
  BY WorldStep
<1> QED
  BY <1>1, <1>2, WorldInvariantHolds, PTL DEF Spec, ImplementsEntityPositions, Entities!Spec
===============================================================================
