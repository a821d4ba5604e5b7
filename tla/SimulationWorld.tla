---------------------------- MODULE SimulationWorld ----------------------------
(***************************************************************************)
(* The simulation world (src/simulation): the registry of entities with    *)
(* its generations and free list, the sparse store of their positions, and *)
(* the clock.  The world keeps the registry and the store in step by hand: *)
(* it checks both before it changes either, erases a position before its   *)
(* entity, and ends the process when the two disagree.                     *)
(*                                                                         *)
(* An identity is <<index, generation>>; a position, a function from its   *)
(* three coordinates to integers.                                          *)
(***************************************************************************)
EXTENDS Integers, Sequences, FiniteSets

CONSTANTS
    Capacity,          \* maximum_entities
    MaxPositioned,     \* maximum_positioned_entities, resolved
    MaxGeneration,     \* numeric_limits<uint64_t>::max(), small here
    MaxCoordinate,     \* numeric_limits<int64_t>::max(), small here
    MaxSteps,          \* steps before the count or the time is exhausted
    Starts, Deltas     \* the positions and translations callers give

ASSUME CapacityAssumption ==
    /\ {Capacity, MaxPositioned, MaxGeneration} \subseteq Nat \ {0}
    /\ MaxPositioned <= Capacity
ASSUME RangeAssumption == {MaxCoordinate, MaxSteps} \subseteq Nat

VARIABLES
    slots,          \* EntityRegistry: [generation, alive] of each index
    free_indices,   \* the indices to take next, the last one first
    alive_count, retired_count,
    store,          \* ComponentStore: [generation, value] of each index; value is a set
    occupied,
    steps,          \* SimulationState::completed_steps
    answer,         \* what the last call returned
    terminated      \* std::terminate was called

registryVars == <<slots, free_indices, alive_count, retired_count>>
storeVars == <<store, occupied>>
vars == <<slots, free_indices, alive_count, retired_count, store, occupied, steps, answer,
          terminated>>

Indices == 0..(Capacity - 1)
Ids == Indices \X (1..MaxGeneration)

\* Position3: three coordinates of one width.
Positions == [{"x", "y", "z"} -> (-MaxCoordinate - 1)..MaxCoordinate]
ASSUME PositionAssumption == Starts \cup Deltas \subseteq Positions

\* What a caller may hold: identities it was given, and the one of no entity.
Handles == Ids \cup {<<Capacity, 0>>}

Init ==
    /\ slots = [i \in Indices |-> [generation |-> 1, alive |-> FALSE]]
    /\ free_indices = [k \in 1..Capacity |-> Capacity - k]
    /\ alive_count = 0 /\ retired_count = 0
    /\ store = [i \in Indices |-> [generation |-> 0, value |-> {}]]
    /\ occupied = 0
    /\ steps = 0 /\ answer = "None" /\ terminated = FALSE

-------------------------------------------------------------------------------
(* EntityRegistry.                                                         *)

IsAlive(id) ==
    id[1] \in Indices /\ slots[id[1]].alive /\ slots[id[1]].generation = id[2]

\* The entity CreateEntity makes of the index it pops.
NextIndex == free_indices[Len(free_indices)]
NextEntity == <<NextIndex, slots[NextIndex].generation>>

Register ==
    /\ free_indices' = SubSeq(free_indices, 1, Len(free_indices) - 1)
    /\ slots' = [slots EXCEPT ![NextIndex].alive = TRUE]
    /\ alive_count' = alive_count + 1
    /\ UNCHANGED retired_count

\* An index whose generation cannot grow is never free again.
Unregister(id) ==
    LET last == slots[id[1]].generation = MaxGeneration
    IN /\ slots' = [slots EXCEPT ![id[1]] =
                       [generation |-> IF last THEN @.generation ELSE @.generation + 1,
                        alive |-> FALSE]]
       /\ free_indices' = IF last THEN free_indices ELSE Append(free_indices, id[1])
       /\ alive_count' = alive_count - 1
       /\ retired_count' = IF last THEN retired_count + 1 ELSE retired_count

-------------------------------------------------------------------------------
(* ComponentStore of positions.                                            *)

\* Find: the position of exactly this living entity, in a set, if it has one.
Find(id) ==
    IF IsAlive(id) /\ store[id[1]].generation = id[2] THEN store[id[1]].value ELSE {}

\* What Store answers for the entity that was just made.
StoreAnswer(id) ==
    IF store[id[1]].value # {}
    THEN IF store[id[1]].generation = id[2] THEN "Replaced" ELSE "Inserted"
    ELSE IF occupied >= MaxPositioned THEN "CapacityExhausted" ELSE "Inserted"

\* A value a dead entity left in the slot is replaced and stays counted.
Store(id, p) ==
    IF StoreAnswer(id) = "CapacityExhausted" THEN UNCHANGED storeVars
    ELSE /\ store' = [store EXCEPT ![id[1]] = [generation |-> id[2], value |-> {p}]]
         /\ occupied' = IF store[id[1]].value = {} THEN occupied + 1 ELSE occupied

\* A plausible error: the position is left to the next entity of the slot.
EraseNothing(id) == UNCHANGED storeVars

Erase(id) ==
    IF Find(id) = {} THEN UNCHANGED storeVars
    ELSE /\ store' = [store EXCEPT ![id[1]].value = {}]
         /\ occupied' = occupied - 1

-------------------------------------------------------------------------------
(* The calls of SimulationWorld.                                           *)

Refuse(why) ==
    /\ answer' = why
    /\ UNCHANGED <<slots, free_indices, alive_count, retired_count, store, occupied, steps,
                   terminated>>

CreateEntity ==
    IF free_indices = <<>> THEN Refuse("EntityCapacityExhausted")
    ELSE /\ Register /\ answer' = "Created"
         /\ UNCHANGED <<store, occupied, steps, terminated>>

\* Both capacities are looked at before either is taken from.
CreatePositionedEntity(p) ==
    IF free_indices = <<>> THEN Refuse("EntityCapacityExhausted")
    ELSE IF occupied >= MaxPositioned THEN Refuse("PositionCapacityExhausted")
    ELSE /\ Register /\ Store(NextEntity, p)
         /\ terminated' = (StoreAnswer(NextEntity) # "Inserted")
         /\ answer' = "Created" /\ UNCHANGED steps

DestroyEntity(id) ==
    IF ~IsAlive(id) THEN Refuse("NotAlive")
    ELSE /\ Erase(id) /\ Unregister(id)
         /\ answer' = "Destroyed" /\ UNCHANGED <<steps, terminated>>

Missing(id) == IF IsAlive(id) THEN "PositionNotPresent" ELSE "EntityNotAlive"

PutPosition(id, p) == store' = [store EXCEPT ![id[1]].value = {p}]

ResetPosition(id, p) ==
    IF Find(id) = {} THEN Refuse(Missing(id))
    ELSE /\ PutPosition(id, p) /\ answer' = "Reset"
         /\ UNCHANGED <<slots, free_indices, alive_count, retired_count, occupied, steps,
                        terminated>>

\* TryAddCoordinate, for the three coordinates: the sum, in a set, if each is representable.
Fits(value, delta) ==
    /\ delta > 0 => value <= MaxCoordinate - delta
    /\ delta < 0 => value >= -MaxCoordinate - 1 - delta
Translated(p, delta) ==
    IF \A c \in DOMAIN p : Fits(p[c], delta[c])
    THEN {[c \in DOMAIN p |-> p[c] + delta[c]]} ELSE {}

AdvanceOneStep ==
    IF steps = MaxSteps THEN Refuse("RepresentationExhausted")
    ELSE /\ steps' = steps + 1 /\ answer' = "Advanced"
         /\ UNCHANGED <<slots, free_indices, alive_count, retired_count, store, occupied,
                        terminated>>

\* A step that translates moves the clock and the position, or neither.
TranslateOneStep(id, delta) ==
    IF steps = MaxSteps THEN Refuse("RepresentationExhausted")
    ELSE IF Find(id) = {} THEN Refuse(Missing(id))
    ELSE \E p \in Find(id) :
            IF Translated(p, delta) = {} THEN Refuse("PositionRepresentationExhausted")
            ELSE /\ \E q \in Translated(p, delta) : PutPosition(id, q)
                 /\ steps' = steps + 1 /\ answer' = "Advanced"
                 /\ UNCHANGED <<slots, free_indices, alive_count, retired_count, occupied,
                                terminated>>

Next ==
    /\ ~terminated
    /\ \/ CreateEntity
       \/ \E p \in Starts : CreatePositionedEntity(p)
       \/ AdvanceOneStep
       \/ \E id \in Handles :
             \/ DestroyEntity(id)
             \/ \E p \in Starts : ResetPosition(id, p)
             \/ \E delta \in Deltas : TranslateOneStep(id, delta)

Spec == Init /\ [][Next]_vars

\* The instance TLC checks: two-bit coordinates, of which one overflows.
Point(x, y, z) == [x |-> x, y |-> y, z |-> z]
LowStart == {Point(0, -1, -1)}
DiagonalDelta == {Point(0, -1, 1)}

-------------------------------------------------------------------------------
(* The world as its caller sees it.                                        *)

Used ==
    {id \in Ids : \/ id[2] < slots[id[1]].generation
                  \/ IsAlive(id)
                  \/ /\ id[2] = slots[id[1]].generation
                     /\ \A k \in 1..Len(free_indices) : free_indices[k] # id[1]}

Living == {id \in Ids : IsAlive(id)}
Positioned == {id \in Ids : Find(id) # {}}
Only(values) == CHOOSE p \in values : TRUE
PositionOf == [id \in Positioned |-> Only(Find(id))]

Entities == INSTANCE EntityPositions WITH
    alive <- Living, used <- Used, position <- PositionOf

\* The world keeps the promises of EntityPositions: no identity lives twice, no position
\* reaches an identity it was not given to or outlives its own, both capacities are worth
\* what they say however often slots are used again, a refused call or half a translation
\* changes nothing, and no call ends the process.
ImplementsEntityPositions == Entities!Spec
===============================================================================
