---------------------------- MODULE EntityPositions ----------------------------
(***************************************************************************)
(* What the simulation world promises its caller, with no slots, free list *)
(* or component store: identities that are never given out twice, at most  *)
(* one position for each living one, a clock, and a call that either does  *)
(* all it says or answers why not and changes nothing.                     *)
(***************************************************************************)
EXTENDS Naturals, FiniteSets

CONSTANTS
    Ids,               \* the identities, <<index, generation>>
    Handles,           \* what a caller may name: the identities, and that of no entity
    MaxGeneration,     \* the last generation of an index
    MaxPositioned,     \* how many positions there may be at once
    Translated(_, _),  \* the position a translation leads to, in a set, if it has one
    Starts, Deltas,    \* the positions and translations a caller gives
    MaxSteps           \* how often the clock can advance

VARIABLES
    alive,        \* the identities that live
    used,         \* every identity there ever was
    position,     \* of each living identity that has one
    steps,        \* steps the clock took
    answer,       \* what the last call said
    terminated    \* the process was ended by a call

entityVars == <<alive, used, position, steps, answer, terminated>>

Init ==
    /\ alive = {} /\ used = {} /\ position = <<>> /\ steps = 0
    /\ answer = "None" /\ terminated = FALSE

Refuse(why) == answer' = why /\ UNCHANGED <<alive, used, position, steps, terminated>>

\* Every index has a living identity or has used its last.
Exhausted ==
    \A id \in Ids : \/ <<id[1], MaxGeneration>> \in used
                    \/ \E other \in alive : other[1] = id[1]

Create(at) ==
    IF Exhausted THEN Refuse("EntityCapacityExhausted")
    ELSE IF at # {} /\ Cardinality(DOMAIN position) = MaxPositioned
    THEN Refuse("PositionCapacityExhausted")
    ELSE \E id \in Ids \ used :
            /\ \A other \in alive : other[1] # id[1]
            /\ alive' = alive \cup {id} /\ used' = used \cup {id}
            /\ \/ at = {} /\ UNCHANGED position
               \/ \E p \in at :
                     position' = [k \in DOMAIN position \cup {id} |->
                                     IF k = id THEN p ELSE position[k]]
            /\ answer' = "Created" /\ UNCHANGED <<steps, terminated>>

Destroy(id) ==
    IF id \notin alive THEN Refuse("NotAlive")
    ELSE /\ alive' = alive \ {id}
         /\ position' = [k \in DOMAIN position \ {id} |-> position[k]]
         /\ answer' = "Destroyed" /\ UNCHANGED <<used, steps, terminated>>

\* What a call on the position of `id` is refused for.
NoPosition(id) == IF id \in alive THEN "PositionNotPresent" ELSE "EntityNotAlive"

Reset(id, p) ==
    IF id \notin DOMAIN position THEN Refuse(NoPosition(id))
    ELSE /\ position' = [position EXCEPT ![id] = p]
         /\ answer' = "Reset" /\ UNCHANGED <<alive, used, steps, terminated>>

Advance ==
    IF steps = MaxSteps THEN Refuse("RepresentationExhausted")
    ELSE /\ steps' = steps + 1 /\ answer' = "Advanced"
         /\ UNCHANGED <<alive, used, position, terminated>>

Translate(id, delta) ==
    IF steps = MaxSteps THEN Refuse("RepresentationExhausted")
    ELSE IF id \notin DOMAIN position THEN Refuse(NoPosition(id))
    ELSE IF Translated(position[id], delta) = {} THEN Refuse("PositionRepresentationExhausted")
    ELSE /\ \E p \in Translated(position[id], delta) : position' = [position EXCEPT ![id] = p]
         /\ steps' = steps + 1 /\ answer' = "Advanced"
         /\ UNCHANGED <<alive, used, terminated>>

Next ==
    \/ Create({}) \/ \E p \in Starts : Create({p})
    \/ Advance
    \/ \E id \in Handles :
          \/ Destroy(id)
          \/ \E p \in Starts : Reset(id, p)
          \/ \E delta \in Deltas : Translate(id, delta)

Spec == Init /\ [][Next]_entityVars
===============================================================================
