------------------------------- MODULE Gameplay -------------------------------
(***************************************************************************)
(* What one frame of the diagnostic play computes: the fixed-step frame    *)
(* scheduler (src/runtime/frame_scheduler.cpp), the steps of the           *)
(* simulation world, and the objective, target and mission rules of        *)
(* src/gameplay.  Pure operators; the live loop and the replay of a        *)
(* capture both call them.                                                 *)
(*                                                                         *)
(* Time is counted in ticks.  A position is <<x, z>>: nothing moves in y.  *)
(* The scheduler's two totals are sums of what is returned here.           *)
(***************************************************************************)
EXTENDS Integers

CONSTANTS
    SimulationStep,     \* FrameSchedulerConfig
    MaxFrameDelta,
    MaxStepsPerFrame,
    MaxCoordinate,      \* the largest representable coordinate
    Objective           \* kProjectDiagnosticObjectiveVolume, as a set of positions

ASSUME SchedulerAssumption ==
    /\ {SimulationStep, MaxFrameDelta, MaxStepsPerFrame} \subseteq Nat \ {0}
    /\ SimulationStep <= MaxFrameDelta
ASSUME CoordinateAssumption == MaxCoordinate \in Nat

-------------------------------------------------------------------------------
(* FrameScheduler::BeginFrame.                                             *)

\* What a frame may contribute, whatever its clock says.
ClampedDelta(elapsed) ==
    CASE elapsed < 0 -> 0
      [] elapsed > MaxFrameDelta -> MaxFrameDelta
      [] OTHER -> elapsed

\* A plausible error: a frame that drops steps also drops the rest of the accumulator.
BeginFrameForgettingRest(remainder, elapsed) ==
    LET accumulated == remainder + ClampedDelta(elapsed)
        available == accumulated \div SimulationStep
        dropped == available > MaxStepsPerFrame
        planned == IF dropped THEN MaxStepsPerFrame ELSE available
    IN [steps |-> planned, clamped |-> elapsed > MaxFrameDelta, dropped |-> dropped,
        dropped_time |-> (available - planned) * SimulationStep,
        remainder |-> IF dropped THEN 0 ELSE accumulated % SimulationStep]

\* Whole steps leave the accumulator, run or dropped; less than a step stays.
BeginFrame(remainder, elapsed) ==
    LET accumulated == remainder + ClampedDelta(elapsed)
        available == accumulated \div SimulationStep
        planned == IF available > MaxStepsPerFrame THEN MaxStepsPerFrame ELSE available
    IN [steps |-> planned, clamped |-> elapsed > MaxFrameDelta,
        dropped |-> available > MaxStepsPerFrame,
        dropped_time |-> (available - planned) * SimulationStep,
        remainder |-> accumulated % SimulationStep]

-------------------------------------------------------------------------------
(* The actor's movement and the objective it walks into.                   *)

Origin == <<0, 0>>

\* PlanDebugLocomotionStep on the held direction actions.
Axis(held, positive, negative) ==
    (IF positive \in held THEN 1 ELSE 0) - (IF negative \in held THEN 1 ELSE 0)
PlanDebugLocomotionStep(held) ==
    <<Axis(held, "right", "left"), Axis(held, "forward", "backward")>>

NotInside == [inside |-> FALSE, objective_complete |-> FALSE]

At(position, delta, k) == <<position[1] + k * delta[1], position[2] + k * delta[2]>>
IsRepresentable(position) == {position[1], position[2]} \subseteq (-MaxCoordinate)..MaxCoordinate

\* AdvanceOneStep `steps` times: a step that cannot be represented is not taken and
\* ends the run, so the steps taken are a prefix of the planned ones.
Executed(position, delta, steps) ==
    CHOOSE n \in 0..steps :
        /\ \A k \in 1..n : IsRepresentable(At(position, delta, k))
        /\ n < steps => ~IsRepresentable(At(position, delta, n + 1))

\* AdvanceDiagnosticProximityTrigger after each of `steps` steps, the actor being seen
\* at path[k] after the k-th: the objective stays complete once it was entered.
AdvanceProximityTrigger(trigger, path, steps) ==
    IF steps = 0 THEN trigger
    ELSE [inside |-> path[steps] \in Objective,
          objective_complete |->
              trigger.objective_complete \/ \E k \in 1..steps : path[k] \in Objective]

-------------------------------------------------------------------------------
(* The target and the mission.                                             *)

NotAcquired == [acquired |-> FALSE, target_complete |-> FALSE]

\* AdvanceDiagnosticTargetFire; the pointer is "on" the target, "off" it or absent.
AdvanceTargetFire(target, enabled, pointer, target_held, fire_pressed) ==
    IF ~enabled \/ target.target_complete
    THEN [target EXCEPT !.acquired = FALSE]
    ELSE LET acquired == target_held /\ pointer = "on"
         IN [acquired |-> acquired /\ ~fire_pressed,
             target_complete |-> acquired /\ fire_pressed]

\* AdvanceDiagnosticMissionLifecycle: the transitions it rejects.
MissionRejects(status, event) ==
    \/ event = "Deploy" /\ status = "Active"
    \/ event \in {"Complete", "Abort"} /\ status # "Active"

MissionAfter(status, event) ==
    CASE event = "None" -> status
      [] event = "Deploy" -> "Active"
      [] event = "Complete" -> "Succeeded"
      [] event = "Abort" -> "Failed"

\* A plausible error: leaving play does not abort the mission.
MissionEventWithoutAbort(status, aborted_now, target_before, target) ==
    IF ~target_before.target_complete /\ target.target_complete THEN "Complete" ELSE "None"

\* The event a frame reports once its steps are done.
MissionEvent(status, aborted_now, target_before, target) ==
    CASE aborted_now -> "Abort"
      [] /\ ~aborted_now /\ status = "Active"
         /\ ~target_before.target_complete /\ target.target_complete -> "Complete"
      [] OTHER -> "None"

===============================================================================
