----------------------------- MODULE AssetService -----------------------------
(***************************************************************************)
(* The texture cache of runtime/asset_service.cpp: a fixed pool of slots   *)
(* with generations, filled by jobs of the worker pool (JobPool) while the *)
(* game thread requests, reads, releases and finally destroys the service. *)
(*                                                                         *)
(* A request is a number; its decoded texture is identified by it, so the  *)
(* model can tell whose texture a slot holds.  One action is one critical  *)
(* section of impl_->mutex, one call of the pool or one notification.      *)
(***************************************************************************)
EXTENDS Integers, Sequences, FiniteSets

CONSTANTS
    SlotCapacity,       \* config.slot_capacity
    MaxInFlight,        \* config.maximum_in_flight_requests
    MaxResident,        \* config.maximum_resident_logical_bytes
    MaxGeneration,      \* numeric_limits<uint64_t>::max(), small here
    MaxRequests,        \* bound: requests a behaviour makes
    Sizes               \* logical_output_bytes a load may produce

ASSUME ConfigAssumption ==
    /\ SlotCapacity \in Nat \ {0}
    /\ MaxInFlight \in 1..SlotCapacity
    /\ MaxResident \in Nat \ {0}
    /\ MaxGeneration \in Nat \ {0}
    /\ MaxRequests \in Nat
    /\ Sizes \subseteq Nat \ {0}

Requests == 1..MaxRequests
Slots == 1..SlotCapacity
Nothing == 0     \* no storage in a slot, no request

VARIABLES
    slots,                    \* the slot records
    free_slots,               \* a stack of slots
    accepting,
    in_flight_requests,
    retired_slots,
    resident_logical_bytes,
    identity,                 \* handles can still lock the service token
    queued, running, finished, \* the worker pool
    phase,                    \* what the job of each request does next
    handle,                   \* the slot and generation reserved for each request
    views,                    \* references the game thread holds
    requested,                \* requests made so far
    game,                     \* where the game thread is
    terminated                \* a guard called std::terminate

pool == <<queued, running, finished>>
accounts == <<in_flight_requests, retired_slots, resident_logical_bytes>>
vars == <<slots, free_slots, accepting, accounts, identity, pool, phase, handle,
          views, requested, game, terminated>>

Pool == INSTANCE JobPool WITH Jobs <- Requests

EmptySlot == [generation |-> 1, occupied |-> FALSE, retired |-> FALSE,
              state |-> "Queued", storage |-> Nothing, bytes |-> 0]
NoHandle == [index |-> 0, generation |-> 0]

\* The free list is filled so that slot 1 is on top.
Init ==
    /\ slots = [s \in Slots |-> EmptySlot]
    /\ free_slots = [i \in 1..SlotCapacity |-> SlotCapacity + 1 - i]
    /\ accepting = TRUE
    /\ in_flight_requests = 0 /\ retired_slots = 0 /\ resident_logical_bytes = 0
    /\ identity = TRUE
    /\ Pool!PoolInit
    /\ phase = [r \in Requests |-> "none"]
    /\ handle = [r \in Requests |-> NoHandle]
    /\ views = {}
    /\ requested = 0
    /\ game = "ready"
    /\ terminated = FALSE

\* The slot the job of r was given, and whether it is still its own, in flight.
Index(r) == handle[r].index
Owned(r) ==
    LET slot == slots[Index(r)]
    IN  /\ slot.occupied
        /\ slot.generation = handle[r].generation
        /\ slot.state \in {"Queued", "Loading"}

\* A plausible error: the generation of the handle is not compared.
ValidWithoutGeneration(r) ==
    /\ handle[r] # NoHandle
    /\ identity
    /\ slots[Index(r)].occupied
    /\ ~slots[Index(r)].retired

\* State, Get and Release accept the handle of r.
Valid(r) ==
    /\ handle[r] # NoHandle
    /\ identity
    /\ slots[Index(r)].occupied
    /\ ~slots[Index(r)].retired
    /\ slots[Index(r)].generation = handle[r].generation

\* A plausible error: the generation overflows and no slot is ever retired.
RecycleWrapping(s) ==
    LET slot == slots[s]
    IN  /\ resident_logical_bytes' =
              resident_logical_bytes - (IF slot.storage # Nothing THEN slot.bytes ELSE 0)
        /\ slots' = [slots EXCEPT ![s] =
              [@ EXCEPT !.storage = Nothing, !.bytes = 0, !.occupied = FALSE,
                        !.generation = (@ + 1) % (MaxGeneration + 1)]]
        /\ free_slots' = Append(free_slots, s)
        /\ UNCHANGED retired_slots

\* RecycleLocked: the slot is emptied and either freed under the next
\* generation or retired.
RecycleLocked(s) ==
    LET slot == slots[s]
        last == slot.generation = MaxGeneration
    IN  IF slot.storage # Nothing /\ slot.bytes > resident_logical_bytes
        THEN UNCHANGED <<slots, free_slots, retired_slots, resident_logical_bytes>>
        ELSE /\ resident_logical_bytes' =
                   resident_logical_bytes - (IF slot.storage # Nothing THEN slot.bytes ELSE 0)
             /\ slots' = [slots EXCEPT ![s] =
                   [slot EXCEPT !.storage = Nothing, !.bytes = 0, !.occupied = FALSE,
                                !.retired = last,
                                !.generation = IF last THEN @ ELSE @ + 1]]
             /\ retired_slots' = IF last THEN retired_slots + 1 ELSE retired_slots
             /\ free_slots' = IF last THEN free_slots ELSE Append(free_slots, s)

\* idle.notify_all: a sleeping game thread evaluates its predicate again.
Notified == IF game = "waitAsleep" THEN "waitCheck"
            ELSE IF game = "destroyAsleep" THEN "destroyCheck" ELSE game

-------------------------------------------------------------------------------
(* Request.                                                                *)

\* The critical section that reserves a slot.  Every refusal leaves the state
\* as it is.
Reserve ==
    LET r == requested + 1
        s == free_slots[Len(free_slots)]
    IN  /\ game = "ready"
        /\ r \in Requests
        /\ accepting
        /\ free_slots # <<>>
        /\ in_flight_requests < MaxInFlight
        /\ free_slots' = SubSeq(free_slots, 1, Len(free_slots) - 1)
        /\ slots' = [slots EXCEPT ![s] = [@ EXCEPT !.occupied = TRUE, !.state = "Queued",
                                                   !.storage = Nothing, !.bytes = 0]]
        /\ in_flight_requests' = in_flight_requests + 1
        /\ handle' = [handle EXCEPT ![r] = [index |-> s, generation |-> slots[s].generation]]
        /\ requested' = r
        /\ game' = "submit"
        /\ UNCHANGED <<accepting, retired_slots, resident_logical_bytes, identity, pool,
                       phase, views, terminated>>

\* The pool accepts the job and the caller gets the handle.
SubmitAccepted ==
    /\ game = "submit"
    /\ Pool!SubmitJob(requested)
    /\ phase' = [phase EXCEPT ![requested] = "begin"]
    /\ game' = "ready"
    /\ UNCHANGED <<slots, free_slots, accepting, accounts, identity, handle, views,
                   requested, terminated>>

\* The pool's pending budget is exhausted, or building the job threw.
SubmitRejected ==
    /\ game = "submit"
    /\ game' = "rollback"
    /\ UNCHANGED <<slots, free_slots, accepting, accounts, identity, pool, phase, handle,
                   views, requested, terminated>>

\* A plausible error: the rollback forgets the in-flight count.
RollbackLeaking ==
    /\ game = "rollback"
    /\ RecycleLocked(Index(requested))
    /\ handle' = [handle EXCEPT ![requested] = NoHandle]
    /\ game' = "ready"
    /\ UNCHANGED <<accepting, in_flight_requests, identity, pool, phase, views, requested,
                   terminated>>

\* The second critical section undoes the reservation; no handle is returned.
Rollback ==
    /\ game = "rollback"
    /\ terminated' = (in_flight_requests = 0)
    /\ in_flight_requests' = in_flight_requests - 1
    /\ RecycleLocked(Index(requested))
    /\ handle' = [handle EXCEPT ![requested] = NoHandle]
    /\ game' = "ready"
    /\ UNCHANGED <<accepting, identity, pool, phase, views, requested>>

-------------------------------------------------------------------------------
(* RunLoad, the job of request r.                                          *)

\* A worker takes the job.
JobStarts(r) ==
    /\ Pool!StartJob(r)
    /\ UNCHANGED <<slots, free_slots, accepting, accounts, identity, phase, handle, views,
                   requested, game, terminated>>

\* BeginLoad.
BeginLoad(r) ==
    LET ok == Owned(r) /\ slots[Index(r)].state = "Queued"
    IN  /\ r \in running
        /\ phase[r] = "begin"
        /\ terminated' = ~ok
        /\ slots' = [slots EXCEPT ![Index(r)].state = "Loading"]
        /\ phase' = [phase EXCEPT ![r] = "load"]
        /\ UNCHANGED <<free_slots, accepting, accounts, identity, pool, handle, views,
                       requested, game>>

\* LevelTextureStore::Load returned an error, or an exception was caught:
\* PublishFailure or PublishWorkerFailureNoexcept.
PublishFailure(r) ==
    /\ r \in running
    /\ phase[r] = "load"
    /\ terminated' = (~Owned(r) \/ in_flight_requests = 0)
    /\ slots' = [slots EXCEPT ![Index(r)] =
                    [@ EXCEPT !.storage = Nothing, !.bytes = 0, !.state = "Failed"]]
    /\ in_flight_requests' = in_flight_requests - 1
    /\ phase' = [phase EXCEPT ![r] = "notify"]
    /\ UNCHANGED <<free_slots, accepting, retired_slots, resident_logical_bytes, identity,
                   pool, handle, views, requested, game>>

\* A plausible error: the budget looks at the new texture alone.
PublishLoadedUnbudgeted(r, b) ==
    LET refused == b > MaxResident
    IN  /\ r \in running
        /\ phase[r] = "load"
        /\ terminated' = (~Owned(r) \/ in_flight_requests = 0)
        /\ slots' = [slots EXCEPT ![Index(r)] =
              IF refused THEN [@ EXCEPT !.state = "Failed"]
              ELSE [@ EXCEPT !.state = "Ready", !.storage = r, !.bytes = b]]
        /\ resident_logical_bytes' = resident_logical_bytes + (IF refused THEN 0 ELSE b)
        /\ in_flight_requests' = in_flight_requests - 1
        /\ phase' = [phase EXCEPT ![r] = "notify"]
        /\ UNCHANGED <<free_slots, accepting, retired_slots, identity, pool, handle, views,
                       requested, game>>

\* Load returned a texture of b bytes: it becomes resident unless the budget
\* refuses it.
PublishLoaded(r, b) ==
    LET refused == \/ resident_logical_bytes > MaxResident
                   \/ b > MaxResident - resident_logical_bytes
    IN  /\ r \in running
        /\ phase[r] = "load"
        /\ terminated' = (~Owned(r) \/ in_flight_requests = 0)
        /\ slots' = [slots EXCEPT ![Index(r)] =
              IF refused THEN [@ EXCEPT !.state = "Failed"]
              ELSE [@ EXCEPT !.state = "Ready", !.storage = r, !.bytes = b]]
        /\ resident_logical_bytes' = resident_logical_bytes + (IF refused THEN 0 ELSE b)
        /\ in_flight_requests' = in_flight_requests - 1
        /\ phase' = [phase EXCEPT ![r] = "notify"]
        /\ UNCHANGED <<free_slots, accepting, retired_slots, identity, pool, handle, views,
                       requested, game>>

\* A plausible error: the job returns without a notification.
JobReturnsSilently(r) ==
    /\ phase[r] = "notify"
    /\ Pool!FinishJob(r)
    /\ phase' = [phase EXCEPT ![r] = "returned"]
    /\ UNCHANGED <<slots, free_slots, accepting, accounts, identity, handle, views,
                   requested, game, terminated>>

\* idle.notify_all after the lock was released, and the job returns; the
\* shared Impl is alive even when the service is gone.
JobReturns(r) ==
    /\ phase[r] = "notify"
    /\ Pool!FinishJob(r)
    /\ game' = Notified
    /\ phase' = [phase EXCEPT ![r] = "returned"]
    /\ UNCHANGED <<slots, free_slots, accepting, accounts, identity, handle, views,
                   requested, terminated>>

-------------------------------------------------------------------------------
(* Get, Release, WaitForIdle and the destructor.                           *)

\* Get returns a reference into the slot.
Get(r) ==
    /\ game = "ready"
    /\ Valid(r)
    /\ slots[Index(r)].state = "Ready"
    /\ slots[Index(r)].storage # Nothing
    /\ views' = views \cup {[request |-> r, content |-> slots[Index(r)].storage]}
    /\ UNCHANGED <<slots, free_slots, accepting, accounts, identity, pool, phase, handle,
                   requested, game, terminated>>

\* A plausible error: a request in flight can be released.
ReleaseBusy(r) ==
    /\ game = "ready"
    /\ Valid(r)
    /\ RecycleLocked(Index(r))
    /\ views' = {v \in views : v.request # r}
    /\ UNCHANGED <<accepting, in_flight_requests, identity, pool, phase, handle, requested,
                   game, terminated>>

\* Release of a handle that is valid and not busy; the caller drops its views.
Release(r) ==
    /\ game = "ready"
    /\ Valid(r)
    /\ slots[Index(r)].state \notin {"Queued", "Loading"}
    /\ RecycleLocked(Index(r))
    /\ views' = {v \in views : v.request # r}
    /\ UNCHANGED <<accepting, in_flight_requests, identity, pool, phase, handle, requested,
                   game, terminated>>

\* WaitForIdle is called.
WaitForIdle ==
    /\ game = "ready"
    /\ game' = "waitCheck"
    /\ UNCHANGED <<slots, free_slots, accepting, accounts, identity, pool, phase, handle,
                   views, requested, terminated>>

\* Its predicate is evaluated under the lock.
WaitChecks ==
    /\ game = "waitCheck"
    /\ game' = IF in_flight_requests = 0 THEN "ready" ELSE "waitAsleep"
    /\ UNCHANGED <<slots, free_slots, accepting, accounts, identity, pool, phase, handle,
                   views, requested, terminated>>

\* The destructor refuses new requests.
Destroy ==
    /\ game = "ready"
    /\ accepting' = FALSE
    /\ game' = "destroyCheck"
    /\ UNCHANGED <<slots, free_slots, accounts, identity, pool, phase, handle, views,
                   requested, terminated>>

\* The destructor finds a request in flight and sleeps.
DestroySleeps ==
    /\ game = "destroyCheck"
    /\ in_flight_requests # 0
    /\ game' = "destroyAsleep"
    /\ UNCHANGED <<slots, free_slots, accepting, accounts, identity, pool, phase, handle,
                   views, requested, terminated>>

\* A plausible error: wait without a predicate, ended by any wakeup.
DestroyedOnAnyWakeup ==
    /\ game = "destroyCheck"
    /\ identity' = FALSE
    /\ views' = {}
    /\ game' = "gone"
    /\ UNCHANGED <<slots, free_slots, accepting, accounts, pool, phase, handle, requested,
                   terminated>>

\* The last publication is in: the token expires and the references with it.
Destroyed ==
    /\ game = "destroyCheck"
    /\ in_flight_requests = 0
    /\ identity' = FALSE
    /\ views' = {}
    /\ game' = "gone"
    /\ UNCHANGED <<slots, free_slots, accepting, accounts, pool, phase, handle, requested,
                   terminated>>

\* A condition variable may return from wait without a notification.
SpuriousWakeup ==
    /\ game \in {"waitAsleep", "destroyAsleep"}
    /\ game' = Notified
    /\ UNCHANGED <<slots, free_slots, accepting, accounts, identity, pool, phase, handle,
                   views, requested, terminated>>

\* Nothing is left to do.
Gone ==
    /\ game = "gone"
    /\ queued \cup running = {}
    /\ UNCHANGED vars

-------------------------------------------------------------------------------
GameStep == SubmitAccepted \/ Rollback \/ WaitChecks \/ DestroySleeps \/ Destroyed

JobStep(r) == \/ BeginLoad(r)
              \/ PublishFailure(r)
              \/ \E b \in Sizes : PublishLoaded(r, b)

Next ==
    \/ Reserve
    \/ SubmitAccepted
    \/ SubmitRejected
    \/ Rollback
    \/ \E r \in Requests :
          \/ JobStarts(r)
          \/ BeginLoad(r)
          \/ PublishFailure(r)
          \/ \E b \in Sizes : PublishLoaded(r, b)
          \/ JobReturns(r)
          \/ Get(r)
          \/ Release(r)
    \/ WaitForIdle
    \/ WaitChecks
    \/ Destroy
    \/ DestroySleeps
    \/ Destroyed
    \/ SpuriousWakeup
    \/ Gone

\* The pool starts every accepted job (JobPool), Load returns, and a game
\* thread inside a call of the service goes on.
Fairness ==
    /\ WF_vars(GameStep)
    /\ \A r \in Requests : /\ WF_vars(JobStarts(r))
                           /\ WF_vars(JobStep(r))
                           /\ WF_vars(JobReturns(r))

Spec == Init /\ [][Next]_vars

FairSpec == Spec /\ Fairness

-------------------------------------------------------------------------------
SlotRecords ==
    [generation : 1..MaxGeneration, occupied : BOOLEAN, retired : BOOLEAN,
     state : {"Queued", "Loading", "Ready", "Failed"},
     storage : Requests \cup {Nothing}, bytes : Sizes \cup {0}]

TypeOK ==
    /\ slots \in [Slots -> SlotRecords]
    /\ free_slots \in Seq(Slots)
    /\ accepting \in BOOLEAN /\ identity \in BOOLEAN /\ terminated \in BOOLEAN
    /\ in_flight_requests \in Nat /\ retired_slots \in Nat /\ resident_logical_bytes \in Nat
    /\ queued \subseteq Requests /\ running \subseteq Requests /\ finished \subseteq Requests
    /\ phase \in [Requests -> {"none", "begin", "load", "notify", "returned"}]
    /\ handle \in [Requests -> [index : Slots, generation : 1..MaxGeneration] \cup {NoHandle}]
    /\ views \subseteq [request : Requests, content : Requests]
    /\ requested \in 0..MaxRequests
    /\ game \in {"ready", "submit", "rollback", "waitCheck", "waitAsleep",
                 "destroyCheck", "destroyAsleep", "gone"}

\* No guard of the service ever calls std::terminate: a job finds its slot
\* occupied under its own generation and in flight, whatever the game thread
\* released or rolled back meanwhile.
NeverTerminates == ~terminated

Occupied == {s \in Slots : slots[s].occupied}
Retired == {s \in Slots : slots[s].retired}
FreeSlots == {free_slots[i] : i \in 1..Len(free_slots)}

\* The counters of Snapshot agree with the slots, across every rollback,
\* publication and release: requests in flight are the slots queued or
\* loading, and every slot is free, occupied or retired, and free only once.
SlotsAreAccountedFor ==
    /\ in_flight_requests =
          Cardinality({s \in Occupied : slots[s].state \in {"Queued", "Loading"}})
    /\ retired_slots = Cardinality(Retired)
    /\ Cardinality(FreeSlots) = Len(free_slots)
    /\ FreeSlots = Slots \ (Occupied \cup Retired)
    /\ Occupied \cap Retired = {}

\* Every byte of every texture held.
HeldBytes == UNION {{s} \X (1..slots[s].bytes) : s \in Occupied}

\* The resident byte count is that of the textures held, and never exceeds
\* the budget although several loads are in flight when it is checked.
ResidentBytesAreExact ==
    /\ resident_logical_bytes = Cardinality(HeldBytes)
    /\ resident_logical_bytes <= MaxResident

\* A reference the game thread holds is to the texture it asked for, and that
\* texture stays in its slot until the handle is released.
ViewsStayValid ==
    \A v \in views : /\ v.content = v.request
                     /\ slots[Index(v.request)].storage = v.request

\* No two requests ever get the same handle, so a stale handle cannot reach a
\* later tenant of its slot.
HandlesAreUnique ==
    \A r, q \in Requests : handle[r] = handle[q] /\ handle[r] # NoHandle => r = q

\* After the destructor returned no job uses the store or a slot again, so the
\* dependencies may go away; jobs that only have to return may remain.
DestructionIsClean ==
    game = "gone" => /\ queued = {}
                     /\ \A r \in running : phase[r] = "notify"

\* What Snapshot reports is what the slots hold.
AccountsAreExact == TypeOK /\ SlotsAreAccountedFor /\ ResidentBytesAreExact

\* A handle or a reference never reaches a texture it was not given for.
ReferencesStayValid == ViewsStayValid /\ HandlesAreUnique

\* No interleaving of calls and jobs ends the process or outlives the service.
LifetimeIsClean == NeverTerminates /\ DestructionIsClean

\* WaitForIdle returns once the loads it waits for are published.
WaitForIdleReturns == game = "waitCheck" ~> game = "ready"

\* The destructor completes, although jobs are still queued or loading.
DestructorReturns == game = "destroyCheck" ~> game = "gone"

\* Both blocking calls of the game thread return.
CallsReturn == WaitForIdleReturns /\ DestructorReturns
===============================================================================
