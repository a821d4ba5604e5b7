-------------------------- MODULE AssetServiceProofs --------------------------
(***************************************************************************)
(* The texture cache for every number of slots, requests and generations,  *)
(* every budget and every size of a texture.                               *)
(***************************************************************************)
EXTENDS AssetService, FiniteSetTheorems, FunctionTheorems, TLAPS

(***************************************************************************)
(* The inductive invariant.                                                *)
(***************************************************************************)
InFlight == {"Queued", "Loading"}
Busy == {s \in Slots : slots[s].occupied /\ slots[s].state \in InFlight}

\* The free list holds every slot that is neither occupied nor retired, once.
FreeListOK ==
    /\ \A i, j \in 1..Len(free_slots) : free_slots[i] = free_slots[j] => i = j
    /\ \A s \in Slots :
          (\E i \in 1..Len(free_slots) : free_slots[i] = s)
              <=> ~ slots[s].occupied /\ ~ slots[s].retired
    /\ \A s \in Slots : ~ (slots[s].occupied /\ slots[s].retired)

CountsOK ==
    /\ in_flight_requests = Cardinality(Busy)
    /\ retired_slots = Cardinality(Retired)
    /\ IsFiniteSet(HeldBytes)
    /\ resident_logical_bytes = Cardinality(HeldBytes)
    /\ resident_logical_bytes <= MaxResident

\* Request r has not lost its slot.
HasSlot(r, state) ==
    /\ handle[r] # NoHandle
    /\ slots[Index(r)].occupied
    /\ slots[Index(r)].generation = handle[r].generation
    /\ slots[Index(r)].state = state

\* No handle is ahead of its slot, and a slot that can be reserved is ahead of its handles.
HandlesOK ==
    /\ \A r \in Requests : handle[r] # NoHandle =>
          /\ handle[r].generation <= slots[Index(r)].generation
          /\ handle[r].generation = slots[Index(r)].generation
                => slots[Index(r)].occupied \/ slots[Index(r)].retired
    /\ \A r \in Requests : r > requested => handle[r] = NoHandle
    /\ HandlesAreUnique

\* A job that has not published yet has its slot, as has the reservation being submitted.
JobsOK ==
    /\ queued \cap running = {}
    /\ \A r \in Requests :
          /\ phase[r] = "none" => r \notin queued \cup running \cup finished
          /\ r \in queued => phase[r] = "begin"
          /\ r \in running => phase[r] \in {"begin", "load", "notify"}
          /\ phase[r] = "begin" => HasSlot(r, "Queued")
          /\ phase[r] = "load" => HasSlot(r, "Loading")
          /\ r > requested => phase[r] = "none"
    /\ game \in {"submit", "rollback"} =>
          requested \in Requests /\ phase[requested] = "none" /\ HasSlot(requested, "Queued")

\* A slot holds the texture of the request it was given to, and only when it is ready.
ContentsOK ==
    \A s \in Slots :
        IF slots[s].occupied /\ slots[s].state = "Ready"
        THEN /\ slots[s].storage \in Requests
             /\ handle[slots[s].storage] = [index |-> s, generation |-> slots[s].generation]
        ELSE slots[s].storage = Nothing /\ slots[s].bytes = 0

ViewsOK == \A v \in views : v.content = v.request /\ HasSlot(v.request, "Ready")

AssetInvariant ==
    /\ TypeOK /\ FreeListOK /\ CountsOK /\ HandlesOK /\ JobsOK /\ ContentsOK /\ ViewsOK
    /\ NeverTerminates /\ DestructionIsClean

-------------------------------------------------------------------------------
(***************************************************************************)
(* Slots, handles and the sets the counters count.                         *)
(***************************************************************************)
LEMMA Bounds ==
    /\ SlotCapacity \in Nat /\ MaxResident \in Nat /\ MaxGeneration \in Nat \ {0}
    /\ MaxRequests \in Nat /\ Sizes \subseteq Nat \ {0} /\ MaxInFlight \in Nat
    /\ Slots \subseteq Nat \ {0} /\ Requests \subseteq Nat \ {0} /\ Nothing \notin Requests
BY ConfigAssumption DEF Slots, Requests, Nothing

LEMMA SlotIs ==
    ASSUME TypeOK, NEW s \in Slots
    PROVE  /\ slots[s] = [generation |-> slots[s].generation, occupied |-> slots[s].occupied,
                          retired |-> slots[s].retired, state |-> slots[s].state,
                          storage |-> slots[s].storage, bytes |-> slots[s].bytes]
           /\ slots[s].generation \in 1..MaxGeneration
           /\ slots[s].occupied \in BOOLEAN /\ slots[s].retired \in BOOLEAN
           /\ slots[s].state \in {"Queued", "Loading", "Ready", "Failed"}
           /\ slots[s].storage \in Requests \cup {Nothing}
           /\ slots[s].bytes \in Sizes \cup {0} /\ slots[s].bytes \in Nat
<1>1. slots[s] \in SlotRecords
  BY DEF TypeOK
<1>2. /\ slots[s].generation \in 1..MaxGeneration
      /\ slots[s].state \in {"Queued", "Loading", "Ready", "Failed"}
      /\ slots[s].storage \in Requests \cup {Nothing}
      /\ slots[s].bytes \in Sizes \cup {0}
  BY <1>1 DEF SlotRecords
<1>3. slots[s].occupied \in BOOLEAN /\ slots[s].retired \in BOOLEAN
  BY <1>1, Zenon DEF SlotRecords
<1>4. slots[s].bytes \in Nat
  <2>1. \A b \in Sizes : b \in Nat
    BY ConfigAssumption
  <2> QED
    BY <1>2, <2>1
<1>5. slots[s] = [generation |-> slots[s].generation, occupied |-> slots[s].occupied,
                  retired |-> slots[s].retired, state |-> slots[s].state,
                  storage |-> slots[s].storage, bytes |-> slots[s].bytes]
  BY <1>1 DEF SlotRecords
<1> QED
  BY <1>2, <1>3, <1>4, <1>5

LEMMA HandleIs ==
    ASSUME TypeOK, NEW r \in Requests, handle[r] # NoHandle
    PROVE  /\ handle[r] = [index |-> Index(r), generation |-> handle[r].generation]
           /\ Index(r) \in Slots /\ handle[r].generation \in 1..MaxGeneration
<1>1. handle[r] \in [index : Slots, generation : 1..MaxGeneration]
  BY DEF TypeOK
<1> QED
  BY <1>1 DEF Index

LEMMA SlotBecomes ==
    ASSUME TypeOK, NEW s \in Slots, NEW new \in SlotRecords, slots' = [slots EXCEPT ![s] = new]
    PROVE  /\ slots' \in [Slots -> SlotRecords] /\ slots'[s] = new
           /\ \A q \in Slots : q # s => slots'[q] = slots[q]
BY DEF TypeOK

LEMMA SlotSetsFinite == IsFiniteSet(Slots) /\ \A S \in SUBSET Slots : IsFiniteSet(S)
<1>1. IsFiniteSet(Slots)
  BY Bounds, FS_Interval DEF Slots
<1> QED
  BY <1>1, FS_Subset

LEMMA BusyBecomes ==
    ASSUME TypeOK, NEW s \in Slots, NEW new \in SlotRecords, slots' = [slots EXCEPT ![s] = new]
    PROVE  /\ Cardinality(Busy) \in Nat
           /\ new.occupied /\ new.state \in InFlight =>
                Cardinality(Busy') = IF s \in Busy THEN Cardinality(Busy) ELSE Cardinality(Busy) + 1
           /\ ~ (new.occupied /\ new.state \in InFlight) =>
                Cardinality(Busy') = IF s \in Busy THEN Cardinality(Busy) - 1 ELSE Cardinality(Busy)
<1>1. IsFiniteSet(Busy)
  BY SlotSetsFinite DEF Busy
<1>2. new.occupied /\ new.state \in InFlight => Busy' = Busy \cup {s}
  BY SlotBecomes DEF Busy
<1>3. ~ (new.occupied /\ new.state \in InFlight) => Busy' = Busy \ {s}
  BY SlotBecomes DEF Busy
<1> QED
  BY <1>1, <1>2, <1>3, FS_CardinalityType, FS_AddElement, FS_RemoveElement

LEMMA RetiredBecomes ==
    ASSUME TypeOK, NEW s \in Slots, NEW new \in SlotRecords, slots' = [slots EXCEPT ![s] = new]
    PROVE  /\ Cardinality(Retired) \in Nat
           /\ new.retired = slots[s].retired => Retired' = Retired
           /\ new.retired /\ ~ slots[s].retired => Cardinality(Retired') = Cardinality(Retired) + 1
<1>1. IsFiniteSet(Retired)
  BY SlotSetsFinite DEF Retired
<1>2. new.retired = slots[s].retired => Retired' = Retired
  BY SlotBecomes DEF Retired
<1>3. new.retired /\ ~ slots[s].retired => Retired' = Retired \cup {s} /\ s \notin Retired
  BY SlotBecomes DEF Retired
<1> QED
  BY <1>1, <1>2, <1>3, FS_CardinalityType, FS_AddElement

\* The bytes 1..n of the texture in slot s.
BytesIn(s, n) == {s} \X (1..n)

LEMMA BytesAreCounted ==
    ASSUME NEW s, NEW n \in Nat
    PROVE  IsFiniteSet(BytesIn(s, n)) /\ Cardinality(BytesIn(s, n)) = n
<1>1. IsFiniteSet({s}) /\ Cardinality({s}) = 1
  BY FS_Singleton
<1>2. IsFiniteSet(1..n) /\ Cardinality(1..n) = n
  BY FS_Interval
<1>3. IsFiniteSet({s} \X (1..n)) /\ Cardinality({s} \X (1..n)) = Cardinality({s}) * Cardinality(1..n)
  BY <1>1, <1>2, FS_Product
<1> QED
  BY <1>1, <1>2, <1>3 DEF BytesIn

LEMMA BytesBecome ==
    ASSUME TypeOK, ContentsOK, IsFiniteSet(HeldBytes), NEW s \in Slots, NEW new \in SlotRecords,
           slots' = [slots EXCEPT ![s] = new], new.bytes \in Nat, ~ new.occupied => new.bytes = 0
    PROVE  /\ IsFiniteSet(HeldBytes') /\ Cardinality(HeldBytes) \in Nat
           /\ Cardinality(HeldBytes') = Cardinality(HeldBytes) - slots[s].bytes + new.bytes
           /\ slots[s].bytes <= Cardinality(HeldBytes)
<1> DEFINE old == BytesIn(s, slots[s].bytes)
           fresh == BytesIn(s, new.bytes)
           rest == HeldBytes \ old
<1>1. slots[s].bytes \in Nat /\ (~ slots[s].occupied => slots[s].bytes = 0)
  BY SlotIs DEF ContentsOK
<1>2. old \subseteq HeldBytes
  <2>1. CASE slots[s].occupied
    BY <2>1 DEF HeldBytes, Occupied, BytesIn
  <2>2. CASE ~ slots[s].occupied
    BY <1>1, <2>2 DEF BytesIn
  <2> QED
    BY <2>1, <2>2
<1>3. rest = UNION {BytesIn(q, slots[q].bytes) : q \in Occupied \ {s}}
  BY DEF HeldBytes, BytesIn, Occupied
<1>4. HeldBytes' = rest \cup fresh
  <2>1. HeldBytes' = UNION {BytesIn(q, slots'[q].bytes) : q \in Occupied'}
    BY DEF HeldBytes, BytesIn
  <2>2. Occupied' \ {s} = Occupied \ {s} /\ \A q \in Occupied \ {s} : slots'[q] = slots[q]
    BY SlotBecomes DEF Occupied
  <2>3. (s \in Occupied' <=> new.occupied) /\ slots'[s] = new
    BY SlotBecomes DEF Occupied
  <2>4. rest = UNION {BytesIn(q, slots'[q].bytes) : q \in Occupied' \ {s}}
    BY <1>3, <2>2
  <2>5. ~ new.occupied => fresh = {}
    BY DEF BytesIn
  <2>6. CASE new.occupied
    BY <2>1, <2>3, <2>4, <2>6
  <2>7. CASE ~ new.occupied
    BY <2>1, <2>3, <2>4, <2>5, <2>7
  <2> QED
    BY <2>6, <2>7
<1>5. rest \cap fresh = {}
  BY <1>3 DEF BytesIn
<1>6. /\ IsFiniteSet(rest) /\ Cardinality(rest) = Cardinality(HeldBytes) - slots[s].bytes
      /\ Cardinality(rest) \in Nat /\ Cardinality(HeldBytes) \in Nat
  <2>1. HeldBytes \cap old = old
    BY <1>2
  <2>2. Cardinality(old) = slots[s].bytes
    BY <1>1, BytesAreCounted
  <2> HIDE DEF old
  <2>3. IsFiniteSet(rest) /\ Cardinality(rest) = Cardinality(HeldBytes) - Cardinality(HeldBytes \cap old)
    BY FS_Difference
  <2> QED
    BY <2>1, <2>2, <2>3, FS_CardinalityType
<1>7. IsFiniteSet(fresh) /\ Cardinality(fresh) = new.bytes
  BY BytesAreCounted
<1> HIDE DEF rest, fresh
<1>8. /\ IsFiniteSet(rest \cup fresh)
      /\ Cardinality(rest \cup fresh) = Cardinality(rest) + Cardinality(fresh) - Cardinality(rest \cap fresh)
  BY <1>6, <1>7, FS_Union
<1>9. Cardinality(rest \cap fresh) = 0
  BY <1>5, FS_EmptySet
<1> QED
  BY <1>1, <1>4, <1>6, <1>7, <1>8, <1>9

LEMMA Tenant ==
    ASSUME TypeOK, HandlesOK, NEW r \in Requests, NEW q \in Requests, NEW a, NEW b,
           HasSlot(r, a), HasSlot(q, b), Index(r) = Index(q)
    PROVE  r = q
<1>1. handle[r] = handle[q] /\ handle[r] # NoHandle
  BY HandleIs DEF HasSlot
<1> QED
  BY <1>1 DEF HandlesOK, HandlesAreUnique

LEMMA HasSlotIs ==
    ASSUME TypeOK, NEW r \in Requests, NEW a, HasSlot(r, a)
    PROVE  /\ Index(r) \in Slots /\ slots[Index(r)].occupied /\ slots[Index(r)].state = a
           /\ handle[r] = [index |-> Index(r), generation |-> slots[Index(r)].generation]
           /\ handle[r] # NoHandle
BY HandleIs DEF HasSlot

\* A change of one slot takes nothing from the request of another.
LEMMA KeepsSlot ==
    ASSUME TypeOK, NEW s \in Slots, NEW new \in SlotRecords, slots' = [slots EXCEPT ![s] = new],
           NEW r \in Requests, NEW a, HasSlot(r, a), handle'[r] = handle[r], Index(r) # s
    PROVE  HasSlot(r, a)'
<1>1. slots'[Index(r)] = slots[Index(r)] /\ Index(r)' = Index(r)
  BY HasSlotIs, SlotBecomes DEF Index
<1> QED
  BY <1>1 DEF HasSlot

-------------------------------------------------------------------------------
(***************************************************************************)
(* Steps that leave every slot and every handle alone.                     *)
(***************************************************************************)
SlotsOK == FreeListOK /\ CountsOK /\ HandlesOK /\ ContentsOK

still == <<slots, free_slots, accounts, handle, requested>>

LEMMA SlotsUntouched ==
    ASSUME AssetInvariant, UNCHANGED still
    PROVE  /\ SlotsOK'
           /\ \A a : \A r \in Requests : HasSlot(r, a)' <=> HasSlot(r, a)
<1> USE DEF AssetInvariant, still, accounts
<1>1. FreeListOK'
  BY DEF FreeListOK
<1>2. CountsOK'
  BY DEF CountsOK, Busy, Retired, HeldBytes, Occupied
<1>3. HandlesOK'
  BY DEF HandlesOK, HandlesAreUnique, Index
<1>4. ContentsOK'
  BY DEF ContentsOK
<1>5. \A a : \A r \in Requests : HasSlot(r, a)' <=> HasSlot(r, a)
  BY DEF HasSlot, Index
<1> QED
  BY <1>1, <1>2, <1>3, <1>4, <1>5 DEF SlotsOK

\* The game thread moves between places where it owns no reservation.
LEMMA GameMovesStep ==
    ASSUME AssetInvariant, UNCHANGED still, UNCHANGED <<pool, phase, terminated>>,
           game' \in {"ready", "rollback", "waitCheck", "waitAsleep", "destroyCheck",
                      "destroyAsleep"},
           game' = "rollback" => game = "submit",
           {accepting', identity'} \subseteq BOOLEAN,
           views' \subseteq [request : Requests, content : Requests], ViewsOK'
    PROVE  AssetInvariant'
<1> USE DEF AssetInvariant
<1>1. TypeOK'
  BY DEF TypeOK, still, accounts, pool
<1>2. JobsOK'
  BY SlotsUntouched DEF JobsOK, still, pool
<1>3. NeverTerminates' /\ DestructionIsClean'
  BY DEF NeverTerminates, DestructionIsClean
<1> QED
  BY <1>1, <1>2, <1>3, SlotsUntouched DEF SlotsOK

LEMMA ViewsUntouched ==
    ASSUME AssetInvariant, UNCHANGED still, views' = views PROVE ViewsOK'
<1>1. \A v \in views : v.request \in Requests
  BY DEF AssetInvariant, TypeOK
<1> QED
  BY <1>1, SlotsUntouched DEF AssetInvariant, ViewsOK

LEMMA GameStepsKeep ==
    ASSUME AssetInvariant,
           \/ SubmitRejected \/ WaitForIdle \/ WaitChecks \/ Destroy \/ DestroySleeps
           \/ SpuriousWakeup
    PROVE  AssetInvariant'
<1>1. /\ UNCHANGED still /\ UNCHANGED <<pool, phase, terminated, identity, views>>
      /\ game' \in {"ready", "rollback", "waitCheck", "waitAsleep", "destroyCheck",
                    "destroyAsleep"}
      /\ game' = "rollback" => game = "submit"
      /\ accepting' = accepting \/ accepting' = FALSE
  BY DEF SubmitRejected, WaitForIdle, WaitChecks, Destroy, DestroySleeps, SpuriousWakeup,
         Notified, still
<1>2. /\ {accepting', identity'} \subseteq BOOLEAN
      /\ views' \subseteq [request : Requests, content : Requests]
  BY <1>1 DEF AssetInvariant, TypeOK
<1> QED
  BY <1>1, <1>2, ViewsUntouched, GameMovesStep

LEMMA GetStep == ASSUME AssetInvariant, NEW r \in Requests, Get(r) PROVE AssetInvariant'
<1> USE DEF AssetInvariant
<1>1. /\ UNCHANGED still /\ UNCHANGED <<pool, phase, terminated, identity, accepting, game>>
      /\ game = "ready" /\ HasSlot(r, "Ready")
      /\ views' = views \cup {[request |-> r, content |-> slots[Index(r)].storage]}
  BY DEF Get, still, Valid, HasSlot
<1>2. slots[Index(r)].storage = r
  <2> DEFINE s == Index(r)
             q == slots[s].storage
  <2>1. s \in Slots /\ slots[s].occupied /\ slots[s].state = "Ready" /\ handle[r] # NoHandle
           /\ handle[r] = [index |-> s, generation |-> slots[s].generation]
    BY <1>1, HasSlotIs
  <2>2. q \in Requests /\ handle[q] = handle[r]
    BY <2>1 DEF ContentsOK
  <2> QED
    BY <2>1, <2>2 DEF HandlesOK, HandlesAreUnique
<1>3. ViewsOK'
  <2>1. \A v \in views : v.request \in Requests
    BY DEF TypeOK
  <2> QED
    BY <1>1, <1>2, <2>1, SlotsUntouched DEF ViewsOK
<1>4. /\ {accepting', identity'} \subseteq BOOLEAN
      /\ views' \subseteq [request : Requests, content : Requests]
  BY <1>1, <1>2 DEF TypeOK
<1> QED
  BY <1>1, <1>3, <1>4, GameMovesStep

LEMMA SubmitAcceptedStep == ASSUME AssetInvariant, SubmitAccepted PROVE AssetInvariant'
<1> USE DEF AssetInvariant
<1>1. /\ UNCHANGED still /\ UNCHANGED <<running, finished, terminated, identity, accepting, views>>
      /\ game = "submit" /\ game' = "ready"
      /\ queued' = queued \cup {requested} /\ requested \notin queued \cup running \cup finished
      /\ phase' = [phase EXCEPT ![requested] = "begin"]
  BY DEF SubmitAccepted, Pool!SubmitJob, still
<1>2. requested \in Requests /\ HasSlot(requested, "Queued")
  BY <1>1 DEF JobsOK
<1>3. TypeOK'
  BY <1>1, <1>2 DEF TypeOK, still, accounts
<1>4. JobsOK'
  <2>1. requested' = requested /\ phase'[requested] = "begin"
           /\ \A r \in Requests : r # requested => phase'[r] = phase[r]
    BY <1>1, <1>2 DEF still, TypeOK
  <2>2. requested \in Nat /\ \A r \in Requests : r = requested => HasSlot(r, "Queued")'
    BY <1>1, <1>2, SlotsUntouched, Bounds
  <2>3. queued' \cap running' = {}
    BY <1>1 DEF JobsOK
  <2>4. \A r \in Requests : r # requested =>
           /\ phase'[r] = "none" => r \notin queued' \cup running' \cup finished'
           /\ r \in queued' => phase'[r] = "begin"
           /\ r \in running' => phase'[r] \in {"begin", "load", "notify"}
           /\ phase'[r] = "begin" => HasSlot(r, "Queued")'
           /\ phase'[r] = "load" => HasSlot(r, "Loading")'
           /\ r > requested' => phase'[r] = "none"
    BY <1>1, <2>1, SlotsUntouched DEF JobsOK
  <2> QED
    BY <1>1, <2>1, <2>2, <2>3, <2>4 DEF JobsOK
<1>5. NeverTerminates' /\ DestructionIsClean' /\ ViewsOK'
  BY <1>1, ViewsUntouched DEF NeverTerminates, DestructionIsClean
<1> QED
  BY <1>1, <1>3, <1>4, <1>5, SlotsUntouched DEF SlotsOK

LEMMA JobStartsStep == ASSUME AssetInvariant, NEW r \in Requests, JobStarts(r) PROVE AssetInvariant'
<1> USE DEF AssetInvariant
<1>1. /\ UNCHANGED still
      /\ UNCHANGED <<finished, phase, terminated, identity, accepting, views, game>>
      /\ r \in queued /\ queued' = queued \ {r} /\ running' = running \cup {r}
  BY DEF JobStarts, Pool!StartJob, still
<1>2. TypeOK'
  BY <1>1 DEF TypeOK, still, accounts
<1>3. JobsOK'
  BY <1>1, SlotsUntouched DEF JobsOK, still
<1>4. NeverTerminates' /\ DestructionIsClean' /\ ViewsOK'
  BY <1>1, ViewsUntouched DEF NeverTerminates, DestructionIsClean
<1> QED
  BY <1>1, <1>2, <1>3, <1>4, SlotsUntouched DEF SlotsOK

LEMMA JobReturnsStep ==
    ASSUME AssetInvariant, NEW r \in Requests, JobReturns(r) PROVE AssetInvariant'
<1> USE DEF AssetInvariant
<1>1. /\ UNCHANGED still
      /\ UNCHANGED <<queued, terminated, identity, accepting, views>>
      /\ r \in running /\ running' = running \ {r} /\ finished' = finished \cup {r}
      /\ phase[r] = "notify" /\ phase' = [phase EXCEPT ![r] = "returned"]
      /\ game' = game \/ game' \in {"waitCheck", "destroyCheck"}
  BY DEF JobReturns, Pool!FinishJob, still, Notified
<1>2. TypeOK'
  BY <1>1 DEF TypeOK, still, accounts
<1>3. JobsOK'
  <2>1. requested' = requested /\ phase'[r] = "returned"
           /\ \A q \in Requests : q # r => phase'[q] = phase[q]
    BY <1>1 DEF still, TypeOK
  <2> QED
    BY <1>1, <2>1, SlotsUntouched DEF JobsOK
<1>4. NeverTerminates' /\ DestructionIsClean' /\ ViewsOK'
  <2>1. \A q \in Requests : q # r => phase'[q] = phase[q]
    BY <1>1 DEF TypeOK
  <2> QED
    BY <1>1, <2>1, ViewsUntouched DEF NeverTerminates, DestructionIsClean, TypeOK
<1> QED
  BY <1>1, <1>2, <1>3, <1>4, SlotsUntouched DEF SlotsOK

\* A request whose job has not published is counted.
LEMMA InFlightIsCounted ==
    ASSUME AssetInvariant, NEW r \in Requests, NEW a \in InFlight, HasSlot(r, a)
    PROVE  Index(r) \in Busy /\ in_flight_requests \in Nat /\ in_flight_requests > 0
<1> USE DEF AssetInvariant
<1>1. Index(r) \in Busy
  BY HasSlotIs DEF Busy
<1>2. IsFiniteSet(Busy)
  BY SlotSetsFinite DEF Busy
<1> QED
  BY <1>1, <1>2, FS_CardinalityType, FS_EmptySet DEF CountsOK

LEMMA DestroyedStep == ASSUME AssetInvariant, Destroyed PROVE AssetInvariant'
<1> USE DEF AssetInvariant
<1>1. /\ UNCHANGED still /\ UNCHANGED <<pool, phase, terminated, accepting>>
      /\ in_flight_requests = 0 /\ identity' = FALSE /\ views' = {} /\ game' = "gone"
  BY DEF Destroyed, still
<1>2. TypeOK'
  BY <1>1 DEF TypeOK, still, accounts, pool
<1>3. JobsOK'
  BY <1>1, SlotsUntouched DEF JobsOK, still, pool
<1>4. \A r \in Requests : phase[r] \notin {"begin", "load"}
  BY <1>1, InFlightIsCounted DEF JobsOK, InFlight
<1>5. DestructionIsClean'
  BY <1>1, <1>4 DEF DestructionIsClean, JobsOK, TypeOK, pool
<1>6. NeverTerminates' /\ ViewsOK'
  BY <1>1 DEF NeverTerminates, ViewsOK
<1> QED
  BY <1>1, <1>2, <1>3, <1>5, <1>6, SlotsUntouched DEF SlotsOK

-------------------------------------------------------------------------------
(***************************************************************************)
(* The job of a request changes the slot the request has.                  *)
(***************************************************************************)
LEMMA TenantChanges ==
    ASSUME AssetInvariant, NEW r \in Requests, NEW a \in InFlight, HasSlot(r, a),
           NEW new \in SlotRecords, slots' = [slots EXCEPT ![Index(r)] = new],
           new.generation = slots[Index(r)].generation, new.occupied,
           new.retired = slots[Index(r)].retired,
           IF new.state = "Ready" THEN new.storage = r ELSE new.storage = Nothing /\ new.bytes = 0,
           UNCHANGED <<free_slots, handle, requested, views>>
    PROVE  /\ FreeListOK' /\ HandlesOK' /\ ContentsOK' /\ ViewsOK'
           /\ HasSlot(r, new.state)' /\ Retired' = Retired
           /\ \A q \in Requests : \A b : q # r /\ HasSlot(q, b) => HasSlot(q, b)'
<1> USE DEF AssetInvariant
<1> DEFINE s == Index(r)
<1>1. /\ s \in Slots /\ slots[s].occupied /\ slots[s].state = a /\ handle[r] # NoHandle
      /\ handle[r] = [index |-> s, generation |-> slots[s].generation]
  BY HasSlotIs
<1>2. /\ slots'[s] = new /\ \A q \in Slots : q # s => slots'[q] = slots[q]
      /\ \A q : Index(q)' = Index(q)
  BY <1>1, SlotBecomes DEF Index
<1>3. \A q \in Slots : /\ slots'[q].occupied = slots[q].occupied
                       /\ slots'[q].retired = slots[q].retired
                       /\ slots'[q].generation = slots[q].generation
  <2> SUFFICES ASSUME NEW q \in Slots
               PROVE  /\ slots'[q].occupied = slots[q].occupied
                      /\ slots'[q].retired = slots[q].retired
                      /\ slots'[q].generation = slots[q].generation
    OBVIOUS
  <2>1. CASE q # s
    BY <1>2, <2>1
  <2>2. CASE q = s
    <3>1. new.occupied = slots[s].occupied
      <4>1. slots[s].occupied \in BOOLEAN /\ new.occupied \in BOOLEAN
        BY <1>1, SlotIs, Zenon DEF SlotRecords
      <4> QED
        BY <1>1, <4>1
    <3> QED
      BY <1>2, <2>2, <3>1
  <2> QED
    BY <2>1, <2>2
<1> HIDE DEF s
<1>4. FreeListOK'
  BY <1>3 DEF FreeListOK
<1>5. HandlesOK'
  <2>1. \A q \in Requests : handle[q] # NoHandle => Index(q) \in Slots
    BY HandleIs
  <2> QED
    BY <1>2, <1>3, <2>1 DEF HandlesOK, HandlesAreUnique
<1>6. ContentsOK'
  BY <1>1, <1>2 DEF ContentsOK, s
<1>7. HasSlot(r, new.state)'
  BY <1>1, <1>2 DEF HasSlot, s
<1>8. Retired' = Retired
  BY <1>3 DEF Retired
<1>9. \A q \in Requests : \A b : q # r /\ HasSlot(q, b) => HasSlot(q, b)'
  <2> SUFFICES ASSUME NEW q \in Requests, NEW b, q # r, HasSlot(q, b) PROVE HasSlot(q, b)'
    OBVIOUS
  <2>1. Index(q) # s
    BY Tenant DEF s
  <2> QED
    BY <1>1, <2>1, KeepsSlot DEF s
<1>10. ViewsOK'
  <2> SUFFICES ASSUME NEW v \in views PROVE v.content = v.request /\ HasSlot(v.request, "Ready")'
    BY DEF ViewsOK
  <2>1. v.request \in Requests /\ HasSlot(v.request, "Ready") /\ v.content = v.request
    BY DEF ViewsOK, TypeOK
  <2>2. v.request # r
    BY <2>1 DEF HasSlot, InFlight
  <2> QED
    BY <1>9, <2>1, <2>2
<1> QED
  BY <1>4, <1>5, <1>6, <1>7, <1>8, <1>9, <1>10

\* What a job's step does to the jobs: only its own goes on.
LEMMA JobMoves ==
    ASSUME AssetInvariant, NEW r \in Requests, r \in running, NEW p, p # "none",
           UNCHANGED <<pool, game, requested>>, phase' = [phase EXCEPT ![r] = p],
           \/ p = "load" /\ HasSlot(r, "Loading")'
           \/ p = "notify",
           phase[r] # "none",
           \A q \in Requests : \A b : q # r /\ HasSlot(q, b) => HasSlot(q, b)'
    PROVE  JobsOK'
<1> USE DEF AssetInvariant
<1>1. phase'[r] = p /\ \A q \in Requests : q # r => phase'[q] = phase[q]
  BY DEF TypeOK
<1>2. r \notin queued
  BY DEF JobsOK
<1>3. queued' \cap running' = {}
  BY DEF JobsOK, pool
<1>4. \A q \in Requests : q # r =>
           /\ phase'[q] = "none" => q \notin queued' \cup running' \cup finished'
           /\ q \in queued' => phase'[q] = "begin"
           /\ q \in running' => phase'[q] \in {"begin", "load", "notify"}
           /\ phase'[q] = "begin" => HasSlot(q, "Queued")'
           /\ phase'[q] = "load" => HasSlot(q, "Loading")'
           /\ q > requested' => phase'[q] = "none"
  BY <1>1 DEF JobsOK, pool
<1>5. /\ phase'[r] = "load" => HasSlot(r, "Loading")'
      /\ phase'[r] # "none" /\ phase'[r] # "begin" /\ r \notin queued'
      /\ phase'[r] \in {"begin", "load", "notify"}
      /\ ~ (r > requested')
  BY <1>1, <1>2 DEF JobsOK, pool
<1>6. game' \in {"submit", "rollback"} =>
          /\ requested' \in Requests /\ phase'[requested'] = "none"
          /\ \A q \in Requests : q = requested' => HasSlot(q, "Queued")'
  BY <1>1 DEF JobsOK
<1>7. game' \in {"submit", "rollback"} => HasSlot(requested, "Queued")'
  BY <1>6 DEF HasSlot, Index
<1> QED
  BY <1>3, <1>4, <1>5, <1>6, <1>7 DEF JobsOK

LEMMA DestructionKept ==
    ASSUME AssetInvariant, NEW r \in Requests, r \in running, phase[r] # "notify",
           UNCHANGED <<game, pool>>
    PROVE  DestructionIsClean'
BY DEF AssetInvariant, DestructionIsClean

LEMMA BeginLoadStep == ASSUME AssetInvariant, NEW r \in Requests, BeginLoad(r) PROVE AssetInvariant'
<1> USE DEF AssetInvariant
<1> DEFINE s == Index(r)
           new == [generation |-> slots[s].generation, occupied |-> slots[s].occupied,
                   retired |-> slots[s].retired, state |-> "Loading",
                   storage |-> slots[s].storage, bytes |-> slots[s].bytes]
<1>1. /\ phase[r] = "begin" /\ r \in running /\ HasSlot(r, "Queued")
      /\ UNCHANGED <<free_slots, accepting, accounts, identity, pool, handle, views, requested, game>>
      /\ phase' = [phase EXCEPT ![r] = "load"]
  BY DEF BeginLoad, JobsOK
<1>2. /\ s \in Slots /\ slots[s].occupied /\ slots[s].state = "Queued"
      /\ slots[s].storage = Nothing /\ slots[s].bytes = 0
      /\ slots[s].generation = handle[r].generation
  BY <1>1, HasSlotIs DEF ContentsOK, HasSlot
<1>3. terminated' = FALSE
  BY <1>2 DEF BeginLoad, Owned
<1>4. new \in SlotRecords
  BY <1>2, SlotIs DEF SlotRecords
<1>5. slots' = [slots EXCEPT ![s] = new]
  <2>1. slots' = [slots EXCEPT ![s].state = "Loading"]
    BY DEF BeginLoad
  <2>2. slots[s] = [generation |-> slots[s].generation, occupied |-> slots[s].occupied,
                    retired |-> slots[s].retired, state |-> slots[s].state,
                    storage |-> slots[s].storage, bytes |-> slots[s].bytes]
    BY <1>2, SlotIs
  <2>3. [slots[s] EXCEPT !.state = "Loading"] = new
    BY <2>2
  <2> QED
    BY <2>1, <2>3
<1>6. /\ new.generation = slots[s].generation /\ new.occupied /\ new.retired = slots[s].retired
      /\ new.state = "Loading" /\ new.storage = Nothing /\ new.bytes = 0
  BY <1>2
<1> HIDE DEF new
<1>7. /\ FreeListOK' /\ HandlesOK' /\ ContentsOK' /\ ViewsOK'
      /\ HasSlot(r, "Loading")' /\ Retired' = Retired
      /\ \A q \in Requests : \A b : q # r /\ HasSlot(q, b) => HasSlot(q, b)'
  BY <1>1, <1>4, <1>5, <1>6, TenantChanges DEF InFlight
<1>8. TypeOK'
  <2>1. slots' \in [Slots -> SlotRecords]
    BY <1>2, <1>4, <1>5, SlotBecomes
  <2> QED
    BY <1>1, <1>3, <2>1 DEF TypeOK, accounts, pool
<1>9. CountsOK'
  <2>1. Cardinality(Busy') = Cardinality(Busy)
    <3>1. s \in Busy
      BY <1>2 DEF Busy, InFlight
    <3> QED
      BY <1>2, <1>4, <1>5, <1>6, <3>1, BusyBecomes DEF InFlight
  <2>2. IsFiniteSet(HeldBytes') /\ Cardinality(HeldBytes') = Cardinality(HeldBytes)
    <3>1. IsFiniteSet(HeldBytes) /\ new.bytes \in Nat /\ (~ new.occupied => new.bytes = 0)
      BY <1>6 DEF CountsOK
    <3>2. /\ IsFiniteSet(HeldBytes') /\ Cardinality(HeldBytes) \in Nat
          /\ Cardinality(HeldBytes') = Cardinality(HeldBytes) - slots[s].bytes + new.bytes
      BY <1>2, <1>4, <1>5, <3>1, BytesBecome
    <3> QED
      BY <1>2, <1>6, <3>2
  <2> QED
    BY <1>1, <1>7, <2>1, <2>2 DEF CountsOK, accounts
<1>10. JobsOK'
  BY <1>1, <1>7, JobMoves
<1>11. NeverTerminates' /\ DestructionIsClean'
  BY <1>1, <1>3, DestructionKept DEF NeverTerminates
<1> QED
  BY <1>7, <1>8, <1>9, <1>10, <1>11

\* A publication, whatever becomes of the slot.
LEMMA Publication ==
    ASSUME AssetInvariant, NEW r \in Requests, r \in running, phase[r] = "load",
           NEW new \in SlotRecords, slots' = [slots EXCEPT ![Index(r)] = new],
           new.generation = slots[Index(r)].generation, new.occupied,
           new.retired = slots[Index(r)].retired,
           new.state \in {"Ready", "Failed"}, new.bytes \in Nat,
           IF new.state = "Ready" THEN new.storage = r ELSE new.storage = Nothing /\ new.bytes = 0,
           resident_logical_bytes' = resident_logical_bytes + new.bytes,
           resident_logical_bytes' <= MaxResident,
           in_flight_requests' = in_flight_requests - 1,
           terminated' = FALSE,
           phase' = [phase EXCEPT ![r] = "notify"],
           UNCHANGED <<free_slots, accepting, retired_slots, identity, pool, handle, views,
                       requested, game>>
    PROVE  AssetInvariant'
<1> USE DEF AssetInvariant
<1> DEFINE s == Index(r)
<1>0. HasSlot(r, "Loading")
  BY DEF JobsOK
<1>1. /\ HasSlot(r, "Loading") /\ s \in Slots /\ slots[s].occupied
      /\ slots[s].state = "Loading" /\ slots[s].bytes = 0
  <2>1. s \in Slots /\ slots[s].occupied /\ slots[s].state = "Loading"
    BY <1>0, HasSlotIs
  <2> QED
    BY <1>0, <2>1 DEF ContentsOK
<1>2. in_flight_requests > 0 /\ in_flight_requests \in Nat /\ s \in Busy
  BY <1>1, InFlightIsCounted DEF InFlight
<1>3. /\ FreeListOK' /\ HandlesOK' /\ ContentsOK' /\ ViewsOK' /\ Retired' = Retired
      /\ \A q \in Requests : \A b : q # r /\ HasSlot(q, b) => HasSlot(q, b)'
  BY <1>1, TenantChanges DEF InFlight
<1>4. Cardinality(Busy') = Cardinality(Busy) - 1
  BY <1>1, <1>2, BusyBecomes DEF InFlight
<1>5. /\ IsFiniteSet(HeldBytes') /\ Cardinality(HeldBytes') = Cardinality(HeldBytes) + new.bytes
      /\ Cardinality(HeldBytes) \in Nat
  <2>1. IsFiniteSet(HeldBytes) /\ (~ new.occupied => new.bytes = 0)
    BY DEF CountsOK
  <2>2. /\ IsFiniteSet(HeldBytes') /\ Cardinality(HeldBytes) \in Nat
        /\ Cardinality(HeldBytes') = Cardinality(HeldBytes) - slots[s].bytes + new.bytes
    BY <1>1, <2>1, BytesBecome
  <2> QED
    BY <1>1, <2>2
<1>6. resident_logical_bytes' \in Nat /\ in_flight_requests' \in Nat
  BY <1>2 DEF TypeOK
<1>7. TypeOK'
  <2>1. slots' \in [Slots -> SlotRecords]
    BY <1>1, SlotBecomes
  <2> QED
    BY <1>6, <2>1 DEF TypeOK, pool
<1>8. CountsOK'
  BY <1>3, <1>4, <1>5 DEF CountsOK
<1>9. JobsOK'
  BY <1>3, JobMoves
<1>10. NeverTerminates' /\ DestructionIsClean'
  BY DestructionKept DEF NeverTerminates
<1> QED
  BY <1>3, <1>7, <1>8, <1>9, <1>10

\* What the job finds when it publishes.
LEMMA PublisherFinds ==
    ASSUME AssetInvariant, NEW r \in Requests, phase[r] = "load"
    PROVE  /\ Index(r) \in Slots /\ slots[Index(r)].occupied
           /\ slots[Index(r)].storage = Nothing /\ slots[Index(r)].bytes = 0
           /\ Owned(r) /\ in_flight_requests # 0
<1> USE DEF AssetInvariant
<1>1. HasSlot(r, "Loading")
  BY DEF JobsOK
<1>2. /\ Index(r) \in Slots /\ slots[Index(r)].occupied /\ slots[Index(r)].state = "Loading"
      /\ slots[Index(r)].generation = handle[r].generation
  BY <1>1, HasSlotIs DEF HasSlot
<1>3. slots[Index(r)].storage = Nothing /\ slots[Index(r)].bytes = 0
  BY <1>2 DEF ContentsOK
<1>4. in_flight_requests # 0
  BY <1>1, InFlightIsCounted DEF InFlight
<1> QED
  BY <1>2, <1>3, <1>4 DEF Owned

LEMMA PublishFailureStep ==
    ASSUME AssetInvariant, NEW r \in Requests, PublishFailure(r) PROVE AssetInvariant'
<1> DEFINE s == Index(r)
           new == [slots[s] EXCEPT !.storage = Nothing, !.bytes = 0, !.state = "Failed"]
<1>1. /\ phase[r] = "load" /\ r \in running /\ slots' = [slots EXCEPT ![s] = new]
      /\ UNCHANGED <<free_slots, accepting, retired_slots, identity, pool, handle, views,
                     requested, game>>
      /\ phase' = [phase EXCEPT ![r] = "notify"]
      /\ in_flight_requests' = in_flight_requests - 1
      /\ resident_logical_bytes' = resident_logical_bytes
  BY DEF PublishFailure
<1>2. s \in Slots /\ slots[s].occupied /\ slots[s] \in SlotRecords
  BY <1>1, PublisherFinds DEF AssetInvariant, TypeOK
<1>3. terminated' = FALSE
  BY <1>1, PublisherFinds DEF PublishFailure
<1>4. new \in SlotRecords
  BY <1>2 DEF SlotRecords
<1>5. /\ new.generation = slots[s].generation /\ new.occupied /\ new.retired = slots[s].retired
      /\ new.state = "Failed" /\ new.storage = Nothing /\ new.bytes = 0 /\ new.bytes \in Nat
      /\ new.state \in {"Ready", "Failed"} /\ new.state # "Ready"
  BY <1>2 DEF SlotRecords
<1>6. /\ resident_logical_bytes' = resident_logical_bytes + new.bytes
      /\ resident_logical_bytes' <= MaxResident
  BY <1>1, <1>5 DEF AssetInvariant, TypeOK, CountsOK
<1> HIDE DEF new
<1> QED
  BY <1>1, <1>3, <1>4, <1>5, <1>6, Publication

\* The budget is checked against what is resident when the load is published.
LEMMA PublishLoadedStep ==
    ASSUME AssetInvariant, NEW r \in Requests, NEW b \in Sizes, PublishLoaded(r, b)
    PROVE  AssetInvariant'
<1> DEFINE s == Index(r)
           refused == \/ resident_logical_bytes > MaxResident
                      \/ b > MaxResident - resident_logical_bytes
           failed == [slots[s] EXCEPT !.state = "Failed"]
           ready == [slots[s] EXCEPT !.state = "Ready", !.storage = r, !.bytes = b]
<1>1. /\ phase[r] = "load" /\ r \in running
      /\ slots' = [slots EXCEPT ![s] = IF refused THEN failed ELSE ready]
      /\ UNCHANGED <<free_slots, accepting, retired_slots, identity, pool, handle, views,
                     requested, game>>
      /\ phase' = [phase EXCEPT ![r] = "notify"]
      /\ in_flight_requests' = in_flight_requests - 1
      /\ resident_logical_bytes' = resident_logical_bytes + (IF refused THEN 0 ELSE b)
  BY DEF PublishLoaded
<1>2. /\ s \in Slots /\ slots[s].occupied /\ slots[s] \in SlotRecords
      /\ slots[s].storage = Nothing /\ slots[s].bytes = 0
  BY <1>1, PublisherFinds DEF AssetInvariant, TypeOK
<1>3. terminated' = FALSE
  BY <1>1, PublisherFinds DEF PublishLoaded
<1>4. failed \in SlotRecords /\ ready \in SlotRecords
  BY <1>2 DEF SlotRecords
<1>5. /\ failed.generation = slots[s].generation /\ failed.occupied
      /\ failed.retired = slots[s].retired
      /\ failed.state = "Failed" /\ failed.storage = Nothing /\ failed.bytes = 0
  BY <1>2 DEF SlotRecords
<1>6. /\ ready.generation = slots[s].generation /\ ready.occupied
      /\ ready.retired = slots[s].retired
      /\ ready.state = "Ready" /\ ready.storage = r /\ ready.bytes = b
  BY <1>2 DEF SlotRecords
<1>7. b \in Nat /\ resident_logical_bytes \in Nat /\ MaxResident \in Nat
         /\ resident_logical_bytes <= MaxResident
  BY ConfigAssumption DEF AssetInvariant, TypeOK, CountsOK
<1> HIDE DEF failed, ready
<1>8. CASE refused
  <2> HIDE DEF refused
  <2>0. /\ slots' = [slots EXCEPT ![s] = failed]
        /\ resident_logical_bytes' = resident_logical_bytes + 0
    BY <1>1, <1>8
  <2>1. /\ resident_logical_bytes' = resident_logical_bytes + failed.bytes
        /\ resident_logical_bytes' <= MaxResident
    BY <1>5, <1>7, <2>0
  <2>2. failed.bytes \in Nat /\ failed.state \in {"Ready", "Failed"} /\ failed.state # "Ready"
    BY <1>5
  <2> QED
    BY <1>1, <1>3, <1>4, <1>5, <2>0, <2>1, <2>2, Publication
<1>9. CASE ~ refused
  <2>1. /\ slots' = [slots EXCEPT ![s] = ready]
        /\ resident_logical_bytes' = resident_logical_bytes + ready.bytes
        /\ resident_logical_bytes' <= MaxResident
    BY <1>1, <1>6, <1>7, <1>9
  <2>2. ready.bytes \in Nat /\ ready.state \in {"Ready", "Failed"}
    BY <1>6, <1>7
  <2> QED
    BY <1>1, <1>3, <1>4, <1>6, <2>1, <2>2, Publication
<1> QED
  BY <1>8, <1>9

-------------------------------------------------------------------------------
(***************************************************************************)
(* Reserving and recycling a slot.                                         *)
(***************************************************************************)
LEMMA ReserveStep ==
    ASSUME AssetInvariant, NEW r \in Requests, r = requested + 1, Reserve PROVE AssetInvariant'
<1> USE DEF AssetInvariant
<1> DEFINE n == Len(free_slots)
           s == free_slots[n]
           new == [slots[s] EXCEPT !.occupied = TRUE, !.state = "Queued", !.storage = Nothing,
                                   !.bytes = 0]
           given == [index |-> s, generation |-> slots[s].generation]
<1>1. /\ game = "ready" /\ game' = "submit" /\ requested' = r
      /\ free_slots # <<>> /\ free_slots' = SubSeq(free_slots, 1, n - 1)
      /\ slots' = [slots EXCEPT ![s] = new]
      /\ in_flight_requests' = in_flight_requests + 1
      /\ handle' = [handle EXCEPT ![r] = given]
      /\ UNCHANGED <<accepting, retired_slots, resident_logical_bytes, identity, pool, phase,
                     views, terminated>>
  BY DEF Reserve
<1>2. /\ free_slots \in Seq(Slots) /\ n \in Nat \ {0} /\ s \in Slots /\ slots[s] \in SlotRecords
      /\ requested \in Nat /\ r \in Nat /\ r > requested
  BY <1>1 DEF TypeOK
<1>3. ~ slots[s].occupied /\ ~ slots[s].retired
  BY <1>2 DEF FreeListOK
<1>4. new \in SlotRecords
  BY <1>2 DEF SlotRecords
<1>5. /\ new.generation = slots[s].generation /\ new.occupied /\ new.retired = slots[s].retired
      /\ new.state = "Queued" /\ new.storage = Nothing /\ new.bytes = 0
  BY <1>2 DEF SlotRecords
<1> HIDE DEF new
<1>6. /\ slots' \in [Slots -> SlotRecords] /\ slots'[s] = new
      /\ \A q \in Slots : q # s => slots'[q] = slots[q]
  BY <1>1, <1>2, <1>4, SlotBecomes
<1>7. /\ free_slots' \in Seq(Slots) /\ Len(free_slots') = n - 1
      /\ \A i \in 1..(n - 1) : free_slots'[i] = free_slots[i]
  <2> HIDE DEF n
  <2>1. n = Len(free_slots) /\ n - 1 \in 0..Len(free_slots)
    BY <1>2 DEF n
  <2> QED
    BY <1>1, <1>2, <2>1
<1>8. given.index = s /\ given.generation = slots[s].generation /\ given # NoHandle
         /\ given \in [index : Slots, generation : 1..MaxGeneration]
  <2>1. slots[s].generation \in 1..MaxGeneration /\ s # 0
    BY <1>2, SlotIs, Bounds
  <2> QED
    BY <1>2, <2>1 DEF NoHandle
<1> HIDE DEF given
<1>9. /\ handle'[r] = given /\ \A q \in Requests : q # r => handle'[q] = handle[q]
      /\ handle[r] = NoHandle
      /\ handle' \in [Requests -> [index : Slots, generation : 1..MaxGeneration] \cup {NoHandle}]
  <2>1. handle \in [Requests -> [index : Slots, generation : 1..MaxGeneration] \cup {NoHandle}]
    BY DEF TypeOK
  <2>2. handle[r] = NoHandle
    BY <1>1, <1>2 DEF HandlesOK
  <2> QED
    BY <1>1, <1>8, <2>1, <2>2
<1> HIDE DEF s, n
<1>10. TypeOK'
  <2>1. in_flight_requests' \in Nat
    BY <1>1 DEF TypeOK
  <2>2. requested' \in 0..MaxRequests
    BY <1>1, Bounds DEF Requests
  <2> QED
    BY <1>1, <1>6, <1>7, <1>9, <2>1, <2>2 DEF TypeOK, pool
<1>11. FreeListOK'
  <2>1. \A i, j \in 1..Len(free_slots') : free_slots'[i] = free_slots'[j] => i = j
    <3>1. 1..(n - 1) \subseteq 1..n
      BY <1>2
    <3> QED
      BY <1>7, <3>1 DEF FreeListOK, n
  <2>2. ASSUME NEW q \in Slots
        PROVE  (\E i \in 1..Len(free_slots') : free_slots'[i] = q)
                   <=> ~ slots'[q].occupied /\ ~ slots'[q].retired
    <3>1. CASE q = s
      <4>1. \A i \in 1..(n - 1) : free_slots[i] # s
        <5>1. \A i \in 1..(n - 1) : i \in 1..n /\ n \in 1..n /\ i # n
          BY <1>2
        <5> QED
          BY <5>1 DEF FreeListOK, n, s
      <4> QED
        BY <1>5, <1>6, <1>7, <3>1, <4>1
    <3>2. CASE q # s
      <4>1. (\E i \in 1..(n - 1) : free_slots[i] = q) <=> (\E i \in 1..n : free_slots[i] = q)
        <5>1. \A i \in 1..n : i = n \/ i \in 1..(n - 1)
          BY <1>2
        <5>2. 1..(n - 1) \subseteq 1..n
          BY <1>2
        <5> QED
          BY <3>2, <5>1, <5>2 DEF s, n
      <4>2. (\E i \in 1..n : free_slots[i] = q) <=> ~ slots[q].occupied /\ ~ slots[q].retired
        BY DEF FreeListOK, n
      <4>3. (\E i \in 1..Len(free_slots') : free_slots'[i] = q)
               <=> (\E i \in 1..(n - 1) : free_slots[i] = q)
        BY <1>7
      <4> QED
        BY <1>6, <3>2, <4>1, <4>2, <4>3
    <3> QED
      BY <3>1, <3>2
  <2>3. \A q \in Slots : ~ (slots'[q].occupied /\ slots'[q].retired)
    BY <1>3, <1>5, <1>6 DEF FreeListOK
  <2> QED
    BY <2>1, <2>2, <2>3 DEF FreeListOK
<1>12. CountsOK'
  <2>1. Cardinality(Busy') = Cardinality(Busy) + 1
    <3>1. s \notin Busy
      BY <1>3 DEF Busy
    <3> QED
      BY <1>1, <1>2, <1>4, <1>5, <3>1, BusyBecomes DEF InFlight
  <2>2. Retired' = Retired
    BY <1>1, <1>2, <1>4, <1>5, RetiredBecomes
  <2>3. /\ IsFiniteSet(HeldBytes') /\ Cardinality(HeldBytes') = Cardinality(HeldBytes)
    <3>0. slots[s].bytes = 0
      BY <1>2, <1>3 DEF ContentsOK
    <3>1. slots[s].bytes = 0 /\ IsFiniteSet(HeldBytes) /\ new.bytes \in Nat
      BY <1>5, <3>0 DEF CountsOK
    <3>2. /\ IsFiniteSet(HeldBytes') /\ Cardinality(HeldBytes) \in Nat
          /\ Cardinality(HeldBytes') = Cardinality(HeldBytes) - slots[s].bytes + new.bytes
      BY <1>1, <1>2, <1>4, <1>5, <3>1, BytesBecome
    <3> QED
      BY <1>5, <3>1, <3>2
  <2> QED
    BY <1>1, <2>1, <2>2, <2>3 DEF CountsOK
<1>13. \A q \in Requests : \A a : q # r /\ HasSlot(q, a) => HasSlot(q, a)'
  <2> SUFFICES ASSUME NEW q \in Requests, NEW a, q # r, HasSlot(q, a) PROVE HasSlot(q, a)'
    OBVIOUS
  <2>1. Index(q) # s
    BY <1>3, HasSlotIs
  <2> QED
    BY <1>1, <1>2, <1>4, <1>9, <2>1, KeepsSlot
<1>14. HandlesOK'
  <2>1. /\ Index(r)' = s /\ \A q \in Requests : q # r => Index(q)' = Index(q)
    BY <1>1, <1>8, <1>9 DEF Index
  <2>2. \A q \in Requests : handle[q] # NoHandle => Index(q) \in Slots
    BY HandleIs
  <2>3. \A q \in Slots : /\ slots'[q].generation = slots[q].generation
                         /\ slots'[q].retired = slots[q].retired
                         /\ slots[q].occupied => slots'[q].occupied
    BY <1>5, <1>6
  <2>4. \A q \in Requests : handle'[q] # NoHandle =>
          /\ handle'[q].generation <= slots'[Index(q)'].generation
          /\ handle'[q].generation = slots'[Index(q)'].generation
                => slots'[Index(q)'].occupied \/ slots'[Index(q)'].retired
    <3> SUFFICES ASSUME NEW q \in Requests, handle'[q] # NoHandle
                 PROVE  /\ handle'[q].generation <= slots'[Index(q)'].generation
                        /\ handle'[q].generation = slots'[Index(q)'].generation
                              => slots'[Index(q)'].occupied \/ slots'[Index(q)'].retired
      OBVIOUS
    <3>1. CASE q = r
      <4>1. handle'[q].generation = slots[s].generation /\ slots[s].generation \in Nat
        BY <1>2, <1>8, <1>9, <3>1, SlotIs
      <4> QED
        BY <1>5, <1>6, <2>1, <3>1, <4>1
    <3>2. CASE q # r
      BY <1>9, <2>1, <2>2, <2>3, <3>2 DEF HandlesOK
    <3> QED
      BY <3>1, <3>2
  <2>5. \A q \in Requests : q > requested' => handle'[q] = NoHandle
    <3>1. \A q \in Requests : q > r => q > requested /\ q # r
      BY <1>2, Bounds
    <3> QED
      BY <1>1, <1>9, <3>1 DEF HandlesOK
  <2>6. ASSUME NEW q \in Requests, q # r, handle[q] # NoHandle PROVE handle[q] # given
    <3>1. handle[q] = given => Index(q) = s /\ handle[q].generation = slots[s].generation
      BY <1>8 DEF Index
    <3> QED
      BY <1>3, <2>6, <3>1 DEF HandlesOK
  <2>7. HandlesAreUnique'
    BY <1>9, <2>6 DEF HandlesOK, HandlesAreUnique
  <2> QED
    BY <2>4, <2>5, <2>7 DEF HandlesOK
<1>15. HasSlot(r, "Queued")'
  BY <1>5, <1>6, <1>8, <1>9 DEF HasSlot, Index
<1>16. phase[r] = "none"
  BY <1>1, <1>2 DEF JobsOK
<1>17. JobsOK'
  <2>1. \A q \in Requests : phase[q] # "none" => q # r
    BY <1>16
  <2>2. \A q \in Requests : q > r => q > requested
    BY <1>2, Bounds
  <2>3. \A q \in Requests :
          /\ phase'[q] = "none" => q \notin queued' \cup running' \cup finished'
          /\ q \in queued' => phase'[q] = "begin"
          /\ q \in running' => phase'[q] \in {"begin", "load", "notify"}
          /\ phase'[q] = "begin" => HasSlot(q, "Queued")'
          /\ phase'[q] = "load" => HasSlot(q, "Loading")'
          /\ q > requested' => phase'[q] = "none"
    BY <1>1, <1>13, <2>1, <2>2 DEF JobsOK, pool
  <2>4. HasSlot(requested, "Queued")'
    BY <1>1, <1>15 DEF HasSlot, Index
  <2> QED
    BY <1>1, <1>16, <2>3, <2>4 DEF JobsOK, pool
<1>18. ContentsOK'
  <2> SUFFICES ASSUME NEW q \in Slots
               PROVE  IF slots'[q].occupied /\ slots'[q].state = "Ready"
                      THEN /\ slots'[q].storage \in Requests
                           /\ handle'[slots'[q].storage]
                                 = [index |-> q, generation |-> slots'[q].generation]
                      ELSE slots'[q].storage = Nothing /\ slots'[q].bytes = 0
    BY DEF ContentsOK
  <2>1. CASE q = s
    BY <1>5, <1>6, <2>1
  <2>2. CASE q # s
    <3>1. slots[q].occupied /\ slots[q].state = "Ready" => slots[q].storage # r
      <4>1. [index |-> q, generation |-> slots[q].generation] # NoHandle
        BY Bounds DEF NoHandle
      <4> QED
        BY <1>9, <4>1 DEF ContentsOK
    <3> QED
      BY <1>6, <1>9, <2>2, <3>1 DEF ContentsOK
  <2> QED
    BY <2>1, <2>2
<1>19. ViewsOK'
  <2>1. \A v \in views : v.request \in Requests /\ v.request # r
    BY <1>9 DEF ViewsOK, TypeOK, HasSlot
  <2> QED
    BY <1>1, <1>13, <2>1 DEF ViewsOK
<1>20. NeverTerminates' /\ DestructionIsClean'
  BY <1>1 DEF NeverTerminates, DestructionIsClean
<1> QED
  BY <1>10, <1>11, <1>12, <1>14, <1>17, <1>18, <1>19, <1>20

\* What RecycleLocked does to the slot of request r: the guard on the byte count never stops it.
LEMMA Recycled ==
    ASSUME AssetInvariant, NEW r \in Requests, NEW a, HasSlot(r, a), RecycleLocked(Index(r))
    PROVE  \E new \in SlotRecords :
              LET s == Index(r)
                  last == slots[s].generation = MaxGeneration
              IN  /\ slots' = [slots EXCEPT ![s] = new]
                  /\ ~ new.occupied /\ new.state = a /\ new.storage = Nothing /\ new.bytes = 0
                  /\ resident_logical_bytes' = resident_logical_bytes - slots[s].bytes
                  /\ last => /\ new.retired /\ new.generation = slots[s].generation
                             /\ retired_slots' = retired_slots + 1 /\ free_slots' = free_slots
                  /\ ~ last => /\ ~ new.retired /\ new.generation = slots[s].generation + 1
                               /\ retired_slots' = retired_slots
                               /\ free_slots' = Append(free_slots, s)
<1> USE DEF AssetInvariant
<1> DEFINE s == Index(r)
           last == slots[s].generation = MaxGeneration
           new == [slots[s] EXCEPT !.storage = Nothing, !.bytes = 0, !.occupied = FALSE,
                                   !.retired = last, !.generation = IF last THEN @ ELSE @ + 1]
<1>1. /\ s \in Slots /\ slots[s].occupied /\ slots[s].state = a /\ slots[s] \in SlotRecords
      /\ slots[s].generation \in 1..MaxGeneration /\ MaxGeneration \in Nat
  BY HasSlotIs, SlotIs, Bounds DEF TypeOK
<1>2. slots[s].bytes <= resident_logical_bytes /\ slots[s].bytes \in Nat
         /\ resident_logical_bytes \in Nat
  <2>1. slots[s].bytes \in Nat /\ IsFiniteSet(HeldBytes)
    BY <1>1, SlotIs DEF CountsOK
  <2>2. BytesIn(s, slots[s].bytes) \subseteq HeldBytes
    BY <1>1 DEF HeldBytes, Occupied, BytesIn
  <2>3. Cardinality(BytesIn(s, slots[s].bytes)) <= Cardinality(HeldBytes)
    BY <2>1, <2>2, FS_Subset
  <2> QED
    BY <2>1, <2>3, BytesAreCounted DEF CountsOK, TypeOK
<1>3. ~ (slots[s].storage # Nothing /\ slots[s].bytes > resident_logical_bytes)
  BY <1>2
<1>4. slots[s].storage = Nothing => slots[s].bytes = 0
  BY <1>1, Bounds DEF ContentsOK
<1>5. /\ slots' = [slots EXCEPT ![s] = new]
      /\ resident_logical_bytes' =
            resident_logical_bytes - (IF slots[s].storage # Nothing THEN slots[s].bytes ELSE 0)
      /\ retired_slots' = IF last THEN retired_slots + 1 ELSE retired_slots
      /\ free_slots' = IF last THEN free_slots ELSE Append(free_slots, s)
  <2>1. slots' = [slots EXCEPT ![s] = new]
    BY <1>3, Zenon DEF RecycleLocked
  <2>2. resident_logical_bytes' =
            resident_logical_bytes - (IF slots[s].storage # Nothing THEN slots[s].bytes ELSE 0)
    BY <1>3, Zenon DEF RecycleLocked
  <2>3. /\ retired_slots' = IF last THEN retired_slots + 1 ELSE retired_slots
        /\ free_slots' = IF last THEN free_slots ELSE Append(free_slots, s)
    BY <1>3, Zenon DEF RecycleLocked
  <2> QED
    BY <2>1, <2>2, <2>3
<1>6. resident_logical_bytes' = resident_logical_bytes - slots[s].bytes
  BY <1>2, <1>4, <1>5
<1>7. (IF last THEN slots[s].generation ELSE slots[s].generation + 1) \in 1..MaxGeneration
  BY <1>1
<1>8. new \in SlotRecords
  <2> HIDE DEF last
  <2>1. last \in BOOLEAN
    BY DEF last
  <2> QED
    BY <1>1, <1>7, <2>1 DEF SlotRecords
<1>9. ~ new.occupied /\ new.state = a /\ new.storage = Nothing /\ new.bytes = 0
  BY <1>1 DEF SlotRecords
<1>10. last => new.retired /\ new.generation = slots[s].generation
  BY <1>1 DEF SlotRecords
<1>11. ~ last => ~ new.retired /\ new.generation = slots[s].generation + 1
  BY <1>1 DEF SlotRecords
<1> HIDE DEF new
<1> QED
  BY <1>5, <1>6, <1>8, <1>9, <1>10, <1>11

\* The free list and the handles after it, also when the handle is forgotten.
LEMMA RecycledKeeps ==
    ASSUME AssetInvariant, NEW r \in Requests, NEW a, HasSlot(r, a), RecycleLocked(Index(r)),
           handle' \in [Requests -> [index : Slots, generation : 1..MaxGeneration] \cup {NoHandle}],
           handle'[r] \in {handle[r], NoHandle},
           \A q \in Requests : q # r => handle'[q] = handle[q],
           requested' = requested
    PROVE  /\ slots' \in [Slots -> SlotRecords] /\ free_slots' \in Seq(Slots)
           /\ retired_slots' \in Nat /\ resident_logical_bytes' \in Nat
           /\ FreeListOK' /\ HandlesOK' /\ ContentsOK'
           /\ retired_slots' = Cardinality(Retired')
           /\ IsFiniteSet(HeldBytes') /\ resident_logical_bytes' = Cardinality(HeldBytes')
           /\ resident_logical_bytes' <= MaxResident
           /\ Cardinality(Busy') = IF a \in InFlight THEN Cardinality(Busy) - 1 ELSE Cardinality(Busy)
           /\ \A q \in Requests : \A b : q # r /\ HasSlot(q, b) => HasSlot(q, b)'
<1> USE DEF AssetInvariant
<1> DEFINE s == Index(r)
           last == slots[s].generation = MaxGeneration
<1>1. /\ s \in Slots /\ slots[s].occupied /\ ~ slots[s].retired /\ slots[s].state = a
      /\ slots[s].generation \in Nat /\ handle[r] # NoHandle
      /\ handle[r] = [index |-> s, generation |-> slots[s].generation]
      /\ slots[s].bytes \in Nat
  <2>1. s \in Slots
    BY HasSlotIs
  <2>2. slots[s].generation \in 1..MaxGeneration /\ slots[s].bytes \in Nat
    BY <2>1, SlotIs
  <2>3. slots[s].generation \in Nat
    BY <2>2
  <2> QED
    BY <2>1, <2>2, <2>3, HasSlotIs DEF FreeListOK
<1>2. PICK new \in SlotRecords :
              /\ slots' = [slots EXCEPT ![s] = new]
              /\ ~ new.occupied /\ new.state = a /\ new.storage = Nothing /\ new.bytes = 0
              /\ resident_logical_bytes' = resident_logical_bytes - slots[s].bytes
              /\ last => /\ new.retired /\ new.generation = slots[s].generation
                         /\ retired_slots' = retired_slots + 1 /\ free_slots' = free_slots
              /\ ~ last => /\ ~ new.retired /\ new.generation = slots[s].generation + 1
                           /\ retired_slots' = retired_slots
                           /\ free_slots' = Append(free_slots, s)
  BY Recycled
<1> HIDE DEF s, last
<1>3. /\ slots' \in [Slots -> SlotRecords] /\ slots'[s] = new
      /\ \A q \in Slots : q # s => slots'[q] = slots[q]
  BY <1>1, <1>2, SlotBecomes
<1>4. free_slots' \in Seq(Slots)
  <2>1. free_slots \in Seq(Slots)
    BY DEF TypeOK
  <2> QED
    BY <1>1, <1>2, <2>1
<1>5. FreeListOK'
  <2>1. \A q \in Slots : ~ (slots'[q].occupied /\ slots'[q].retired)
    BY <1>2, <1>3 DEF FreeListOK
  <2>2. \A i \in 1..Len(free_slots) : free_slots[i] # s
    BY <1>1 DEF FreeListOK
  <2>3. CASE last
    <3>1. free_slots' = free_slots /\ new.retired
      BY <1>2, <2>3
    <3>2. \A q \in Slots : (\E i \in 1..Len(free_slots') : free_slots'[i] = q)
                               <=> ~ slots'[q].occupied /\ ~ slots'[q].retired
      BY <1>3, <2>2, <3>1 DEF FreeListOK
    <3> QED
      BY <2>1, <3>1, <3>2 DEF FreeListOK
  <2>4. CASE ~ last
    <3>1. /\ Len(free_slots') = Len(free_slots) + 1 /\ free_slots'[Len(free_slots) + 1] = s
          /\ \A i \in 1..Len(free_slots) : free_slots'[i] = free_slots[i]
          /\ Len(free_slots) \in Nat
      <4>1. free_slots' = Append(free_slots, s) /\ free_slots \in Seq(Slots)
        BY <1>2, <2>4 DEF TypeOK
      <4> QED
        BY <1>1, <4>1
    <3>2. ~ new.occupied /\ ~ new.retired
      BY <1>2, <2>4
    <3>3. \A i \in 1..Len(free_slots') : i \in 1..Len(free_slots) \/ i = Len(free_slots) + 1
      BY <3>1
    <3>4. \A i, j \in 1..Len(free_slots') : free_slots'[i] = free_slots'[j] => i = j
      BY <2>2, <3>1, <3>3 DEF FreeListOK
    <3>5. ASSUME NEW q \in Slots
          PROVE  (\E i \in 1..Len(free_slots') : free_slots'[i] = q)
                     <=> ~ slots'[q].occupied /\ ~ slots'[q].retired
      <4>1. CASE q = s
        <5>1. Len(free_slots) + 1 \in 1..Len(free_slots')
          BY <3>1
        <5> QED
          BY <1>3, <3>1, <3>2, <4>1, <5>1
      <4>2. CASE q # s
        <5>1. (\E i \in 1..Len(free_slots') : free_slots'[i] = q)
                 <=> (\E i \in 1..Len(free_slots) : free_slots[i] = q)
          <6>1. \A i \in 1..Len(free_slots) : i \in 1..Len(free_slots')
            BY <3>1
          <6> QED
            BY <3>1, <3>3, <4>2, <6>1
        <5> QED
          BY <1>3, <4>2, <5>1 DEF FreeListOK
      <4> QED
        BY <4>1, <4>2
    <3> QED
      BY <2>1, <3>4, <3>5 DEF FreeListOK
  <2> QED
    BY <2>3, <2>4
<1>6. retired_slots' = Cardinality(Retired') /\ retired_slots' \in Nat
  <2>1. retired_slots = Cardinality(Retired) /\ Cardinality(Retired) \in Nat
    BY <1>1, <1>2, RetiredBecomes DEF CountsOK
  <2>2. CASE last
    <3>1. new.retired /\ retired_slots' = retired_slots + 1
      BY <1>2, <2>2
    <3>2. Cardinality(Retired') = Cardinality(Retired) + 1
      BY <1>1, <1>2, <3>1, RetiredBecomes
    <3> QED
      BY <2>1, <3>1, <3>2
  <2>3. CASE ~ last
    <3>1. ~ new.retired /\ retired_slots' = retired_slots
      BY <1>2, <2>3
    <3>2. Retired' = Retired
      BY <1>1, <1>3, <3>1 DEF Retired
    <3> QED
      BY <2>1, <3>1, <3>2
  <2> QED
    BY <2>2, <2>3
<1>7. /\ IsFiniteSet(HeldBytes') /\ resident_logical_bytes' = Cardinality(HeldBytes')
      /\ resident_logical_bytes' <= MaxResident /\ resident_logical_bytes' \in Nat
  <2>1. IsFiniteSet(HeldBytes) /\ new.bytes \in Nat /\ (~ new.occupied => new.bytes = 0)
    BY <1>2 DEF CountsOK
  <2>2. /\ IsFiniteSet(HeldBytes') /\ Cardinality(HeldBytes) \in Nat
        /\ Cardinality(HeldBytes') = Cardinality(HeldBytes) - slots[s].bytes + new.bytes
        /\ slots[s].bytes <= Cardinality(HeldBytes)
    BY <1>1, <1>2, <2>1, BytesBecome
  <2>3. resident_logical_bytes = Cardinality(HeldBytes) /\ resident_logical_bytes <= MaxResident
           /\ MaxResident \in Nat
    BY Bounds DEF CountsOK
  <2>4. new.bytes = 0 /\ resident_logical_bytes' = resident_logical_bytes - slots[s].bytes
    BY <1>2
  <2> QED
    BY <1>1, <2>2, <2>3, <2>4
<1>8. Cardinality(Busy') = IF a \in InFlight THEN Cardinality(Busy) - 1 ELSE Cardinality(Busy)
  <2>1. s \in Busy <=> a \in InFlight
    BY <1>1 DEF Busy
  <2> QED
    BY <1>1, <1>2, <2>1, BusyBecomes
<1>9. \A q \in Requests : q # r => Index(q)' = Index(q)
  BY DEF Index
<1>10. HandlesOK'
  <2>1. \A q \in Requests : handle'[q] # NoHandle =>
           /\ handle[q] # NoHandle /\ handle'[q] = handle[q] /\ Index(q)' = Index(q)
           /\ Index(q) \in Slots /\ handle[q].generation \in Nat
    <3> SUFFICES ASSUME NEW q \in Requests, handle'[q] # NoHandle
                 PROVE  /\ handle[q] # NoHandle /\ handle'[q] = handle[q] /\ Index(q)' = Index(q)
                        /\ Index(q) \in Slots /\ handle[q].generation \in Nat
      OBVIOUS
    <3>1. handle'[q] = handle[q]
      BY <1>1
    <3>2. Index(q) \in Slots /\ handle[q].generation \in 1..MaxGeneration
      BY <3>1, HandleIs
    <3> QED
      BY <3>1, <3>2 DEF Index
  <2>2. \A q \in Requests : handle'[q] # NoHandle =>
          /\ handle'[q].generation <= slots'[Index(q)'].generation
          /\ handle'[q].generation = slots'[Index(q)'].generation
                => slots'[Index(q)'].occupied \/ slots'[Index(q)'].retired
    <3> SUFFICES ASSUME NEW q \in Requests, handle'[q] # NoHandle
                 PROVE  /\ handle'[q].generation <= slots'[Index(q)'].generation
                        /\ handle'[q].generation = slots'[Index(q)'].generation
                              => slots'[Index(q)'].occupied \/ slots'[Index(q)'].retired
      OBVIOUS
    <3>1. CASE Index(q) # s
      BY <1>3, <2>1, <3>1 DEF HandlesOK
    <3>2. CASE Index(q) = s
      <4>1. handle[q].generation <= slots[s].generation
        BY <2>1, <3>2 DEF HandlesOK
      <4>2. CASE last
        BY <1>2, <1>3, <2>1, <3>2, <4>1, <4>2
      <4>3. CASE ~ last
        <5>1. new.generation = slots[s].generation + 1
          BY <1>2, <4>3
        <5>2. handle[q].generation < new.generation /\ handle[q].generation # new.generation
                 /\ handle[q].generation <= new.generation
          BY <1>1, <2>1, <4>1, <5>1
        <5> QED
          BY <1>3, <2>1, <3>2, <5>2
      <4> QED
        BY <4>2, <4>3
    <3> QED
      BY <3>1, <3>2
  <2>3. \A q \in Requests : q > requested' => handle'[q] = NoHandle
    BY <2>1 DEF HandlesOK
  <2>4. HandlesAreUnique'
    BY <2>1 DEF HandlesOK, HandlesAreUnique
  <2> QED
    BY <2>2, <2>3, <2>4 DEF HandlesOK
<1>11. ContentsOK'
  <2> SUFFICES ASSUME NEW q \in Slots
               PROVE  IF slots'[q].occupied /\ slots'[q].state = "Ready"
                      THEN /\ slots'[q].storage \in Requests
                           /\ handle'[slots'[q].storage]
                                 = [index |-> q, generation |-> slots'[q].generation]
                      ELSE slots'[q].storage = Nothing /\ slots'[q].bytes = 0
    BY DEF ContentsOK
  <2>1. CASE q = s
    BY <1>2, <1>3, <2>1
  <2>2. CASE q # s
    <3>1. slots[q].occupied /\ slots[q].state = "Ready" => slots[q].storage # r
      <4>1. handle[r].index = s
        BY <1>1
      <4>2. slots[q].occupied /\ slots[q].state = "Ready"
               => handle[slots[q].storage] = [index |-> q, generation |-> slots[q].generation]
        BY DEF ContentsOK
      <4> QED
        BY <2>2, <4>1, <4>2
    <3> QED
      BY <1>3, <2>2, <3>1 DEF ContentsOK
  <2> QED
    BY <2>1, <2>2
<1>12. \A q \in Requests : \A b : q # r /\ HasSlot(q, b) => HasSlot(q, b)'
  <2> SUFFICES ASSUME NEW q \in Requests, NEW b, q # r, HasSlot(q, b) PROVE HasSlot(q, b)'
    OBVIOUS
  <2>1. Index(q) # s
    BY Tenant DEF s
  <2> QED
    BY <1>1, <1>2, <2>1, KeepsSlot
<1> QED
  BY <1>3, <1>4, <1>5, <1>6, <1>7, <1>8, <1>10, <1>11, <1>12

LEMMA ReleaseStep == ASSUME AssetInvariant, NEW r \in Requests, Release(r) PROVE AssetInvariant'
<1> USE DEF AssetInvariant
<1> DEFINE a == slots[Index(r)].state
<1>1. /\ game = "ready" /\ HasSlot(r, a) /\ a \notin InFlight /\ RecycleLocked(Index(r))
      /\ views' = {v \in views : v.request # r}
      /\ UNCHANGED <<accepting, in_flight_requests, identity, pool, phase, handle, requested,
                     game, terminated>>
  BY DEF Release, Valid, HasSlot, InFlight
<1> HIDE DEF a
<1>2. handle' \in [Requests -> [index : Slots, generation : 1..MaxGeneration] \cup {NoHandle}]
         /\ handle'[r] \in {handle[r], NoHandle} /\ \A q \in Requests : q # r => handle'[q] = handle[q]
  BY <1>1 DEF TypeOK
<1>3. PICK b : b = a
  OBVIOUS
<1>4. HasSlot(r, b) /\ b \notin InFlight
  BY <1>1, <1>3
<1>5. /\ slots' \in [Slots -> SlotRecords] /\ free_slots' \in Seq(Slots)
      /\ retired_slots' \in Nat /\ resident_logical_bytes' \in Nat
      /\ FreeListOK' /\ HandlesOK' /\ ContentsOK'
      /\ retired_slots' = Cardinality(Retired')
      /\ IsFiniteSet(HeldBytes') /\ resident_logical_bytes' = Cardinality(HeldBytes')
      /\ resident_logical_bytes' <= MaxResident
      /\ Cardinality(Busy') = IF b \in InFlight THEN Cardinality(Busy) - 1 ELSE Cardinality(Busy)
      /\ \A q \in Requests : \A c : q # r /\ HasSlot(q, c) => HasSlot(q, c)'
  BY <1>1, <1>2, <1>4, RecycledKeeps
<1>6. TypeOK'
  BY <1>1, <1>5 DEF TypeOK, pool
<1>7. CountsOK'
  BY <1>1, <1>4, <1>5 DEF CountsOK
<1>8. JobsOK'
  <2>1. ~ HasSlot(r, "Queued") /\ ~ HasSlot(r, "Loading")
    BY <1>4 DEF HasSlot, InFlight
  <2>2. \A q \in Requests :
          /\ phase'[q] = "none" => q \notin queued' \cup running' \cup finished'
          /\ q \in queued' => phase'[q] = "begin"
          /\ q \in running' => phase'[q] \in {"begin", "load", "notify"}
          /\ phase'[q] = "begin" => HasSlot(q, "Queued")'
          /\ phase'[q] = "load" => HasSlot(q, "Loading")'
          /\ q > requested' => phase'[q] = "none"
    BY <1>1, <1>5, <2>1 DEF JobsOK, pool
  <2> QED
    BY <1>1, <2>2 DEF JobsOK, pool
<1>9. ViewsOK'
  <2>1. \A v \in views : v.request \in Requests
    BY DEF TypeOK
  <2> QED
    BY <1>1, <1>5, <2>1 DEF ViewsOK
<1>10. NeverTerminates' /\ DestructionIsClean'
  BY <1>1 DEF NeverTerminates, DestructionIsClean
<1> QED
  BY <1>5, <1>6, <1>7, <1>8, <1>9, <1>10

\* The second critical section finds the reservation as the first left it.
LEMMA RollbackStep ==
    ASSUME AssetInvariant, NEW r \in Requests, r = requested, Rollback PROVE AssetInvariant'
<1> USE DEF AssetInvariant
<1>1. /\ game = "rollback" /\ game' = "ready" /\ RecycleLocked(Index(r))
      /\ handle' = [handle EXCEPT ![r] = NoHandle]
      /\ in_flight_requests' = in_flight_requests - 1
      /\ UNCHANGED <<accepting, identity, pool, phase, views, requested>>
  BY DEF Rollback
<1>2. HasSlot(r, "Queued") /\ phase[r] = "none"
  BY <1>1 DEF JobsOK
<1>3. in_flight_requests \in Nat /\ in_flight_requests > 0
  BY <1>2, InFlightIsCounted DEF InFlight
<1>4. terminated' = FALSE
  <2>1. in_flight_requests # 0
    BY <1>3
  <2>2. terminated' = (in_flight_requests = 0)
    BY DEF Rollback
  <2> QED
    BY <2>1, <2>2, Zenon
<1>5. /\ handle' \in [Requests -> [index : Slots, generation : 1..MaxGeneration] \cup {NoHandle}]
      /\ handle'[r] \in {handle[r], NoHandle}
      /\ \A q \in Requests : q # r => handle'[q] = handle[q]
  BY <1>1 DEF TypeOK
<1>6. /\ slots' \in [Slots -> SlotRecords] /\ free_slots' \in Seq(Slots)
      /\ retired_slots' \in Nat /\ resident_logical_bytes' \in Nat
      /\ FreeListOK' /\ HandlesOK' /\ ContentsOK'
      /\ retired_slots' = Cardinality(Retired')
      /\ IsFiniteSet(HeldBytes') /\ resident_logical_bytes' = Cardinality(HeldBytes')
      /\ resident_logical_bytes' <= MaxResident
      /\ Cardinality(Busy') = Cardinality(Busy) - 1
      /\ \A q \in Requests : \A c : q # r /\ HasSlot(q, c) => HasSlot(q, c)'
  BY <1>1, <1>2, <1>5, RecycledKeeps DEF InFlight
<1>7. TypeOK'
  <2>1. in_flight_requests' \in Nat
    BY <1>1, <1>3
  <2> QED
    BY <1>1, <1>4, <1>5, <1>6, <2>1 DEF TypeOK, pool
<1>8. CountsOK'
  BY <1>1, <1>6 DEF CountsOK
<1>9. JobsOK'
  <2>1. \A q \in Requests :
          /\ phase'[q] = "none" => q \notin queued' \cup running' \cup finished'
          /\ q \in queued' => phase'[q] = "begin"
          /\ q \in running' => phase'[q] \in {"begin", "load", "notify"}
          /\ phase'[q] = "begin" => HasSlot(q, "Queued")'
          /\ phase'[q] = "load" => HasSlot(q, "Loading")'
          /\ q > requested' => phase'[q] = "none"
    BY <1>1, <1>2, <1>6 DEF JobsOK, pool
  <2> QED
    BY <1>1, <2>1 DEF JobsOK, pool
<1>10. ViewsOK'
  <2>1. \A v \in views : v.request \in Requests /\ v.request # r
    BY <1>2 DEF ViewsOK, TypeOK, HasSlot
  <2> QED
    BY <1>1, <1>6, <2>1 DEF ViewsOK
<1>11. NeverTerminates' /\ DestructionIsClean'
  BY <1>1, <1>4 DEF NeverTerminates, DestructionIsClean
<1> QED
  BY <1>6, <1>7, <1>8, <1>9, <1>10, <1>11

-------------------------------------------------------------------------------
(***************************************************************************)
(* The invariant holds initially and every step keeps it.                  *)
(***************************************************************************)
LEMMA AssetInit == Init => AssetInvariant
<1> SUFFICES ASSUME Init PROVE AssetInvariant
  OBVIOUS
<1> USE DEF Init, Pool!PoolInit
<1>1. /\ \A s \in Slots : slots[s] = EmptySlot
      /\ \A r \in Requests : phase[r] = "none" /\ handle[r] = NoHandle
  OBVIOUS
<1>2. /\ ~ EmptySlot.occupied /\ ~ EmptySlot.retired /\ EmptySlot.storage = Nothing
      /\ EmptySlot.bytes = 0 /\ EmptySlot \in SlotRecords
  BY Bounds DEF EmptySlot, SlotRecords
<1>3. /\ free_slots \in Seq(Slots) /\ Len(free_slots) = SlotCapacity
      /\ \A i \in 1..SlotCapacity : free_slots[i] = SlotCapacity + 1 - i
  <2>1. \A i \in 1..SlotCapacity : SlotCapacity + 1 - i \in 1..SlotCapacity
    BY Bounds
  <2>2. free_slots \in [1..SlotCapacity -> Slots]
    BY <2>1 DEF Slots
  <2> QED
    BY <2>2, Bounds
<1>4. TypeOK
  <2>1. slots \in [Slots -> SlotRecords]
    BY <1>2
  <2>2. requested \in 0..MaxRequests
    BY Bounds
  <2> QED
    BY <1>3, <2>1, <2>2 DEF TypeOK
<1>5. FreeListOK
  <2>1. \A i, j \in 1..Len(free_slots) : free_slots[i] = free_slots[j] => i = j
    BY <1>3, Bounds
  <2>2. \A s \in Slots : \E i \in 1..Len(free_slots) : free_slots[i] = s
    <3> SUFFICES ASSUME NEW s \in Slots PROVE \E i \in 1..Len(free_slots) : free_slots[i] = s
      OBVIOUS
    <3>1. SlotCapacity + 1 - s \in 1..SlotCapacity /\ SlotCapacity + 1 - (SlotCapacity + 1 - s) = s
      BY Bounds DEF Slots
    <3> QED
      BY <1>3, <3>1
  <2> QED
    BY <1>1, <1>2, <2>1, <2>2 DEF FreeListOK
<1>6. CountsOK
  <2>1. Busy = {} /\ Retired = {} /\ HeldBytes = {}
    BY <1>1, <1>2 DEF Busy, Retired, HeldBytes, Occupied
  <2> QED
    BY <2>1, FS_EmptySet, Bounds DEF CountsOK
<1>7. HandlesOK /\ JobsOK
  BY <1>1 DEF HandlesOK, HandlesAreUnique, JobsOK
<1>8. ContentsOK /\ ViewsOK
  BY <1>1, <1>2 DEF ContentsOK, ViewsOK
<1>9. NeverTerminates /\ DestructionIsClean
  BY DEF NeverTerminates, DestructionIsClean
<1> QED
  BY <1>4, <1>5, <1>6, <1>7, <1>8, <1>9 DEF AssetInvariant

LEMMA AssetIdle == AssetInvariant /\ UNCHANGED vars => AssetInvariant'
<1> SUFFICES ASSUME AssetInvariant, UNCHANGED vars PROVE AssetInvariant'
  OBVIOUS
<1> USE DEF AssetInvariant, vars
<1>1. UNCHANGED still /\ UNCHANGED <<pool, phase, terminated, views, game, accepting, identity>>
  BY DEF still
<1>2. TypeOK'
  BY DEF TypeOK, accounts, pool
<1>3. JobsOK'
  BY <1>1, SlotsUntouched DEF JobsOK, still, pool
<1>4. NeverTerminates' /\ DestructionIsClean' /\ ViewsOK'
  BY <1>1, ViewsUntouched DEF NeverTerminates, DestructionIsClean, pool
<1> QED
  BY <1>1, <1>2, <1>3, <1>4, SlotsUntouched DEF SlotsOK

LEMMA AssetStep == AssetInvariant /\ [Next]_vars => AssetInvariant'
<1> SUFFICES ASSUME AssetInvariant, [Next]_vars PROVE AssetInvariant'
  OBVIOUS
<1>1. CASE Reserve
  <2>1. requested + 1 \in Requests
    BY <1>1 DEF Reserve
  <2>2. PICK r \in Requests : r = requested + 1
    BY <2>1
  <2> QED
    BY <1>1, <2>2, ReserveStep
<1>2. CASE SubmitAccepted
  BY <1>2, SubmitAcceptedStep
<1>3. CASE \/ SubmitRejected \/ WaitForIdle \/ WaitChecks \/ Destroy \/ DestroySleeps
           \/ SpuriousWakeup
  BY <1>3, GameStepsKeep
<1>4. CASE Rollback
  <2>1. requested \in Requests
    BY <1>4 DEF Rollback, AssetInvariant, JobsOK
  <2>2. PICK r \in Requests : r = requested
    BY <2>1
  <2> QED
    BY <1>4, <2>2, RollbackStep
<1>5. ASSUME NEW r \in Requests, JobStarts(r) PROVE AssetInvariant'
  BY <1>5, JobStartsStep
<1>6. ASSUME NEW r \in Requests, BeginLoad(r) PROVE AssetInvariant'
  BY <1>6, BeginLoadStep
<1>7. ASSUME NEW r \in Requests, PublishFailure(r) PROVE AssetInvariant'
  BY <1>7, PublishFailureStep
<1>8. ASSUME NEW r \in Requests, NEW b \in Sizes, PublishLoaded(r, b) PROVE AssetInvariant'
  BY <1>8, PublishLoadedStep
<1>9. ASSUME NEW r \in Requests, JobReturns(r) PROVE AssetInvariant'
  BY <1>9, JobReturnsStep
<1>10. ASSUME NEW r \in Requests, Get(r) PROVE AssetInvariant'
  BY <1>10, GetStep
<1>11. ASSUME NEW r \in Requests, Release(r) PROVE AssetInvariant'
  BY <1>11, ReleaseStep
<1>12. CASE Destroyed
  BY <1>12, DestroyedStep
<1>13. CASE Gone \/ UNCHANGED vars
  BY <1>13, AssetIdle DEF Gone
<1> QED
  BY <1>1, <1>2, <1>3, <1>4, <1>5, <1>6, <1>7, <1>8, <1>9, <1>10, <1>11, <1>12, <1>13 DEF Next

(***************************************************************************)
(* Whatever the game thread and the jobs interleave, every slot is free    *)
(* once, occupied or retired, a job that has not published owns its slot,  *)
(* and no handle is ahead of its slot (runtime/asset_service.cpp, Request, *)
(* RunLoad, Release and RecycleLocked).                                    *)
(***************************************************************************)
THEOREM AssetInvariantHolds == Spec => []AssetInvariant
<1>1. Init => AssetInvariant
  BY AssetInit
<1>2. AssetInvariant /\ [Next]_vars => AssetInvariant'
  BY AssetStep
<1> QED
  BY <1>1, <1>2, PTL DEF Spec

LEMMA FreeSlotsAreCounted == AssetInvariant => Cardinality(FreeSlots) = Len(free_slots)
<1> SUFFICES ASSUME AssetInvariant PROVE Cardinality(FreeSlots) = Len(free_slots)
  OBVIOUS
<1> DEFINE n == Len(free_slots)
           f == [i \in 1..n |-> free_slots[i]]
<1>1. n \in Nat
  BY DEF AssetInvariant, TypeOK
<1>2. f \in Bijection(1..n, FreeSlots)
  <2>1. f \in [1..n -> FreeSlots]
    BY DEF FreeSlots
  <2>2. \A i, j \in 1..n : f[i] = f[j] => i = j
    BY DEF AssetInvariant, FreeListOK
  <2>3. \A s \in FreeSlots : \E i \in 1..n : f[i] = s
    BY DEF FreeSlots
  <2> QED
    BY <2>1, <2>2, <2>3 DEF Bijection, Injection, Surjection, IsInjective
<1>3. ExistsBijection(1..n, FreeSlots)
  BY <1>2 DEF ExistsBijection
<1> QED
  BY <1>1, <1>3, FS_CountingElements

LEMMA AccountsFollow == AssetInvariant => AccountsAreExact
<1> SUFFICES ASSUME AssetInvariant PROVE AccountsAreExact
  OBVIOUS
<1> USE DEF AssetInvariant
<1>1. {s \in Occupied : slots[s].state \in {"Queued", "Loading"}} = Busy
  BY DEF Occupied, Busy, InFlight
<1>2. FreeSlots = Slots \ (Occupied \cup Retired) /\ Occupied \cap Retired = {}
  <2>1. \A i \in 1..Len(free_slots) : free_slots[i] \in Slots
    BY DEF TypeOK
  <2> QED
    BY <2>1 DEF FreeSlots, Occupied, Retired, FreeListOK
<1>3. SlotsAreAccountedFor
  BY <1>1, <1>2, FreeSlotsAreCounted DEF SlotsAreAccountedFor, CountsOK
<1>4. ResidentBytesAreExact
  BY DEF ResidentBytesAreExact, CountsOK
<1> QED
  BY <1>3, <1>4 DEF AccountsAreExact

(***************************************************************************)
(* The counters of Snapshot are those of the slots and of the bytes they   *)
(* hold, and the budget is never exceeded, for every capacity, budget and  *)
(* generation limit (runtime/asset_service.cpp, PublishLoaded,             *)
(* RecycleLocked).                                                         *)
(***************************************************************************)
THEOREM AccountsHold == Spec => []AccountsAreExact
BY AssetInvariantHolds, AccountsFollow, PTL

LEMMA ReferencesFollow == AssetInvariant => ReferencesStayValid
<1> SUFFICES ASSUME AssetInvariant PROVE ReferencesStayValid
  OBVIOUS
<1> USE DEF AssetInvariant
<1>1. ViewsStayValid
  <2> SUFFICES ASSUME NEW v \in views
               PROVE  v.content = v.request /\ slots[Index(v.request)].storage = v.request
    BY DEF ViewsStayValid
  <2> DEFINE r == v.request
             s == Index(r)
             q == slots[s].storage
  <2>1. r \in Requests /\ HasSlot(r, "Ready") /\ v.content = r
    BY DEF ViewsOK, TypeOK
  <2>2. s \in Slots /\ slots[s].occupied /\ slots[s].state = "Ready" /\ handle[r] # NoHandle
           /\ handle[r] = [index |-> s, generation |-> slots[s].generation]
    BY <2>1, HasSlotIs
  <2>3. q \in Requests /\ handle[q] = handle[r]
    BY <2>2 DEF ContentsOK
  <2>4. q = r
    BY <2>1, <2>2, <2>3 DEF HandlesOK, HandlesAreUnique
  <2> QED
    BY <2>1, <2>4
<1>2. HandlesAreUnique
  BY DEF HandlesOK
<1> QED
  BY <1>1, <1>2 DEF ReferencesStayValid

(***************************************************************************)
(* A reference shows the texture it was asked for until its handle is      *)
(* released, and no handle is given twice, however slots and generations   *)
(* are reused (runtime/asset_service.cpp, Request, Get and Release).       *)
(***************************************************************************)
THEOREM ReferencesHold == Spec => []ReferencesStayValid
BY AssetInvariantHolds, ReferencesFollow, PTL

LEMMA LifetimeFollows == AssetInvariant => LifetimeIsClean
BY DEF AssetInvariant, LifetimeIsClean

(***************************************************************************)
(* No guard of the service calls std::terminate, and after the destructor  *)
(* no job touches the store or a slot (runtime/asset_service.cpp,          *)
(* ~AssetService and the Publish functions).                               *)
(***************************************************************************)
THEOREM LifetimeHolds == Spec => []LifetimeIsClean
BY AssetInvariantHolds, LifetimeFollows, PTL
===============================================================================
