------------------------------- MODULE GpuHost -------------------------------
(***************************************************************************)
(* SdlGpuHost of apps/openomega/sdl_gpu_host.cpp: two pools of handles,    *)
(* the SDL object behind each resident slot, the pipelines and buffers of  *)
(* the mesh pass, and the command buffers the GPU has not finished.        *)
(*                                                                         *)
(* A host is a record; a call is an operator that gives the host after it, *)
(* once for each way SDL can let it go.  Objects that a call creates and   *)
(* that do not outlive it (transfer buffers, shaders, fences, the target   *)
(* of a readback) are left out: their guards release them on every path    *)
(* and SDL keeps them until the GPU is done.  A mesh's two buffers live    *)
(* and die together and are one object.                                    *)
(***************************************************************************)
EXTENDS Integers, Sequences, SequencesExt

CONSTANTS
    MaxGeneration,    \* numeric_limits<uint64_t>::max(), small here
    TextureConfig,    \* RenderTexturePoolConfig: [capacity, limits]
    MeshConfig        \* RenderMeshPoolConfig

ASSUME MaxGenerationAssumption == MaxGeneration \in Nat \ {0}

-----------------------------------------------------------------------------
(* The bookkeeping of runtime/render_texture_pool.cpp and                      *)
(* runtime/render_mesh_pool.cpp: slots that are reserved before an upload,     *)
(* published after it or rolled back, and released.  A handle names a slot and *)
(* its generation, so that it dies with the use it was made for.  Both pools   *)
(* are one record; they differ in what they charge: bytes for a texture;       *)
(* positions, indices and bytes for a mesh.                                    *)

SlotStates == {"Free", "Reserved", "Resident", "Retired"}
NoHandle == [slot |-> 0, generation |-> 0]
Valid(handle) == handle.generation # 0

\* slots: state, generation and charge of each slot; free: the linked list from free_head_;
\* count, charged: the totals the code keeps; limits: its configuration.
\* recycled: history of the handles whose use has ended, for the properties.
NewPool(capacity, limits) ==
    LET nothing == [b \in DOMAIN limits |-> 0]
    IN [slots |-> [i \in 1..capacity |-> [state |-> "Free", generation |-> 1, charge |-> nothing]],
        free |-> [i \in 1..capacity |-> i],
        count |-> [s \in SlotStates |-> IF s = "Free" THEN capacity ELSE 0],
        charged |-> [s \in {"Reserved", "Resident"} |-> nothing],
        limits |-> limits,
        recycled |-> {}]

Plus(a, b) == [k \in DOMAIN a |-> a[k] + b[k]]
Minus(a, b) == [k \in DOMAIN a |-> a[k] - b[k]]
HandleFor(pool, i) == [slot |-> i, generation |-> pool.slots[i].generation]

\* Matches: a slot and the state it must be in.
Matches(pool, handle, state) ==
    /\ Valid(handle) /\ handle.slot \in DOMAIN pool.slots
    /\ pool.slots[handle.slot].generation = handle.generation
    /\ pool.slots[handle.slot].state = state
Resolves(pool, handle) == Matches(pool, handle, "Resident")

CanReserve(pool, charge) ==
    /\ pool.count["Free"] # 0 /\ pool.free # <<>>
    /\ \A b \in DOMAIN charge :
          charge[b] <= pool.limits[b]
                       - (pool.charged["Reserved"][b] + pool.charged["Resident"][b])

\* The reservation's handle is that of the slot at the head of the free list.
Reserve(pool, charge) ==
    LET i == Head(pool.free)
    IN [pool EXCEPT !.slots[i].state = "Reserved", !.slots[i].charge = charge,
                    !.free = Tail(@),
                    !.count["Free"] = @ - 1, !.count["Reserved"] = @ + 1,
                    !.charged["Reserved"] = Plus(@, charge)]
ReservedHandle(pool) == HandleFor(pool, Head(pool.free))

Publish(pool, handle) ==
    LET charge == pool.slots[handle.slot].charge
    IN [pool EXCEPT !.slots[handle.slot].state = "Resident",
                    !.count["Reserved"] = @ - 1, !.count["Resident"] = @ + 1,
                    !.charged["Reserved"] = Minus(@, charge),
                    !.charged["Resident"] = Plus(@, charge)]

\* A plausible error: the last generation is used again.
RecycleForever(pool, i) ==
    LET next == IF pool.slots[i].generation = MaxGeneration THEN MaxGeneration
                ELSE pool.slots[i].generation + 1
    IN [pool EXCEPT !.slots[i].charge = Minus(@, @),
                    !.recycled = @ \cup {HandleFor(pool, i)},
                    !.slots[i].state = "Free", !.slots[i].generation = next,
                    !.free = <<i>> \o @, !.count["Free"] = @ + 1]

\* A slot whose generation cannot grow leaves the free list for good.
Recycle(pool, i) ==
    LET emptied == [pool EXCEPT !.slots[i].charge = Minus(@, @),
                                !.recycled = @ \cup {HandleFor(pool, i)}]
    IN IF pool.slots[i].generation = MaxGeneration
       THEN [emptied EXCEPT !.slots[i].state = "Retired", !.count["Retired"] = @ + 1]
       ELSE [emptied EXCEPT !.slots[i].state = "Free", !.slots[i].generation = @ + 1,
                            !.free = <<i>> \o @, !.count["Free"] = @ + 1]

Leave(pool, handle, state) ==
    Recycle([pool EXCEPT !.count[state] = @ - 1,
                         !.charged[state] = Minus(@, pool.slots[handle.slot].charge)],
            handle.slot)
Rollback(pool, handle) == Leave(pool, handle, "Reserved")
Release(pool, handle) == Leave(pool, handle, "Resident")

-------------------------------------------------------------------------------
InState(pool, state) == {i \in DOMAIN pool.slots : pool.slots[i].state = state}
ResidentHandles(pool) == {HandleFor(pool, i) : i \in InState(pool, "Resident")}

\* What the pool's totals and its free list say is what its slots say, the budgets
\* hold, and no handle whose use has ended can be told from a live one.
PoolIsExact(pool) ==
    /\ \A s \in SlotStates : pool.count[s] = Cardinality(InState(pool, s))
    /\ \A s \in {"Reserved", "Resident"} : \A b \in DOMAIN pool.limits :
          pool.charged[s][b] =
              MapThenSumSet(LAMBDA i : pool.slots[i].charge[b], InState(pool, s))
    /\ \A b \in DOMAIN pool.limits :
          pool.charged["Reserved"][b] + pool.charged["Resident"][b] <= pool.limits[b]
    /\ {pool.free[k] : k \in DOMAIN pool.free} = InState(pool, "Free")
    /\ Len(pool.free) = pool.count["Free"]
    /\ pool.recycled \cap {HandleFor(pool, i) :
                              i \in InState(pool, "Reserved") \cup InState(pool, "Resident")} = {}

-----------------------------------------------------------------------------
(* The host.                                                                   *)

NoObject == 0
Passes == {"Fill", "Wireframe"}     \* RenderMeshRasterMode, a pipeline each

\* live: the SDL objects that exist and what each shows; submitted: the unfinished
\* command buffers, oldest first, each with the objects it uses and the format of its
\* target.
NewHost ==
    [textures |-> NewPool(TextureConfig.capacity, TextureConfig.limits),
     texture_slots |-> [i \in 1..TextureConfig.capacity |-> NoObject],
     meshes |-> NewPool(MeshConfig.capacity, MeshConfig.limits),
     mesh_slots |-> [i \in 1..MeshConfig.capacity |-> NoObject],
     pipelines |-> [p \in Passes |-> NoObject],
     pipeline_format |-> "INVALID",
     color_buffer |-> NoObject, color_transfer |-> NoObject,
     live |-> <<>>, submitted |-> <<>>]

InUse(host) == UNION {host.submitted[k].objects : k \in DOMAIN host.submitted}

\* SDL gives a new object the lowest number that names none.
NewObject(host) ==
    CHOOSE n \in 1..(Cardinality(DOMAIN host.live \cup InUse(host)) + 1) :
        n \notin DOMAIN host.live \cup InUse(host)
Create(host, shows) ==
    [host EXCEPT !.live = [o \in DOMAIN @ \cup {NewObject(host)} |->
                              IF o = NewObject(host) THEN shows ELSE @[o]]]
Destroy(host, objects) ==
    [host EXCEPT !.live = [o \in DOMAIN @ \ objects |-> @[o]]]
Submit(host, objects, target) ==
    [host EXCEPT !.submitted = Append(@, [objects |-> objects, target |-> target])]
Copies == "none"     \* the target of work that only fills textures and buffers

\* The GPU executes command buffers in the order they were submitted.
GpuFinishes(host) == [host EXCEPT !.submitted = Tail(@)]
Idle(host) == [host EXCEPT !.submitted = <<>>]

-------------------------------------------------------------------------------
(* Uploads: reserve, create, submit, publish.  Whatever fails in between   *)
(* rolls the reservation back and releases the new object.                 *)

RejectTexture(host, charge) ==
    [host EXCEPT !.textures = Rollback(Reserve(@, charge), ReservedHandle(@))]

\* UploadRgba8Texture; the handle is ReservedHandle(host.textures).
UploadTexture(host, charge, shows) ==
    LET handle == ReservedHandle(host.textures)
        object == NewObject(host)
    IN [Submit(Create(host, shows), {object}, Copies) EXCEPT
           !.textures = Publish(Reserve(@, charge), handle),
           !.texture_slots[handle.slot] = object]

RejectMesh(host, charge) ==
    [host EXCEPT !.meshes = Rollback(Reserve(@, charge), ReservedHandle(@))]

UploadMesh(host, charge, shows) ==
    LET handle == ReservedHandle(host.meshes)
        object == NewObject(host)
    IN [Submit(Create(host, shows), {object}, Copies) EXCEPT
           !.meshes = Publish(Reserve(@, charge), handle),
           !.mesh_slots[handle.slot] = object]

\* The object of a handle that a draw, an update or a release may use.
TextureOf(host, handle) ==
    IF Resolves(host.textures, handle) THEN host.texture_slots[handle.slot] ELSE NoObject
MeshOf(host, handle) ==
    IF Resolves(host.meshes, handle) THEN host.mesh_slots[handle.slot] ELSE NoObject

\* UpdateRgba8Texture replaces the pixels of a resident texture; SDL cycles the
\* storage, so work already submitted still shows the old ones.
UpdateTexture(host, handle, shows) ==
    LET object == TextureOf(host, handle)
    IN Submit([host EXCEPT !.live[object] = shows], {object}, Copies)

\* ReleaseTexture, once SDL_WaitForGPUIdle has succeeded.
ReleaseTexture(host, handle) ==
    LET idle == Idle(host)
        object == TextureOf(host, handle)
    IN [Destroy(idle, {object}) EXCEPT
           !.textures = Release(@, handle),
           !.texture_slots[handle.slot] = NoObject]

ReleaseMesh(host, handle) ==
    LET idle == Idle(host)
        object == MeshOf(host, handle)
    IN [Destroy(idle, {object}) EXCEPT
           !.meshes = Release(@, handle),
           !.mesh_slots[handle.slot] = NoObject]

\* Releases one after the other; one that fails keeps its texture.
ReleaseTextures(host, handles, failing) ==
    FoldLeft(LAMBDA h, x : IF x \in failing THEN h ELSE ReleaseTexture(h, x), host, handles)
ReleaseMeshes(host, handles, failing) ==
    FoldLeft(LAMBDA h, x : IF x \in failing THEN h ELSE ReleaseMesh(h, x), host, handles)

-------------------------------------------------------------------------------
(* Frames.  A frame is [textures, meshes, passes]: the handles its two     *)
(* draw lists name and the raster modes of the mesh draws.                 *)

CanDraw(host, frame) ==
    /\ \A x \in frame.textures : TextureOf(host, x) # NoObject
    /\ \A x \in frame.meshes : MeshOf(host, x) # NoObject

\* A plausible error: the pipelines of the old format go without waiting for the GPU.
EnsurePipelinesWithoutWaiting(host, format, passes, need_transfer) ==
    LET same == host.pipeline_format = format
        missing == {p \in passes : ~same \/ host.pipelines[p] = NoObject}
        old == {host.pipelines[p] : p \in Passes} \ {NoObject}
        colors == IF host.color_buffer # NoObject THEN host
                  ELSE [Create(host, <<"colors">>) EXCEPT !.color_buffer = NewObject(host)]
        transfer == IF ~need_transfer \/ host.color_transfer # NoObject THEN colors
                    ELSE [Create(colors, <<"transfer">>) EXCEPT
                              !.color_transfer = NewObject(colors)]
        Add(p, h) == [Create(h, <<p, format>>) EXCEPT !.pipelines[p] = NewObject(h)]
        idle == IF same \/ old = {} THEN transfer
                ELSE [transfer EXCEPT !.pipelines = [p \in Passes |-> NoObject]]
        built == FoldSet(Add, idle, missing)
    IN IF missing = {} THEN transfer
       ELSE [IF same THEN built ELSE Destroy(built, old) EXCEPT !.pipeline_format = format]

\* EnsureMeshPipelines when SDL refuses nothing; a refusal leaves the host as it was.
\* Pipelines of another format go once the GPU is idle, whichever the frame needs.
EnsureMeshPipelines(host, format, passes, need_transfer) ==
    LET same == host.pipeline_format = format
        missing == {p \in passes : ~same \/ host.pipelines[p] = NoObject}
        old == {host.pipelines[p] : p \in Passes} \ {NoObject}
        colors == IF host.color_buffer # NoObject THEN host
                  ELSE [Create(host, <<"colors">>) EXCEPT !.color_buffer = NewObject(host)]
        transfer == IF ~need_transfer \/ host.color_transfer # NoObject THEN colors
                    ELSE [Create(colors, <<"transfer">>) EXCEPT
                              !.color_transfer = NewObject(colors)]
        Add(p, h) == [Create(h, <<p, format>>) EXCEPT !.pipelines[p] = NewObject(h)]
        idle == IF same \/ old = {} THEN transfer
                ELSE [Idle(transfer) EXCEPT !.pipelines = [p \in Passes |-> NoObject]]
        built == FoldSet(Add, idle, missing)
    IN IF missing = {} THEN transfer
       ELSE [IF same THEN built ELSE Destroy(built, old) EXCEPT !.pipeline_format = format]

\* The host before the command buffer is acquired: a frame without meshes needs no pipeline.
Prepared(host, frame, format, need_transfer) ==
    IF frame.meshes = {} THEN host
    ELSE EnsureMeshPipelines(host, format, frame.passes, need_transfer)

Colors(host, frame) ==
    IF frame.meshes = {} THEN {} ELSE {host.color_buffer, host.color_transfer} \ {NoObject}
Drawn(host, frame) ==
    Colors(host, frame)
        \cup {TextureOf(host, x) : x \in frame.textures}
        \cup {MeshOf(host, x) : x \in frame.meshes}
        \cup (IF frame.meshes = {} THEN {} ELSE {host.pipelines[p] : p \in frame.passes})

\* RenderFrame: the hosts it may leave, with the frame drawn or no swapchain to draw on...
RenderFrame(host, frame, format) ==
    LET ready == Prepared(host, frame, format, TRUE)
    IN {Submit(ready, {}, format), Submit(ready, Drawn(ready, frame), format)}
\* ... and with an error: before anything is acquired, cancelled, or submitted in part.
RenderFrameFails(host, frame, format) ==
    LET ready == Prepared(host, frame, format, TRUE)
    IN {host, ready, Submit(ready, {}, format), Submit(ready, Colors(ready, frame), format)}

\* CaptureFrameRgba8 draws the frame again in a target of its own and waits for the GPU.
ReadbackFormat == "RGBA8"
CaptureFrameRgba8(host, frame) == Idle(Prepared(host, frame, ReadbackFormat, FALSE))
CaptureFrameFails(host, frame) ==
    LET ready == Prepared(host, frame, ReadbackFormat, FALSE)
    IN {host, ready,
        Submit(ready, Drawn(ready, frame) \ {ready.color_transfer}, ReadbackFormat)}

\* ~Impl waits, whatever comes of it, and releases all that its tables reach.
Reached(host) ==
    {host.texture_slots[i] : i \in DOMAIN host.texture_slots}
        \cup {host.mesh_slots[i] : i \in DOMAIN host.mesh_slots}
        \cup {host.pipelines[p] : p \in Passes}
        \cup {host.color_buffer, host.color_transfer}
DestroyHost(host) == Destroy(Idle(host), Reached(host))

-------------------------------------------------------------------------------
\* Work the GPU has not finished: its objects exist, and a pipeline draws to the
\* format it was made for.
SubmittedWorkIsSound(host) ==
    \A k \in DOMAIN host.submitted : \A object \in host.submitted[k].objects :
        /\ object \in DOMAIN host.live
        /\ host.live[object][1] \in Passes =>
               host.live[object][2] = host.submitted[k].target

\* A slot has an object exactly while it is resident, and every object is reached.
TablesAreExact(host) ==
    /\ \A i \in DOMAIN host.texture_slots :
          (host.texture_slots[i] # NoObject) <=> (i \in InState(host.textures, "Resident"))
    /\ \A i \in DOMAIN host.mesh_slots :
          (host.mesh_slots[i] # NoObject) <=> (i \in InState(host.meshes, "Resident"))
    /\ DOMAIN host.live = Reached(host) \ {NoObject}
    /\ PoolIsExact(host.textures) /\ PoolIsExact(host.meshes)
===============================================================================
