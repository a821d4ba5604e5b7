---------------------------- MODULE Presentations ----------------------------
(***************************************************************************)
(* What apps/openomega/omega_app.cpp shows and from what: the textures and *)
(* meshes it uploads, the draw lists it builds from their handles, when a  *)
(* picture is replaced, swapped with one prepared earlier or released, and *)
(* the frames it renders meanwhile.  The application is one thread; the    *)
(* GPU finishes its work at any time.                                      *)
(*                                                                         *)
(* A picture is the handle of a texture and the list of handles drawn to   *)
(* show it.  What a texture shows is a kind and the numbers that tell its  *)
(* versions apart: how many profiles the model of the menu holds, say.     *)
(* The menu state itself is left out: any menu may be on screen.           *)
(***************************************************************************)
EXTENDS GpuHost

CONSTANTS
    Startups,         \* what the application may find: [catalog, transfer, movie, scene,
                      \* preview]; the catalog says how many characters each profile has
    MaxCharacters,    \* kFrontEndMaximumCharacters
    Buttons,          \* for each screen of the preview, the targets of its buttons in order
    NavInputs,        \* the menu edges of a frame: [previous, next, accept, back]
    MaxFaults,        \* bound: SDL calls that fail
    MaxSubmitted      \* bound: unfinished command buffers when a step begins

VARIABLES host, app
vars == <<host, app>>

SwapchainFormat == "Window"     \* what SDL_GetGPUSwapchainTextureFormat says
TextureCharge == [bytes |-> 1]
MeshCharge == [positions |-> 1, indices |-> 1, bytes |-> 1]

MenuPictures == {"main", "profiles", "nextMain", "nextProfiles", "card", "nextCard",
                 "controls", "topology", "marker"}
PictureNames == MenuPictures \cup {"diagnostic", "transfer", "movie", "retail"}
NoPicture == [texture |-> NoHandle, list |-> {}]
NoPictures == [n \in PictureNames |-> NoPicture]

\* A menu is drawn over the diagnostic picture.
ListOf(name, handle) ==
    IF name \in MenuPictures
    THEN {app.pictures["diagnostic"].texture, handle} ELSE {handle}
Picture(name, handle) == [texture |-> handle, list |-> ListOf(name, handle)]

\* next*: the pictures of the first profile and character, shown once they exist.
Shows(name, count) ==
    CASE name \in {"main", "profiles"} -> <<name, count>>
      [] name = "nextMain" -> <<"main", 1>>
      [] name = "nextProfiles" -> <<"profiles", 1>>
      [] name = "movie" -> <<"movie", 0>>
      [] OTHER -> <<name>>
Card(profile, characters) == <<"characters", profile, characters>>

CanUpload(h) == CanReserve(h.textures, TextureCharge)
Upload(h, shows) == UploadTexture(h, TextureCharge, shows)

-------------------------------------------------------------------------------
(* The decoded-data preview of the front end: the navigation of            *)
(* frontend_presentation/retail_front_end_nav.h and what the application   *)
(* keeps to drive it.  The preview may take the screen only while its      *)
(* navigation, its pixels and its draw list describe one published frame.  *)

RetailScreens == DOMAIN Buttons
NoTarget == "None"
TitleNav == [screen |-> "Title", selected |-> 0]

\* bundles: the screens that were loaded; composed: the navigation of the pixels in
\* the texture, if any; animated: whether they change from frame to frame.
NoRetailPreview ==
    [attempted |-> FALSE, bundles |-> {}, nav |-> TitleNav, composed |-> {},
     ready |-> FALSE, animated |-> FALSE]

RetailPreviewActive(retail, texture_is_valid, list) ==
    /\ retail.ready /\ texture_is_valid /\ list # {}
    /\ retail.composed = {retail.nav}

ButtonCount(screen) == Len(Buttons[screen])
ClampedNav(nav, count) ==
    IF count = 0 THEN [nav EXCEPT !.selected = 0]
    ELSE IF nav.selected >= count THEN [nav EXCEPT !.selected = count - 1]
    ELSE nav

\* Back goes before accept, accept before the selection.
StepRetailFrontEndNav(incoming, input, count, target) ==
    LET nav == ClampedNav(incoming, count)
    IN IF input.back THEN (IF nav.screen = "Title" THEN nav ELSE TitleNav)
       ELSE IF input.accept
       THEN (IF nav.screen = "Title" /\ target # NoTarget
             THEN [screen |-> target, selected |-> 0] ELSE nav)
       ELSE IF input.previous = input.next \/ count = 0 THEN nav
       ELSE IF input.previous /\ nav.selected > 0 THEN [nav EXCEPT !.selected = @ - 1]
       ELSE IF input.next /\ nav.selected + 1 < count THEN [nav EXCEPT !.selected = @ + 1]
       ELSE nav

\* The button that is selected on the screen shown.
ButtonTarget(retail) ==
    IF retail.nav.selected < ButtonCount(retail.nav.screen)
    THEN Buttons[retail.nav.screen][retail.nav.selected + 1]
    ELSE NoTarget

ShouldProbe(nav, input, target) ==
    nav.screen = "Title" /\ input.accept /\ ~input.back /\ target # NoTarget

PlanCandidate(retail, input, target, admitted) ==
    StepRetailFrontEndNav(retail.nav, input, ButtonCount(retail.nav.screen),
                          IF admitted THEN target ELSE NoTarget)

\* ResolveRetailFrontEndNavCommit: the navigation follows the pixels that were published.
Committed(retail, nav, animated) ==
    [retail EXCEPT !.nav = nav, !.composed = {nav}, !.ready = TRUE, !.animated = animated]

-------------------------------------------------------------------------------
(* The start: one upload after the other.                                  *)

Optional == {"transfer", "movie"}     \* the application starts without them

Startup(profiles, transfer, movie, scene) ==
    <<"diagnostic", "main", "profiles">>
      \o (IF profiles = 0 THEN <<"nextMain", "nextProfiles">> ELSE <<>>)
      \o <<"controls", "topology", "marker">>
      \o (IF transfer THEN <<"transfer">> ELSE <<>>)
      \o (IF movie THEN <<"movie">> ELSE <<>>)
      \o (IF scene THEN <<"scene", "actor">> ELSE <<>>)

\* profiles: the menu's startup model; catalog: what is stored; active, characters: the
\* confirmed profile (0 for none) and the model of its characters; preview: whether the
\* mode and the environment ask for the decoded screens; orphans, mesh_orphans:
\* history of the handles given up by a release that failed.
Init ==
    /\ host = NewHost
    /\ \E s \in Startups :
          app = [phase |-> "Starting",
                 pending |-> Startup(Len(s.catalog), s.transfer, s.movie, s.scene),
                 pictures |-> NoPictures, meshes |-> <<>>, mesh_list |-> {},
                 catalog |-> s.catalog, profiles |-> Len(s.catalog),
                 can_create_first_profile |-> Len(s.catalog) = 0, preview |-> s.preview,
                 active |-> 0, characters |-> 0, can_create_first_character |-> FALSE,
                 movie |-> "Absent", movie_frame |-> 0,
                 retail |-> NoRetailPreview,
                 orphans |-> {}, mesh_orphans |-> {}, faults |-> 0]

Room == Len(host.submitted) < MaxSubmitted
Next1 == Head(app.pending)

\* The topology list gains the transfer picture; the movie's sequence begins.
WithPicture(a, name, handle) ==
    LET placed == [a EXCEPT !.pictures[name] = Picture(name, handle), !.pending = Tail(@)]
    IN CASE name = "transfer" -> [placed EXCEPT !.pictures["topology"].list = @ \cup {handle}]
         [] name = "movie" -> [placed EXCEPT !.movie = "Playing"]
         [] OTHER -> placed

StartupUpload ==
    /\ app.phase = "Starting" /\ app.pending # <<>> /\ Room
    /\ Next1 \in PictureNames
    /\ CanUpload(host)
    /\ host' = Upload(host, Shows(Next1, app.profiles))
    /\ app' = WithPicture(app, Next1, ReservedHandle(host.textures))

\* The scene's list is complete once its actor is.
StartupMesh ==
    /\ app.phase = "Starting" /\ app.pending # <<>> /\ Room
    /\ Next1 \notin PictureNames
    /\ CanReserve(host.meshes, MeshCharge)
    /\ host' = UploadMesh(host, MeshCharge, <<Next1>>)
    /\ app' = [app EXCEPT
                  !.meshes = Append(@, ReservedHandle(host.meshes)),
                  !.mesh_list = IF Next1 = "actor"
                                THEN {app.meshes[k] : k \in DOMAIN app.meshes}
                                       \cup {ReservedHandle(host.meshes)}
                                ELSE @,
                  !.pending = Tail(@)]

\* An upload that has no room, or that SDL refuses after it was reserved.  Meshes are
\* released by the guard of BuildDiagnosticScenePresentation, the rest by the host.
StartupFails ==
    /\ app.phase = "Starting" /\ app.pending # <<>> /\ Room
    /\ LET is_mesh == Next1 \notin PictureNames
           fits == IF is_mesh THEN CanReserve(host.meshes, MeshCharge) ELSE CanUpload(host)
           left == IF ~fits THEN host
                   ELSE IF is_mesh THEN RejectMesh(host, MeshCharge)
                   ELSE RejectTexture(host, TextureCharge)
           faults == IF fits THEN app.faults + 1 ELSE app.faults
       IN /\ faults <= MaxFaults
          /\ IF Next1 \in Optional
             THEN /\ host' = left
                  /\ app' = [app EXCEPT !.faults = faults, !.pending = Tail(@)]
             ELSE /\ host' = DestroyHost(ReleaseMeshes(left, Reverse(app.meshes), {}))
                  /\ app' = [app EXCEPT !.faults = faults, !.phase = "Destroyed",
                                        !.pictures = NoPictures, !.meshes = <<>>,
                                        !.mesh_list = {}, !.pending = <<>>]

Started ==
    /\ app.phase = "Starting" /\ app.pending = <<>>
    /\ app' = [app EXCEPT !.phase = "Idle"]
    /\ UNCHANGED host

-------------------------------------------------------------------------------
(* The preview of decoded screens.                                         *)

RetailIsActive ==
    RetailPreviewActive(app.retail, Valid(app.pictures["retail"].texture),
                        app.pictures["retail"].list)

\* PublishRetailFrontEndFrame: the first frame makes the texture and its list, later
\* ones replace the pixels.
PublishRetailFrontEndFrame(h, picture, shows) ==
    IF Valid(picture.texture) THEN [host |-> UpdateTexture(h, picture.texture, shows),
                                    picture |-> picture]
    ELSE [host |-> Upload(h, shows), picture |-> Picture("retail", ReservedHandle(h.textures))]
RefuseRetailFrontEndFrame(h, picture) ==
    IF Valid(picture.texture) \/ ~CanUpload(h) THEN h ELSE RejectTexture(h, TextureCharge)

\* A screen that is composed and published, or not; c is what the attempt may change:
\* the host, the preview, its picture and the count of faults.
PublishScreen(c, nav) ==
    LET published == PublishRetailFrontEndFrame(c.host, c.picture, <<nav.screen, nav.selected>>)
    IN IF ~Valid(c.picture.texture) /\ ~CanUpload(c.host) THEN {}
       ELSE {[c EXCEPT !.host = published.host, !.picture = published.picture,
                       !.retail = Committed(@, nav, animated)] : animated \in BOOLEAN}
RefuseScreen(c) ==
    {c} \cup {d \in {[c EXCEPT !.host = RefuseRetailFrontEndFrame(@, c.picture),
                               !.faults = @ + 1]} : d.faults <= MaxFaults}

Loaded(c, screen) == [c EXCEPT !.retail.bundles = @ \cup {screen}]

\* TryAdoptRetailScreen: the outcomes that adopt the screen, and those that do not.
Adopts(c, screen) ==
    PublishScreen(Loaded(c, screen), [screen |-> screen, selected |-> 0])
DoesNotAdopt(c, screen) ==
    {c} \cup RefuseScreen(Loaded(c, screen))

\* BeginRetailFrontEndPresentation: the screen asked for, and else the title.
Begins(c, requested) ==
    Adopts(c, requested)
      \cup UNION {Adopts(d, "Title") \cup DoesNotAdopt(d, "Title")
                    : d \in DoesNotAdopt(c, requested)}

\* The preview's part of the state, and the state with it replaced.
PreviewOf == [host |-> host, retail |-> app.retail, picture |-> app.pictures["retail"],
              faults |-> app.faults]
WithPreview(c, phase) ==
    /\ host' = c.host
    /\ app' = [app EXCEPT !.retail = c.retail, !.pictures["retail"] = c.picture,
                          !.faults = c.faults, !.phase = phase]

\* LoadRetailFrontEndBundleIfEnabled, at the start of a run.  A run that starts in the
\* diagnostic puts it off; a run that is not allowed to, never asks again.
BeginRun ==
    /\ app.phase = "Idle" /\ Room
    /\ \/ WithPreview(PreviewOf, "Update")
       \/ /\ app.preview /\ ~app.retail.attempted
          /\ LET asked == [PreviewOf EXCEPT !.retail.attempted = TRUE]
             IN \/ WithPreview(asked, "Update")
                \/ \E c \in UNION {Begins(Loaded(asked, "Title"), s) : s \in RetailScreens} :
                      WithPreview(c, "Update")

\* UpdateRetailFrontEndPresentation.
UpdateRetail(input, loads) ==
    /\ app.phase = "Update" /\ app.movie # "Playing" /\ RetailIsActive /\ Room
    /\ LET retail == app.retail
           target == ButtonTarget(retail)
           probe == ShouldProbe(retail.nav, input, target)
           admitted == probe /\ (loads \/ target \in retail.bundles)
           candidate == PlanCandidate(retail, input, target, admitted)
           c == IF admitted THEN Loaded(PreviewOf, target) ELSE PreviewOf
       IN IF candidate = retail.nav /\ ~retail.animated
          THEN WithPreview(c, "Render")
          ELSE IF candidate.screen \notin c.retail.bundles
          THEN WithPreview(c, "Render")
          ELSE \E d \in PublishScreen(c, candidate) \cup RefuseScreen(c) :
                  WithPreview(d, "Render")

-------------------------------------------------------------------------------
(* The opening movie's picture.                                            *)

\* ReleaseOpeningMovieForFrontEnd: a handle that cannot be released is kept.
MovieEnded(released) ==
    [app EXCEPT !.movie = "Ended",
                !.pictures["movie"] = IF released THEN NoPicture ELSE [@ EXCEPT !.list = {}]]

UpdateMovie ==
    /\ app.phase = "Update" /\ app.movie = "Playing" /\ Room
    /\ \/ /\ host' = UpdateTexture(host, app.pictures["movie"].texture,
                                   <<"movie", 1 - app.movie_frame>>)
          /\ app' = [app EXCEPT !.movie_frame = 1 - @, !.phase = "Render"]
       \/ /\ app' = [app EXCEPT !.phase = "Render"]
          /\ UNCHANGED host

\* It was played, skipped, or failed; a picture that SDL refused is one way to fail.
EndMovie ==
    /\ app.phase = "Update" /\ app.movie = "Playing" /\ Room
    /\ \/ /\ host' = ReleaseTexture(host, app.pictures["movie"].texture)
          /\ app' = [MovieEnded(TRUE) EXCEPT !.phase = "Render"]
       \/ /\ app.faults < MaxFaults
          /\ app' = [MovieEnded(FALSE) EXCEPT !.phase = "Render", !.faults = @ + 1]
          /\ UNCHANGED host

-------------------------------------------------------------------------------
(* The commands of the menu that change what it shows.  One that fails     *)
(* ends the run.                                                           *)

InMenu == app.phase = "Update" /\ app.movie # "Playing" /\ ~RetailIsActive /\ Room

OtherCommand ==
    /\ InMenu
    /\ \E phase \in {"Render", "Idle"} : app' = [app EXCEPT !.phase = phase]
    /\ UNCHANGED host

\* CreateFirstProfile shows the pictures that were prepared with the store empty.
CreateFirstProfile ==
    /\ InMenu
    /\ app.can_create_first_profile /\ app.profiles = 0
    /\ app' = [app EXCEPT !.catalog = Append(@, 0), !.profiles = 1,
                          !.can_create_first_profile = FALSE,
                          !.pictures["main"] = app.pictures["nextMain"],
                          !.pictures["profiles"] = app.pictures["nextProfiles"],
                          !.pictures["nextMain"] = app.pictures["main"],
                          !.pictures["nextProfiles"] = app.pictures["profiles"],
                          !.phase = "Render"]
    /\ UNCHANGED host

Handles(names) ==
    SelectSeq([k \in DOMAIN names |-> app.pictures[names[k]].texture], Valid)
Failing(handles) ==
    {f \in SUBSET {handles[k] : k \in DOMAIN handles} : app.faults + Cardinality(f) <= MaxFaults}

\* SetActiveProfile builds the new card, and the one of its first character, before the
\* profile is confirmed; the cards shown until then go only after it is.
SetActiveProfile(p) ==
    /\ InMenu
    /\ p \in 1..app.profiles
    /\ LET total == app.catalog[p]
           card == ReservedHandle(host.textures)
           built == Upload(host, Card(p, total))
           prepares == total = 0
           next_card == ReservedHandle(built.textures)
           prepared == IF prepares THEN Upload(built, Card(p, 1)) ELSE built
           old == Handles(<<"nextCard", "card">>)
       IN /\ total <= MaxCharacters
          /\ CanUpload(host) /\ (prepares => CanUpload(built))
          /\ \E failing \in Failing(old) :
                /\ host' = ReleaseTextures(prepared, old, failing)
                /\ app' = [app EXCEPT
                              !.pictures["card"] = Picture("card", card),
                              !.pictures["nextCard"] =
                                  IF prepares THEN Picture("nextCard", next_card)
                                  ELSE NoPicture,
                              !.active = p, !.characters = total,
                              !.can_create_first_character = prepares,
                              !.orphans = @ \cup failing,
                              !.faults = @ + Cardinality(failing), !.phase = "Render"]

\* Whatever fails, what was built is given back and the cards shown stay.
SetActiveProfileFails(p) ==
    /\ InMenu
    /\ p \in 1..app.profiles
    /\ LET total == app.catalog[p]
           card == ReservedHandle(host.textures)
           built == Upload(host, Card(p, total))
           next_card == ReservedHandle(built.textures)
           prepared == Upload(built, Card(p, 1))
           GiveBack(h, new, cost) ==
               \E failing \in SUBSET {new[k] : k \in DOMAIN new} :
                  /\ app.faults + cost + Cardinality(failing) <= MaxFaults
                  /\ host' = ReleaseTextures(h, new, failing)
                  /\ app' = [app EXCEPT !.orphans = @ \cup failing, !.phase = "Idle",
                                        !.faults = @ + cost + Cardinality(failing)]
       IN /\ total <= MaxCharacters
          /\ \/ /\ ~CanUpload(host)
                /\ GiveBack(host, <<>>, 0)
             \/ /\ CanUpload(host)
                /\ GiveBack(RejectTexture(host, TextureCharge), <<>>, 1)
             \/ /\ CanUpload(host) /\ total = 0 /\ ~CanUpload(built)
                /\ GiveBack(built, <<card>>, 0)
             \/ /\ CanUpload(host) /\ total = 0 /\ CanUpload(built)
                /\ GiveBack(RejectTexture(built, TextureCharge), <<card>>, 1)
             \/ /\ CanUpload(host) /\ total = 0 /\ CanUpload(built)
                /\ GiveBack(prepared, <<next_card, card>>, 0)       \* not confirmed
             \/ /\ CanUpload(host) /\ total # 0
                /\ GiveBack(built, <<card>>, 0)                     \* not confirmed

\* A plausible error: the cards are not swapped before the one left over is released.
FirstCharacterWithoutSwap ==
    /\ InMenu
    /\ app.can_create_first_character /\ app.active # 0 /\ app.characters = 0
    /\ LET shown == app.pictures["card"]
           obsolete == Handles(<<"nextCard">>)
       IN \E failing \in Failing(obsolete) :
             /\ host' = ReleaseTextures(host, obsolete, failing)
             /\ app' = [app EXCEPT !.catalog[app.active] = 1, !.characters = 1,
                                   !.can_create_first_character = FALSE,
                                   !.pictures["card"] = shown,
                                   !.pictures["nextCard"] = NoPicture,
                                   !.orphans = @ \cup failing,
                                   !.faults = @ + Cardinality(failing), !.phase = "Render"]

\* CreateFirstCharacter shows the card prepared with the list empty and releases the other.
CreateFirstCharacter ==
    /\ InMenu
    /\ app.can_create_first_character /\ app.active # 0 /\ app.characters = 0
    /\ LET shown == app.pictures["nextCard"]
           obsolete == Handles(<<"card">>)
       IN \E failing \in Failing(obsolete) :
             /\ host' = ReleaseTextures(host, obsolete, failing)
             /\ app' = [app EXCEPT !.catalog[app.active] = 1, !.characters = 1,
                                   !.can_create_first_character = FALSE,
                                   !.pictures["card"] = shown,
                                   !.pictures["nextCard"] = NoPicture,
                                   !.orphans = @ \cup failing,
                                   !.faults = @ + Cardinality(failing), !.phase = "Render"]

-------------------------------------------------------------------------------
(* The frame.                                                              *)

HasScene == app.mesh_list # {}
PictureFrame(name) ==
    [textures |-> app.pictures[name].list, meshes |-> {}, passes |-> {}]

\* DiagnosticPlay: the actor over the diagnostic picture, or the scene under its overlay,
\* which is empty when no objective is marked (RefreshDiagnosticActorDrawList).
PlayFrames ==
    IF HasScene
    THEN {[textures |-> overlay, meshes |-> app.mesh_list, passes |-> {"Fill"}]
            : overlay \in {{}, {app.pictures["marker"].texture}}}
    ELSE {PictureFrame("marker")}

\* CurrentFrontEndDrawList: without a card, the characters' menu shows the main one.
CardShown == IF Valid(app.pictures["card"].texture) THEN "card" ELSE "main"
MenuFrames == {PictureFrame(n) : n \in {"main", "profiles", CardShown, "controls", "topology"}}
CurrentFrames ==
    IF app.movie = "Playing" THEN {PictureFrame("movie")}
    ELSE (IF RetailIsActive THEN {PictureFrame("retail")} ELSE MenuFrames) \cup PlayFrames

Render ==
    /\ app.phase = "Render" /\ Room
    /\ \E frame \in CurrentFrames :
          /\ CanDraw(host, frame)
          /\ \E rendered \in RenderFrame(host, frame, SwapchainFormat) :
                /\ \/ host' \in {rendered, CaptureFrameRgba8(rendered, frame)}
                      /\ \E phase \in {"Update", "Idle"} : app' = [app EXCEPT !.phase = phase]
                   \/ /\ app.faults < MaxFaults
                      /\ host' \in CaptureFrameFails(rendered, frame)
                      /\ app' = [app EXCEPT !.phase = "Update", !.faults = @ + 1]

\* An error of RenderFrame ends the run.
RenderFails ==
    /\ app.phase = "Render" /\ Room
    /\ \E frame \in CurrentFrames :
          LET drawable == CanDraw(host, frame)
          IN /\ app.faults < MaxFaults \/ ~drawable
             /\ host' \in IF drawable THEN RenderFrameFails(host, frame, SwapchainFormat)
                         ELSE {host}
             /\ app' = [app EXCEPT !.phase = "Idle",
                                   !.faults = IF drawable THEN @ + 1 ELSE @]

-------------------------------------------------------------------------------
(* The end.                                                                *)

\* ~OmegaApp releases what it owns, the preview's texture apart.
ReleaseOrder ==
    <<"nextCard", "card", "movie", "transfer", "topology", "controls",
      "nextProfiles", "nextMain", "profiles", "main", "marker", "diagnostic">>
ReleaseApp ==
    /\ app.phase = "Idle"
    /\ LET handles == Handles(ReleaseOrder)
           meshes == Reverse(app.meshes)
       IN \E failing \in Failing(handles) : \E kept \in Failing(meshes) :
             /\ app.faults + Cardinality(failing) + Cardinality(kept) <= MaxFaults
             /\ host' = ReleaseTextures(ReleaseMeshes(host, meshes, kept), handles, failing)
             /\ app' = [app EXCEPT
                           !.pictures = [NoPictures EXCEPT !["retail"] = app.pictures["retail"]],
                           !.meshes = <<>>, !.mesh_list = {}, !.phase = "Released",
                           !.orphans = @ \cup failing, !.mesh_orphans = @ \cup kept,
                           !.faults = @ + Cardinality(failing) + Cardinality(kept)]

DestroyApp ==
    /\ app.phase = "Released"
    /\ host' = DestroyHost(host)
    /\ app' = [app EXCEPT !.phase = "Destroyed"]

GpuStep ==
    /\ host.submitted # <<>>
    /\ host' = GpuFinishes(host)
    /\ UNCHANGED app

Destroyed == app.phase = "Destroyed" /\ UNCHANGED vars

Next ==
    \/ StartupUpload \/ StartupMesh \/ StartupFails \/ Started
    \/ BeginRun
    \/ \E input \in NavInputs, loads \in BOOLEAN : UpdateRetail(input, loads)
    \/ UpdateMovie \/ EndMovie
    \/ OtherCommand \/ CreateFirstProfile \/ CreateFirstCharacter
    \/ \E p \in DOMAIN app.catalog : SetActiveProfile(p) \/ SetActiveProfileFails(p)
    \/ Render \/ RenderFails
    \/ ReleaseApp \/ DestroyApp \/ GpuStep \/ Destroyed

Spec == Init /\ [][Next]_vars

-------------------------------------------------------------------------------
(* Properties.                                                             *)

Serves == app.phase \in {"Idle", "Update", "Render"}

\* The pictures a list draws, as the GPU would find them.
OnScreen(list) == {host.live[TextureOf(host, x)] : x \in list}
Draws(name, contents) ==
    LET list == app.pictures[name].list
    IN /\ \A x \in list : TextureOf(host, x) \in DOMAIN host.live
       /\ OnScreen(list) = contents
Menu(contents) == {<<"diagnostic">>, contents}

\* Whatever the application can put on the screen next resolves, and shows what its
\* models say: the menus their counts, the card the confirmed profile and its
\* characters, the movie its latest frame, the preview the screen its navigation is on.
PicturesAreCurrent ==
    Serves =>
      /\ Draws("main", Menu(<<"main", app.profiles>>))
      /\ Draws("profiles", Menu(<<"profiles", app.profiles>>))
      /\ Draws("controls", Menu(<<"controls">>))
      /\ Draws("topology", Menu(<<"topology">>)
                             \cup (IF Valid(app.pictures["transfer"].texture)
                                   THEN {<<"transfer">>} ELSE {}))
      /\ Draws("marker", Menu(<<"marker">>))
      /\ app.active # 0 => Draws("card", Menu(Card(app.active, app.characters)))
      /\ app.movie = "Playing" => Draws("movie", {<<"movie", app.movie_frame>>})
      /\ RetailIsActive =>
            Draws("retail", {<<app.retail.nav.screen, app.retail.nav.selected>>})
      /\ HasScene => {host.live[MeshOf(host, x)] : x \in app.mesh_list}
                       = {<<"scene">>, <<"actor">>}
      /\ app.profiles = Len(app.catalog)
      /\ app.active # 0 => app.characters = app.catalog[app.active]

\* While the GPU has not finished a command buffer, what it uses exists, and each
\* pipeline in it draws to the format it was made for, though frames on the screen
\* and screenshots in another format follow each other and pictures are released.
InFlightWorkIsKept == SubmittedWorkIsSound(host)

\* Every texture and mesh that is resident has an owner in the application or was given
\* up by a release that failed; the pools' tables, totals and free lists agree, no handle
\* comes back after its end, and once the host is destroyed nothing is left.
Owned == {app.pictures[n].texture : n \in PictureNames} \ {NoHandle}
NothingIsLeaked ==
    IF app.phase = "Destroyed" THEN host.live = <<>>
    ELSE /\ TablesAreExact(host)
         /\ ResidentHandles(host.textures) = Owned \cup app.orphans
         /\ Owned \cap app.orphans = {}
         /\ ResidentHandles(host.meshes)
              = {app.meshes[k] : k \in DOMAIN app.meshes} \cup app.mesh_orphans
===============================================================================
