---------------------------- MODULE DreamcastPVR ----------------------------
(***************************************************************************)
(* The Dreamcast PVR renderer (src/src/render/dreamcast): the life of      *)
(* texture memory between the driver, which runs on the app's thread, and  *)
(* the graphics hardware, which renders the submitted scenes later and in  *)
(* its own time.                                                           *)
(*                                                                         *)
(* The driver never waits for a render when it destroys a texture.  Scenes *)
(* are numbered; a destroyed texture is retired under the number of the    *)
(* last scene that can use it and freed when that scene is proven to be    *)
(* rendered, from what the hardware lets the driver see: a scene enters    *)
(* the tile accelerator (TA) when the one before it has started to render, *)
(* renders run one at a time, and pvr_check_ready() tells that the TA is   *)
(* free.  The driver blocks only when memory runs out, before an upload    *)
(* into memory that may still be fetched, and when it is destroyed.        *)
(*                                                                         *)
(* A call of the driver is the sequence todo of the steps it has left to   *)
(* do; a step that waits for the hardware is enabled when the wait ends,   *)
(* and the hardware moves between the steps.  KallistiOS is modelled from  *)
(* the driver's use of it and its comment at SDL_render_dreamcast_pvr.c:   *)
(* 112-142.                                                                *)
(***************************************************************************)
EXTENDS Naturals, Sequences, FiniteSets

CONSTANTS Streaming, Targets, Natives, \* the textures there may be of each access; a
                         \* native one comes from SDL_LoadDreamcastTexture_IO
          Blocks,        \* texture memory, in blocks of one texture's size
          Screens,       \* the two buffers of the logical screen
          NoTexture, NoBlock,
          MaxScenes      \* bound: how many scenes a run of the program begins

Textures == Streaming \cup Targets \cup Natives

ASSUME ScreensAssumption ==
    IsFiniteSet(Screens) /\ Cardinality(Screens) = 2 /\ Screens \cap Blocks = {}
ASSUME BlocksAssumption == IsFiniteSet(Blocks)
ASSUME NoneAssumption == NoTexture \notin Textures /\ NoBlock \notin Blocks \cup Screens
ASSUME BoundAssumption == MaxScenes \in Nat

VARIABLES
    tex,          \* DC_PVR_TextureData of every texture
    scene,        \* the numbering and the open scene of DC_PVR_RenderData
    screen,       \* the buffers of the logical screen
    target,       \* current_target
    header,       \* header_texture, NoTexture when header_valid is false or it is untextured
    pvr_failed,
    todo, arg,    \* the call of the app's thread: its steps to come and its texture
    ta,           \* the scene in the TA: open, or finished and not yet rendering
    rendering,    \* the scene that is rendered now
    unflipped,    \* a rendered frame waits for the vertical blank
    status,       \* "open", "destroyed", or "recovered" from a failed synchronization
    torn          \* memory was freed or written that an unfinished scene uses

driverVars == <<tex, scene, screen, target, header, pvr_failed>>
callVars == <<todo, arg, status>>
hwVars == <<ta, rendering, unflipped>>
vars == <<driverVars, callVars, hwVars, torn>>

Memory == Blocks \cup Screens
Accesses == {"streaming", "target", "native"}
Kinds == {"none", "screen", "target", "physical"}

Nothing == [gen |-> 0, fetches |-> {}, dest |-> NoBlock, kind |-> "none", finished |-> TRUE]
Absent == [state |-> "absent", access |-> "streaming", vram |-> NoBlock, vram_next |-> NoBlock,
           filled |-> FALSE, referenced |-> FALSE, locked |-> FALSE, last_used |-> 0, retire |-> 0]

Init ==
    /\ tex = [t \in Textures |-> Absent]
    /\ scene = [begun |-> 0, entered |-> 0, completed |-> 0, active |-> FALSE,
                is_entered |-> FALSE, kind |-> "none", target |-> NoTexture]
    /\ LET first == CHOOSE s \in Screens : TRUE
       IN  screen = [vram |-> first, vram_next |-> CHOOSE s \in Screens : s # first,
                     valid |-> FALSE]
    /\ target = NoTexture /\ header = NoTexture /\ pvr_failed = FALSE
    /\ todo = <<>> /\ arg = NoTexture /\ status = "open"
    /\ ta = Nothing /\ rendering = Nothing /\ unflipped = FALSE
    /\ torn = FALSE

-----------------------------------------------------------------------------
(* Memory and scenes.                                                      *)

Live == {t \in Textures : tex[t].state = "live"}
Retired == {t \in Textures : tex[t].state = "retired"}
BlocksOf(x) == {x.vram, x.vram_next} \ {NoBlock}
Free == Blocks \ UNION {BlocksOf(tex[t]) : t \in Textures}

\* What the hardware still reads or writes for scenes that are not rendered.
InUse(scenes) == UNION {s.fetches \cup {s.dest} : s \in scenes}
Unrendered == {ta, rendering} \ {Nothing}
TaBusy == ta # Nothing

\* Memory is given back to the allocator, which writes into it, or uploaded to.
Touch(blocks) == torn' = (torn \/ blocks \cap InUse(Unrendered) # {})

OpenEntered == scene.active /\ scene.is_entered

\* Mutant: pvr_check_ready() is read the wrong way round.
InvertedReady ==
    IF scene.entered >= 1 /\ ~OpenEntered /\ TaBusy THEN scene.entered - 1 ELSE scene.completed

\* DC_PVR_CompletedScenes
Completed ==
    LET m == scene.entered
        done == IF m >= 1 /\ ~OpenEntered /\ ~TaBusy THEN m - 1
                ELSE IF m >= 2 THEN m - 2 ELSE 0
    IN  IF done > scene.completed THEN done ELSE scene.completed

\* Mutant: off by one.
ReclaimableLate(done) == {t \in Retired : tex[t].retire < done}

Reclaimable(done) == {t \in Retired : tex[t].retire <= done}

\* DC_PVR_ReclaimRetired
ReclaimRetired(done) ==
    /\ tex' = [t \in Textures |-> IF t \in Reclaimable(done) THEN Absent ELSE tex[t]]
    /\ Touch(UNION {BlocksOf(tex[t]) : t \in Reclaimable(done)})

\* DC_PVR_ReclaimCompleted
ReclaimCompleted ==
    IF Retired = {} THEN UNCHANGED <<tex, scene, torn>>
    ELSE /\ scene' = [scene EXCEPT !.completed = Completed]
         /\ ReclaimRetired(Completed)

\* The call goes on with the next step.
Step(name) == todo # <<>> /\ Head(todo) = name
Idle == todo = <<>> /\ status = "open"
Call(t, steps) == Idle /\ todo' = steps /\ arg' = t /\ UNCHANGED status
Proceed(steps) ==
    /\ todo' = steps
    /\ arg' = IF steps = <<>> THEN NoTexture ELSE arg
    /\ UNCHANGED status
GoOn == Proceed(Tail(todo))
Abort == Proceed(<<>>)

-----------------------------------------------------------------------------
(* Drawing: DC_PVR_RunCommandQueue, one command at a time.                 *)

\* DC_PVR_BeginScene: a drawing command with no scene open.
BeginScene ==
    /\ Call(NoTexture, <<"list">>)
    /\ ~scene.active /\ ~pvr_failed /\ scene.begun < MaxScenes
    /\ scene' = [scene EXCEPT !.begun = @ + 1, !.active = TRUE, !.is_entered = FALSE,
                              !.kind = IF target = NoTexture THEN "screen" ELSE "target",
                              !.target = target]
    /\ header' = NoTexture
    /\ UNCHANGED <<tex, screen, target, pvr_failed, hwVars, torn>>

\* A drawing command in a scene whose list could not be begun before.
BeginListAgain ==
    /\ Call(NoTexture, <<"list">>)
    /\ scene.active /\ ~scene.is_entered
    /\ UNCHANGED <<driverVars, hwVars, torn>>

\* pvr_scene_begin_rtt() or pvr_list_begin() fails.
BeginFails ==
    /\ \/ Call(NoTexture, <<>>) /\ ~scene.active
       \/ Step("list") /\ Abort
    /\ ~pvr_failed /\ pvr_failed' = TRUE
    /\ UNCHANGED <<tex, scene, screen, target, header, hwVars, torn>>

\* Mutant: the visible buffer is rendered to.
InPlace ==
    CASE scene.kind = "target" -> tex[scene.target].vram
      [] scene.kind = "screen" -> screen.vram
      [] OTHER                 -> NoBlock

\* The destination of the open scene and what is copied into it to begin with.
Destination ==
    CASE scene.kind = "target" -> tex[scene.target].vram_next
      [] scene.kind = "screen" -> screen.vram_next
      [] OTHER                 -> NoBlock
Seed ==
    CASE scene.kind = "target" /\ tex[scene.target].filled -> {tex[scene.target].vram}
      [] scene.kind = "screen" /\ screen.valid             -> {screen.vram}
      [] OTHER                                             -> {}

\* The scene enters the TA, as soon as the one before it has started to render.
EnterTA(fetches, finished) ==
    /\ ~TaBusy
    /\ ta' = [gen |-> scene.begun, fetches |-> fetches, dest |-> Destination,
              kind |-> scene.kind, finished |-> finished]

\* DC_PVR_BeginList up to the seed.
EnterList(fetches) ==
    /\ Step("list")
    /\ EnterTA(fetches, FALSE)
    /\ scene' = [scene EXCEPT !.is_entered = TRUE, !.entered = scene.begun]
    /\ header' = NoTexture
    /\ UNCHANGED <<tex, screen, target, rendering, unflipped, torn>>

BeginList == EnterList(Seed) /\ Proceed(<<"reclaim">>) /\ UNCHANGED pvr_failed

\* DC_PVR_EmitPreservationSeed fails, its header submitted or not: the call ends there,
\* with the list begun, and nothing is reclaimed.
SeedFails ==
    /\ Seed # {} /\ \E fetches \in {{}, Seed} : EnterList(fetches)
    /\ pvr_failed' = TRUE
    /\ Abort

Reclaim ==
    /\ Step("reclaim")
    /\ ReclaimCompleted
    /\ GoOn
    /\ UNCHANGED <<screen, target, header, pvr_failed, hwVars>>

\* DC_PVR_EmitHeader for a texture that has contents; with the header of that texture in
\* force it may return at once.
DrawTexture(t) ==
    /\ Idle /\ OpenEntered /\ t \in Live /\ tex[t].filled
    /\ ta' = [ta EXCEPT !.fetches = @ \cup {tex[t].vram}]
    /\ tex' = [tex EXCEPT ![t].referenced = TRUE, ![t].last_used = scene.begun]
    /\ header' = t
    /\ UNCHANGED <<scene, screen, target, pvr_failed, callVars, rendering, unflipped, torn>>

\* DC_PVR_EmitClear, filled rectangles and DC_PVR_InvalidateCachedState.
DropHeader ==
    /\ Idle /\ header # NoTexture
    /\ header' = NoTexture
    /\ UNCHANGED <<tex, scene, screen, target, pvr_failed, callVars, hwVars, torn>>

-----------------------------------------------------------------------------
(* The end of a scene and what leads to it.                                *)

Unreferenced(x) == [t \in Textures |-> [x[t] EXCEPT !.referenced = FALSE]]

\* The texture that was rendered to shows what was rendered.
Swapped(x) == [x EXCEPT !.vram = x.vram_next, !.vram_next = x.vram, !.filled = TRUE]

\* DC_PVR_FinishActiveScene up to the reclaiming.  pvr_scene_finish() opens the list of a
\* scene that has none, so the scene enters the TA here at the latest.
FinishActiveScene ==
    /\ Step("finish")
    /\ IF scene.active
       THEN /\ IF scene.is_entered THEN ta' = [ta EXCEPT !.finished = TRUE]
                                   ELSE EnterTA({}, TRUE)
            /\ tex' = Unreferenced(IF scene.kind = "target"
                                   THEN [tex EXCEPT ![scene.target] = Swapped(@)] ELSE tex)
            /\ screen' = IF scene.kind = "screen"
                         THEN [vram |-> screen.vram_next, vram_next |-> screen.vram,
                               valid |-> TRUE]
                         ELSE screen
            /\ scene' = [scene EXCEPT !.active = FALSE, !.is_entered = TRUE,
                                      !.entered = scene.begun,
                                      !.kind = "none", !.target = NoTexture]
            /\ header' = NoTexture
            /\ Proceed(<<"reclaim">> \o Tail(todo))
       ELSE GoOn /\ UNCHANGED <<tex, scene, screen, header, ta>>
    /\ UNCHANGED <<target, pvr_failed, rendering, unflipped, torn>>

\* pvr_list_finish() or pvr_scene_finish() fails: the call ends there.
FinishFails ==
    /\ Step("finish") /\ scene.active /\ ~pvr_failed
    /\ "retire" \notin {todo[i] : i \in DOMAIN todo}
    /\ pvr_failed' = TRUE
    /\ Abort
    /\ UNCHANGED <<tex, scene, screen, target, header, hwVars, torn>>

\* SDL_SetRenderTarget after its flush; the core drops a call that changes nothing.
SetRenderTarget(t) ==
    /\ t # target /\ t \in {u \in Live : tex[u].access = "target"} \cup {NoTexture}
    /\ ~pvr_failed
    /\ Call(t, <<"finish", "retarget">>)
    /\ UNCHANGED <<driverVars, hwVars, torn>>

SwitchTarget ==
    /\ \/ Step("retarget") /\ target' = arg
       \/ Step("untarget") /\ target' = NoTexture
    /\ header' = NoTexture
    /\ GoOn
    /\ UNCHANGED <<tex, scene, screen, pvr_failed, hwVars, torn>>

\* DC_PVR_RenderPresent: the open scene is finished, then a scene is made that shows the
\* logical screen, or an empty one when nothing was drawn.
RenderPresent ==
    /\ Call(NoTexture, <<"finish", "present", "finish", "presented">>)
    /\ target = NoTexture
    /\ scene.begun < MaxScenes
    /\ UNCHANGED <<driverVars, hwVars, torn>>

PresentScreen ==
    /\ Step("present")
    /\ scene' = [scene EXCEPT !.begun = @ + 1, !.active = TRUE, !.is_entered = TRUE,
                              !.entered = scene.begun + 1, !.kind = "physical"]
    /\ ~TaBusy
    /\ ta' = [gen |-> scene.begun + 1, fetches |-> IF screen.valid THEN {screen.vram} ELSE {},
              dest |-> NoBlock, kind |-> "physical", finished |-> FALSE]
    /\ header' = NoTexture
    /\ GoOn
    /\ UNCHANGED <<tex, screen, target, pvr_failed, rendering, unflipped, torn>>

Presented ==
    /\ Step("presented")
    /\ screen' = [screen EXCEPT !.valid = FALSE]
    /\ ReclaimCompleted
    /\ GoOn
    /\ UNCHANGED <<target, header, pvr_failed, hwVars>>

-----------------------------------------------------------------------------
(* Textures.                                                               *)

Needed(access) == IF access = "target" THEN 2 ELSE 1
OfAccess(access) ==
    CASE access = "streaming" -> Streaming [] access = "target" -> Targets
      [] access = "native" -> Natives

\* DC_PVR_CreateTexture, and DC_PVR_LoadDreamcastTexture_IO for a native texture, which is
\* created and uploaded at once.  Which free block the allocator hands out does not matter.
Allocate(t, access) ==
    /\ LET v == CHOOSE b \in Free : TRUE
           n == IF access = "target" THEN CHOOSE b \in Free \ {v} : TRUE ELSE NoBlock
       IN /\ tex' = [tex EXCEPT ![t] = [Absent EXCEPT
                              !.state = "live", !.access = access, !.vram = v,
                              !.vram_next = n, !.filled = (access = "native")]]
          /\ IF access = "native" THEN Touch({v}) ELSE UNCHANGED torn
    /\ UNCHANGED <<scene, screen, target, header, pvr_failed, hwVars>>

CreateTexture(t, access) ==
    /\ t \in OfAccess(access) \ (Live \cup Retired)
    /\ Cardinality(Free) >= Needed(access)
    /\ Idle /\ Allocate(t, access) /\ UNCHANGED callVars

\* Out of memory: wait for the renders that keep retired textures, and try once more.
CreateWhenFull(t, access) ==
    /\ t \in OfAccess(access) \ (Live \cup Retired)
    /\ Cardinality(Free) < Needed(access) /\ Retired # {}
    /\ Call(t, <<"drain", "reclaimdrained", access>>)
    /\ UNCHANGED <<driverVars, hwVars, torn>>

ReclaimForAllocation ==
    /\ Step("reclaimdrained")
    /\ ReclaimRetired(scene.completed)
    /\ GoOn
    /\ UNCHANGED <<scene, screen, target, header, pvr_failed, hwVars>>

CreateAfterDrain(access) ==
    /\ Step(access) /\ GoOn
    /\ IF Cardinality(Free) >= Needed(access) THEN Allocate(arg, access)
       ELSE UNCHANGED <<driverVars, hwVars, torn>>

\* DC_PVR_WaitTextureIdle waits only if the scene that sampled last is not proven rendered.
WaitTextureIdle(t) ==
    /\ scene' = [scene EXCEPT !.completed = IF tex[t].last_used = 0 THEN @ ELSE Completed]
    /\ Call(t, IF tex[t].last_used <= Completed THEN <<"upload">> ELSE <<"drain", "upload">>)

UpdateTexture(t) ==
    /\ t \in Live /\ tex[t].access = "streaming" /\ ~tex[t].locked /\ ~tex[t].referenced
    /\ WaitTextureIdle(t)
    /\ UNCHANGED <<tex, screen, target, header, pvr_failed, hwVars, torn>>

LockTexture(t) ==
    /\ Idle
    /\ t \in Live /\ tex[t].access = "streaming" /\ ~tex[t].locked /\ ~tex[t].referenced
    /\ tex' = [tex EXCEPT ![t].locked = TRUE]
    /\ UNCHANGED <<scene, screen, target, header, pvr_failed, callVars, hwVars, torn>>

\* Unlike an update, this does not refuse a texture that the open scene references.
UnlockTexture(t) ==
    /\ t \in Live /\ tex[t].locked
    /\ WaitTextureIdle(t)
    /\ tex' = [tex EXCEPT ![t].locked = FALSE]
    /\ UNCHANGED <<screen, target, header, pvr_failed, hwVars, torn>>

\* The upload, unless the wait could not cover the scene that sampled last: it is open.
Upload ==
    /\ Step("upload") /\ GoOn
    /\ IF tex[arg].last_used <= scene.completed
       THEN tex' = [tex EXCEPT ![arg].filled = TRUE] /\ Touch({tex[arg].vram})
       ELSE UNCHANGED <<tex, torn>>
    /\ UNCHANGED <<scene, screen, target, header, pvr_failed, hwVars>>

\* SDL_DestroyTexture: the core takes the render target off first (after a failed scene
\* the driver refuses that and the target dangles, which is left out).
DestroyTexture(t) ==
    /\ t \in Live
    /\ Call(t, IF t = target THEN <<"finish", "untarget", "retire">> ELSE <<"retire">>)
    /\ t = target => ~pvr_failed
    /\ UNCHANGED <<driverVars, hwVars, torn>>

\* Mutant: retired under the number of the next scene.
RetiredNext(t) == [tex EXCEPT ![t].state = "retired", ![t].retire = scene.begun + 1]

\* Mutant: retired under the number of the scene that sampled it last.
RetiredByUse(t) == [tex EXCEPT ![t].state = "retired", ![t].retire = tex[t].last_used]

Retirement(t) == [tex EXCEPT ![t].state = "retired", ![t].retire = scene.begun]

\* Mutant: the header that is in force is not looked at.
RetireOnly ==
    /\ Step("retire")
    /\ tex' = Retirement(arg)
    /\ Proceed(<<"reclaim">> \o Tail(todo))
    /\ UNCHANGED <<scene, screen, target, header, pvr_failed, hwVars, torn>>

\* DC_PVR_DestroyTexture and DC_PVR_RetireTexture
RetireTexture ==
    /\ Step("retire")
    /\ tex' = Retirement(arg)
    /\ header' = IF header = arg THEN NoTexture ELSE header
    /\ Proceed(<<"reclaim">> \o Tail(todo))
    /\ UNCHANGED <<scene, screen, target, pvr_failed, hwVars, torn>>

-----------------------------------------------------------------------------
(* The blocking drain and the end of the renderer.                         *)

\* Mutant: the open scene is waited for too.
WaitsForOpen == scene.entered > 0 => ~TaBusy /\ rendering = Nothing

Drained == scene.entered > 0 => (OpenEntered \/ ~TaBusy) /\ rendering = Nothing

\* DC_PVR_WaitScenesComplete: with a scene open in the TA, only the renders before it.
WaitScenesComplete ==
    /\ Step("drain") /\ Drained
    /\ LET done == IF OpenEntered THEN scene.entered - 1 ELSE scene.entered
       IN  scene' = [scene EXCEPT !.completed = IF done > @ THEN done ELSE @]
    /\ GoOn
    /\ UNCHANGED <<tex, screen, target, header, pvr_failed, hwVars, torn>>

\* pvr_wait_ready() or pvr_wait_render_done() gives up: nothing is uploaded or created,
\* but the renderer's destruction goes on.
WaitTimesOut ==
    /\ Step("drain") /\ ~Drained
    /\ Proceed(IF todo[2] = "close" THEN <<"abandon">> ELSE <<>>)
    /\ UNCHANGED <<driverVars, hwVars, torn>>

\* SDL_DestroyRenderer: the core destroys every texture, then DC_PVR_DestroyRenderer
\* finishes the open scene, waits and frees everything.
DestroyRenderer ==
    /\ Call(NoTexture, <<"retireall">>)
    /\ UNCHANGED <<driverVars, hwVars, torn>>

RetireAll ==
    /\ Step("retireall")
    /\ IF Live = {}
       THEN todo' = <<"finishlast">> /\ UNCHANGED <<tex, header>>
       ELSE \E t \in Live :
              /\ tex' = Retirement(t)
              /\ header' = IF header = t THEN NoTexture ELSE header
              /\ todo' = <<"reclaim">> \o todo
    /\ UNCHANGED <<arg, status, scene, screen, target, pvr_failed, hwVars, torn>>

FinishLastScene ==
    /\ Step("finishlast")
    /\ IF scene.active
       THEN /\ IF scene.is_entered THEN ta' = [ta EXCEPT !.finished = TRUE]
                                   ELSE EnterTA({}, TRUE)
            /\ scene' = [scene EXCEPT !.active = FALSE, !.is_entered = TRUE,
                                      !.entered = scene.begun]
       ELSE UNCHANGED <<ta, scene>>
    /\ todo' = IF pvr_failed THEN <<"abandon">> ELSE <<"drain", "close">>
    /\ UNCHANGED <<arg, status, tex, screen, target, header, pvr_failed, rendering,
                   unflipped, torn>>

Close ==
    /\ Step("close") \/ Step("abandon")
    /\ status' = IF Step("close") THEN "destroyed" ELSE "recovered"
    /\ tex' = [t \in Textures |-> Absent]
    /\ Touch(Screens \cup UNION {BlocksOf(tex[t]) : t \in Textures})
    /\ todo' = <<>> /\ UNCHANGED arg
    /\ UNCHANGED <<scene, screen, target, header, pvr_failed, hwVars>>

-----------------------------------------------------------------------------
(* The hardware and KallistiOS.                                            *)

\* A finished scene renders when no other does and, for the physical screen, when the
\* frame before has been flipped.
StartRender ==
    /\ TaBusy /\ ta.finished /\ rendering = Nothing
    /\ ta.kind = "physical" => ~unflipped
    /\ rendering' = ta /\ ta' = Nothing
    /\ UNCHANGED <<driverVars, callVars, unflipped, torn>>

RenderDone ==
    /\ rendering # Nothing
    /\ unflipped' = (unflipped \/ rendering.kind = "physical")
    /\ rendering' = Nothing
    /\ UNCHANGED <<driverVars, callVars, ta, torn>>

VerticalBlank ==
    /\ unflipped /\ unflipped' = FALSE
    /\ UNCHANGED <<driverVars, callVars, ta, rendering, torn>>

Hardware == StartRender \/ RenderDone \/ VerticalBlank

\* The app's thread starts a call, or does one that is a single step.
Calls ==
    \/ BeginScene \/ BeginListAgain \/ DropHeader \/ RenderPresent \/ DestroyRenderer
    \/ \E t \in Textures :
          \/ DrawTexture(t) \/ UpdateTexture(t) \/ LockTexture(t) \/ UnlockTexture(t)
          \/ DestroyTexture(t)
          \/ \E access \in Accesses : CreateTexture(t, access) \/ CreateWhenFull(t, access)
    \/ \E t \in Textures \cup {NoTexture} : SetRenderTarget(t)

\* The app's thread goes on in a call.
Continue ==
    \/ BeginList \/ Reclaim \/ FinishActiveScene \/ SwitchTarget \/ PresentScreen
    \/ Presented \/ ReclaimForAllocation \/ Upload \/ RetireTexture \/ WaitScenesComplete
    \/ RetireAll \/ FinishLastScene \/ Close
    \/ \E access \in Accesses : CreateAfterDrain(access)

Failures == BeginFails \/ SeedFails \/ FinishFails \/ WaitTimesOut

Destroyed == status # "open" /\ UNCHANGED vars

Next == Calls \/ Continue \/ Failures \/ Hardware \/ Destroyed

Spec == Init /\ [][Next]_vars

\* The app's thread runs, renders come to an end and the display is refreshed.
Fairness ==
    /\ WF_vars(Continue)
    /\ WF_vars(StartRender) /\ WF_vars(RenderDone) /\ WF_vars(VerticalBlank)

FairSpec == Spec /\ Fairness

-----------------------------------------------------------------------------
(* Properties.                                                             *)

Gens == 0..MaxScenes
SceneRecords == [gen : Gens, fetches : SUBSET Memory, dest : Memory \cup {NoBlock},
                 kind : Kinds, finished : BOOLEAN]

TypeOK ==
    /\ tex \in [Textures ->
                 [state : {"absent", "live", "retired"}, access : Accesses,
                  vram : Blocks \cup {NoBlock}, vram_next : Blocks \cup {NoBlock},
                  filled : BOOLEAN, referenced : BOOLEAN, locked : BOOLEAN,
                  last_used : Gens, retire : Gens]]
    /\ scene \in [begun : Gens, entered : Gens, completed : Gens, active : BOOLEAN,
                  is_entered : BOOLEAN, kind : Kinds, target : Textures \cup {NoTexture}]
    /\ screen \in [vram : Screens, vram_next : Screens, valid : BOOLEAN]
    /\ target \in Textures \cup {NoTexture} /\ header \in Textures \cup {NoTexture}
    /\ pvr_failed \in BOOLEAN /\ unflipped \in BOOLEAN /\ torn \in BOOLEAN
    /\ arg \in Textures \cup {NoTexture} /\ status \in {"open", "destroyed", "recovered"}
    /\ ta \in SceneRecords /\ rendering \in SceneRecords

\* "highest scene proven complete": a scene that the driver takes for rendered is.
ProvenIsRendered == \A s \in Unrendered : scene.completed < s.gen

\* "Invariant: the VRAM behind a destroyed texture stays allocated until every PVR scene
\* that could still fetch it has finished rendering", and an upload waits likewise; only
\* the destruction of a renderer that could not synchronize goes ahead.
NeverTorn == torn => status = "recovered"

\* Retired memory comes back: it does not outlive the second scene that enters the TA
\* after the last one that could use it.
PromptReclaim ==
    todo = <<>> /\ ~pvr_failed => \A t \in Retired : tex[t].retire + 1 >= scene.entered

\* A polygon header that is taken for the one in force was sent in the open scene, for
\* the memory that the texture has now.
HeaderInForce ==
    header # NoTexture =>
        /\ OpenEntered /\ header \in Live
        /\ tex[header].vram \in ta.fetches /\ tex[header].last_used = ta.gen

\* A scene never fetches from the buffer it is rendered to.
NoFeedback == \A s \in Unrendered : s.dest \notin s.fetches

\* Every call of the driver returns: it never waits for its own open scene.
CallsReturn == todo # <<>> ~> todo = <<>>
=============================================================================
