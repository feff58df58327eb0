----------------------- MODULE DreamcastPVRUse_proofs -----------------------
(***************************************************************************)
(* Proofs about DreamcastPVR, for any textures, blocks and number of       *)
(* scenes: no memory is freed or written that an unfinished scene uses, no *)
(* scene fetches from the buffer it is rendered to, a polygon header that  *)
(* is taken for the one in force is, and retired memory comes back.        *)
(*                                                                         *)
(* They rest on the two invariants of DreamcastPVR_proofs: the driver      *)
(* takes no scene for rendered that is not, and every block is one         *)
(* texture's.                                                              *)
(***************************************************************************)
EXTENDS DreamcastPVR_proofs

-----------------------------------------------------------------------------
(* The invariant.                                                          *)

Use(s) == s.fetches \cup {s.dest}

\* The texture is not reclaimed before the scene is rendered.
KeptFor(s, t) == Nonabsent(t) /\ (tex[t].state = "retired" => tex[t].retire >= s.gen)

\* The block is a texture's that is not reclaimed and not written before the scene is rendered.
Kept(s, b) ==
    \E t \in Textures :
        /\ KeptFor(s, t) /\ b \in BlocksOf(tex[t])
        /\ tex[t].access # "target" => tex[t].last_used >= s.gen

\* What the unrendered scenes use is kept for them.
UseOK == status # "recovered" => \A s \in Unrendered : \A b \in Use(s) \cap Blocks : Kept(s, b)

\* The destination of the open scene.
DestOK == OpenEntered => ta.dest = Destination

\* The renderer closes when nothing is left to render.
CloseOK == Step("close") => Unrendered = {}

UseInv == UseOK /\ DestOK /\ NoFeedback /\ HeaderInForce /\ CloseOK /\ NeverTorn

-----------------------------------------------------------------------------
(* Frames.                                                                 *)

\* The numbers of the unrendered scenes.
LEMMA UnrenderedGens ==
    ASSUME IInv, NEW s \in Unrendered
    PROVE  /\ s.gen \in Nat /\ s.gen <= scene.entered /\ s.gen <= scene.begun
           /\ scene.begun \in Nat /\ scene.entered \in Nat
  BY DEF IInv, SceneTypeOK, SceneOK, Unrendered, TaBusy

LEMMA OpenInTA ==
    ASSUME IInv, OpenEntered
    PROVE  ta \in Unrendered /\ ta.gen = scene.begun /\ ta.gen \in Nat /\ ~ta.finished
  BY DEF IInv, SceneTypeOK, SceneOK, Unrendered, TaBusy, OpenEntered

LEMMA KeptFrame ==
    ASSUME NEW s, NEW b, Kept(s, b),
           \A t \in Textures : KeptFor(s, t) =>
              /\ KeptFor(s, t)' /\ BlocksOf(tex'[t]) = BlocksOf(tex[t])
              /\ tex'[t].access = tex[t].access
              /\ tex'[t].last_used = tex[t].last_used \/ tex'[t].last_used >= s.gen
    PROVE  Kept(s, b)'
  <1>1. PICK t \in Textures : /\ KeptFor(s, t) /\ b \in BlocksOf(tex[t])
                              /\ tex[t].access # "target" => tex[t].last_used >= s.gen
    BY DEF Kept
  <1>2. /\ KeptFor(s, t)' /\ b \in BlocksOf(tex'[t])
        /\ tex'[t].access # "target" => tex'[t].last_used >= s.gen
    BY <1>1
  <1> QED
    BY <1>2 DEF Kept

LEMMA UseFrame ==
    ASSUME UseOK, status' # "recovered" => status # "recovered", Unrendered' \subseteq Unrendered,
           \A s \in Unrendered : \A t \in Textures : KeptFor(s, t) =>
              /\ KeptFor(s, t)' /\ BlocksOf(tex'[t]) = BlocksOf(tex[t])
              /\ tex'[t].access = tex[t].access
              /\ tex'[t].last_used = tex[t].last_used \/ tex'[t].last_used >= s.gen
    PROVE  UseOK'
  <1> SUFFICES ASSUME status' # "recovered", NEW s \in Unrendered', NEW b \in Use(s) \cap Blocks
               PROVE  Kept(s, b)'
    BY DEF UseOK, Use
  <1>1. s \in Unrendered /\ Kept(s, b)
    BY DEF UseOK
  <1> QED
    BY <1>1, KeptFrame

\* The textures that are kept for a scene are left alone.
SameFor(s) ==
    \A t \in Textures : KeptFor(s, t) =>
        /\ KeptFor(s, t)'
        /\ tex'[t].vram = tex[t].vram /\ tex'[t].vram_next = tex[t].vram_next
        /\ tex'[t].access = tex[t].access /\ tex'[t].last_used = tex[t].last_used

\* A step of the driver that leaves the hardware, the open scene and what is kept alone.
LEMMA DriverUse ==
    ASSUME MemInv, IInv, UseInv, UNCHANGED <<ta, rendering>>, status' = status,
           scene'.active = scene.active, scene'.is_entered = scene.is_entered,
           scene'.kind = scene.kind, scene'.target = scene.target,
           screen'.vram_next = screen.vram_next,
           header' = NoTexture \/ (header' = header /\ header \in Live'),
           \A s \in Unrendered : SameFor(s), CloseOK', torn' => torn
    PROVE  UseInv'
  <1>1. Unrendered' = Unrendered
    BY DEF Unrendered
  <1>2. UseOK'
    BY <1>1, UseFrame DEF UseInv, SameFor, BlocksOf
  <1>3. OpenEntered' = OpenEntered
    BY DEF OpenEntered
  <1>4. DestOK'
    <2> SUFFICES ASSUME OpenEntered PROVE ta.dest = Destination'
      BY <1>3 DEF DestOK
    <2>1. ta.dest = Destination
      BY DEF UseInv, DestOK
    <2>2. ta \in Unrendered /\ ta.gen = scene.begun /\ ta.gen \in Nat
      BY OpenInTA
    <2>3. scene.kind = "target" =>
              scene.target \in Textures /\ Nonabsent(scene.target)
                 /\ (tex[scene.target].state = "retired" => tex[scene.target].retire = scene.begun)
      BY DEF MemInv, TargetOK, OpenEntered
    <2>4. scene.kind = "target" => KeptFor(ta, scene.target)
      BY <2>2, <2>3 DEF KeptFor
    <2>5. scene.kind = "target" => tex'[scene.target].vram_next = tex[scene.target].vram_next
      BY <2>2, <2>3, <2>4 DEF SameFor
    <2> QED
      BY <2>1, <2>5 DEF Destination
  <1>5. NoFeedback'
    BY <1>1 DEF UseInv, NoFeedback
  <1>6. HeaderInForce'
    <2> SUFFICES ASSUME header' # NoTexture
                 PROVE  /\ OpenEntered /\ header \in Live'
                        /\ tex'[header].vram \in ta.fetches /\ tex'[header].last_used = ta.gen
      BY <1>3 DEF HeaderInForce
    <2>1. /\ OpenEntered /\ header \in Live
          /\ tex[header].vram \in ta.fetches /\ tex[header].last_used = ta.gen
      BY DEF UseInv, HeaderInForce
    <2>2. header \in Textures /\ KeptFor(ta, header) /\ ta \in Unrendered
      BY <2>1, OpenInTA DEF KeptFor, Nonabsent, Live
    <2> QED
      BY <2>1, <2>2 DEF SameFor
  <1>7. NeverTorn'
    BY DEF UseInv, NeverTorn
  <1> QED
    BY <1>2, <1>4, <1>5, <1>6, <1>7 DEF UseInv

\* Steps that change of the textures their flags at most keep all that is kept.
LEMMA SameTexturesUse ==
    ASSUME SameTextures, \A t \in Textures : tex'[t].last_used = tex[t].last_used
    PROVE  (\A s \in Unrendered : SameFor(s)) /\ Live' = Live
  BY DEF SameTextures, SameFor, KeptFor, Nonabsent, Live

\* Where the step to close is not the next.
LEMMA NotClosing ==
    ASSUME IInv', "close" \notin In(todo') \/ todo' = <<>>
    PROVE  CloseOK'
  <1>1. In(<<>>) = {}
    BY InShort
  <1>2. todo' \in Seq(StepNames)
    BY DEF IInv, TodoOK, TodoGood
  <1>3. todo' # <<>> => Head(todo') \in In(todo')
    BY <1>2, TailSteps
  <1> QED
    BY <1>1, <1>3 DEF CloseOK, Step

LEMMA GoOnNotClosing ==
    ASSUME MemInv, IInv, IInv', NEW name, Step(name), GoOn, name # "drain"
    PROVE  CloseOK'
  <1>1. todo' = Tail(todo) /\ In(todo) = {name} \cup In(Tail(todo)) /\ name \in In(todo)
    BY TodoSeq DEF GoOn, Proceed
  <1>2. ASSUME "close" \in In(todo) PROVE name = "close"
    <2>1. PICK g \in Groups : In(todo) \subseteq g
      BY DEF MemInv, CallOK, Together
    <2> QED
      BY <1>1, <1>2, <2>1 DEF Groups, Accesses
  <1>3. CASE name = "close"
    <2>1. Tail(todo) = <<>>
      BY <1>3, LastStep DEF EndSteps
    <2> QED
      BY <1>1, <2>1, NotClosing
  <1>4. CASE name # "close"
    BY <1>1, <1>2, <1>4, NotClosing
  <1> QED
    BY <1>3, <1>4

-----------------------------------------------------------------------------
(* What is in use is not touched.                                          *)

LEMMA UntouchedStays ==
    ASSUME NEW blocks, Touch(blocks), \A s \in Unrendered : blocks \cap Use(s) = {}
    PROVE  torn' => torn
  <1>1. blocks \cap InUse(Unrendered) = {}
    BY DEF InUse, Use
  <1> QED
    BY <1>1, Zenon DEF Touch

\* Memory that is retired under a rendered scene is used by no scene that is not.
LEMMA ReclaimUse ==
    ASSUME MemInv, IInv, UseInv, status # "recovered", NEW done \in Nat,
           \A s \in Unrendered : done < s.gen, ReclaimRetired(done)
    PROVE  (\A s \in Unrendered : SameFor(s)) /\ (torn' => torn) /\ Live' = Live
  <1>1. \A t \in Textures : tex'[t] = tex[t] \/ (t \in Reclaimable(done) /\ tex'[t] = Absent)
    BY DEF ReclaimRetired
  <1>2. ASSUME NEW s \in Unrendered, NEW t \in Reclaimable(done) PROVE ~KeptFor(s, t)
    <2>1. t \in Textures /\ tex[t].state = "retired" /\ tex[t].retire <= done /\ done < s.gen
      BY DEF Reclaimable, Retired
    <2>2. tex[t].retire \in Nat /\ s.gen \in Nat
      BY <2>1, UnrenderedGens, BoundAssumption DEF MemInv, TypeOK, Gens
    <2> QED
      BY <2>1, <2>2 DEF KeptFor
  <1>3. \A s \in Unrendered : SameFor(s)
    BY <1>1, <1>2 DEF SameFor, KeptFor, Nonabsent
  <1>4. ASSUME NEW s \in Unrendered, NEW t \in Reclaimable(done), NEW b \in BlocksOf(tex[t]), b \in Use(s)
        PROVE  FALSE
    <2>1. t \in Textures
      BY DEF Reclaimable, Retired
    <2>2. b \in Blocks
      BY <2>1 DEF MemInv, TypeOK, BlocksOf
    <2>3. PICK u \in Textures : KeptFor(s, u) /\ b \in BlocksOf(tex[u])
      BY <1>4, <2>2 DEF UseInv, UseOK, Kept
    <2>4. u = t
      BY <2>1, <2>3 DEF MemInv, Disjoint
    <2> QED
      BY <1>2, <2>3, <2>4
  <1> DEFINE freed == UNION {BlocksOf(tex[t]) : t \in Reclaimable(done)}
  <1>5. Touch(freed)
    BY DEF ReclaimRetired
  <1>6. \A s \in Unrendered : freed \cap Use(s) = {}
    BY <1>4
  <1> HIDE DEF freed
  <1>7. torn' => torn
    BY <1>5, <1>6, UntouchedStays
  <1>8. Live' = Live
    BY <1>1 DEF Live, Reclaimable, Retired, Absent
  <1> QED
    BY <1>3, <1>7, <1>8

LEMMA ReclaimCompletedUse ==
    ASSUME MemInv, IInv, UseInv, status # "recovered", ReclaimCompleted
    PROVE  (\A s \in Unrendered : SameFor(s)) /\ (torn' => torn) /\ Live' = Live
  <1>1. CASE Retired = {}
    <2>1. UNCHANGED <<tex, scene, torn>>
      BY <1>1 DEF ReclaimCompleted
    <2> QED
      BY <2>1, SameTexturesUse, UnchangedTextures
  <1>2. CASE Retired # {}
    <2>1. ReclaimRetired(Completed)
      BY <1>2 DEF ReclaimCompleted
    <2> QED
      BY <2>1, CompletedRight, ReclaimUse
  <1> QED
    BY <1>1, <1>2

-----------------------------------------------------------------------------
(* The invariant is kept: one lemma for each action or group.              *)

\* The step is of a call that goes on, so the renderer is open.
LEMMA StepOpen ==
    ASSUME MemInv, IInv, NEW name, Step(name)
    PROVE  status = "open" /\ todo # <<>> /\ name \in In(todo)
  BY TodoSeq DEF MemInv, CallOK

\* Steps that change of the textures their flags at most.
LEMMA FlagsUse ==
    ASSUME MemInv, IInv, UseInv, UNCHANGED <<ta, rendering>>, status' = status,
           scene'.active = scene.active, scene'.is_entered = scene.is_entered,
           scene'.kind = scene.kind, scene'.target = scene.target, screen' = screen,
           header' = NoTexture \/ header' = header,
           SameTextures, \A t \in Textures : tex'[t].last_used = tex[t].last_used,
           CloseOK', torn' => torn
    PROVE  UseInv'
  <1>1. (\A s \in Unrendered : SameFor(s)) /\ Live' = Live
    BY SameTexturesUse
  <1>2. header # NoTexture => header \in Live'
    BY <1>1 DEF UseInv, HeaderInForce
  <1>3. header' = NoTexture \/ (header' = header /\ header \in Live')
    BY <1>2
  <1> QED
    BY <1>1, <1>3, DriverUse

LEMMA CallsUse ==
    ASSUME MemInv, IInv, IInv', UseInv,
           \/ BeginListAgain \/ RenderPresent \/ DestroyRenderer
           \/ \E t \in Textures : DestroyTexture(t)
           \/ \E t \in Textures, access \in Accesses : CreateWhenFull(t, access)
           \/ \E t \in Textures \cup {NoTexture} : SetRenderTarget(t)
    PROVE  UseInv'
  <1>1. UNCHANGED <<tex, scene, screen, header, ta, rendering, status, torn>>
    BY DEF BeginListAgain, RenderPresent, DestroyRenderer, DestroyTexture, CreateWhenFull,
           SetRenderTarget, Call, driverVars, hwVars
  <1>2. "close" \notin In(todo')
    <2>1. CASE BeginListAgain
      BY <2>1, InShort DEF BeginListAgain, Call
    <2>2. CASE RenderPresent
      BY <2>2, InShort DEF RenderPresent, Call
    <2>3. CASE DestroyRenderer
      BY <2>3, InShort DEF DestroyRenderer, Call
    <2>4. ASSUME NEW t \in Textures, DestroyTexture(t) PROVE "close" \notin In(todo')
      <3>1. todo' = <<"finish", "untarget", "retire">> \/ todo' = <<"retire">>
        BY <2>4 DEF DestroyTexture, Call
      <3> QED
        BY <3>1, InShort
    <2>5. ASSUME NEW t \in Textures, NEW access \in Accesses, CreateWhenFull(t, access)
          PROVE  "close" \notin In(todo')
      <3>1. In(todo') = {"drain", "reclaimdrained", access}
        BY <2>5, InShort DEF CreateWhenFull, Call
      <3> QED
        BY <3>1 DEF Accesses
    <2>6. ASSUME NEW t \in Textures \cup {NoTexture}, SetRenderTarget(t)
          PROVE  "close" \notin In(todo')
      BY <2>6, InShort DEF SetRenderTarget, Call
    <2> QED
      BY <2>1, <2>2, <2>3, <2>4, <2>5, <2>6
  <1> QED
    BY <1>1, <1>2, NotClosing, FlagsUse, UnchangedTextures

LEMMA UpdateTextureUse ==
    ASSUME MemInv, IInv, IInv', UseInv, NEW t \in Textures, UpdateTexture(t) \/ UnlockTexture(t)
    PROVE  UseInv'
  <1>1. SameTextures /\ \A u \in Textures : tex'[u].last_used = tex[u].last_used
    <2>1. tex \in [Textures -> TexRecords]
      BY TypedNow DEF MemInv
    <2>2. CASE UpdateTexture(t)
      BY <2>2 DEF UpdateTexture, SameTextures
    <2>3. CASE UnlockTexture(t)
      <3>1. tex' = [tex EXCEPT ![t].locked = FALSE]
        BY <2>3 DEF UnlockTexture
      <3> QED
        BY <2>1, <3>1 DEF SameTextures, TexRecords
    <2> QED
      BY <2>2, <2>3
  <1>2. /\ WaitTextureIdle(t)
        /\ UNCHANGED <<screen, header, ta, rendering, torn>>
    BY DEF UpdateTexture, UnlockTexture, hwVars
  <1>3. /\ scene'.active = scene.active /\ scene'.is_entered = scene.is_entered
        /\ scene'.kind = scene.kind /\ scene'.target = scene.target
    <2> DEFINE done == IF tex[t].last_used = 0 THEN scene.completed ELSE Completed
    <2>1. scene' = [scene EXCEPT !.completed = done]
      BY <1>2 DEF WaitTextureIdle
    <2> HIDE DEF done
    <2> QED
      BY <2>1 DEF IInv, SceneTypeOK
  <1>4. status' = status /\ (todo' = <<"upload">> \/ todo' = <<"drain", "upload">>)
    BY <1>2 DEF WaitTextureIdle, Call
  <1>5. "close" \notin In(todo')
    BY <1>4, InShort
  <1> QED
    BY <1>1, <1>2, <1>3, <1>4, <1>5, NotClosing, FlagsUse

LEMMA IdleUse ==
    ASSUME MemInv, IInv, IInv', UseInv,
           DropHeader \/ (\E t \in Textures : LockTexture(t)) \/ UNCHANGED vars
    PROVE  UseInv'
  <1>1. /\ UNCHANGED <<scene, screen, ta, rendering, todo, status, torn>>
        /\ header' = NoTexture \/ header' = header
    BY DEF DropHeader, LockTexture, vars, driverVars, callVars, hwVars
  <1>2. SameTextures /\ \A u \in Textures : tex'[u].last_used = tex[u].last_used
    <2>1. tex \in [Textures -> TexRecords]
      BY TypedNow DEF MemInv
    <2>2. ASSUME NEW t \in Textures, LockTexture(t)
          PROVE  SameTextures /\ \A u \in Textures : tex'[u].last_used = tex[u].last_used
      <3>1. tex' = [tex EXCEPT ![t].locked = TRUE] /\ tex[t].access = "streaming"
        BY <2>2 DEF LockTexture
      <3> QED
        BY <2>1, <3>1 DEF SameTextures, TexRecords
    <2>3. CASE UNCHANGED tex
      BY <2>3, UnchangedTextures
    <2> QED
      BY <2>2, <2>3 DEF DropHeader, vars, driverVars
  <1>3. CloseOK'
    BY <1>1 DEF UseInv, CloseOK, Step, Unrendered
  <1> QED
    BY <1>1, <1>2, <1>3, FlagsUse

LEMMA FailuresUse ==
    ASSUME MemInv, IInv, IInv', UseInv, BeginFails \/ FinishFails \/ WaitTimesOut
    PROVE  UseInv'
  <1>1. UNCHANGED <<tex, scene, screen, header, ta, rendering, status, torn>>
    BY DEF BeginFails, FinishFails, WaitTimesOut, Call, Abort, Proceed, driverVars, hwVars
  <1>2. todo' = <<>> \/ todo' = <<"abandon">>
    BY DEF BeginFails, FinishFails, WaitTimesOut, Call, Abort, Proceed
  <1>3. CloseOK'
    BY <1>2, InShort, NotClosing
  <1> QED
    BY <1>1, <1>3, FlagsUse, UnchangedTextures

LEMMA SwitchTargetUse == ASSUME MemInv, IInv, IInv', UseInv, SwitchTarget PROVE UseInv'
  <1>1. /\ UNCHANGED <<tex, scene, screen, ta, rendering, status, torn>> /\ header' = NoTexture
        /\ GoOn
    BY DEF SwitchTarget, GoOn, Proceed, hwVars
  <1>2. PICK name \in {"retarget", "untarget"} : Step(name)
    BY DEF SwitchTarget
  <1>3. CloseOK'
    BY <1>1, <1>2, GoOnNotClosing
  <1> QED
    BY <1>1, <1>3, FlagsUse, UnchangedTextures

LEMMA ReclaimStepUse == ASSUME MemInv, IInv, IInv', UseInv, Reclaim \/ Presented PROVE UseInv'
  <1>1. /\ ReclaimCompleted /\ GoOn /\ UNCHANGED <<header, ta, rendering>> /\ status' = status
        /\ screen' = screen \/ screen' = [screen EXCEPT !.valid = FALSE]
    BY DEF Reclaim, Presented, GoOn, Proceed, hwVars
  <1>2. PICK name \in {"reclaim", "presented"} : Step(name)
    BY DEF Reclaim, Presented
  <1>3. status # "recovered"
    BY <1>2, StepOpen
  <1>4. (\A s \in Unrendered : SameFor(s)) /\ (torn' => torn) /\ Live' = Live
    BY <1>1, <1>3, ReclaimCompletedUse
  <1>5. /\ scene'.active = scene.active /\ scene'.kind = scene.kind
        /\ scene'.target = scene.target /\ scene'.is_entered = scene.is_entered
    BY <1>1, ReclaimCompletedMem
  <1>6. screen'.vram_next = screen.vram_next
    BY <1>1 DEF MemInv, TypeOK
  <1>7. CloseOK'
    BY <1>1, <1>2, GoOnNotClosing
  <1>8. header' = NoTexture \/ (header' = header /\ header \in Live')
    BY <1>1, <1>4 DEF UseInv, HeaderInForce
  <1> QED
    BY <1>1, <1>4, <1>5, <1>6, <1>7, <1>8, DriverUse

LEMMA ReclaimForAllocationUse ==
    ASSUME MemInv, IInv, IInv', UseInv, ReclaimForAllocation
    PROVE  UseInv'
  <1>1. /\ ReclaimRetired(scene.completed) /\ GoOn /\ Step("reclaimdrained") /\ status' = status
        /\ UNCHANGED <<scene, screen, header, ta, rendering>>
    BY DEF ReclaimForAllocation, GoOn, Proceed, hwVars
  <1>2. status # "recovered"
    BY <1>1, StepOpen
  <1>3. scene.completed \in Nat /\ \A s \in Unrendered : scene.completed < s.gen
    BY DEF IInv, SceneTypeOK, SceneOK, ProvenIsRendered
  <1>4. (\A s \in Unrendered : SameFor(s)) /\ (torn' => torn) /\ Live' = Live
    BY <1>1, <1>2, <1>3, ReclaimUse
  <1>5. CloseOK'
    BY <1>1, GoOnNotClosing
  <1>6. header' = NoTexture \/ (header' = header /\ header \in Live')
    BY <1>1, <1>4 DEF UseInv, HeaderInForce
  <1> QED
    BY <1>1, <1>4, <1>5, <1>6, DriverUse

\* A streaming texture is uploaded to when no scene that is not rendered samples it.
LEMMA UploadUse == ASSUME MemInv, IInv, IInv', UseInv, Upload PROVE UseInv'
  <1>1. /\ GoOn /\ Step("upload") /\ status' = status
        /\ UNCHANGED <<scene, screen, header, ta, rendering>>
    BY DEF Upload, GoOn, Proceed, hwVars
  <1>2. /\ status # "recovered" /\ arg \in Live /\ arg \in Textures
        /\ tex[arg].access = "streaming"
    BY <1>1, StepOpen DEF MemInv, CallOK, Live
  <1>3. tex \in [Textures -> TexRecords]
    BY TypedNow DEF MemInv
  <1>4. SameTextures /\ \A u \in Textures : tex'[u].last_used = tex[u].last_used
    <2>1. CASE tex' = [tex EXCEPT ![arg].filled = TRUE]
      BY <1>2, <1>3, <2>1 DEF SameTextures, TexRecords
    <2>2. CASE UNCHANGED tex
      BY <2>2, UnchangedTextures
    <2> QED
      BY <2>1, <2>2 DEF Upload
  <1>5. torn' => torn
    <2>1. CASE tex[arg].last_used <= scene.completed
      <3> DEFINE blocks == {tex[arg].vram}
      <3>1. Touch(blocks)
        BY <2>1 DEF Upload
      <3>2. ASSUME NEW s \in Unrendered, tex[arg].vram \in Use(s) PROVE FALSE
        <4>1. tex[arg].vram \in Blocks /\ tex[arg].vram \in BlocksOf(tex[arg])
          BY <1>2, NoneAssumption DEF MemInv, TexOK, Live, Nonabsent, BlocksOf
        <4>2. PICK u \in Textures :
                  /\ tex[arg].vram \in BlocksOf(tex[u])
                  /\ tex[u].access # "target" => tex[u].last_used >= s.gen
          BY <1>2, <3>2, <4>1 DEF UseInv, UseOK, Kept
        <4>3. u = arg
          BY <1>2, <4>1, <4>2 DEF MemInv, Disjoint
        <4>4. scene.completed < s.gen /\ s.gen \in Nat /\ scene.completed \in Nat
              /\ tex[arg].last_used \in Nat
          BY <1>2, UnrenderedGens, BoundAssumption
             DEF IInv, SceneTypeOK, SceneOK, ProvenIsRendered, MemInv, TypeOK, Gens
        <4> QED
          BY <1>2, <2>1, <4>2, <4>3, <4>4
      <3>3. \A s \in Unrendered : blocks \cap Use(s) = {}
        BY <3>2
      <3> HIDE DEF blocks
      <3> QED
        BY <3>1, <3>3, UntouchedStays
    <2>2. CASE ~(tex[arg].last_used <= scene.completed)
      BY <2>2 DEF Upload
    <2> QED
      BY <2>1, <2>2
  <1>6. CloseOK'
    BY <1>1, GoOnNotClosing
  <1> QED
    BY <1>1, <1>4, <1>5, <1>6, FlagsUse

\* A texture is retired under the number of the last scene that can use it.
LEMMA RetiringUse ==
    ASSUME MemInv, IInv, NEW t \in Live, tex' = Retirement(t)
    PROVE  \A s \in Unrendered : SameFor(s)
  <1>1. /\ tex'[t].state = "retired" /\ tex'[t].retire = scene.begun
        /\ \A u \in Textures : u # t => tex'[u] = tex[u]
        /\ \A u \in Textures :
              /\ tex'[u].access = tex[u].access /\ tex'[u].last_used = tex[u].last_used
              /\ Nonabsent(u)' = Nonabsent(u)
              /\ tex'[u].vram = tex[u].vram /\ tex'[u].vram_next = tex[u].vram_next
    BY Retiring
  <1>2. \A s \in Unrendered : scene.begun >= s.gen
    BY UnrenderedGens
  <1>3. ASSUME NEW s \in Unrendered, NEW u \in Textures, KeptFor(s, u) PROVE KeptFor(s, u)'
    <2>1. CASE u = t
      BY <1>1, <1>2, <1>3, <2>1 DEF KeptFor
    <2>2. CASE u # t
      BY <1>1, <1>3, <2>2 DEF KeptFor, Nonabsent
    <2> QED
      BY <2>1, <2>2
  <1> QED
    BY <1>1, <1>3 DEF SameFor

LEMMA RetireTextureUse == ASSUME MemInv, IInv, IInv', UseInv, RetireTexture PROVE UseInv'
  <1>1. /\ Step("retire") /\ tex' = Retirement(arg) /\ status' = status
        /\ header' = IF header = arg THEN NoTexture ELSE header
        /\ todo' = <<"reclaim">> \o Tail(todo)
        /\ UNCHANGED <<scene, screen, ta, rendering, torn>>
    BY DEF RetireTexture, Proceed, hwVars
  <1>2. In(todo) = {"retire"} /\ todo' = <<"reclaim">>
    BY <1>1, LastStep, StepNamed
  <1>3. arg \in Live
    BY <1>2 DEF MemInv, CallOK
  <1>4. (\A s \in Unrendered : SameFor(s)) /\ Live' = Live \ {arg}
    BY <1>1, <1>3, RetiringUse, Retiring
  <1>5. header' = NoTexture \/ (header' = header /\ header \in Live')
    BY <1>1, <1>4 DEF UseInv, HeaderInForce
  <1>6. CloseOK'
    BY <1>2, InShort, NotClosing
  <1> QED
    BY <1>1, <1>4, <1>5, <1>6, DriverUse

LEMMA RetireAllUse == ASSUME MemInv, IInv, IInv', UseInv, RetireAll PROVE UseInv'
  <1>1. /\ Step("retireall") /\ UNCHANGED <<status, scene, screen, ta, rendering, torn>>
    BY DEF RetireAll, hwVars
  <1>2. <<"reclaim">> \o todo = <<"reclaim", "retireall">>
    BY <1>1, LastStep, StepNamed DEF EndSteps
  <1>3. CASE Live = {}
    <2>1. todo' = <<"finishlast">> /\ UNCHANGED <<tex, header>>
      BY <1>3 DEF RetireAll
    <2>2. CloseOK'
      BY <2>1, InShort, NotClosing
    <2> QED
      BY <1>1, <2>1, <2>2, FlagsUse, UnchangedTextures
  <1>4. CASE Live # {}
    <2>1. PICK t \in Live : /\ tex' = Retirement(t)
                            /\ header' = IF header = t THEN NoTexture ELSE header
                            /\ todo' = <<"reclaim">> \o todo
      BY <1>4 DEF RetireAll
    <2>2. (\A s \in Unrendered : SameFor(s)) /\ Live' = Live \ {t}
      BY <2>1, RetiringUse, Retiring
    <2>3. header' = NoTexture \/ (header' = header /\ header \in Live')
      BY <2>1, <2>2 DEF UseInv, HeaderInForce
    <2>4. CloseOK'
      <3>1. todo' = <<"reclaim", "retireall">>
        BY <1>2, <2>1
      <3>2. In(todo') = {"reclaim", "retireall"}
        BY <3>1, InShort
      <3> QED
        BY <3>2, NotClosing
    <2> QED
      BY <1>1, <2>2, <2>3, <2>4, DriverUse
  <1> QED
    BY <1>3, <1>4

\* The wait before the renderer closes covers all scenes.
LEMMA WaitScenesCompleteUse ==
    ASSUME MemInv, IInv, IInv', UseInv, WaitScenesComplete PROVE UseInv'
  <1> DEFINE done == IF OpenEntered THEN scene.entered - 1 ELSE scene.entered
             learned == IF done > scene.completed THEN done ELSE scene.completed
  <1>1. /\ Step("drain") /\ Drained /\ GoOn /\ status' = status
        /\ UNCHANGED <<tex, screen, header, ta, rendering, torn>>
        /\ scene' = [scene EXCEPT !.completed = learned]
    BY DEF WaitScenesComplete, GoOn, Proceed, hwVars
  <1> HIDE DEF learned
  <1>2. /\ scene'.active = scene.active /\ scene'.is_entered = scene.is_entered
        /\ scene'.kind = scene.kind /\ scene'.target = scene.target
    BY <1>1 DEF IInv, SceneTypeOK
  <1>3. CloseOK'
    <2>1. CASE "close" \in In(todo)
      <3>1. ~scene.active
        BY <2>1 DEF MemInv, CallOK
      <3>2. Unrendered = {}
        BY <1>1, <3>1 DEF IInv, SceneTypeOK, SceneOK, Drained, OpenEntered, Unrendered, TaBusy
      <3> QED
        BY <1>1, <3>2 DEF CloseOK, Unrendered
    <2>2. CASE "close" \notin In(todo)
      <3>1. In(todo') \subseteq In(todo)
        BY <1>1, TodoSeq DEF GoOn, Proceed
      <3> QED
        BY <2>2, <3>1, NotClosing
    <2> QED
      BY <2>1, <2>2
  <1> QED
    BY <1>1, <1>2, <1>3, FlagsUse, UnchangedTextures

LEMMA BeginSceneUse == ASSUME MemInv, IInv, IInv', UseInv, BeginScene PROVE UseInv'
  <1>1. /\ UNCHANGED <<tex, ta, rendering, torn>> /\ header' = NoTexture /\ status' = status
        /\ todo' = <<"list">>
    BY DEF BeginScene, Call, hwVars
  <1>2. ~OpenEntered'
    <2> DEFINE n == scene.begun + 1
               kind == IF target = NoTexture THEN "screen" ELSE "target"
    <2>1. scene' = [scene EXCEPT !.begun = n, !.active = TRUE, !.is_entered = FALSE,
                                 !.kind = kind, !.target = target]
      BY DEF BeginScene
    <2> HIDE DEF n, kind
    <2> QED
      BY <2>1 DEF OpenEntered, IInv, SceneTypeOK
  <1>3. Unrendered' = Unrendered
    BY <1>1 DEF Unrendered
  <1>4. UseOK'
    BY <1>1, <1>3, UseFrame DEF UseInv, KeptFor, Nonabsent
  <1>5. CloseOK'
    BY <1>1, InShort, NotClosing
  <1> QED
    BY <1>1, <1>2, <1>3, <1>4, <1>5
       DEF UseInv, DestOK, NoFeedback, HeaderInForce, NeverTorn

\* The destination of the open scene, and what is copied into it, are kept for it.
LEMMA DestinationKept ==
    ASSUME MemInv, IInv, scene.active
    PROVE  /\ Destination \notin Seed
           /\ \A s : s.gen <= scene.begun => \A b \in (Seed \cup {Destination}) \cap Blocks : Kept(s, b)
  <1>1. CASE scene.kind = "target"
    <2> DEFINE t == scene.target
    <2>1. /\ t \in Textures /\ Nonabsent(t) /\ tex[t].access = "target"
          /\ tex[t].state = "retired" => tex[t].retire = scene.begun
      BY <1>1 DEF MemInv, TargetOK
    <2>2. /\ tex[t].vram \in Blocks /\ tex[t].vram_next \in Blocks
          /\ tex[t].vram # tex[t].vram_next
      BY <2>1 DEF MemInv, TexOK
    <2>3. Destination = tex[t].vram_next /\ Seed \subseteq {tex[t].vram}
      BY <1>1 DEF Destination, Seed
    <2>4. {tex[t].vram, tex[t].vram_next} \subseteq BlocksOf(tex[t])
      BY <2>2, NoneAssumption DEF BlocksOf
    <2> HIDE DEF t
    <2>5. ASSUME NEW s, s.gen <= scene.begun, NEW b \in (Seed \cup {Destination}) \cap Blocks
          PROVE  Kept(s, b)
      <3>1. b \in BlocksOf(tex[t])
        BY <2>3, <2>4
      <3>2. tex[t].state = "retired" => tex[t].retire >= s.gen
        BY <2>1, <2>5
      <3> QED
        BY <2>1, <3>1, <3>2 DEF Kept, KeptFor
    <2> QED
      BY <2>2, <2>3, <2>5
  <1>2. CASE scene.kind = "screen"
    BY <1>2, ScreensAssumption DEF Destination, Seed, MemInv, ScreenOK, TypeOK
  <1>3. CASE scene.kind \notin {"target", "screen"}
    BY <1>3, NoneAssumption DEF Destination, Seed
  <1> QED
    BY <1>1, <1>2, <1>3

LEMMA BeginListUse == ASSUME MemInv, IInv, IInv', UseInv, BeginList \/ SeedFails PROVE UseInv'
  <1>1. /\ Step("list") /\ header' = NoTexture /\ status' = status
        /\ scene' = [scene EXCEPT !.is_entered = TRUE, !.entered = scene.begun]
        /\ todo' = <<"reclaim">> \/ todo' = <<>>
        /\ UNCHANGED <<tex, screen, rendering, torn>>
    BY ListEntered
  <1> PICK fetches \in {{}, Seed} : EnterTA(fetches, FALSE)
    BY ListEntered
  <1>2. scene.active /\ scene.begun \in Nat
    BY <1>1, AtStep DEF IInv, TodoOK, TodoGood, SceneTypeOK
  <1>3. ta'.gen = scene.begun /\ ta'.fetches \subseteq Seed /\ ta'.dest = Destination
    BY DEF EnterTA
  <1>4. Unrendered' \subseteq {ta'} \cup Unrendered
    BY <1>1 DEF Unrendered
  <1>5. Use(ta') \subseteq Seed \cup {Destination}
    BY <1>3 DEF Use
  <1>6. ta'.dest \notin ta'.fetches
    BY <1>2, <1>3, DestinationKept
  <1>7. \A s, b : Kept(s, b) => Kept(s, b)'
    BY <1>1 DEF Kept, KeptFor, Nonabsent
  <1>8. UseOK'
    <2> SUFFICES ASSUME status' # "recovered", NEW s \in Unrendered', NEW b \in Use(s) \cap Blocks
                 PROVE  Kept(s, b)
      BY <1>7 DEF UseOK, Use
    <2>1. CASE s = ta'
      <3>1. s.gen <= scene.begun /\ Use(s) \subseteq Seed \cup {Destination}
        BY <1>2, <1>3, <1>5, <2>1
      <3> QED
        BY <1>2, <3>1, DestinationKept
    <2>2. CASE s \in Unrendered
      BY <1>1, <2>2 DEF UseInv, UseOK
    <2> QED
      BY <1>4, <2>1, <2>2
  <1>9. Destination' = Destination
    BY <1>1 DEF Destination, IInv, SceneTypeOK
  <1>10. DestOK' /\ NoFeedback' /\ HeaderInForce'
    BY <1>1, <1>3, <1>4, <1>6, <1>9 DEF DestOK, NoFeedback, HeaderInForce, UseInv
  <1>11. CloseOK'
    BY <1>1, InShort, NotClosing
  <1> QED
    BY <1>1, <1>8, <1>10, <1>11 DEF UseInv, NeverTorn

\* What is drawn is kept for the open scene, and is not its destination.
LEMMA DrawTextureUse ==
    ASSUME MemInv, IInv, IInv', UseInv, NEW t \in Textures, DrawTexture(t)
    PROVE  UseInv'
  <1>1. /\ OpenEntered /\ t \in Live /\ todo = <<>> /\ todo' = todo /\ status' = status /\ header' = t
        /\ tex' = [tex EXCEPT ![t].referenced = TRUE, ![t].last_used = scene.begun]
        /\ ta' = [ta EXCEPT !.fetches = @ \cup {tex[t].vram}]
        /\ UNCHANGED <<scene, screen, rendering, torn>>
    BY DEF DrawTexture, Idle, callVars
  <1>2. tex \in [Textures -> TexRecords] /\ ta \in SceneRecords
    BY TypedNow DEF MemInv, TypeOK
  <1>3. /\ ta'.gen = ta.gen /\ ta'.dest = ta.dest /\ ta'.fetches = ta.fetches \cup {tex[t].vram}
    BY <1>1, <1>2 DEF SceneRecords
  <1>4. /\ \A u \in Textures : u # t => tex'[u] = tex[u]
        /\ tex'[t].state = tex[t].state /\ tex'[t].access = tex[t].access
        /\ tex'[t].vram = tex[t].vram /\ tex'[t].vram_next = tex[t].vram_next
        /\ tex'[t].retire = tex[t].retire /\ tex'[t].last_used = scene.begun
    BY <1>1, <1>2 DEF TexRecords
  <1>5. /\ ta \in Unrendered /\ ta.gen = scene.begun /\ ta.gen \in Nat
        /\ \A s \in Unrendered : scene.begun >= s.gen
    BY <1>1, OpenInTA, UnrenderedGens
  <1>6. \A u \in Textures : BlocksOf(tex'[u]) = BlocksOf(tex[u])
    BY <1>4 DEF BlocksOf
  <1>7. ASSUME NEW s \in Unrendered, NEW b, Kept(s, b) PROVE Kept(s, b)'
    <2>1. \A u \in Textures : KeptFor(s, u) =>
              /\ KeptFor(s, u)' /\ BlocksOf(tex'[u]) = BlocksOf(tex[u])
              /\ tex'[u].access = tex[u].access
              /\ tex'[u].last_used = tex[u].last_used \/ tex'[u].last_used >= s.gen
      BY <1>4, <1>5, <1>6 DEF KeptFor, Nonabsent
    <2> QED
      BY <1>7, <2>1, KeptFrame
  <1>8. \A r, s, b : r.gen = s.gen /\ Kept(s, b)' => Kept(r, b)'
    BY DEF Kept, KeptFor
  <1>9. ASSUME NEW s, NEW b, s.gen = ta.gen, b = tex[t].vram PROVE Kept(s, b)'
    <2>1. b \in BlocksOf(tex'[t])
      BY <1>1, <1>6, <1>9, NoneAssumption DEF MemInv, TexOK, Live, Nonabsent, BlocksOf
    <2>2. KeptFor(s, t)' /\ tex'[t].last_used >= s.gen
      BY <1>1, <1>3, <1>4, <1>5, <1>9 DEF KeptFor, Nonabsent, Live
    <2> QED
      BY <2>1, <2>2 DEF Kept
  <1>10. Unrendered' \subseteq {ta'} \cup Unrendered
    BY <1>1 DEF Unrendered
  <1>11. UseOK'
    <2> SUFFICES ASSUME status' # "recovered", NEW s \in Unrendered', NEW b \in Use(s) \cap Blocks
                 PROVE  Kept(s, b)'
      BY DEF UseOK, Use
    <2>1. CASE s \in Unrendered
      BY <1>1, <1>7, <2>1 DEF UseInv, UseOK
    <2>2. CASE s = ta'
      <3>1. CASE b = tex[t].vram
        BY <1>3, <1>9, <2>2, <3>1
      <3>2. CASE b # tex[t].vram
        <4>1. b \in Use(ta)
          BY <1>3, <2>2, <3>2 DEF Use
        <4>2. Kept(ta, b)
          BY <1>1, <1>5, <4>1 DEF UseInv, UseOK
        <4>3. \E r \in Unrendered : r.gen = ta.gen /\ Kept(r, b)'
          BY <1>5, <1>7, <4>2
        <4> QED
          BY <1>3, <1>8, <2>2, <4>3
      <3> QED
        BY <3>1, <3>2
    <2> QED
      BY <1>10, <2>1, <2>2
  <1>12. tex[t].vram # Destination
    <2>1. tex[t].vram \in Blocks /\ tex[t].vram # tex[t].vram_next
      BY <1>1 DEF MemInv, TexOK, Live, Nonabsent
    <2>2. CASE scene.kind = "target"
      <3>1. scene.target \in Textures /\ Nonabsent(scene.target) /\ tex[scene.target].access = "target"
        BY <1>1, <2>2 DEF MemInv, TargetOK, OpenEntered
      <3>2. Destination = tex[scene.target].vram_next /\ Destination \in Blocks
        BY <2>2, <3>1 DEF Destination, MemInv, TexOK
      <3>3. CASE scene.target = t
        BY <2>1, <3>2, <3>3
      <3>4. CASE scene.target # t
        <4>1. Destination \in BlocksOf(tex[scene.target]) /\ tex[t].vram \in BlocksOf(tex[t])
          BY <2>1, <3>2, NoneAssumption DEF BlocksOf
        <4> QED
          BY <3>1, <3>4, <4>1 DEF MemInv, Disjoint
      <3> QED
        BY <3>3, <3>4
    <2>3. CASE scene.kind # "target"
      BY <2>1, <2>3, ScreensAssumption, NoneAssumption DEF Destination, MemInv, TypeOK
    <2> QED
      BY <2>2, <2>3
  <1>13. NoFeedback'
    <2>1. ta.dest = Destination /\ ta.dest \notin ta.fetches
      BY <1>1, <1>5 DEF UseInv, DestOK, NoFeedback
    <2>2. ta'.dest \notin ta'.fetches
      BY <1>3, <1>12, <2>1
    <2> QED
      BY <1>10, <2>2 DEF UseInv, NoFeedback
  <1>14. DestOK'
    <2>1. Destination' = Destination
      <3>1. scene.kind = "target" => scene.target \in Textures
        BY <1>1 DEF MemInv, TargetOK, OpenEntered
      <3>2. scene.kind = "target" => tex'[scene.target].vram_next = tex[scene.target].vram_next
        BY <1>4, <3>1
      <3> QED
        BY <1>1, <3>2 DEF Destination
    <2> QED
      BY <1>1, <1>3, <2>1 DEF UseInv, DestOK, OpenEntered
  <1>15. HeaderInForce'
    BY <1>1, <1>3, <1>4, <1>5 DEF HeaderInForce, OpenEntered, Live
  <1>16. CloseOK'
    BY <1>1, NotClosing
  <1> QED
    BY <1>1, <1>11, <1>13, <1>14, <1>15, <1>16 DEF UseInv, NeverTorn

LEMMA PresentScreenUse == ASSUME MemInv, IInv, IInv', UseInv, PresentScreen PROVE UseInv'
  <1> DEFINE n == scene.begun + 1
  <1>1. /\ Step("present") /\ GoOn /\ header' = NoTexture /\ status' = status
        /\ UNCHANGED <<tex, screen, rendering, torn>>
        /\ scene' = [scene EXCEPT !.begun = n, !.active = TRUE, !.is_entered = TRUE,
                                  !.entered = n, !.kind = "physical"]
        /\ ta' = [gen |-> n, fetches |-> IF screen.valid THEN {screen.vram} ELSE {},
                  dest |-> NoBlock, kind |-> "physical", finished |-> FALSE]
    BY DEF PresentScreen, GoOn, Proceed
  <1> HIDE DEF n
  <1>2. screen.vram \in Screens
    BY DEF MemInv, TypeOK
  <1>3. Use(ta') \cap Blocks = {} /\ ta'.dest = NoBlock /\ ta'.dest \notin ta'.fetches
    BY <1>1, <1>2, ScreensAssumption, NoneAssumption DEF Use
  <1>4. Unrendered' \subseteq {ta'} \cup Unrendered
    BY <1>1 DEF Unrendered
  <1>5. \A s, b : Kept(s, b) => Kept(s, b)'
    BY <1>1 DEF Kept, KeptFor, Nonabsent
  <1>6. UseOK'
    <2> SUFFICES ASSUME status' # "recovered", NEW s \in Unrendered', NEW b \in Use(s) \cap Blocks
                 PROVE  Kept(s, b)
      BY <1>5 DEF UseOK, Use
    <2> QED
      BY <1>1, <1>3, <1>4 DEF UseInv, UseOK
  <1>7. Destination' = NoBlock
    <2>1. scene'.kind = "physical"
      BY <1>1 DEF IInv, SceneTypeOK
    <2> QED
      BY <2>1 DEF Destination
  <1>8. DestOK' /\ NoFeedback' /\ HeaderInForce'
    BY <1>1, <1>3, <1>4, <1>7 DEF DestOK, NoFeedback, HeaderInForce, UseInv
  <1>9. CloseOK'
    BY <1>1, GoOnNotClosing
  <1> QED
    BY <1>1, <1>6, <1>8, <1>9 DEF UseInv, NeverTorn

\* The open scene is finished: it uses what it used, or, when it had no list, its
\* destination only.
LEMMA FinishedUse ==
    ASSUME MemInv, IInv, UseInv, scene.active, status = "open", UNCHANGED rendering,
           IF scene.is_entered THEN ta' = [ta EXCEPT !.finished = TRUE] ELSE EnterTA({}, TRUE)
    PROVE  /\ ta'.dest \notin ta'.fetches
           /\ \A b \in Use(ta') \cap Blocks : Kept(ta', b)
           /\ Unrendered' \subseteq {ta'} \cup Unrendered
           /\ ta'.gen = scene.begun /\ scene.begun \in Nat
  <1>1. Unrendered' \subseteq {ta'} \cup Unrendered
    BY DEF Unrendered
  <1>2. scene.begun \in Nat
    BY DEF IInv, SceneTypeOK
  <1>3. CASE scene.is_entered
    <2>1. /\ ta \in Unrendered /\ ta.gen = scene.begun /\ ta \in SceneRecords
      BY <1>3, OpenInTA DEF OpenEntered, MemInv, TypeOK
    <2>2. ta'.gen = ta.gen /\ ta'.dest = ta.dest /\ ta'.fetches = ta.fetches
      BY <1>3, <2>1 DEF SceneRecords
    <2>3. \A b \in Use(ta) \cap Blocks : Kept(ta, b)
      BY <2>1 DEF UseInv, UseOK
    <2>4. \A b : Kept(ta, b) => Kept(ta', b)
      BY <2>2 DEF Kept, KeptFor
    <2>5. Use(ta') = Use(ta)
      BY <2>2 DEF Use
    <2>6. ta.dest \notin ta.fetches
      BY <2>1 DEF UseInv, NoFeedback
    <2> QED
      BY <1>1, <1>2, <2>1, <2>2, <2>3, <2>4, <2>5, <2>6
  <1>4. CASE ~scene.is_entered
    <2>1. ta'.gen = scene.begun /\ ta'.dest = Destination /\ ta'.fetches = {}
      BY <1>4 DEF EnterTA
    <2>2. Use(ta') = {Destination} /\ ta'.gen <= scene.begun
      BY <1>2, <2>1 DEF Use
    <2>3. \A b \in Use(ta') \cap Blocks : Kept(ta', b)
      BY <2>2, DestinationKept
    <2> QED
      BY <1>1, <1>2, <2>1, <2>3
  <1> QED
    BY <1>3, <1>4

LEMMA FinishActiveSceneUse == ASSUME MemInv, IInv, IInv', UseInv, FinishActiveScene PROVE UseInv'
  <1>1. Step("finish") /\ UNCHANGED <<rendering, torn>> /\ status' = status
    BY DEF FinishActiveScene, GoOn, Proceed
  <1>2. status = "open" /\ todo # <<>> /\ "finish" \in In(todo)
    BY <1>1, StepOpen
  <1>3. CASE ~scene.active
    <2>1. GoOn /\ UNCHANGED <<tex, scene, screen, header, ta>>
      BY <1>3 DEF FinishActiveScene
    <2>2. CloseOK'
      BY <1>1, <2>1, GoOnNotClosing
    <2> QED
      BY <1>1, <2>1, <2>2, FlagsUse, UnchangedTextures
  <1>4. CASE scene.active
    <2>1. /\ IF scene.is_entered THEN ta' = [ta EXCEPT !.finished = TRUE]
                                 ELSE EnterTA({}, TRUE)
          /\ tex' = Unreferenced(IF scene.kind = "target"
                                 THEN [tex EXCEPT ![scene.target] = Swapped(@)] ELSE tex)
          /\ scene' = [scene EXCEPT !.active = FALSE, !.is_entered = TRUE,
                                    !.entered = scene.begun,
                                    !.kind = "none", !.target = NoTexture]
          /\ header' = NoTexture /\ todo' = <<"reclaim">> \o Tail(todo)
      BY <1>4 DEF FinishActiveScene, Proceed
    <2>2. ~OpenEntered'
      BY <2>1 DEF OpenEntered, IInv, SceneTypeOK
    <2>3. /\ ta'.dest \notin ta'.fetches
          /\ \A b \in Use(ta') \cap Blocks : Kept(ta', b)
          /\ Unrendered' \subseteq {ta'} \cup Unrendered
      BY <1>1, <1>2, <1>4, <2>1, FinishedUse
    <2>4. scene.kind = "target" =>
              scene.target \in Textures /\ Nonabsent(scene.target) /\ tex[scene.target].access = "target"
      BY <1>4 DEF MemInv, TargetOK
    <2>5. \A t \in Textures :
              /\ tex'[t].state = tex[t].state /\ tex'[t].access = tex[t].access
              /\ tex'[t].retire = tex[t].retire /\ tex'[t].last_used = tex[t].last_used
              /\ BlocksOf(tex'[t]) = BlocksOf(tex[t])
      BY <2>1, <2>4, FinishedTextures
    <2>6. UseOK'
      <3> SUFFICES ASSUME status' # "recovered", NEW s \in Unrendered', NEW b \in Use(s) \cap Blocks
                   PROVE  Kept(s, b)'
        BY DEF UseOK, Use
      <3>1. Kept(s, b)
        BY <1>1, <2>3 DEF UseInv, UseOK
      <3> QED
        BY <2>5, <3>1, KeptFrame DEF KeptFor, Nonabsent
    <2>7. CloseOK'
      <3>1. PICK g \in Groups : In(todo) \subseteq g
        BY DEF MemInv, CallOK, Together
      <3>2. "close" \notin g
        BY <1>2, <3>1 DEF Groups, Accesses
      <3>3. todo \in Seq(StepNames) /\ todo # <<>> /\ In(todo) = {"finish"} \cup In(Tail(todo))
        BY <1>1, TodoSeq
      <3>4. In(todo') = {"reclaim"} \cup In(Tail(todo))
        BY <2>1, <3>3, ReclaimNext DEF MemInv, CallOK
      <3>5. "close" \notin In(todo')
        BY <3>1, <3>2, <3>3, <3>4
      <3> QED
        BY <3>5, NotClosing
    <2> QED
      BY <1>1, <2>1, <2>2, <2>3, <2>6, <2>7
         DEF UseInv, DestOK, NoFeedback, HeaderInForce, NeverTorn
  <1> QED
    BY <1>3, <1>4

LEMMA FinishLastSceneUse == ASSUME MemInv, IInv, IInv', UseInv, FinishLastScene PROVE UseInv'
  <1>1. /\ Step("finishlast") /\ UNCHANGED <<status, tex, screen, header, rendering, torn>>
        /\ todo' = IF pvr_failed THEN <<"abandon">> ELSE <<"drain", "close">>
    BY DEF FinishLastScene
  <1>2. status = "open" /\ "finishlast" \in In(todo)
    BY <1>1, StepOpen
  <1>3. header = NoTexture
    BY <1>2 DEF MemInv, CallOK, UseInv, HeaderInForce
  <1>4. CloseOK'
    BY <1>1 DEF CloseOK, Step
  <1>5. CASE ~scene.active
    <2>1. UNCHANGED <<ta, scene>>
      BY <1>5 DEF FinishLastScene
    <2> QED
      BY <1>1, <1>4, <2>1, FlagsUse, UnchangedTextures
  <1>6. CASE scene.active
    <2>1. /\ IF scene.is_entered THEN ta' = [ta EXCEPT !.finished = TRUE]
                                 ELSE EnterTA({}, TRUE)
          /\ scene' = [scene EXCEPT !.active = FALSE, !.is_entered = TRUE,
                                    !.entered = scene.begun]
      BY <1>6 DEF FinishLastScene
    <2>2. ~OpenEntered'
      BY <2>1 DEF OpenEntered, IInv, SceneTypeOK
    <2>3. /\ ta'.dest \notin ta'.fetches
          /\ \A b \in Use(ta') \cap Blocks : Kept(ta', b)
          /\ Unrendered' \subseteq {ta'} \cup Unrendered
      BY <1>1, <1>2, <1>6, <2>1, FinishedUse
    <2>4. UseOK'
      <3> SUFFICES ASSUME status' # "recovered", NEW s \in Unrendered', NEW b \in Use(s) \cap Blocks
                   PROVE  Kept(s, b)'
        BY DEF UseOK, Use
      <3>1. Kept(s, b)
        BY <1>1, <2>3 DEF UseInv, UseOK
      <3> QED
        BY <1>1, <3>1, KeptFrame DEF KeptFor, Nonabsent
    <2> QED
      BY <1>1, <1>3, <1>4, <2>2, <2>3, <2>4
         DEF UseInv, DestOK, NoFeedback, HeaderInForce, NeverTorn
  <1> QED
    BY <1>5, <1>6

\* The renderer closes when all is rendered, or recovers from a failed wait.
LEMMA CloseUse == ASSUME MemInv, IInv, IInv', UseInv, Close PROVE UseInv'
  <1> DEFINE blocks == Screens \cup UNION {BlocksOf(tex[t]) : t \in Textures}
  <1>1. /\ Step("close") \/ Step("abandon")
        /\ status' = IF Step("close") THEN "destroyed" ELSE "recovered"
        /\ Touch(blocks) /\ todo' = <<>>
        /\ UNCHANGED <<scene, header, ta, rendering>>
    BY DEF Close, hwVars
  <1> HIDE DEF blocks
  <1>2. status = "open" /\ In(todo) \cap {"close", "abandon"} # {}
    BY <1>1, StepOpen
  <1>3. ~scene.active /\ header = NoTexture
    BY <1>2 DEF MemInv, CallOK, UseInv, HeaderInForce
  <1>4. Unrendered' = Unrendered
    BY <1>1 DEF Unrendered
  <1>5. DestOK' /\ NoFeedback' /\ HeaderInForce'
    BY <1>1, <1>3, <1>4 DEF UseInv, DestOK, NoFeedback, HeaderInForce, OpenEntered
  <1>6. CloseOK'
    BY <1>1, NotClosing
  <1>7. UseOK' /\ NeverTorn'
    <2>1. CASE Step("close")
      <3>1. Unrendered = {}
        BY <2>1 DEF UseInv, CloseOK
      <3>2. torn' => torn
        BY <1>1, <3>1, UntouchedStays
      <3>3. ~torn
        BY <1>2 DEF UseInv, NeverTorn
      <3> QED
        BY <1>4, <3>1, <3>2, <3>3 DEF UseOK, NeverTorn
    <2>2. CASE ~Step("close")
      BY <1>1, <2>2 DEF UseOK, NeverTorn
    <2> QED
      BY <2>1, <2>2
  <1> QED
    BY <1>5, <1>6, <1>7 DEF UseInv

LEMMA HardwareUse == ASSUME MemInv, IInv, IInv', UseInv, Hardware PROVE UseInv'
  <1>1. UNCHANGED <<tex, scene, screen, header, todo, status, torn>>
    BY DEF Hardware, StartRender, RenderDone, VerticalBlank, driverVars, callVars
  <1>2. Unrendered' \subseteq Unrendered /\ (OpenEntered => ta' = ta)
    <2>1. CASE StartRender
      BY <2>1, OpenInTA DEF StartRender, Unrendered
    <2>2. CASE RenderDone \/ VerticalBlank
      BY <2>2 DEF RenderDone, VerticalBlank, Unrendered
    <2> QED
      BY <2>1, <2>2 DEF Hardware
  <1>3. UseOK'
    BY <1>1, <1>2, UseFrame DEF UseInv, KeptFor, Nonabsent
  <1>4. OpenEntered' = OpenEntered /\ Destination' = Destination /\ Live' = Live
    BY <1>1 DEF OpenEntered, Destination, Live
  <1>5. DestOK' /\ NoFeedback'
    BY <1>2, <1>4 DEF UseInv, DestOK, NoFeedback
  <1>6. HeaderInForce'
    BY <1>1, <1>2, <1>4 DEF UseInv, HeaderInForce
  <1>7. CloseOK' /\ NeverTorn'
    BY <1>1, <1>2 DEF UseInv, CloseOK, NeverTorn, Step
  <1> QED
    BY <1>3, <1>5, <1>6, <1>7 DEF UseInv

\* No unrendered scene uses the memory that a texture is given.
LEMMA CreatedUse ==
    ASSUME MemInv, IInv, IInv', UseInv, NEW t \in Textures, tex[t].state = "absent",
           NEW access \in Accesses, Allocate(t, access), Cardinality(Free) >= Needed(access),
           status # "recovered", status' = status, todo' = <<>>
    PROVE  UseInv'
  <1>1. /\ \A u \in Textures : u # t => tex'[u] = tex[u]
        /\ torn' = torn \/ \E v \in Free : Touch({v})
    BY Allocated
  <1>2. UNCHANGED <<scene, screen, header, ta, rendering>>
    BY DEF Allocate, hwVars
  <1>3. \A s \in Unrendered : SameFor(s)
    BY <1>1 DEF SameFor, KeptFor, Nonabsent
  <1>4. torn' => torn
    <2> SUFFICES ASSUME NEW v \in Free, Touch({v}) PROVE torn' => torn
      BY <1>1
    <2>1. \A s \in Unrendered : {v} \cap Use(s) = {}
      <3> SUFFICES ASSUME NEW s \in Unrendered, v \in Use(s) PROVE FALSE
        OBVIOUS
      <3>1. v \in Blocks /\ \A u \in Textures : v \notin BlocksOf(tex[u])
        BY DEF Free
      <3> QED
        BY <3>1 DEF UseInv, UseOK, Kept
    <2> QED
      BY <2>1, UntouchedStays
  <1>5. header # NoTexture => header \in Live'
    <2> SUFFICES ASSUME header # NoTexture PROVE header \in Live'
      OBVIOUS
    <2>1. header \in Textures /\ tex[header].state = "live"
      BY DEF UseInv, HeaderInForce, Live
    <2> QED
      BY <1>1, <2>1 DEF Live
  <1>6. header' = NoTexture \/ (header' = header /\ header \in Live')
    BY <1>2, <1>5
  <1>7. CloseOK'
    BY NotClosing
  <1> QED
    BY <1>2, <1>3, <1>4, <1>6, <1>7, DriverUse

LEMMA CreateTextureUse ==
    ASSUME MemInv, IInv, IInv', UseInv, NEW t \in Textures, NEW access \in Accesses,
           CreateTexture(t, access)
    PROVE  UseInv'
  <1>1. /\ t \notin Live \cup Retired /\ Cardinality(Free) >= Needed(access)
        /\ Allocate(t, access) /\ todo = <<>> /\ todo' = todo /\ status = "open" /\ status' = status
    BY DEF CreateTexture, Idle, callVars
  <1>2. tex[t].state = "absent"
    BY <1>1 DEF MemInv, TypeOK, Live, Retired
  <1> QED
    BY <1>1, <1>2, CreatedUse

LEMMA CreateAfterDrainUse ==
    ASSUME MemInv, IInv, IInv', UseInv, NEW access \in Accesses, CreateAfterDrain(access)
    PROVE  UseInv'
  <1>1. Step(access) /\ GoOn /\ status' = status
    BY DEF CreateAfterDrain, GoOn, Proceed
  <1>2. In(todo) = {access} /\ Tail(todo) = <<>> /\ status = "open"
    BY <1>1, LastStep
  <1>3. todo' = <<>> /\ arg \in Textures /\ tex[arg].state = "absent"
    BY <1>1, <1>2 DEF GoOn, Proceed, MemInv, CallOK
  <1>4. CASE Cardinality(Free) >= Needed(access)
    <2>1. Allocate(arg, access)
      BY <1>4 DEF CreateAfterDrain
    <2> QED
      BY <1>1, <1>2, <1>3, <1>4, <2>1, CreatedUse
  <1>5. CASE ~(Cardinality(Free) >= Needed(access))
    <2>1. UNCHANGED <<tex, scene, screen, header, ta, rendering, torn>>
      BY <1>5 DEF CreateAfterDrain, driverVars, hwVars
    <2>2. CloseOK'
      BY <1>3, NotClosing
    <2> QED
      BY <1>1, <2>1, <2>2, FlagsUse, UnchangedTextures
  <1> QED
    BY <1>4, <1>5

LEMMA InitUse == Init => UseInv
  <1> SUFFICES ASSUME Init PROVE UseInv
    OBVIOUS
  <1>1. /\ ~scene.active /\ header = NoTexture /\ todo = <<>> /\ torn = FALSE
        /\ ta = Nothing /\ rendering = Nothing
    BY DEF Init
  <1>2. Unrendered = {} /\ ~OpenEntered
    BY <1>1 DEF Unrendered, OpenEntered
  <1> QED
    BY <1>1, <1>2
       DEF UseInv, UseOK, DestOK, NoFeedback, HeaderInForce, CloseOK, NeverTorn, Step

LEMMA NextUse == UseInv /\ MemInv /\ IInv /\ [Next]_vars => UseInv'
  <1> SUFFICES ASSUME UseInv, MemInv, IInv, [Next]_vars PROVE UseInv'
    OBVIOUS
  <1>1. IInv'
    BY NextInv
  <1>2. CASE Calls
    BY <1>1, <1>2, BeginSceneUse, CallsUse, IdleUse, DrawTextureUse, UpdateTextureUse,
       CreateTextureUse
       DEF Calls
  <1>3. CASE Continue
    BY <1>1, <1>3, BeginListUse, ReclaimStepUse, FinishActiveSceneUse, SwitchTargetUse,
       PresentScreenUse, ReclaimForAllocationUse, UploadUse, RetireTextureUse,
       WaitScenesCompleteUse, RetireAllUse, FinishLastSceneUse, CloseUse, CreateAfterDrainUse
       DEF Continue
  <1>4. CASE Failures
    BY <1>1, <1>4, FailuresUse, BeginListUse DEF Failures
  <1>5. CASE Hardware
    BY <1>1, <1>5, HardwareUse
  <1>6. CASE Destroyed \/ UNCHANGED vars
    BY <1>1, <1>6, IdleUse DEF Destroyed
  <1> QED
    BY <1>2, <1>3, <1>4, <1>5, <1>6 DEF Next

-----------------------------------------------------------------------------
(* The theorems.                                                           *)

LEMMA UseAlways == Spec => []UseInv
  <1>1. Init => UseInv /\ MemInv /\ IInv
    BY InitUse, InitMem, InitInv
  <1>2. UseInv /\ MemInv /\ IInv /\ [Next]_vars => (UseInv /\ MemInv /\ IInv)'
    BY NextUse, NextMem, NextInv
  <1> QED
    BY <1>1, <1>2, PTL DEF Spec

\* Unless a failed wait is recovered from, the driver frees, uploads to and allocates only
\* memory that no scene uses that is not rendered: a texture's memory outlives every scene
\* that may fetch it or is rendered to it, without a wait at its destruction.
THEOREM NothingTorn == Spec => []NeverTorn
  <1>1. UseInv => NeverTorn
    BY DEF UseInv
  <1> QED
    BY <1>1, UseAlways, PTL

\* A scene never fetches from the buffer it is rendered to: a target texture that is drawn
\* into itself is sampled from its other buffer.
THEOREM NoSelfSampling == Spec => []NoFeedback
  <1>1. UseInv => NoFeedback
    BY DEF UseInv
  <1> QED
    BY <1>1, UseAlways, PTL

\* The polygon header is left out of the display list only for a live texture whose header,
\* with the memory it has now, is in the open scene.
THEOREM HeaderRight == Spec => []HeaderInForce
  <1>1. UseInv => HeaderInForce
    BY DEF UseInv
  <1> QED
    BY <1>1, UseAlways, PTL

-----------------------------------------------------------------------------
(* Retired memory comes back.                                              *)

\* The steps of a call after which what is retired has been looked at, or is gone.
Pending == {"reclaim", "presented", "close", "abandon"}
Prompt == \A t \in Retired : tex[t].retire + 1 >= scene.entered
PromptOK == pvr_failed \/ In(todo) \cap Pending # {} \/ Prompt

\* A call that presents ends with the step that reclaims.
EndsPresented(s) == "present" \in In(s) => s[Len(s)] = "presented"

PromptInv == PromptOK /\ EndsPresented(todo)

\* Nothing is retired by the step.
NoneRetired == \A t \in Retired' : t \in Retired /\ tex'[t].retire = tex[t].retire

LEMMA PresentedLast ==
    ASSUME NEW s \in Seq(StepNames), s # <<>>, EndsPresented(s), InOrder(s)
    PROVE  /\ EndsPresented(Tail(s))
           /\ Head(s) \in {"finish", "retire"} => EndsPresented(<<"reclaim">> \o Tail(s))
  <1>1. /\ Tail(s) \in Seq(StepNames) /\ Len(s) \in Nat /\ Len(s) > 0 /\ Len(Tail(s)) = Len(s) - 1
        /\ \A i \in 1..Len(Tail(s)) : i + 1 \in 1..Len(s) /\ Tail(s)[i] = s[i + 1]
        /\ In(s) = {Head(s)} \cup In(Tail(s))
    BY TailSteps
  <1>2. ASSUME "present" \in In(Tail(s)) PROVE Len(Tail(s)) > 0 /\ Tail(s)[Len(Tail(s))] = "presented"
    <2>1. Len(Tail(s)) \in Nat /\ Len(Tail(s)) > 0
      BY <1>1, <1>2 DEF In
    <2>2. Len(Tail(s)) \in 1..Len(Tail(s)) /\ Len(Tail(s)) + 1 = Len(s)
      BY <1>1, <2>1
    <2>3. Tail(s)[Len(Tail(s))] = s[Len(s)]
      BY <1>1, <2>2
    <2> QED
      BY <1>1, <1>2, <2>1, <2>3 DEF EndsPresented
  <1>3. EndsPresented(Tail(s))
    BY <1>2 DEF EndsPresented
  <1> DEFINE r == <<"reclaim">> \o Tail(s)
  <1>4. /\ Len(r) = Len(Tail(s)) + 1 /\ In(r) = {"reclaim"} \cup In(Tail(s))
        /\ \A i \in 1..Len(Tail(s)) : r[i + 1] = Tail(s)[i]
    <2> DEFINE u == Tail(s)
    <2>1. u \in Seq(StepNames)
      BY <1>1
    <2> HIDE DEF u
    <2>2. /\ Len(<<"reclaim">> \o u) = Len(u) + 1 /\ In(<<"reclaim">> \o u) = {"reclaim"} \cup In(u)
          /\ \A i \in 1..Len(u) : (<<"reclaim">> \o u)[i + 1] = u[i]
      BY <2>1, StepNamed, ConsSteps
    <2> QED
      BY <2>2 DEF u
  <1>5. EndsPresented(r)
    <2> SUFFICES ASSUME "present" \in In(r) PROVE r[Len(r)] = "presented"
      BY DEF EndsPresented
    <2>1. Len(Tail(s)) \in Nat /\ Len(Tail(s)) > 0 /\ Tail(s)[Len(Tail(s))] = "presented"
      BY <1>1, <1>2, <1>4
    <2>2. Len(Tail(s)) \in 1..Len(Tail(s))
      BY <2>1
    <2> QED
      BY <1>4, <2>1, <2>2
  <1> QED
    BY <1>3, <1>5

\* The step goes on with a call, or does not change the steps.
LEMMA PromptFrame ==
    ASSUME MemInv, IInv, PromptInv, NoneRetired, scene'.entered = scene.entered,
           pvr_failed' = pvr_failed,
           In(todo) \cap Pending # {} => In(todo') \cap Pending # {}
    PROVE  PromptOK'
  BY DEF PromptInv, PromptOK, NoneRetired, Prompt

LEMMA PromptGoOn ==
    ASSUME MemInv, IInv, PromptInv, NoneRetired, scene'.entered = scene.entered,
           pvr_failed' = pvr_failed, NEW name, name \notin Pending, Step(name), GoOn
    PROVE  PromptInv'
  <1>1. /\ todo \in Seq(StepNames) /\ todo # <<>> /\ In(todo) = {name} \cup In(Tail(todo))
        /\ todo' = Tail(todo)
    BY TodoSeq DEF GoOn, Proceed
  <1>2. EndsPresented(todo')
    BY <1>1, PresentedLast DEF PromptInv, MemInv, CallOK
  <1>3. In(todo) \cap Pending # {} => In(todo') \cap Pending # {}
    BY <1>1
  <1> QED
    BY <1>2, <1>3, PromptFrame DEF PromptInv

\* A call begins, or its one step is done.
LEMMA PromptCall ==
    ASSUME MemInv, IInv, PromptInv, NoneRetired, scene'.entered = scene.entered,
           pvr_failed' = pvr_failed, todo = <<>>, EndsPresented(todo')
    PROVE  PromptInv'
  <1>1. In(todo) = {}
    BY InShort
  <1> QED
    BY <1>1, PromptFrame DEF PromptInv

\* The step leaves one to do after which the retired have been looked at.
LEMMA PromptPending ==
    ASSUME In(todo') \cap Pending # {}, "present" \notin In(todo')
    PROVE  PromptInv'
  BY DEF PromptInv, PromptOK, EndsPresented

LEMMA SameRetired == ASSUME SameTextures PROVE NoneRetired
  BY DEF SameTextures, NoneRetired, Retired

LEMMA NothingPresented ==
    /\ EndsPresented(<<>>)
    /\ \A x : x # "present" => EndsPresented(<<x>>)
    /\ \A x, y : "present" \notin {x, y} => EndsPresented(<<x, y>>)
    /\ \A x, y, z : "present" \notin {x, y, z} => EndsPresented(<<x, y, z>>)
    /\ EndsPresented(<<"finish", "present", "finish", "presented">>)
  <1>1. EndsPresented(<<"finish", "present", "finish", "presented">>)
    BY DEF EndsPresented
  <1> QED
    BY <1>1, InShort DEF EndsPresented

\* The calls, and their single steps.
LEMMA CallsPrompt == ASSUME MemInv, IInv, PromptInv, Calls PROVE PromptInv'
  <1>1. todo = <<>> /\ pvr_failed' = pvr_failed
    BY DEF Calls, BeginScene, BeginListAgain, DropHeader, RenderPresent, DestroyRenderer,
           DrawTexture, UpdateTexture, LockTexture, UnlockTexture, WaitTextureIdle,
           DestroyTexture, CreateTexture, CreateWhenFull, SetRenderTarget, Allocate, Call, Idle,
           driverVars
  <1>2. tex \in [Textures -> TexRecords]
    BY TypedNow DEF MemInv
  <1>3. scene'.entered = scene.entered
    <2>1. ASSUME NEW t \in Textures, WaitTextureIdle(t) PROVE scene'.entered = scene.entered
      <3> DEFINE done == IF tex[t].last_used = 0 THEN scene.completed ELSE Completed
      <3>1. scene' = [scene EXCEPT !.completed = done]
        BY <2>1 DEF WaitTextureIdle
      <3> HIDE DEF done
      <3> QED
        BY <3>1 DEF IInv, SceneTypeOK
    <2>2. CASE BeginScene
      <3> DEFINE n == scene.begun + 1
                 kind == IF target = NoTexture THEN "screen" ELSE "target"
      <3>1. scene' = [scene EXCEPT !.begun = n, !.active = TRUE, !.is_entered = FALSE,
                                   !.kind = kind, !.target = target]
        BY <2>2 DEF BeginScene
      <3> HIDE DEF n, kind
      <3> QED
        BY <3>1 DEF IInv, SceneTypeOK
    <2>3. CASE UNCHANGED scene
      BY <2>3
    <2> QED
      BY <2>1, <2>2, <2>3
         DEF Calls, BeginListAgain, DropHeader, RenderPresent, DestroyRenderer, DrawTexture,
             UpdateTexture, LockTexture, UnlockTexture, DestroyTexture, CreateTexture,
             CreateWhenFull, SetRenderTarget, Allocate, driverVars
  <1>4. NoneRetired
    <2>1. CASE UNCHANGED tex
      BY <2>1, UnchangedTextures, SameRetired
    <2>2. ASSUME NEW t \in Textures, DrawTexture(t) PROVE NoneRetired
      <3>1. tex' = [tex EXCEPT ![t].referenced = TRUE, ![t].last_used = scene.begun]
        BY <2>2 DEF DrawTexture
      <3> QED
        BY <1>2, <3>1 DEF NoneRetired, Retired, TexRecords
    <2>3. ASSUME NEW t \in Textures, LockTexture(t) \/ UnlockTexture(t) PROVE NoneRetired
      <3>1. PICK b \in BOOLEAN : tex' = [tex EXCEPT ![t].locked = b]
        BY <2>3 DEF LockTexture, UnlockTexture
      <3> QED
        BY <1>2, <3>1 DEF NoneRetired, Retired, TexRecords
    <2>4. ASSUME NEW t \in Textures, NEW access \in Accesses, CreateTexture(t, access)
          PROVE  NoneRetired
      <3> DEFINE v == CHOOSE b \in Free : TRUE
                 n == IF access = "target" THEN CHOOSE b \in Free \ {v} : TRUE ELSE NoBlock
                 r == [Absent EXCEPT !.state = "live", !.access = access, !.vram = v,
                                     !.vram_next = n, !.filled = (access = "native")]
      <3>1. tex' = [tex EXCEPT ![t] = r]
        BY <2>4 DEF CreateTexture, Allocate
      <3> HIDE DEF v, n
      <3>2. r.state = "live"
        BY DEF Absent
      <3> HIDE DEF r
      <3> QED
        BY <1>2, <3>1, <3>2 DEF NoneRetired, Retired
    <2> QED
      BY <2>1, <2>2, <2>3, <2>4
         DEF Calls, BeginScene, BeginListAgain, DropHeader, RenderPresent, DestroyRenderer,
             UpdateTexture, DestroyTexture, CreateWhenFull, SetRenderTarget, driverVars
  <1>5. EndsPresented(todo')
    <2>1. CASE \E t \in Textures : DestroyTexture(t)
      <3>1. todo' = <<"finish", "untarget", "retire">> \/ todo' = <<"retire">>
        BY <2>1 DEF DestroyTexture, Call
      <3> QED
        BY <3>1, NothingPresented
    <2>2. CASE \E t \in Textures : UpdateTexture(t) \/ UnlockTexture(t)
      <3>1. todo' = <<"upload">> \/ todo' = <<"drain", "upload">>
        BY <2>2 DEF UpdateTexture, UnlockTexture, WaitTextureIdle, Call
      <3> QED
        BY <3>1, NothingPresented
    <2>3. CASE \E t \in Textures, access \in Accesses : CreateWhenFull(t, access)
      <3>1. PICK access \in Accesses : todo' = <<"drain", "reclaimdrained", access>>
        BY <2>3 DEF CreateWhenFull, Call
      <3>2. access # "present"
        BY DEF Accesses
      <3> QED
        BY <3>1, <3>2, NothingPresented
    <2>4. CASE UNCHANGED todo
      BY <2>4 DEF PromptInv
    <2>5. CASE \/ BeginScene \/ BeginListAgain \/ RenderPresent \/ DestroyRenderer
               \/ \E t \in Textures \cup {NoTexture} : SetRenderTarget(t)
      <3>1. todo' \in {<<"list">>, <<"finish", "present", "finish", "presented">>, <<"retireall">>,
                      <<"finish", "retarget">>}
        BY <2>5 DEF BeginScene, BeginListAgain, RenderPresent, DestroyRenderer, SetRenderTarget, Call
      <3> QED
        BY <3>1, NothingPresented
    <2> QED
      BY <2>1, <2>2, <2>3, <2>4, <2>5
         DEF Calls, DropHeader, DrawTexture, LockTexture, CreateTexture, callVars
  <1> QED
    BY <1>1, <1>3, <1>4, <1>5, PromptCall

\* What is left after reclaiming was retired under one of the last two scenes.
LEMMA ReclaimPrompt == ASSUME MemInv, IInv, ReclaimCompleted PROVE Prompt'
  <1>1. CASE Retired = {}
    BY <1>1 DEF ReclaimCompleted, Prompt, Retired
  <1>2. CASE Retired # {}
    <2>1. scene' = [scene EXCEPT !.completed = Completed] /\ ReclaimRetired(Completed)
      BY <1>2 DEF ReclaimCompleted
    <2>2. scene'.entered = scene.entered /\ scene.entered \in Nat
      <3> DEFINE done == Completed
      <3>1. scene' = [scene EXCEPT !.completed = done]
        BY <2>1
      <3> HIDE DEF done
      <3> QED
        BY <3>1 DEF IInv, SceneTypeOK
    <2>3. Completed \in Nat /\ (scene.entered >= 2 => Completed + 2 >= scene.entered)
      BY DEF Completed, IInv, SceneTypeOK
    <2>4. ASSUME NEW t \in Retired' PROVE tex'[t].retire + 1 >= scene.entered
      <3>1. \A u \in Textures : tex'[u] = IF u \in Reclaimable(Completed) THEN Absent ELSE tex[u]
        BY <2>1 DEF ReclaimRetired
      <3>2. t \in Retired /\ t \notin Reclaimable(Completed) /\ tex'[t] = tex[t]
        BY <3>1 DEF Retired, Absent
      <3>3. tex[t].retire \in Nat
        BY <3>2, BoundAssumption DEF MemInv, TypeOK, Gens, Retired
      <3>4. ~(tex[t].retire <= Completed)
        BY <3>2 DEF Reclaimable
      <3> QED
        BY <2>2, <2>3, <3>2, <3>3, <3>4
    <2> QED
      BY <2>2, <2>4 DEF Prompt
  <1> QED
    BY <1>1, <1>2

LEMMA ReclaimStepPrompt == ASSUME MemInv, IInv, PromptInv, Reclaim \/ Presented PROVE PromptInv'
  <1>1. ReclaimCompleted /\ GoOn /\ \E name \in {"reclaim", "presented"} : Step(name)
    BY DEF Reclaim, Presented
  <1>2. PromptOK'
    BY <1>1, ReclaimPrompt DEF PromptOK
  <1>3. /\ todo \in Seq(StepNames) /\ todo # <<>> /\ todo' = Tail(todo)
    BY <1>1, TodoSeq DEF GoOn, Proceed
  <1> QED
    BY <1>2, <1>3, PresentedLast DEF PromptInv, MemInv, CallOK

LEMMA FinishActiveScenePrompt ==
    ASSUME MemInv, IInv, PromptInv, FinishActiveScene PROVE PromptInv'
  <1>1. Step("finish") /\ pvr_failed' = pvr_failed
    BY DEF FinishActiveScene
  <1>2. CASE ~scene.active
    <2>1. GoOn /\ UNCHANGED <<tex, scene>>
      BY <1>2 DEF FinishActiveScene
    <2>2. NoneRetired
      BY <2>1, UnchangedTextures, SameRetired
    <2> QED
      BY <1>1, <2>1, <2>2, PromptGoOn DEF Pending
  <1>3. CASE scene.active
    <2>1. todo' = <<"reclaim">> \o Tail(todo)
      BY <1>3 DEF FinishActiveScene, Proceed
    <2>2. todo \in Seq(StepNames) /\ todo # <<>> /\ Head(todo) = "finish"
      BY <1>1, TodoSeq
    <2>3. In(todo') = {"reclaim"} \cup In(Tail(todo)) /\ EndsPresented(todo')
      BY <2>1, <2>2, ReclaimNext, PresentedLast DEF PromptInv, MemInv, CallOK
    <2> QED
      BY <2>3 DEF PromptInv, PromptOK, Pending
  <1> QED
    BY <1>2, <1>3

LEMMA PresentScreenPrompt == ASSUME MemInv, IInv, PromptInv, PresentScreen PROVE PromptInv'
  <1>1. Step("present") /\ todo' = Tail(todo)
    BY DEF PresentScreen, GoOn, Proceed
  <1>2. /\ todo \in Seq(StepNames) /\ todo # <<>> /\ todo[1] = "present" /\ "present" \in In(todo)
        /\ In(todo) = {"present"} \cup In(Tail(todo)) /\ Len(todo) \in Nat /\ Len(todo) > 0
    BY <1>1, TodoSeq
  <1>3. EndsPresented(todo') /\ todo[Len(todo)] = "presented"
    BY <1>1, <1>2, PresentedLast DEF PromptInv, EndsPresented, MemInv, CallOK
  <1>4. "presented" \in In(todo)
    BY <1>2, <1>3 DEF In
  <1>5. "presented" \in In(todo')
    BY <1>1, <1>2, <1>4
  <1> QED
    BY <1>3, <1>5 DEF PromptInv, PromptOK, Pending

\* The driver goes on with a call and retires nothing.
LEMMA QuietStepsPrompt ==
    ASSUME MemInv, IInv, PromptInv,
           SwitchTarget \/ ReclaimForAllocation \/ Upload \/ WaitScenesComplete
    PROVE  PromptInv'
  <1>1. GoOn /\ pvr_failed' = pvr_failed
    BY DEF SwitchTarget, ReclaimForAllocation, Upload, WaitScenesComplete
  <1>2. PICK name \in {"retarget", "untarget", "reclaimdrained", "upload", "drain"} : Step(name)
    BY DEF SwitchTarget, ReclaimForAllocation, Upload, WaitScenesComplete
  <1>3. scene'.entered = scene.entered
    <2>1. CASE WaitScenesComplete
      <3> DEFINE done == IF OpenEntered THEN scene.entered - 1 ELSE scene.entered
                 learned == IF done > scene.completed THEN done ELSE scene.completed
      <3>1. scene' = [scene EXCEPT !.completed = learned]
        BY <2>1 DEF WaitScenesComplete
      <3> HIDE DEF learned
      <3> QED
        BY <3>1 DEF IInv, SceneTypeOK
    <2> QED
      BY <2>1 DEF SwitchTarget, ReclaimForAllocation, Upload
  <1>4. NoneRetired
    <2>1. CASE ReclaimForAllocation
      <3>1. ReclaimRetired(scene.completed)
        BY <2>1 DEF ReclaimForAllocation
      <3>2. \A t \in Textures : tex'[t] = tex[t] \/ tex'[t] = Absent
        BY <3>1 DEF ReclaimRetired
      <3> QED
        BY <3>2 DEF NoneRetired, Retired, Absent
    <2>2. CASE Upload
      <3>1. CASE UNCHANGED tex
        BY <3>1, UnchangedTextures, SameRetired
      <3>2. CASE tex' = [tex EXCEPT ![arg].filled = TRUE]
        <4>1. arg \in Textures
          BY <2>2, StepOpen DEF Upload, MemInv, CallOK, Live
        <4>2. tex \in [Textures -> TexRecords]
          BY TypedNow DEF MemInv
        <4> QED
          BY <3>2, <4>1, <4>2 DEF NoneRetired, Retired, TexRecords
      <3> QED
        BY <2>2, <3>1, <3>2 DEF Upload
    <2>3. CASE UNCHANGED tex
      BY <2>3, UnchangedTextures, SameRetired
    <2> QED
      BY <2>1, <2>2, <2>3 DEF SwitchTarget, WaitScenesComplete
  <1> QED
    BY <1>1, <1>2, <1>3, <1>4, PromptGoOn DEF Pending
LEMMA RetirePrompt == ASSUME MemInv, IInv, PromptInv, BeginList \/ RetireTexture \/ RetireAll
                      PROVE  PromptInv'
  <1>1. CASE BeginList
    <2>1. In(todo') = {"reclaim"}
      BY <1>1, InShort DEF BeginList, Proceed
    <2> QED
      BY <2>1, PromptPending DEF Pending
  <1>2. CASE RetireTexture
    <2>1. Step("retire") /\ todo' = <<"reclaim">> \o Tail(todo)
      BY <1>2 DEF RetireTexture, Proceed
    <2>2. todo' = <<"reclaim">>
      BY <2>1, LastStep, StepNamed
    <2>3. In(todo') = {"reclaim"}
      BY <2>2, InShort
    <2> QED
      BY <2>3, PromptPending DEF Pending
  <1>3. CASE RetireAll
    <2>1. Step("retireall") /\ UNCHANGED <<scene, pvr_failed>>
      BY <1>3 DEF RetireAll
    <2>2. In(todo) = {"retireall"} /\ <<"reclaim">> \o todo = <<"reclaim", "retireall">>
      BY <2>1, LastStep, StepNamed DEF EndSteps
    <2>3. CASE Live = {}
      <3>1. todo' = <<"finishlast">> /\ UNCHANGED tex
        BY <1>3, <2>3 DEF RetireAll
      <3>2. PromptOK'
        BY <2>1, <2>2, <3>1, PromptFrame, UnchangedTextures, SameRetired DEF Pending
      <3> QED
        BY <3>1, <3>2, NothingPresented DEF PromptInv
    <2>4. CASE Live # {}
      <3>1. todo' = <<"reclaim", "retireall">>
        BY <1>3, <2>2, <2>4 DEF RetireAll
      <3>2. In(todo') = {"reclaim", "retireall"}
        BY <3>1, InShort
      <3> QED
        BY <3>2, PromptPending DEF Pending
    <2> QED
      BY <2>3, <2>4
  <1> QED
    BY <1>1, <1>2, <1>3

LEMMA EndPrompt == ASSUME MemInv, IInv, PromptInv, FinishLastScene \/ Close PROVE PromptInv'
  <1>1. CASE FinishLastScene
    <2>1. todo' = <<"abandon">> \/ todo' = <<"drain", "close">>
      BY <1>1 DEF FinishLastScene
    <2>2. In(todo') = {"abandon"} \/ In(todo') = {"drain", "close"}
      BY <2>1, InShort
    <2> QED
      BY <2>2, PromptPending DEF Pending
  <1>2. CASE Close
    <2>1. tex' = [t \in Textures |-> Absent] /\ todo' = <<>>
      BY <1>2 DEF Close
    <2>2. Retired' = {}
      BY <2>1 DEF Retired, Absent
    <2> QED
      BY <2>1, <2>2, NothingPresented DEF PromptInv, PromptOK, Prompt
  <1> QED
    BY <1>1, <1>2

LEMMA CreateAfterDrainPrompt ==
    ASSUME MemInv, IInv, PromptInv, NEW access \in Accesses, CreateAfterDrain(access)
    PROVE  PromptInv'
  <1>1. Step(access) /\ GoOn
    BY DEF CreateAfterDrain
  <1>2. In(todo) = {access} /\ arg \in Textures /\ tex[arg].state = "absent"
    <2>1. In(todo) = {access}
      BY <1>1, LastStep
    <2> QED
      BY <2>1 DEF MemInv, CallOK
  <1>3. access \notin Pending
    BY DEF Accesses, Pending
  <1>4. CASE Cardinality(Free) >= Needed(access)
    <2> DEFINE v == CHOOSE b \in Free : TRUE
               n == IF access = "target" THEN CHOOSE b \in Free \ {v} : TRUE ELSE NoBlock
               r == [Absent EXCEPT !.state = "live", !.access = access, !.vram = v,
                                   !.vram_next = n, !.filled = (access = "native")]
    <2>1. tex' = [tex EXCEPT ![arg] = r] /\ UNCHANGED <<scene, pvr_failed>>
      BY <1>4 DEF CreateAfterDrain, Allocate
    <2> HIDE DEF v, n
    <2>2. r.state = "live"
      BY DEF Absent
    <2> HIDE DEF r
    <2>3. tex \in [Textures -> TexRecords]
      BY TypedNow DEF MemInv
    <2>4. NoneRetired
      BY <1>2, <2>1, <2>2, <2>3 DEF NoneRetired, Retired
    <2> QED
      BY <1>1, <1>3, <2>1, <2>4, PromptGoOn
  <1>5. CASE ~(Cardinality(Free) >= Needed(access))
    <2>1. UNCHANGED <<tex, scene, pvr_failed>>
      BY <1>5 DEF CreateAfterDrain, driverVars
    <2>2. NoneRetired
      BY <2>1, UnchangedTextures, SameRetired
    <2> QED
      BY <1>1, <1>3, <2>1, <2>2, PromptGoOn
  <1> QED
    BY <1>4, <1>5

LEMMA FailuresPrompt == ASSUME MemInv, IInv, PromptInv, Failures PROVE PromptInv'
  <1>1. CASE BeginFails \/ SeedFails \/ FinishFails
    <2>1. pvr_failed' /\ todo' = <<>>
      BY <1>1 DEF BeginFails, SeedFails, FinishFails, Call, Abort, Proceed
    <2> QED
      BY <2>1, NothingPresented DEF PromptInv, PromptOK
  <1>2. CASE WaitTimesOut
    <2>1. /\ Step("drain") /\ UNCHANGED <<tex, scene, pvr_failed>>
          /\ todo' = IF todo[2] = "close" THEN <<"abandon">> ELSE <<>>
      BY <1>2 DEF WaitTimesOut, Proceed, driverVars
    <2>2. CASE todo[2] = "close"
      <3>1. In(todo') = {"abandon"}
        BY <2>1, <2>2, InShort
      <3> QED
        BY <3>1, PromptPending DEF Pending
    <2>3. CASE todo[2] # "close"
      <3>1. "drain" \in In(todo) /\ todo[1] = "drain" /\ Len(todo) \in Nat /\ 1 \in 1..Len(todo)
        BY <2>1, TodoSeq
      <3>2. Len(todo) > 1
        BY <3>1 DEF MemInv, CallOK, InOrder
      <3>3. PICK g \in Groups : In(todo) \subseteq g
        BY DEF MemInv, CallOK, Together
      <3>4. In(todo) \cap Pending = {}
        <4>1. CASE "close" \notin In(todo)
          BY <3>1, <3>3, <4>1 DEF Groups, Pending, Accesses
        <4>2. CASE "close" \in In(todo)
          <5>1. 2 \in 1..Len(todo)
            BY <3>1, <3>2
          <5>2. todo[2] \in In(todo)
            BY <5>1 DEF In
          <5>3. In(todo) \subseteq {"drain", "close"}
            BY <3>1, <3>3, <4>2 DEF Groups, Accesses
          <5>4. todo[2] # "drain"
            BY <5>1 DEF MemInv, CallOK, InOrder
          <5> QED
            BY <2>3, <5>2, <5>3, <5>4
        <4> QED
          BY <4>1, <4>2
      <3>5. todo' = <<>> /\ NoneRetired
        BY <2>1, <2>3, UnchangedTextures, SameRetired
      <3> QED
        BY <2>1, <3>4, <3>5, PromptFrame, NothingPresented DEF PromptInv
    <2> QED
      BY <2>2, <2>3
  <1> QED
    BY <1>1, <1>2 DEF Failures

LEMMA QuietPrompt ==
    ASSUME MemInv, IInv, PromptInv, Hardware \/ Destroyed \/ UNCHANGED vars PROVE PromptInv'
  <1>1. UNCHANGED <<tex, scene, pvr_failed, todo>>
    BY DEF Hardware, StartRender, RenderDone, VerticalBlank, Destroyed, vars, driverVars, callVars
  <1> QED
    BY <1>1 DEF PromptInv, PromptOK, Prompt, Retired, EndsPresented

LEMMA InitPrompt == Init => PromptInv
  <1>1. Init => Retired = {} /\ todo = <<>>
    BY DEF Init, Retired, Absent
  <1> QED
    BY <1>1, NothingPresented DEF PromptInv, PromptOK, Prompt

LEMMA NextPrompt == PromptInv /\ MemInv /\ IInv /\ [Next]_vars => PromptInv'
  BY CallsPrompt, RetirePrompt, ReclaimStepPrompt, FinishActiveScenePrompt, QuietStepsPrompt,
     PresentScreenPrompt, EndPrompt, CreateAfterDrainPrompt, FailuresPrompt, QuietPrompt
     DEF Next, Continue

\* Retired memory comes back: whenever the driver has returned, and no scene has failed, what
\* is still retired was so under one of the two scenes entered last.
THEOREM RetiredComesBack == Spec => []PromptReclaim
  <1>1. Init => PromptInv /\ MemInv /\ IInv
    BY InitPrompt, InitMem, InitInv
  <1>2. PromptInv /\ MemInv /\ IInv /\ [Next]_vars => (PromptInv /\ MemInv /\ IInv)'
    BY NextPrompt, NextMem, NextInv
  <1>3. PromptInv => PromptReclaim
    <2> SUFFICES ASSUME PromptInv, todo = <<>>, ~pvr_failed PROVE Prompt
      BY DEF PromptReclaim, Prompt
    <2>1. In(todo) = {}
      BY InShort
    <2> QED
      BY <2>1 DEF PromptInv, PromptOK
  <1> QED
    BY <1>1, <1>2, <1>3, PTL DEF Spec

=============================================================================
