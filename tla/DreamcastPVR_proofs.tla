------------------------- MODULE DreamcastPVR_proofs -------------------------
(***************************************************************************)
(* Proofs about DreamcastPVR, for any textures, blocks and number of       *)
(* scenes: the driver takes no scene for rendered that is not; the types   *)
(* of its variables, and what the textures, the render target and the      *)
(* steps left in a call have to do with each other.                        *)
(***************************************************************************)
EXTENDS DreamcastPVR, FiniteSetTheorems, SequenceTheorems, TLAPS

-----------------------------------------------------------------------------
(* Which scenes are rendered.                                              *)

StepNames ==
    {"list", "reclaim", "finish", "retarget", "untarget", "present", "presented", "drain",
     "reclaimdrained", "upload", "retire", "retireall", "finishlast", "close", "abandon"} \cup Accesses

\* What the steps left in a call tell of the open scene: "list" is left only by a call that
\* has begun the scene, "present" only where the scene is finished before.
TodoGood(s, sc) ==
    /\ s \in Seq(StepNames)
    /\ \A i \in 1..Len(s) : s[i] = "list" =>
          i = 1 /\ Len(s) = 1 /\ sc.active /\ ~sc.is_entered
    /\ \A i \in 1..Len(s) : s[i] = "present" =>
          /\ sc.begun < MaxScenes
          /\ \/ i = 1 /\ ~sc.active
             \/ i = 2 /\ (s[1] = "finish" \/ (s[1] = "reclaim" /\ ~sc.active))

TodoOK == TodoGood(todo, scene)

SceneTypeOK ==
    /\ scene \in [begun : Nat, entered : Nat, completed : Nat, active : BOOLEAN,
                 is_entered : BOOLEAN, kind : Kinds, target : Textures \cup {NoTexture}]
    /\ target \in Textures \cup {NoTexture} /\ arg \in Textures \cup {NoTexture}
    /\ {"gen", "finished"} \subseteq DOMAIN ta /\ ta.gen \in Nat

\* Scenes are numbered without gaps, and the hardware has the last that was entered and at
\* most the one before it.
SceneOK ==
    /\ scene.entered = IF scene.active /\ ~scene.is_entered THEN scene.begun - 1 ELSE scene.begun
    /\ scene.active => scene.begun > 0
    /\ OpenEntered => TaBusy /\ ~ta.finished
    /\ TaBusy => ta.gen = scene.entered /\ ta.gen > 0
    /\ rendering # Nothing =>
          /\ rendering.gen = IF TaBusy THEN scene.entered - 1 ELSE scene.entered
          /\ rendering.gen > 0
    /\ scene.completed <= scene.entered
    /\ ProvenIsRendered

IInv == TodoOK /\ SceneTypeOK /\ SceneOK

-----------------------------------------------------------------------------
(* The steps of a call.                                                    *)

LEMMA StepNamed ==
    /\ "list" \in StepNames /\ "present" \in StepNames /\ "finish" \in StepNames
    /\ "presented" \in StepNames /\ "reclaim" \in StepNames
    /\ \A x \in {"retarget", "untarget", "drain", "reclaimdrained", "upload", "retire",
                "retireall", "finishlast", "close", "abandon", "finish"} \cup Accesses :
          x \in StepNames \ {"list", "present"}
  BY DEF StepNames, Accesses

LEMMA OneStep ==
    ASSUME NEW S, NEW x \in S
    PROVE  <<x>> \in Seq(S) /\ Len(<<x>>) = 1 /\ <<x>>[1] = x
  OBVIOUS

LEMMA NewTodo ==
    ASSUME NEW sc
    PROVE  /\ TodoGood(<<>>, sc)
           /\ \A x \in StepNames \ {"list", "present"} : TodoGood(<<x>>, sc)
           /\ \A x, y \in StepNames \ {"list", "present"} : TodoGood(<<x, y>>, sc)
           /\ \A x, y, z \in StepNames \ {"list", "present"} : TodoGood(<<x, y, z>>, sc)
           /\ sc.active /\ ~sc.is_entered => TodoGood(<<"list">>, sc)
           /\ sc.begun < MaxScenes =>
                 TodoGood(<<"finish", "present", "finish", "presented">>, sc)
  <1>1. TodoGood(<<>>, sc)
    BY DEF TodoGood
  <1>2. ASSUME NEW x \in StepNames \ {"list", "present"}
        PROVE  TodoGood(<<x>>, sc)
    BY DEF TodoGood
  <1>3. ASSUME NEW x \in StepNames \ {"list", "present"}, NEW y \in StepNames \ {"list", "present"}
        PROVE  TodoGood(<<x, y>>, sc)
    BY DEF TodoGood
  <1>4. ASSUME NEW x \in StepNames \ {"list", "present"}, NEW y \in StepNames \ {"list", "present"},
               NEW z \in StepNames \ {"list", "present"}
        PROVE  TodoGood(<<x, y, z>>, sc)
    BY DEF TodoGood
  <1>5. ASSUME sc.active, ~sc.is_entered, NEW x \in StepNames, x = "list"
        PROVE  TodoGood(<<x>>, sc)
    BY <1>5 DEF TodoGood
  <1>6. ASSUME sc.begun < MaxScenes, NEW x \in StepNames, x = "finish", NEW y \in StepNames, y = "present",
               NEW z \in StepNames, z = "presented"
        PROVE  TodoGood(<<x, y, x, z>>, sc)
    BY <1>6 DEF TodoGood
  <1>7. sc.active /\ ~sc.is_entered => TodoGood(<<"list">>, sc)
    BY <1>5, StepNamed
  <1>8. sc.begun < MaxScenes => TodoGood(<<"finish", "present", "finish", "presented">>, sc)
    BY <1>6, StepNamed
  <1> QED
    BY <1>1, <1>2, <1>3, <1>4, <1>7, <1>8

\* The next step of a call, unless the scene that it leaves may still be open.
LEMMA TailGood ==
    ASSUME NEW s, NEW sc, TodoGood(s, sc), s # <<>>, Head(s) = "finish" => ~sc.active
    PROVE  TodoGood(Tail(s), sc)
  <1>1. s \in Seq(StepNames) /\ Len(s) > 0 /\ Head(s) = s[1]
    BY DEF TodoGood
  <1>2. Tail(s) \in Seq(StepNames) /\ Len(Tail(s)) = Len(s) - 1
    BY <1>1
  <1>3. \A i \in 1..Len(Tail(s)) : i + 1 \in 1..Len(s) /\ Tail(s)[i] = s[i + 1]
    BY <1>1, <1>2
  <1> QED
    BY <1>1, <1>2, <1>3 DEF TodoGood

\* A reclaiming is put in the place of the step that is done.
LEMMA ReclaimThenTail ==
    ASSUME NEW s, NEW sc, NEW sc2, TodoGood(s, sc), s # <<>>,
           Head(s) = "retire" \/ Head(s) = "finish",
           Head(s) = "finish" => ~sc2.active,
           sc2.begun = sc.begun
    PROVE  TodoGood(<<"reclaim">> \o Tail(s), sc2)
  <1> DEFINE r == <<"reclaim">> \o Tail(s)
  <1>1. s \in Seq(StepNames) /\ Len(s) > 0 /\ Head(s) = s[1]
    BY DEF TodoGood
  <1>2. <<"reclaim">> \in Seq(StepNames) /\ Len(<<"reclaim">>) = 1 /\ <<"reclaim">>[1] = "reclaim"
    BY OneStep, StepNamed
  <1>3. Tail(s) \in Seq(StepNames) /\ Len(Tail(s)) = Len(s) - 1
    BY <1>1
  <1>4. r \in Seq(StepNames) /\ Len(r) = Len(s) /\ r[1] = "reclaim"
    BY <1>1, <1>2, <1>3
  <1>5. ASSUME NEW i \in 1..Len(r), i # 1
        PROVE  i \in 1..Len(s) /\ r[i] = s[i]
    <2>1. r[i] = Tail(s)[i - 1]
      BY <1>2, <1>3, <1>4, <1>5
    <2> QED
      BY <1>1, <1>3, <1>4, <1>5, <2>1
  <1> HIDE DEF r
  <1>6. TodoGood(r, sc2)
    BY <1>1, <1>4, <1>5 DEF TodoGood
  <1> QED
    BY <1>6 DEF r

\* A reclaiming comes before the step that is not done yet.
LEMMA ReclaimThenRetireAll ==
    ASSUME NEW s, NEW sc, TodoGood(s, sc), s # <<>>, Head(s) = "retireall"
    PROVE  TodoGood(<<"reclaim">> \o s, sc)
  <1> DEFINE r == <<"reclaim">> \o s
  <1>1. s \in Seq(StepNames) /\ Len(s) > 0 /\ Head(s) = s[1]
    BY DEF TodoGood
  <1>2. <<"reclaim">> \in Seq(StepNames) /\ Len(<<"reclaim">>) = 1 /\ <<"reclaim">>[1] = "reclaim"
    BY OneStep, StepNamed
  <1>3. r \in Seq(StepNames) /\ Len(r) = Len(s) + 1 /\ r[1] = "reclaim"
    BY <1>1, <1>2
  <1>4. ASSUME NEW i \in 1..Len(r), i # 1
        PROVE  i - 1 \in 1..Len(s) /\ r[i] = s[i - 1]
    BY <1>1, <1>2, <1>3, <1>4
  <1> HIDE DEF r
  <1>5. TodoGood(r, sc)
    BY <1>1, <1>3, <1>4 DEF TodoGood
  <1> QED
    BY <1>5 DEF r

-----------------------------------------------------------------------------
(* What the steps of several actions do.                                   *)

\* What the driver concludes from a look at the hardware is right.
LEMMA CompletedRight ==
    ASSUME IInv
    PROVE  /\ Completed \in Nat /\ Completed <= scene.entered
           /\ \A s \in Unrendered : Completed < s.gen
  BY DEF IInv, SceneTypeOK, SceneOK, ProvenIsRendered, Completed, Unrendered, TaBusy, OpenEntered

\* A step that only learns of completed scenes keeps the invariant.
LEMMA LearningKeepsScene ==
    ASSUME IInv, NEW done \in Nat, scene' = [scene EXCEPT !.completed = done],
           done <= scene.entered, \A s \in Unrendered : done < s.gen,
           UNCHANGED <<target, hwVars>>, arg' \in Textures \cup {NoTexture}
    PROVE  SceneTypeOK' /\ SceneOK'
  BY DEF IInv, SceneTypeOK, SceneOK, ProvenIsRendered, Unrendered, TaBusy, OpenEntered, hwVars

LEMMA ReclaimCompletedKeepsScene ==
    ASSUME IInv, ReclaimCompleted, UNCHANGED <<target, hwVars>>,
           arg' \in Textures \cup {NoTexture}
    PROVE  /\ SceneTypeOK' /\ SceneOK'
           /\ scene'.active = scene.active /\ scene'.is_entered = scene.is_entered
           /\ scene'.begun = scene.begun
  <1>1. CASE Retired = {}
    BY <1>1 DEF IInv, ReclaimCompleted, SceneTypeOK, SceneOK, ProvenIsRendered, Unrendered, TaBusy,
                OpenEntered, hwVars
  <1>2. CASE Retired # {}
    <2>1. scene' = [scene EXCEPT !.completed = Completed]
      BY <1>2 DEF ReclaimCompleted
    <2>2. SceneTypeOK' /\ SceneOK'
      BY <2>1, CompletedRight, LearningKeepsScene
    <2> QED
      BY <2>1, <2>2 DEF IInv, SceneTypeOK
  <1> QED
    BY <1>1, <1>2

\* Steps that leave the scene alone.
LEMMA SceneUntouched ==
    ASSUME IInv, UNCHANGED <<scene, hwVars>>, target' \in Textures \cup {NoTexture},
           arg' \in Textures \cup {NoTexture}
    PROVE  SceneTypeOK' /\ SceneOK'
  BY DEF IInv, SceneTypeOK, SceneOK, ProvenIsRendered, Unrendered, TaBusy, OpenEntered, hwVars

LEMMA CallArg ==
    ASSUME IInv
    PROVE  /\ \A steps : Proceed(steps) => arg' \in Textures \cup {NoTexture}
           /\ \A t \in Textures \cup {NoTexture} : \A steps :
                 Call(t, steps) => todo' = steps /\ arg' \in Textures \cup {NoTexture}
  BY DEF IInv, SceneTypeOK, Proceed, Call

\* What a call that begins, ends or goes on does to the steps that are left.
LEMMA SameScene ==
    ASSUME NEW s, NEW sc, NEW sc2, TodoGood(s, sc), sc2.active = sc.active,
           sc2.is_entered = sc.is_entered, sc2.begun = sc.begun
    PROVE  TodoGood(s, sc2)
  BY DEF TodoGood

LEMMA AtStep ==
    ASSUME TodoOK, NEW name, Step(name)
    PROVE  todo # <<>> /\ todo \in Seq(StepNames) /\ Len(todo) > 0 /\ todo[1] = name
  BY DEF TodoOK, TodoGood, Step

\* A step that leaves the scene as it was, and goes on with the call or ends it.
LEMMA GoOnGood ==
    ASSUME TodoOK, NEW name, Step(name), name = "finish" => ~scene.active,
           scene'.active = scene.active, scene'.is_entered = scene.is_entered,
           scene'.begun = scene.begun, GoOn \/ Abort
    PROVE  TodoOK'
  <1>1. TodoGood(Tail(todo), scene) /\ TodoGood(<<>>, scene)
    BY AtStep, TailGood, NewTodo DEF TodoOK, Step
  <1> QED
    BY <1>1, SameScene DEF GoOn, Abort, Proceed, TodoOK

\* A call that leaves the scene's state as it was and begins with other steps than drawing
\* or presenting.
LEMMA CallGood ==
    ASSUME NEW steps, NEW t, Call(t, steps), \A sc : TodoGood(steps, sc)
    PROVE  TodoOK'
  BY DEF Call, TodoOK

-----------------------------------------------------------------------------
(* One lemma for each action or group of actions.                          *)

LEMMA BeginSceneKeeps == ASSUME IInv, BeginScene PROVE IInv'
  <1> DEFINE n == scene.begun + 1
             kind == IF target = NoTexture THEN "screen" ELSE "target"
  <1>1. /\ ~scene.active /\ todo' = <<"list">> /\ UNCHANGED <<target, ta, rendering>>
        /\ scene' = [scene EXCEPT !.begun = n, !.active = TRUE, !.is_entered = FALSE,
                        !.kind = kind, !.target = target]
        /\ arg' = NoTexture
    BY DEF BeginScene, Call, hwVars
  <1>2. n = scene.begun + 1 /\ n \in Nat /\ kind \in Kinds
    BY DEF IInv, SceneTypeOK, Kinds
  <1> HIDE DEF n, kind
  <1>3. /\ scene' \in [begun : Nat, entered : Nat, completed : Nat, active : BOOLEAN,
                        is_entered : BOOLEAN, kind : Kinds, target : Textures \cup {NoTexture}]
        /\ scene'.begun = n /\ scene'.active /\ ~scene'.is_entered
        /\ scene'.entered = scene.entered /\ scene'.completed = scene.completed
    BY <1>1, <1>2 DEF IInv, SceneTypeOK
  <1>4. SceneTypeOK'
    BY <1>1, <1>3 DEF IInv, SceneTypeOK
  <1>5. SceneOK'
    BY <1>1, <1>2, <1>3
       DEF IInv, SceneTypeOK, SceneOK, ProvenIsRendered, Unrendered, TaBusy, OpenEntered
  <1>6. TodoOK'
    BY <1>1, <1>3, NewTodo DEF TodoOK
  <1> QED
    BY <1>4, <1>5, <1>6 DEF IInv

LEMMA BeginListAgainKeeps == ASSUME IInv, BeginListAgain PROVE IInv'
  <1>1. SceneTypeOK' /\ SceneOK'
    BY SceneUntouched, CallArg DEF BeginListAgain, driverVars, IInv, SceneTypeOK
  <1>2. TodoOK'
    BY NewTodo DEF BeginListAgain, driverVars, Call, TodoOK
  <1> QED
    BY <1>1, <1>2 DEF IInv

LEMMA BeginFailsKeeps == ASSUME IInv, BeginFails PROVE IInv'
  <1>1. SceneTypeOK' /\ SceneOK'
    BY SceneUntouched, CallArg DEF BeginFails, Abort, IInv, SceneTypeOK
  <1>2. todo' = <<>> /\ UNCHANGED scene
    BY DEF BeginFails, Abort, Call, Proceed
  <1> QED
    BY <1>1, <1>2, NewTodo DEF IInv, TodoOK

\* Entering the tile accelerator ends the numbering of a scene.
LEMMA EntryKeepsScene ==
    ASSUME IInv, NEW fetches, NEW finished, EnterTA(fetches, finished), UNCHANGED <<target, rendering>>,
           scene.active, ~scene.is_entered,
           scene'.begun = scene.begun, scene'.entered = scene.begun,
           scene'.completed = scene.completed, scene'.is_entered,
           scene' \in [begun : Nat, entered : Nat, completed : Nat, active : BOOLEAN,
                      is_entered : BOOLEAN, kind : Kinds, target : Textures \cup {NoTexture}],
           arg' \in Textures \cup {NoTexture}, finished <=> ~scene'.active
    PROVE  SceneTypeOK' /\ SceneOK'
  <1>1. ta'.gen = scene.begun /\ {"gen", "finished"} \subseteq DOMAIN ta' /\ ta'.finished = finished
    BY DEF EnterTA
  <1>2. ta' # Nothing
    BY <1>1 DEF IInv, SceneTypeOK, SceneOK, Nothing
  <1> QED
    BY <1>1, <1>2 DEF IInv, SceneTypeOK, SceneOK, ProvenIsRendered, Unrendered, TaBusy, OpenEntered, EnterTA

\* The list is begun, and the call goes on or ends with the seed.
LEMMA ListEntered ==
    ASSUME BeginList \/ SeedFails
    PROVE  /\ Step("list") /\ \E fetches \in {{}, Seed} : EnterTA(fetches, FALSE)
           /\ scene' = [scene EXCEPT !.is_entered = TRUE, !.entered = scene.begun]
           /\ header' = NoTexture /\ status' = status
           /\ UNCHANGED <<tex, screen, target, rendering, unflipped, torn>>
           /\ \/ todo' = <<"reclaim">> /\ arg' = arg /\ pvr_failed' = pvr_failed
              \/ todo' = <<>> /\ arg' = NoTexture /\ pvr_failed' = TRUE
  <1>1. PICK fetches \in {{}, Seed} : EnterList(fetches)
    BY DEF BeginList, SeedFails
  <1> QED
    BY <1>1 DEF BeginList, SeedFails, EnterList, Proceed, Abort

LEMMA BeginListKeeps == ASSUME IInv, BeginList \/ SeedFails PROVE IInv'
  <1>1. scene.active /\ ~scene.is_entered
    <2>1. Step("list")
      BY ListEntered
    <2> QED
      BY <2>1, AtStep DEF IInv, TodoOK, TodoGood
  <1>2. PICK fetches \in {{}, Seed} : EnterTA(fetches, FALSE)
    BY ListEntered
  <1>3. /\ scene' = [scene EXCEPT !.is_entered = TRUE, !.entered = scene.begun]
        /\ UNCHANGED <<target, rendering>>
        /\ arg' \in Textures \cup {NoTexture} /\ (todo' = <<"reclaim">> \/ todo' = <<>>)
    BY ListEntered, CallArg DEF IInv, SceneTypeOK
  <1>4. SceneTypeOK' /\ SceneOK'
    BY <1>1, <1>2, <1>3, EntryKeepsScene DEF IInv, SceneTypeOK
  <1> QED
    BY <1>3, <1>4, NewTodo, StepNamed DEF IInv, TodoOK

LEMMA ReclaimKeeps == ASSUME IInv, Reclaim \/ Presented PROVE IInv'
  <1>1. ReclaimCompleted /\ UNCHANGED <<target, hwVars>> /\ GoOn
    BY DEF Reclaim, Presented
  <1>2. /\ SceneTypeOK' /\ SceneOK'
        /\ scene'.active = scene.active /\ scene'.is_entered = scene.is_entered
        /\ scene'.begun = scene.begun
    BY <1>1, CallArg, ReclaimCompletedKeepsScene DEF GoOn
  <1>3. TodoOK'
    BY <1>1, <1>2, GoOnGood DEF IInv, Reclaim, Presented
  <1> QED
    BY <1>2, <1>3 DEF IInv

LEMMA DrawTextureKeeps == ASSUME IInv, NEW t \in Textures, DrawTexture(t) PROVE IInv'
  <1>1. /\ OpenEntered /\ ta' = [ta EXCEPT !.fetches = @ \cup {tex[t].vram}]
        /\ UNCHANGED <<scene, target, todo, arg, rendering>>
    BY DEF DrawTexture, callVars
  <1>2. /\ ta'.gen = ta.gen /\ ta'.finished = ta.finished
        /\ {"gen", "finished"} \subseteq DOMAIN ta'
    BY <1>1 DEF IInv, SceneTypeOK
  <1>3. ta # Nothing /\ ta' # Nothing
    BY <1>1, <1>2 DEF IInv, SceneOK, SceneTypeOK, TaBusy, Nothing
  <1>4. SceneTypeOK' /\ SceneOK'
    BY <1>1, <1>2, <1>3 DEF IInv, SceneTypeOK, SceneOK, ProvenIsRendered, Unrendered, TaBusy, OpenEntered
  <1> QED
    BY <1>1, <1>4 DEF IInv, TodoOK

\* Steps of the app's thread that change nothing of what the invariant is about.
LEMMA QuietKeeps ==
    ASSUME IInv, UNCHANGED <<scene, target, todo, arg, ta, rendering>>
    PROVE  IInv'
  BY DEF IInv, TodoOK, SceneTypeOK, SceneOK, ProvenIsRendered, Unrendered, TaBusy, OpenEntered

\* A call that begins with its steps only.
LEMMA CallKeeps ==
    ASSUME IInv, NEW t \in Textures \cup {NoTexture}, NEW steps, Call(t, steps),
           TodoGood(steps, scene), UNCHANGED <<scene, target, hwVars>>
    PROVE  IInv'
  <1>1. SceneTypeOK' /\ SceneOK'
    BY SceneUntouched, CallArg DEF IInv, SceneTypeOK
  <1>2. TodoOK'
    BY DEF Call, TodoOK
  <1> QED
    BY <1>1, <1>2 DEF IInv

\* A call that goes on and leaves the scene alone.
LEMMA GoOnKeeps ==
    ASSUME IInv, NEW name, Step(name), name # "finish", GoOn \/ Abort,
           UNCHANGED <<scene, hwVars>>, target' \in Textures \cup {NoTexture}
    PROVE  IInv'
  <1>1. SceneTypeOK' /\ SceneOK'
    BY SceneUntouched, CallArg DEF GoOn, Abort
  <1>2. TodoOK'
    BY GoOnGood DEF IInv
  <1> QED
    BY <1>1, <1>2 DEF IInv

LEMMA DropHeaderKeeps ==
    ASSUME IInv,
           \/ DropHeader
           \/ \E t \in Textures : LockTexture(t)
           \/ \E t \in Textures, access \in Accesses : CreateTexture(t, access)
           \/ VerticalBlank \/ UNCHANGED vars
    PROVE  IInv'
  BY QuietKeeps DEF DropHeader, LockTexture, CreateTexture, Allocate, VerticalBlank, vars,
                    callVars, hwVars, driverVars

LEMMA CallsKeep ==
    ASSUME IInv,
           \/ RenderPresent \/ DestroyRenderer
           \/ \E t \in Textures : DestroyTexture(t)
           \/ \E t \in Textures, access \in Accesses : CreateWhenFull(t, access)
           \/ \E t \in Textures \cup {NoTexture} : SetRenderTarget(t)
    PROVE  IInv'
  <1>1. CASE RenderPresent
    <2>1. TodoGood(<<"finish", "present", "finish", "presented">>, scene)
      BY <1>1, NewTodo DEF RenderPresent
    <2> QED
      BY <1>1, <2>1, CallKeeps DEF RenderPresent, driverVars
  <1>2. CASE DestroyRenderer
    <2>1. TodoGood(<<"retireall">>, scene)
      BY NewTodo, StepNamed
    <2> QED
      BY <1>2, <2>1, CallKeeps DEF DestroyRenderer, driverVars
  <1>3. ASSUME NEW t \in Textures, DestroyTexture(t)
        PROVE  IInv'
    <2>1. TodoGood(<<"finish", "untarget", "retire">>, scene) /\ TodoGood(<<"retire">>, scene)
      BY NewTodo, StepNamed
    <2> QED
      BY <1>3, <2>1, CallKeeps DEF DestroyTexture, driverVars
  <1>4. ASSUME NEW t \in Textures, NEW access \in Accesses, CreateWhenFull(t, access)
        PROVE  IInv'
    <2>1. TodoGood(<<"drain", "reclaimdrained", access>>, scene)
      BY NewTodo, StepNamed
    <2> QED
      BY <1>4, <2>1, CallKeeps DEF CreateWhenFull, driverVars
  <1>5. ASSUME NEW t \in Textures \cup {NoTexture}, SetRenderTarget(t)
        PROVE  IInv'
    <2>1. TodoGood(<<"finish", "retarget">>, scene)
      BY NewTodo, StepNamed
    <2> QED
      BY <1>5, <2>1, CallKeeps DEF SetRenderTarget, driverVars
  <1> QED
    BY <1>1, <1>2, <1>3, <1>4, <1>5

LEMMA WaitTextureIdleKeeps ==
    ASSUME IInv, NEW t \in Textures, WaitTextureIdle(t), UNCHANGED <<target, hwVars>>
    PROVE  IInv'
  <1> DEFINE done == IF tex[t].last_used = 0 THEN scene.completed ELSE Completed
  <1>1. done \in Nat /\ done <= scene.entered /\ \A s \in Unrendered : done < s.gen
    BY CompletedRight DEF IInv, SceneTypeOK, SceneOK, ProvenIsRendered
  <1>2. scene' = [scene EXCEPT !.completed = done]
    BY DEF WaitTextureIdle
  <1>3. \E steps \in {<<"upload">>, <<"drain", "upload">>} : Call(t, steps)
    BY DEF WaitTextureIdle
  <1> HIDE DEF done
  <1>4. SceneTypeOK' /\ SceneOK'
    BY <1>1, <1>2, <1>3, LearningKeepsScene, CallArg
  <1>5. TodoOK'
    BY <1>3, NewTodo, StepNamed DEF Call, TodoOK
  <1> QED
    BY <1>4, <1>5 DEF IInv

\* A scene that has a list is finished: it stays in the TA.
LEMMA FinishedKeepsScene ==
    ASSUME IInv, ta' = [ta EXCEPT !.finished = TRUE], UNCHANGED <<target, rendering>>,
           scene.active, scene.is_entered,
           scene'.begun = scene.begun, scene'.entered = scene.begun,
           scene'.completed = scene.completed, ~scene'.active,
           scene' \in [begun : Nat, entered : Nat, completed : Nat, active : BOOLEAN,
                      is_entered : BOOLEAN, kind : Kinds, target : Textures \cup {NoTexture}],
           arg' \in Textures \cup {NoTexture}
    PROVE  SceneTypeOK' /\ SceneOK'
  <1>1. ta'.gen = ta.gen /\ {"gen", "finished"} \subseteq DOMAIN ta'
    BY DEF IInv, SceneTypeOK
  <1>2. ta # Nothing /\ ta' # Nothing
    BY <1>1 DEF IInv, SceneOK, SceneTypeOK, TaBusy, OpenEntered, Nothing
  <1> QED
    BY <1>1, <1>2 DEF IInv, SceneTypeOK, SceneOK, ProvenIsRendered, Unrendered, TaBusy, OpenEntered

LEMMA FinishActiveSceneKeeps == ASSUME IInv, FinishActiveScene PROVE IInv'
  <1>1. Step("finish") /\ UNCHANGED <<target, rendering>> /\ todo # <<>> /\ Head(todo) = "finish"
    BY DEF FinishActiveScene, Step
  <1>2. CASE ~scene.active
    BY <1>1, <1>2, GoOnGood, SceneUntouched, CallArg
       DEF FinishActiveScene, GoOn, IInv, SceneTypeOK, hwVars
  <1>3. CASE scene.active
    <2>1. /\ scene' = [scene EXCEPT !.active = FALSE, !.is_entered = TRUE, !.entered = scene.begun,
                          !.kind = "none", !.target = NoTexture]
          /\ IF scene.is_entered THEN ta' = [ta EXCEPT !.finished = TRUE] ELSE EnterTA({}, TRUE)
          /\ Proceed(<<"reclaim">> \o Tail(todo))
      BY <1>3 DEF FinishActiveScene
    <2>2. /\ scene' \in [begun : Nat, entered : Nat, completed : Nat, active : BOOLEAN,
                          is_entered : BOOLEAN, kind : Kinds, target : Textures \cup {NoTexture}]
          /\ scene'.begun = scene.begun /\ ~scene'.active /\ scene'.is_entered
          /\ scene'.entered = scene.begun /\ scene'.completed = scene.completed
      BY <2>1 DEF IInv, SceneTypeOK, Kinds
    <2>3. arg' \in Textures \cup {NoTexture}
      BY <2>1, CallArg
    <2>4. TodoOK'
      <3>1. TodoGood(<<"reclaim">> \o Tail(todo), scene')
        BY <1>1, <2>2, ReclaimThenTail DEF IInv, TodoOK
      <3> QED
        BY <2>1, <3>1 DEF TodoOK, Proceed
    <2>5. SceneTypeOK' /\ SceneOK'
      BY <1>1, <1>3, <2>1, <2>2, <2>3, EntryKeepsScene, FinishedKeepsScene
    <2> QED
      BY <2>4, <2>5 DEF IInv
  <1> QED
    BY <1>2, <1>3

LEMMA FailuresKeep == ASSUME IInv, Failures PROVE IInv'
  <1>1. CASE FinishFails
    <2>1. todo' = <<>> /\ UNCHANGED <<scene, target, hwVars>> /\ Abort
      BY <1>1 DEF FinishFails, Abort, Proceed
    <2>2. SceneTypeOK' /\ SceneOK'
      BY <2>1, SceneUntouched, CallArg DEF Abort, IInv, SceneTypeOK
    <2> QED
      BY <2>1, <2>2, NewTodo DEF IInv, TodoOK
  <1>2. CASE WaitTimesOut
    <2>1. \E steps \in {<<"abandon">>, <<>>} : Proceed(steps)
      BY <1>2 DEF WaitTimesOut
    <2>2. UNCHANGED <<scene, target, hwVars>>
      BY <1>2 DEF WaitTimesOut, driverVars
    <2>3. SceneTypeOK' /\ SceneOK'
      BY <2>1, <2>2, SceneUntouched, CallArg DEF IInv, SceneTypeOK
    <2> QED
      BY <2>1, <2>2, <2>3, NewTodo, StepNamed DEF IInv, TodoOK, Proceed
  <1> QED
    BY <1>1, <1>2, BeginFailsKeeps, BeginListKeeps DEF Failures

LEMMA GoingOnKeeps ==
    ASSUME IInv,
           SwitchTarget \/ ReclaimForAllocation \/ Upload
              \/ \E access \in Accesses : CreateAfterDrain(access)
    PROVE  IInv'
  <1>1. CASE SwitchTarget
    <2>1. target' \in Textures \cup {NoTexture}
      BY <1>1 DEF SwitchTarget, IInv, SceneTypeOK
    <2>2. \E name : Step(name) /\ name # "finish"
      BY <1>1 DEF SwitchTarget
    <2> QED
      BY <1>1, <2>1, <2>2, GoOnKeeps DEF SwitchTarget
  <1>2. CASE ReclaimForAllocation
    BY <1>2, GoOnKeeps DEF ReclaimForAllocation, IInv, SceneTypeOK
  <1>3. CASE Upload
    BY <1>3, GoOnKeeps DEF Upload, IInv, SceneTypeOK
  <1>4. ASSUME NEW access \in Accesses, CreateAfterDrain(access)
        PROVE  IInv'
    <2>1. Step(access) /\ GoOn /\ access # "finish" /\ UNCHANGED <<scene, target, hwVars>>
      BY <1>4 DEF CreateAfterDrain, Allocate, driverVars, Accesses
    <2> QED
      BY <2>1, GoOnKeeps DEF IInv, SceneTypeOK
  <1> QED
    BY <1>1, <1>2, <1>3, <1>4

LEMMA PresentScreenKeeps == ASSUME IInv, PresentScreen PROVE IInv'
  <1> DEFINE n == scene.begun + 1
  <1>1. ~scene.active
    BY AtStep DEF IInv, TodoOK, TodoGood, PresentScreen
  <1>2. /\ Step("present") /\ GoOn /\ ~TaBusy /\ UNCHANGED <<target, rendering>>
        /\ scene' = [scene EXCEPT !.begun = n, !.active = TRUE, !.is_entered = TRUE,
                        !.entered = n, !.kind = "physical"]
        /\ ta'.gen = n /\ ~ta'.finished /\ {"gen", "finished"} \subseteq DOMAIN ta'
    BY DEF PresentScreen
  <1>3. n = scene.begun + 1 /\ n \in Nat /\ n > 0
    BY DEF IInv, SceneTypeOK
  <1> HIDE DEF n
  <1>4. /\ scene' \in [begun : Nat, entered : Nat, completed : Nat, active : BOOLEAN,
                        is_entered : BOOLEAN, kind : Kinds, target : Textures \cup {NoTexture}]
        /\ scene'.begun = n /\ scene'.active /\ scene'.is_entered
        /\ scene'.entered = n /\ scene'.completed = scene.completed
    BY <1>2, <1>3 DEF IInv, SceneTypeOK, Kinds
  <1>5. ta' # Nothing
    BY <1>2, <1>3 DEF Nothing
  <1>6. SceneTypeOK'
    BY <1>2, <1>3, <1>4, CallArg DEF IInv, SceneTypeOK, GoOn
  <1>7. SceneOK'
    BY <1>1, <1>2, <1>3, <1>4, <1>5
       DEF IInv, SceneTypeOK, SceneOK, ProvenIsRendered, Unrendered, TaBusy, OpenEntered
  <1>8. TodoOK'
    <2>1. todo # <<>> /\ todo \in Seq(StepNames) /\ Len(todo) > 0 /\ todo[1] = "present"
      BY <1>2, AtStep DEF IInv
    <2>2. Tail(todo) \in Seq(StepNames) /\ Len(Tail(todo)) = Len(todo) - 1
      BY <2>1
    <2>3. \A i \in 1..Len(Tail(todo)) : i + 1 \in 1..Len(todo) /\ Tail(todo)[i] = todo[i + 1]
      BY <2>1, <2>2
    <2>4. \A i \in 1..Len(Tail(todo)) : Tail(todo)[i] \notin {"list", "present"}
      BY <2>1, <2>2, <2>3 DEF IInv, TodoOK, TodoGood
    <2>5. TodoGood(Tail(todo), scene')
      BY <2>2, <2>4 DEF TodoGood
    <2> QED
      BY <1>2, <2>5 DEF TodoOK, GoOn, Proceed
  <1> QED
    BY <1>6, <1>7, <1>8 DEF IInv

LEMMA RetireKeeps == ASSUME IInv, RetireTexture \/ RetireAll PROVE IInv'
  <1>1. CASE RetireTexture
    <2>1. SceneTypeOK' /\ SceneOK'
      BY <1>1, SceneUntouched, CallArg DEF RetireTexture, IInv, SceneTypeOK
    <2>2. TodoGood(<<"reclaim">> \o Tail(todo), scene)
      BY <1>1, ReclaimThenTail DEF RetireTexture, Step, IInv, TodoOK
    <2> QED
      BY <1>1, <2>1, <2>2 DEF RetireTexture, Proceed, IInv, TodoOK
  <1>2. CASE RetireAll
    <2>1. UNCHANGED <<scene, target, arg, hwVars>>
      BY <1>2 DEF RetireAll
    <2>2. SceneTypeOK' /\ SceneOK'
      BY <2>1, SceneUntouched DEF IInv, SceneTypeOK
    <2>3. TodoGood(<<"finishlast">>, scene) /\ TodoGood(<<"reclaim">> \o todo, scene)
      BY <1>2, NewTodo, StepNamed, ReclaimThenRetireAll DEF RetireAll, Step, IInv, TodoOK
    <2>4. todo' = <<"finishlast">> \/ todo' = <<"reclaim">> \o todo
      BY <1>2 DEF RetireAll
    <2> QED
      BY <2>1, <2>2, <2>3, <2>4 DEF IInv, TodoOK
  <1> QED
    BY <1>1, <1>2

LEMMA WaitScenesCompleteKeeps == ASSUME IInv, WaitScenesComplete PROVE IInv'
  <1> DEFINE done == IF OpenEntered THEN scene.entered - 1 ELSE scene.entered
             learned == IF done > scene.completed THEN done ELSE scene.completed
  <1>1. /\ Step("drain") /\ Drained /\ GoOn /\ UNCHANGED <<target, hwVars>>
        /\ scene' = [scene EXCEPT !.completed = learned]
    BY DEF WaitScenesComplete
  <1>2. /\ learned \in Nat /\ learned <= scene.entered
        /\ \A s \in Unrendered : learned < s.gen
    BY <1>1 DEF IInv, SceneTypeOK, SceneOK, ProvenIsRendered, Unrendered, TaBusy, OpenEntered, Drained
  <1> HIDE DEF learned
  <1>3. SceneTypeOK' /\ SceneOK'
    BY <1>1, <1>2, LearningKeepsScene, CallArg DEF GoOn
  <1>4. TodoOK'
    BY <1>1, GoOnGood DEF IInv, SceneTypeOK
  <1> QED
    BY <1>3, <1>4 DEF IInv

LEMMA FinishLastSceneKeeps == ASSUME IInv, FinishLastScene PROVE IInv'
  <1>1. /\ UNCHANGED <<target, arg, rendering>>
        /\ \E steps \in {<<"abandon">>, <<"drain", "close">>} : todo' = steps
    BY DEF FinishLastScene
  <1>2. TodoOK'
    BY <1>1, NewTodo, StepNamed DEF TodoOK
  <1>3. CASE ~scene.active
    BY <1>1, <1>2, <1>3, SceneUntouched DEF FinishLastScene, IInv, SceneTypeOK, hwVars
  <1>4. CASE scene.active
    <2>1. /\ scene' = [scene EXCEPT !.active = FALSE, !.is_entered = TRUE, !.entered = scene.begun]
          /\ IF scene.is_entered THEN ta' = [ta EXCEPT !.finished = TRUE] ELSE EnterTA({}, TRUE)
      BY <1>4 DEF FinishLastScene
    <2>2. /\ scene' \in [begun : Nat, entered : Nat, completed : Nat, active : BOOLEAN,
                          is_entered : BOOLEAN, kind : Kinds, target : Textures \cup {NoTexture}]
          /\ scene'.begun = scene.begun /\ ~scene'.active /\ scene'.is_entered
          /\ scene'.entered = scene.begun /\ scene'.completed = scene.completed
      BY <2>1 DEF IInv, SceneTypeOK
    <2>3. arg' \in Textures \cup {NoTexture}
      BY <1>1 DEF IInv, SceneTypeOK
    <2>4. SceneTypeOK' /\ SceneOK'
      BY <1>1, <1>4, <2>1, <2>2, <2>3, EntryKeepsScene, FinishedKeepsScene
    <2> QED
      BY <1>2, <2>4 DEF IInv
  <1> QED
    BY <1>3, <1>4

LEMMA CloseKeeps == ASSUME IInv, Close PROVE IInv'
  <1>1. SceneTypeOK' /\ SceneOK'
    BY SceneUntouched DEF Close, IInv, SceneTypeOK
  <1>2. todo' = <<>>
    BY DEF Close
  <1> QED
    BY <1>1, <1>2, NewTodo DEF IInv, TodoOK

\* The hardware takes the scene of the TA only when the driver has finished it.
LEMMA StartRenderKeeps == ASSUME IInv, StartRender PROVE IInv'
  <1>1. /\ ~OpenEntered /\ rendering' = ta /\ ta' = Nothing /\ TaBusy /\ rendering = Nothing
        /\ UNCHANGED <<scene, target, todo, arg>>
    BY DEF StartRender, driverVars, callVars, IInv, SceneOK
  <1>2. ta'.gen = 0 /\ {"gen", "finished"} \subseteq DOMAIN ta'
    BY <1>1 DEF Nothing
  <1>3. SceneTypeOK' /\ TodoOK'
    BY <1>1, <1>2 DEF IInv, SceneTypeOK, TodoOK
  <1>4. SceneOK'
    BY <1>1 DEF IInv, SceneTypeOK, SceneOK, ProvenIsRendered, Unrendered, TaBusy, OpenEntered
  <1> QED
    BY <1>3, <1>4 DEF IInv

LEMMA RenderDoneKeeps == ASSUME IInv, RenderDone PROVE IInv'
  <1>1. rendering' = Nothing /\ UNCHANGED <<scene, target, todo, arg, ta>>
    BY DEF RenderDone, driverVars, callVars
  <1> QED
    BY <1>1 DEF IInv, TodoOK, SceneTypeOK, SceneOK, ProvenIsRendered, Unrendered, TaBusy, OpenEntered

-----------------------------------------------------------------------------
(* The theorem.                                                            *)

LEMMA InitInv == Init => IInv
  <1> SUFFICES ASSUME Init PROVE IInv
    OBVIOUS
  <1>1. TodoOK
    BY NewTodo DEF Init, TodoOK
  <1>2. SceneTypeOK
    BY DEF Init, SceneTypeOK, Nothing, Kinds
  <1>3. SceneOK
    BY DEF Init, SceneOK, ProvenIsRendered, Unrendered, TaBusy, OpenEntered
  <1> QED
    BY <1>1, <1>2, <1>3 DEF IInv

LEMMA NextInv == IInv /\ [Next]_vars => IInv'
  <1> SUFFICES ASSUME IInv, [Next]_vars PROVE IInv'
    OBVIOUS
  <1>1. CASE Calls
    <2>1. ASSUME NEW t \in Textures, UpdateTexture(t) \/ UnlockTexture(t)
          PROVE  IInv'
      BY <2>1, WaitTextureIdleKeeps DEF UpdateTexture, UnlockTexture
    <2> QED
      BY <1>1, <2>1, BeginSceneKeeps, BeginListAgainKeeps, DropHeaderKeeps, CallsKeep,
         DrawTextureKeeps
         DEF Calls
  <1>2. CASE Continue
    BY <1>2, BeginListKeeps, ReclaimKeeps, FinishActiveSceneKeeps, GoingOnKeeps,
       PresentScreenKeeps, RetireKeeps, WaitScenesCompleteKeeps, FinishLastSceneKeeps, CloseKeeps
       DEF Continue
  <1>3. CASE Failures
    BY <1>3, FailuresKeep
  <1>4. CASE Hardware
    BY <1>4, StartRenderKeeps, RenderDoneKeeps, DropHeaderKeeps DEF Hardware
  <1>5. CASE Destroyed \/ UNCHANGED vars
    BY <1>5, DropHeaderKeeps DEF Destroyed
  <1> QED
    BY <1>1, <1>2, <1>3, <1>4, <1>5 DEF Next

\* A scene that the driver takes for rendered is rendered, for any textures, blocks and
\* number of scenes: neither DC_PVR_CompletedScenes nor DC_PVR_WaitScenesComplete ever
\* concludes from the hardware's state what is not so.
THEOREM ProvenRendered == Spec => []ProvenIsRendered
  <1>1. IInv => ProvenIsRendered
    BY DEF IInv, SceneOK
  <1> QED
    BY <1>1, InitInv, NextInv, PTL DEF Spec

-----------------------------------------------------------------------------
(* Whose the memory is.                                                    *)

In(s) == {s[i] : i \in 1..Len(s)}

Nonabsent(t) == tex[t].state # "absent"

\* What is known of a texture.
TexOK ==
    \A t \in Textures :
        /\ tex[t].state = "absent" => tex[t].vram = NoBlock /\ tex[t].vram_next = NoBlock
        /\ Nonabsent(t) =>
              /\ tex[t].vram \in Blocks
              /\ tex[t].access = "target" => tex[t].vram_next \in Blocks
              /\ tex[t].access # "target" => tex[t].vram_next = NoBlock
        /\ tex[t].vram \in Blocks => tex[t].vram # tex[t].vram_next
        /\ tex[t].locked => tex[t].access = "streaming"

\* A block is one texture's.
Disjoint ==
    \A t, u \in Textures : t # u => BlocksOf(tex[t]) \cap BlocksOf(tex[u]) = {}

\* The renderer is being destroyed, or has been.
EndSteps == {"retireall", "finishlast", "close", "abandon"}
Ending == In(todo) \cap EndSteps # {} \/ status # "open"

\* Which steps go together in a call, and in what order some of them come.
Groups ==
    {{"list"}, {"finish", "reclaim", "retarget"}, {"finish", "reclaim", "present", "presented"},
     {"finish", "reclaim", "untarget", "retire"}, {"drain", "reclaimdrained"} \cup Accesses,
     {"drain", "upload"}, {"reclaim", "retireall"}, {"finishlast"}, {"drain", "close"},
     {"abandon"}}
Together(s) == \E g \in Groups : In(s) \subseteq g
InOrder(s) ==
    \A i \in 1..Len(s) :
        /\ s[i] \in {"retire"} \cup EndSteps \cup Accesses => i = Len(s)
        /\ s[i] = "drain" => i = 1 /\ Len(s) > 1

\* What the steps left in a call tell of its texture and of the others.
CallOK ==
    /\ Together(todo) /\ InOrder(todo)
    /\ "upload" \in In(todo) => arg \in Live /\ tex[arg].access = "streaming"
    /\ "retire" \in In(todo) => arg \in Live /\ (arg # target \/ "untarget" \in In(todo))
    /\ In(todo) \cap Accesses # {} => arg \in Textures /\ tex[arg].state = "absent"
    /\ "retarget" \in In(todo) => arg = NoTexture \/ (arg \in Live /\ tex[arg].access = "target")
    /\ In(todo) \cap {"retarget", "untarget"} # {} => ~scene.active \/ todo[1] = "finish"
    /\ In(todo) \cap {"finishlast", "close", "abandon"} # {} => Live = {}
    /\ In(todo) \cap {"close", "abandon"} # {} => ~scene.active
    /\ status # "open" => todo = <<>> /\ ~scene.active /\ Live = {} /\ Retired = {}

\* The texture that is rendered to.
TargetOK ==
    /\ target # NoTexture => Ending \/ (target \in Live /\ tex[target].access = "target")
    /\ scene.active => scene.kind # "none"
    /\ scene.active /\ scene.kind = "target" =>
          /\ scene.target \in Textures
          /\ Nonabsent(scene.target) /\ tex[scene.target].access = "target"
          /\ tex[scene.target].state = "retired" => tex[scene.target].retire = scene.begun
          /\ Ending \/ scene.target = target

ScreenOK == screen.vram # screen.vram_next

MemInv == TypeOK /\ TexOK /\ Disjoint /\ CallOK /\ TargetOK /\ ScreenOK

-----------------------------------------------------------------------------
(* The steps of a call as a set.                                           *)

LEMMA InShort ==
    /\ In(<<>>) = {}
    /\ \A x : In(<<x>>) = {x}
    /\ \A x, y : In(<<x, y>>) = {x, y}
    /\ \A x, y, z : In(<<x, y, z>>) = {x, y, z}
    /\ \A w, x, y, z : In(<<w, x, y, z>>) = {w, x, y, z}
  <1>1. In(<<>>) = {}
    BY DEF In
  <1>2. ASSUME NEW x PROVE In(<<x>>) = {x}
    BY DEF In
  <1>3. ASSUME NEW x, NEW y PROVE In(<<x, y>>) = {x, y}
    BY DEF In
  <1>4. ASSUME NEW x, NEW y, NEW z PROVE In(<<x, y, z>>) = {x, y, z}
    BY DEF In
  <1>5. ASSUME NEW w, NEW x, NEW y, NEW z PROVE In(<<w, x, y, z>>) = {w, x, y, z}
    BY DEF In
  <1> QED
    BY <1>1, <1>2, <1>3, <1>4, <1>5

LEMMA TailSteps ==
    ASSUME NEW S, NEW s \in Seq(S), s # <<>>
    PROVE  /\ Tail(s) \in Seq(S) /\ Len(s) \in Nat /\ Len(s) > 0 /\ Len(Tail(s)) = Len(s) - 1
           /\ \A i \in 1..Len(Tail(s)) : i + 1 \in 1..Len(s) /\ Tail(s)[i] = s[i + 1]
           /\ Head(s) = s[1]
           /\ In(s) = {Head(s)} \cup In(Tail(s))
  <1>1. /\ Tail(s) \in Seq(S) /\ Len(s) \in Nat /\ Len(s) > 0 /\ Len(Tail(s)) = Len(s) - 1
        /\ Head(s) = s[1]
    OBVIOUS
  <1>2. \A i \in 1..Len(Tail(s)) : i + 1 \in 1..Len(s) /\ Tail(s)[i] = s[i + 1]
    BY <1>1
  <1>3. ASSUME NEW i \in 1..Len(s), i # 1 PROVE i - 1 \in 1..Len(Tail(s)) /\ Tail(s)[i - 1] = s[i]
    BY <1>1, <1>2, <1>3
  <1>4. In(s) \subseteq {Head(s)} \cup In(Tail(s))
    BY <1>1, <1>3 DEF In
  <1>5. {Head(s)} \cup In(Tail(s)) \subseteq In(s)
    BY <1>1, <1>2 DEF In
  <1> QED
    BY <1>1, <1>2, <1>4, <1>5

LEMMA ConsSteps ==
    ASSUME NEW S, NEW s \in Seq(S), NEW x \in S
    PROVE  /\ <<x>> \o s \in Seq(S) /\ <<x>> \o s # <<>>
           /\ Len(s) \in Nat /\ Len(<<x>> \o s) = Len(s) + 1 /\ (<<x>> \o s)[1] = x
           /\ \A i \in 1..Len(s) : (<<x>> \o s)[i + 1] = s[i]
           /\ \A i \in 2..Len(s) + 1 : i - 1 \in 1..Len(s) /\ (<<x>> \o s)[i] = s[i - 1]
           /\ In(<<x>> \o s) = {x} \cup In(s)
  <1> DEFINE r == <<x>> \o s
  <1>1. <<x>> \in Seq(S) /\ Len(<<x>>) = 1 /\ <<x>>[1] = x
    BY OneStep
  <1>2. r \in Seq(S) /\ Len(s) \in Nat /\ Len(r) = Len(s) + 1 /\ r[1] = x
    BY <1>1
  <1>3. \A i \in 2..Len(s) + 1 : i - 1 \in 1..Len(s) /\ r[i] = s[i - 1]
    BY <1>1, <1>2
  <1>4. \A i \in 1..Len(s) : i + 1 \in 2..Len(s) + 1 /\ r[i + 1] = s[i]
    BY <1>2, <1>3
  <1>5. r # <<>>
    BY <1>2
  <1> HIDE DEF r
  <1>6. In(r) = {x} \cup In(s)
    <2>1. In(r) \subseteq {x} \cup In(s)
      <3> SUFFICES ASSUME NEW i \in 1..Len(r) PROVE r[i] \in {x} \cup In(s)
        BY DEF In
      <3>1. CASE i = 1
        BY <3>1, <1>2
      <3>2. CASE i # 1
        BY <3>2, <1>2, <1>3 DEF In
      <3> QED
        BY <3>1, <3>2
    <2>2. {x} \cup In(s) \subseteq In(r)
      <3>1. x \in In(r)
        BY <1>2 DEF In
      <3>2. \A i \in 1..Len(s) : s[i] \in In(r)
        BY <1>2, <1>4 DEF In
      <3> QED
        BY <3>1, <3>2 DEF In
    <2> QED
      BY <2>1, <2>2
  <1> QED
    BY <1>2, <1>3, <1>4, <1>5, <1>6 DEF r

LEMMA OneElement ==
    ASSUME NEW S, NEW s \in Seq(S), Len(s) = 1
    PROVE  /\ s = <<s[1]>> /\ Tail(s) = <<>> /\ In(s) = {s[1]}
           /\ \A x \in S : <<x>> \o Tail(s) = <<x>> /\ <<x>> \o s = <<x, s[1]>>
  <1>1. s[1] \in S /\ s # <<>>
    BY EmptySeq, ElementOfSeq
  <1>2. \A x \in S : <<x>> \in Seq(S) /\ Len(<<x>>) = 1 /\ <<x>>[1] = x
    BY OneStep
  <1>3. s = <<s[1]>>
    BY <1>1, <1>2, SeqEqual
  <1>4. Tail(s) = <<>>
    <2>1. Tail(s) \in Seq(S) /\ Len(Tail(s)) = 0
      BY <1>1, HeadTailProperties
    <2> QED
      BY <2>1, EmptySeq
  <1>5. In(s) = {s[1]}
    <2>1. In(<<s[1]>>) = {s[1]}
      BY InShort
    <2> QED
      BY <1>3, <2>1
  <1>6. \A x \in S : <<x>> \o Tail(s) = <<x>>
    BY <1>2, <1>4, ConcatEmptySeq
  <1>7. ASSUME NEW x \in S PROVE <<x>> \o s = <<x, s[1]>>
    <2> DEFINE r == <<x, s[1]>>
    <2>1. r \in Seq(S) /\ Len(r) = 2 /\ r[1] = x /\ r[2] = s[1]
      BY <1>1
    <2>2. <<x>> \in Seq(S) /\ Len(<<x>>) = 1 /\ <<x>>[1] = x
      BY <1>2
    <2>3. <<x>> \o s \in Seq(S) /\ Len(<<x>> \o s) = 2
      BY <2>2, ConcatProperties
    <2>4. (<<x>> \o s)[1] = x /\ (<<x>> \o s)[2] = s[1]
      <3>1. 1 \in 1..Len(<<x>>) + Len(s) /\ 2 \in 1..Len(<<x>>) + Len(s)
        BY <2>2
      <3>2. /\ (<<x>> \o s)[1] = IF 1 <= Len(<<x>>) THEN <<x>>[1] ELSE s[1 - Len(<<x>>)]
            /\ (<<x>> \o s)[2] = IF 2 <= Len(<<x>>) THEN <<x>>[2] ELSE s[2 - Len(<<x>>)]
        BY <2>2, <3>1, ConcatProperties
      <3> QED
        BY SMTT(30), <2>2, <3>2
    <2> HIDE DEF r
    <2>5. \A i \in 1..2 : (<<x>> \o s)[i] = r[i]
      BY <2>1, <2>4
    <2>6. <<x>> \o s = r
      BY <2>1, <2>3, <2>5, SeqEqual
    <2> QED
      BY <2>6 DEF r
  <1> QED
    BY <1>3, <1>4, <1>5, <1>6, <1>7

LEMMA OneLater ==
    ASSUME NEW n \in Nat, NEW i \in 1..(n - 1)
    PROVE  i + 1 \in 1..n /\ (i + 1 = n => i = n - 1) /\ i + 1 # 1
  OBVIOUS

LEMMA TailCall ==
    ASSUME NEW s \in Seq(StepNames), s # <<>>
    PROVE  /\ Together(s) => Together(Tail(s))
           /\ InOrder(s) => InOrder(Tail(s))
  <1>1. Together(s) => Together(Tail(s))
    BY TailSteps DEF Together
  <1>2. ASSUME InOrder(s), NEW i \in 1..Len(Tail(s))
        PROVE  /\ Tail(s)[i] \in {"retire"} \cup EndSteps \cup Accesses => i = Len(Tail(s))
               /\ Tail(s)[i] # "drain"
    <2>1. Len(s) \in Nat /\ Len(s) > 0 /\ Len(Tail(s)) = Len(s) - 1
      BY TailSteps
    <2>2. i + 1 \in 1..Len(s) /\ Tail(s)[i] = s[i + 1]
      BY TailSteps
    <2>3. (i + 1 = Len(s) => i = Len(s) - 1) /\ i + 1 # 1
      BY <2>1, OneLater
    <2>4. i + 1 \in 1..Len(s) /\ s[i + 1] = Tail(s)[i]
      BY <2>2
    <2>5. s[i + 1] \in {"retire"} \cup EndSteps \cup Accesses => i + 1 = Len(s)
      BY <1>2, <2>4 DEF InOrder
    <2>6. s[i + 1] # "drain"
      BY <1>2, <2>3, <2>4 DEF InOrder
    <2> QED
      BY <2>1, <2>3, <2>4, <2>5, <2>6
  <1> QED
    BY <1>1, <1>2 DEF InOrder

LEMMA TodoSeq ==
    ASSUME IInv, NEW name, Step(name)
    PROVE  /\ todo \in Seq(StepNames) /\ todo # <<>> /\ todo[1] = name /\ Head(todo) = name
           /\ Tail(todo) \in Seq(StepNames) /\ Len(todo) \in Nat /\ Len(todo) > 0
           /\ Len(Tail(todo)) = Len(todo) - 1
           /\ \A i \in 1..Len(Tail(todo)) : i + 1 \in 1..Len(todo) /\ Tail(todo)[i] = todo[i + 1]
           /\ In(todo) = {name} \cup In(Tail(todo))
  BY AtStep, TailSteps DEF IInv, Step

-----------------------------------------------------------------------------
(* What a step of a call keeps of what is known of the call.               *)

\* The textures that a call knows of are as they were.
SameCallTextures ==
    /\ Live' = Live
    /\ \A t \in Live : tex'[t].access = tex[t].access
    /\ \A t \in Textures : tex[t].state = "absent" => tex'[t].state = "absent"

\* A call that has none of the steps that something must be known for.
LEMMA PlainCall ==
    ASSUME status' = "open", Together(todo'), InOrder(todo'),
           In(todo') \cap ({"upload", "retire", "retarget", "untarget", "finishlast", "close",
                            "abandon"} \cup Accesses) = {}
    PROVE  CallOK'
  BY DEF CallOK

LEMMA OnCall ==
    ASSUME MemInv, NEW name, name \in In(todo), todo[1] = name, todo # <<>>,
           In(todo') \subseteq In(todo) \cup {"reclaim"},
           "untarget" \in In(todo) => name = "untarget" \/ "untarget" \in In(todo'),
           Together(todo'), InOrder(todo'), status' = status,
           arg' = arg \/ In(todo') \subseteq {"reclaim"},
           SameCallTextures,
           name = "untarget" => target' = NoTexture,
           target' = target \/ name \in {"retarget", "untarget"},
           scene'.active => scene.active \/ name = "present",
           name = "finish" => ~scene'.active
    PROVE  CallOK'
  <1>1. status = "open" /\ status' = "open"
    BY DEF MemInv, CallOK
  <1>2. CASE In(todo') \subseteq {"reclaim"}
    BY <1>1, <1>2, PlainCall DEF Accesses
  <1>3. CASE arg' = arg
    <2>1. \A t \in Live : t \in Textures /\ t # NoTexture
      BY NoneAssumption DEF Live
    <2>2. "upload" \in In(todo') => arg' \in Live' /\ tex'[arg'].access = "streaming"
      <3>1. "upload" \in In(todo') => "upload" \in In(todo)
        OBVIOUS
      <3> QED
        BY <1>3, <3>1 DEF MemInv, CallOK, SameCallTextures
    <2>3. PICK g \in Groups : In(todo) \subseteq g
      BY DEF MemInv, CallOK, Together
    <2>4. "retire" \in In(todo) => name \notin {"retarget", "present"}
      BY <2>3 DEF Groups, Accesses
    <2>5. "retire" \in In(todo') => arg' \in Live' /\ (arg' # target' \/ "untarget" \in In(todo'))
      <3> SUFFICES ASSUME "retire" \in In(todo')
                   PROVE  arg' \in Live' /\ (arg' # target' \/ "untarget" \in In(todo'))
        OBVIOUS
      <3>1. "retire" \in In(todo)
        OBVIOUS
      <3>2. arg \in Live /\ (arg # target \/ "untarget" \in In(todo))
        BY <3>1 DEF MemInv, CallOK
      <3> QED
        BY <1>3, <2>1, <2>4, <3>1, <3>2 DEF SameCallTextures
    <2>6. In(todo') \cap Accesses # {} => arg' \in Textures /\ tex'[arg'].state = "absent"
      <3>1. In(todo') \cap Accesses # {} => In(todo) \cap Accesses # {}
        BY DEF Accesses
      <3> QED
        BY <1>3, <3>1 DEF MemInv, CallOK, SameCallTextures
    <2>7. "retarget" \in In(todo') =>
              arg' = NoTexture \/ (arg' \in Live' /\ tex'[arg'].access = "target")
      BY <1>3 DEF MemInv, CallOK, SameCallTextures
    <2>8. In(todo') \cap {"retarget", "untarget"} # {} => ~scene'.active
      <3>1. In(todo) \cap {"retarget", "untarget"} # {} => name # "present"
        BY <2>3 DEF Groups, Accesses
      <3>2. In(todo) \cap {"retarget", "untarget"} # {} => ~scene.active \/ name = "finish"
        BY DEF MemInv, CallOK
      <3> QED
        BY <3>1, <3>2
    <2>9. In(todo') \cap {"finishlast", "close", "abandon"} # {} => Live' = {}
      BY DEF MemInv, CallOK, SameCallTextures
    <2>10. In(todo') \cap {"close", "abandon"} # {} => ~scene'.active
      <3>1. In(todo) \cap {"close", "abandon"} # {} => name # "present"
        BY <2>3 DEF Groups, Accesses
      <3>2. In(todo) \cap {"close", "abandon"} # {} => ~scene.active
        BY DEF MemInv, CallOK
      <3> QED
        BY <3>1, <3>2
    <2> QED
      BY <1>1, <2>2, <2>5, <2>6, <2>7, <2>8, <2>9, <2>10 DEF CallOK
  <1> QED
    BY <1>2, <1>3

LEMMA GoOnCall ==
    ASSUME IInv, MemInv, NEW name, Step(name), GoOn, SameCallTextures,
           name = "untarget" => target' = NoTexture,
           target' = target \/ name \in {"retarget", "untarget"},
           scene'.active => scene.active \/ name = "present",
           name = "finish" => ~scene'.active
    PROVE  CallOK'
  <1>1. todo' = Tail(todo) /\ status' = status /\ (Tail(todo) # <<>> => arg' = arg)
    BY DEF GoOn, Proceed
  <1>2. /\ todo \in Seq(StepNames) /\ todo # <<>> /\ todo[1] = name
        /\ In(todo) = {name} \cup In(Tail(todo))
    BY TodoSeq
  <1>3. Together(todo') /\ InOrder(todo')
    BY <1>1, <1>2, TailCall DEF MemInv, CallOK
  <1>4. arg' = arg \/ In(todo') \subseteq {"reclaim"}
    BY <1>1, InShort
  <1> QED
    BY <1>1, <1>2, <1>3, <1>4, OnCall

\* The end of the renderer does not stop.
LEMMA StillEnding ==
    ASSUME IInv, NEW name, Step(name), GoOn, name \notin EndSteps
    PROVE  Ending => Ending'
  <1>1. todo' = Tail(todo) /\ status' = status
    BY DEF GoOn, Proceed
  <1>2. In(todo) = {name} \cup In(Tail(todo))
    BY TodoSeq
  <1> QED
    BY <1>1, <1>2 DEF Ending

-----------------------------------------------------------------------------
(* Types.                                                                  *)

TexRecords ==
    [state : {"absent", "live", "retired"}, access : Accesses,
     vram : Blocks \cup {NoBlock}, vram_next : Blocks \cup {NoBlock},
     filled : BOOLEAN, referenced : BOOLEAN, locked : BOOLEAN, last_used : Gens, retire : Gens]

LEMMA AbsentTyped == Absent \in TexRecords
  BY BoundAssumption DEF Absent, TexRecords, Gens, Accesses

LEMMA NothingTyped == Nothing \in SceneRecords
  BY BoundAssumption DEF Nothing, SceneRecords, Gens, Kinds, Memory

\* With the invariant about the scenes, few variables are left to be typed.
LEMMA Typed ==
    ASSUME TypeOK, IInv', scene'.begun <= MaxScenes, tex' \in [Textures -> TexRecords],
           screen' \in [vram : Screens, vram_next : Screens, valid : BOOLEAN],
           header' \in Textures \cup {NoTexture}, pvr_failed' \in BOOLEAN, torn' \in BOOLEAN,
           unflipped' \in BOOLEAN, status' \in {"open", "destroyed", "recovered"},
           ta' \in SceneRecords, rendering' \in SceneRecords
    PROVE  TypeOK'
  <1>1. /\ scene' \in [begun : Nat, entered : Nat, completed : Nat, active : BOOLEAN,
                        is_entered : BOOLEAN, kind : Kinds, target : Textures \cup {NoTexture}]
        /\ target' \in Textures \cup {NoTexture} /\ arg' \in Textures \cup {NoTexture}
    BY DEF IInv, SceneTypeOK
  <1>2. scene'.begun \in Gens /\ scene'.entered \in Gens /\ scene'.completed \in Gens
    BY <1>1, BoundAssumption DEF IInv, SceneOK, Gens
  <1>3. scene' \in [begun : Gens, entered : Gens, completed : Gens, active : BOOLEAN,
                    is_entered : BOOLEAN, kind : Kinds, target : Textures \cup {NoTexture}]
    BY <1>1, <1>2
  <1> QED
    BY <1>1, <1>3 DEF TypeOK, TexRecords

LEMMA TouchTyped == ASSUME torn \in BOOLEAN, NEW blocks, Touch(blocks) PROVE torn' \in BOOLEAN
  BY Zenon DEF Touch

\* The step leaves the screen, the hardware and the flags of the renderer as they are.
LEMMA QuietTyped ==
    ASSUME TypeOK, IInv', scene'.begun <= MaxScenes, tex' \in [Textures -> TexRecords],
           header' \in Textures \cup {NoTexture}, pvr_failed' \in BOOLEAN, torn' \in BOOLEAN,
           status' = status,
           UNCHANGED <<screen, hwVars>>
    PROVE  TypeOK'
  <1>1. /\ UNCHANGED <<screen, ta, rendering, unflipped>>
        /\ screen \in [vram : Screens, vram_next : Screens, valid : BOOLEAN]
        /\ unflipped \in BOOLEAN /\ ta \in SceneRecords /\ rendering \in SceneRecords
        /\ status \in {"open", "destroyed", "recovered"}
    BY DEF TypeOK, hwVars
  <1> QED
    BY <1>1, Typed

LEMMA TypedNow ==
    ASSUME TypeOK
    PROVE  /\ scene.begun <= MaxScenes /\ scene.begun \in Gens /\ tex \in [Textures -> TexRecords]
           /\ header \in Textures \cup {NoTexture} /\ pvr_failed \in BOOLEAN /\ torn \in BOOLEAN
  BY BoundAssumption DEF TypeOK, TexRecords, Gens

-----------------------------------------------------------------------------
(* What steps on the textures keep.                                        *)

\* The step changes no texture's state, memory or retirement.
SameTextures ==
    \A t \in Textures :
        /\ tex'[t].state = tex[t].state /\ tex'[t].access = tex[t].access
        /\ tex'[t].vram = tex[t].vram /\ tex'[t].vram_next = tex[t].vram_next
        /\ tex'[t].retire = tex[t].retire
        /\ tex'[t].locked => tex[t].locked \/ tex[t].access = "streaming"

\* The textures that the scene or the app can render to are as they were.
SameTargets ==
    \A t \in Textures :
        /\ tex[t].state = "live" => tex'[t].state = "live" /\ tex'[t].access = tex[t].access
        /\ tex[t].state = "retired" /\ scene.active /\ tex[t].retire = scene.begun =>
              tex'[t].state = "retired" /\ tex'[t].access = tex[t].access
                 /\ tex'[t].retire = scene.begun

LEMMA SameTexturesKeep ==
    ASSUME SameTextures
    PROVE  /\ TexOK => TexOK'
           /\ Disjoint => Disjoint'
           /\ SameCallTextures /\ SameTargets /\ Retired' = Retired
           /\ \A t \in Textures : BlocksOf(tex'[t]) = BlocksOf(tex[t]) /\ Nonabsent(t)' = Nonabsent(t)
  <1>1. SameCallTextures /\ Retired' = Retired
    BY DEF SameTextures, SameCallTextures, Live, Retired
  <1>2. \A t \in Textures : BlocksOf(tex'[t]) = BlocksOf(tex[t]) /\ Nonabsent(t)' = Nonabsent(t)
    BY DEF SameTextures, BlocksOf, Nonabsent
  <1>3. TexOK => TexOK'
    BY DEF TexOK, SameTextures, Nonabsent
  <1>4. Disjoint => Disjoint'
    BY <1>2 DEF Disjoint
  <1>5. SameTargets
    BY DEF SameTargets, SameTextures
  <1> QED
    BY <1>1, <1>2, <1>3, <1>4, <1>5

LEMMA UnchangedTextures == ASSUME UNCHANGED tex PROVE SameTextures
  BY DEF SameTextures

LEMMA TargetFrame ==
    ASSUME MemInv, SameTargets, Ending => Ending', target' = target,
           scene'.active = scene.active, scene'.kind = scene.kind, scene'.target = scene.target,
           scene'.begun = scene.begun
    PROVE  TargetOK'
  <1>1. target # NoTexture => Ending' \/ (target \in Live' /\ tex'[target].access = "target")
    BY DEF MemInv, TargetOK, SameTargets, Live
  <1>2. ASSUME scene.active, scene.kind = "target"
        PROVE  /\ scene.target \in Textures
               /\ Nonabsent(scene.target)' /\ tex'[scene.target].access = "target"
               /\ tex'[scene.target].state = "retired" => tex'[scene.target].retire = scene.begun
               /\ Ending' \/ scene.target = target
    <2>1. /\ scene.target \in Textures
          /\ Nonabsent(scene.target) /\ tex[scene.target].access = "target"
          /\ tex[scene.target].state = "retired" => tex[scene.target].retire = scene.begun
          /\ Ending \/ scene.target = target
      BY <1>2 DEF MemInv, TargetOK
    <2>2. tex[scene.target].state \in {"live", "retired"}
      BY <2>1 DEF MemInv, TypeOK, Nonabsent
    <2> QED
      BY <1>2, <2>1, <2>2 DEF SameTargets, Nonabsent
  <1>3. scene.active => scene.kind # "none"
    BY DEF MemInv, TargetOK
  <1> QED
    BY <1>1, <1>2, <1>3 DEF TargetOK, Nonabsent

\* Reclaiming retired textures, all of them rendered.
LEMMA ReclaimRetiredKeeps ==
    ASSUME MemInv, NEW done \in Nat, ReclaimRetired(done), scene.active => done < scene.begun
    PROVE  /\ tex' \in [Textures -> TexRecords] /\ torn' \in BOOLEAN
           /\ TexOK' /\ Disjoint' /\ SameCallTextures /\ SameTargets
           /\ \A t \in Textures : tex'[t] = tex[t] \/ (t \in Reclaimable(done) /\ tex'[t] = Absent)
  <1>1. \A t \in Textures : tex'[t] = tex[t] \/ (t \in Reclaimable(done) /\ tex'[t] = Absent)
    BY DEF ReclaimRetired
  <1>2. tex' \in [Textures -> TexRecords]
    BY AbsentTyped, TypedNow DEF ReclaimRetired, MemInv
  <1>3. torn' \in BOOLEAN
    BY TouchTyped DEF ReclaimRetired, MemInv, TypeOK
  <1>4. Absent.state = "absent" /\ Absent.vram = NoBlock /\ Absent.vram_next = NoBlock /\ ~Absent.locked
    BY DEF Absent
  <1>5. TexOK'
    BY <1>1, <1>4, NoneAssumption DEF MemInv, TexOK, Nonabsent
  <1>6. \A t \in Textures : BlocksOf(tex'[t]) \subseteq BlocksOf(tex[t])
    BY <1>1, <1>4 DEF BlocksOf
  <1>7. Disjoint'
    BY <1>6 DEF MemInv, Disjoint
  <1>8. SameCallTextures
    BY <1>1, <1>4 DEF SameCallTextures, Live, Reclaimable, Retired
  <1>9. SameTargets
    <2> SUFFICES ASSUME NEW t \in Textures, tex'[t] # tex[t],
                        tex[t].state = "live"
                           \/ (tex[t].state = "retired" /\ scene.active /\ tex[t].retire = scene.begun)
                 PROVE  FALSE
      BY DEF SameTargets
    <2>1. tex[t].state = "retired" /\ tex[t].retire <= done
      BY <1>1 DEF Reclaimable, Retired
    <2>2. scene.begun \in Nat
      BY DEF MemInv, TypeOK, Gens
    <2> QED
      BY <2>1, <2>2
  <1> QED
    BY <1>1, <1>2, <1>3, <1>5, <1>7, <1>8, <1>9

-----------------------------------------------------------------------------
(* The memory's invariant is kept: one lemma for each action or group.     *)

LEMMA SameCallKeeps ==
    ASSUME MemInv, UNCHANGED callVars, SameCallTextures, Retired' \subseteq Retired,
           target' = target, scene'.active = scene.active
    PROVE  CallOK' /\ (Ending => Ending')
  <1>1. todo' = todo /\ arg' = arg /\ status' = status
    BY DEF callVars
  <1>2. \A t \in Live : t \in Textures
    BY DEF Live
  <1>3. "upload" \in In(todo) => arg \in Live' /\ tex'[arg].access = "streaming"
    BY DEF MemInv, CallOK, SameCallTextures
  <1>4. "retarget" \in In(todo) => arg = NoTexture \/ (arg \in Live' /\ tex'[arg].access = "target")
    BY DEF MemInv, CallOK, SameCallTextures
  <1>5. In(todo) \cap Accesses # {} => arg \in Textures /\ tex'[arg].state = "absent"
    BY DEF MemInv, CallOK, SameCallTextures
  <1>6. /\ Together(todo) /\ InOrder(todo)
        /\ "retire" \in In(todo) => arg \in Live' /\ (arg # target \/ "untarget" \in In(todo))
        /\ In(todo) \cap {"retarget", "untarget"} # {} => ~scene.active \/ todo[1] = "finish"
        /\ In(todo) \cap {"finishlast", "close", "abandon"} # {} => Live' = {}
        /\ In(todo) \cap {"close", "abandon"} # {} => ~scene.active
        /\ status # "open" => todo = <<>> /\ ~scene.active /\ Live' = {} /\ Retired' = {}
    BY DEF MemInv, CallOK, SameCallTextures
  <1>7. CallOK'
    BY <1>1, <1>3, <1>4, <1>5, <1>6 DEF CallOK
  <1> QED
    BY <1>1, <1>7 DEF Ending

\* Steps that change no texture's memory and nothing of the call.
LEMMA QuietMem ==
    ASSUME MemInv, SameTextures, UNCHANGED <<scene, screen, target, callVars>>, TypeOK'
    PROVE  MemInv'
  <1>1. /\ TexOK' /\ Disjoint' /\ SameCallTextures /\ SameTargets /\ Retired' = Retired
    BY SameTexturesKeep DEF MemInv
  <1>2. CallOK' /\ (Ending => Ending')
    BY <1>1, SameCallKeeps
  <1>3. TargetOK'
    BY <1>1, <1>2, TargetFrame
  <1> QED
    BY <1>1, <1>2, <1>3 DEF MemInv, ScreenOK

LEMMA DropHeaderMem == ASSUME MemInv, IInv', DropHeader \/ UNCHANGED vars PROVE MemInv'
  <1>1. /\ UNCHANGED <<tex, scene, screen, target, callVars, hwVars, torn, pvr_failed>>
        /\ header' \in {header, NoTexture}
    BY DEF DropHeader, vars, driverVars, callVars, hwVars
  <1>2. TypeOK'
    BY <1>1, TypedNow, QuietTyped DEF MemInv, callVars
  <1> QED
    BY <1>1, <1>2, QuietMem, UnchangedTextures

LEMMA LockTextureMem == ASSUME MemInv, IInv', NEW t \in Textures, LockTexture(t) PROVE MemInv'
  <1>1. /\ tex' = [tex EXCEPT ![t].locked = TRUE] /\ tex[t].access = "streaming"
        /\ UNCHANGED <<scene, screen, target, header, pvr_failed, callVars, hwVars, torn>>
    BY DEF LockTexture
  <1>2. tex \in [Textures -> TexRecords]
    BY TypedNow DEF MemInv
  <1>3. tex' \in [Textures -> TexRecords] /\ SameTextures
    BY ZenonT(60), <1>1, <1>2 DEF SameTextures, TexRecords
  <1>4. TypeOK'
    BY <1>1, <1>3, TypedNow, QuietTyped DEF MemInv, callVars
  <1> QED
    BY <1>1, <1>3, <1>4, QuietMem

LEMMA DrawTextureMem == ASSUME MemInv, IInv', NEW t \in Textures, DrawTexture(t) PROVE MemInv'
  <1>1. /\ tex' = [tex EXCEPT ![t].referenced = TRUE, ![t].last_used = scene.begun]
        /\ t \in Live /\ ta' = [ta EXCEPT !.fetches = @ \cup {tex[t].vram}]
        /\ UNCHANGED <<scene, screen, target, pvr_failed, callVars, rendering, unflipped, torn>>
        /\ header' = t
    BY DEF DrawTexture
  <1>2. tex \in [Textures -> TexRecords] /\ scene.begun \in Gens
    BY TypedNow DEF MemInv
  <1>3. tex' \in [Textures -> TexRecords] /\ SameTextures
    BY ZenonT(60), <1>1, <1>2 DEF SameTextures, TexRecords
  <1>4. ta' \in SceneRecords
    <2>1. tex[t].vram \in Memory
      BY <1>1 DEF MemInv, TexOK, Live, Nonabsent, Memory
    <2>2. ta \in SceneRecords
      BY DEF MemInv, TypeOK
    <2> DEFINE f == ta.fetches \cup {tex[t].vram}
    <2>3. f \in SUBSET Memory
      BY <2>1, <2>2 DEF SceneRecords
    <2>4. ta' = [ta EXCEPT !.fetches = f]
      BY <1>1
    <2> HIDE DEF f
    <2> QED
      BY <2>2, <2>3, <2>4 DEF SceneRecords
  <1>5. TypeOK'
    BY <1>1, <1>3, <1>4, TypedNow, Typed DEF MemInv, TypeOK, callVars
  <1> QED
    BY <1>1, <1>3, <1>5, QuietMem

LEMMA HardwareMem == ASSUME MemInv, IInv', Hardware PROVE MemInv'
  <1>1. /\ UNCHANGED <<driverVars, callVars, torn>>
        /\ ta' \in {ta, Nothing} /\ rendering' \in {ta, rendering, Nothing}
    BY DEF Hardware, StartRender, RenderDone, VerticalBlank
  <1>2. unflipped' \in BOOLEAN
    <2>1. unflipped \in BOOLEAN
      BY DEF MemInv, TypeOK
    <2> QED
      BY <2>1, Zenon DEF Hardware, StartRender, RenderDone, VerticalBlank
  <1>3. UNCHANGED <<tex, scene, screen, target, header, pvr_failed, status, torn>>
    BY <1>1 DEF driverVars, callVars
  <1>4. TypeOK'
    BY <1>1, <1>2, <1>3, TypedNow, NothingTyped, Typed DEF MemInv, TypeOK
  <1> QED
    BY <1>1, <1>3, <1>4, QuietMem, UnchangedTextures

Last == {"retire"} \cup EndSteps \cup Accesses

LEMMA InOrderShort ==
    /\ InOrder(<<>>)
    /\ \A x : x # "drain" => InOrder(<<x>>)
    /\ \A x, y : x \notin Last /\ y # "drain" => InOrder(<<x, y>>)
    /\ \A x, y, z : {x, y} \cap Last = {} /\ "drain" \notin {y, z} => InOrder(<<x, y, z>>)
    /\ \A w, x, y, z : {w, x, y} \cap Last = {} /\ "drain" \notin {x, y, z} =>
          InOrder(<<w, x, y, z>>)
  <1>1. InOrder(<<>>)
    BY DEF InOrder
  <1>2. ASSUME NEW x, x # "drain" PROVE InOrder(<<x>>)
    BY <1>2 DEF InOrder
  <1>3. ASSUME NEW x, NEW y, x \notin Last, y # "drain" PROVE InOrder(<<x, y>>)
    BY <1>3 DEF InOrder, Last
  <1>4. ASSUME NEW x, NEW y, NEW z, {x, y} \cap Last = {}, "drain" \notin {y, z}
        PROVE  InOrder(<<x, y, z>>)
    BY <1>4 DEF InOrder, Last
  <1>5. ASSUME NEW w, NEW x, NEW y, NEW z, {w, x, y} \cap Last = {}, "drain" \notin {x, y, z}
        PROVE  InOrder(<<w, x, y, z>>)
    BY <1>5 DEF InOrder, Last
  <1> QED
    BY <1>1, <1>2, <1>3, <1>4, <1>5

\* The calls begin in order.
LEMMA CallsInOrder ==
    /\ InOrder(<<"list">>) /\ InOrder(<<"finish", "retarget">>)
    /\ InOrder(<<"finish", "present", "finish", "presented">>)
    /\ \A a \in Accesses : InOrder(<<"drain", "reclaimdrained", a>>)
    /\ InOrder(<<"upload">>) /\ InOrder(<<"drain", "upload">>)
    /\ InOrder(<<"finish", "untarget", "retire">>) /\ InOrder(<<"retire">>)
    /\ InOrder(<<"drain", "close">>) /\ InOrder(<<"reclaim", "retireall">>)
  BY InOrderShort DEF Last, EndSteps, Accesses

LEMMA CallsTogether ==
    /\ \A s : In(s) \subseteq {"list"} => Together(s)
    /\ \A s : In(s) \subseteq {"finish", "reclaim", "retarget"} => Together(s)
    /\ \A s : In(s) \subseteq {"finish", "reclaim", "present", "presented"} => Together(s)
    /\ \A s : In(s) \subseteq {"finish", "reclaim", "untarget", "retire"} => Together(s)
    /\ \A s : In(s) \subseteq {"drain", "reclaimdrained"} \cup Accesses => Together(s)
    /\ \A s : In(s) \subseteq {"drain", "upload"} => Together(s)
    /\ \A s : In(s) \subseteq {"reclaim", "retireall"} => Together(s)
    /\ \A s : In(s) \subseteq {"finishlast"} => Together(s)
    /\ \A s : In(s) \subseteq {"drain", "close"} => Together(s)
    /\ \A s : In(s) \subseteq {"abandon"} => Together(s)
  BY DEF Together, Groups

\* A call that begins.
LEMMA CallMem ==
    ASSUME MemInv, IInv', NEW t, NEW steps, Call(t, steps), CallOK', SameTextures,
           tex' \in [Textures -> TexRecords],
           scene'.active = scene.active, scene'.kind = scene.kind, scene'.target = scene.target,
           scene'.begun = scene.begun,
           UNCHANGED <<screen, target, header, pvr_failed, hwVars, torn>>
    PROVE  MemInv'
  <1>1. TexOK' /\ Disjoint' /\ SameTargets
    BY SameTexturesKeep DEF MemInv
  <1>2. ~Ending /\ status' = status
    BY InShort DEF Ending, Call, Idle
  <1>3. TargetOK'
    BY <1>1, <1>2, TargetFrame
  <1>4. TypeOK'
    BY <1>2, TypedNow, QuietTyped DEF MemInv
  <1> QED
    BY <1>1, <1>3, <1>4 DEF MemInv, ScreenOK

LEMMA BeginListAgainMem == ASSUME MemInv, IInv', BeginListAgain PROVE MemInv'
  <1>1. /\ Call(NoTexture, <<"list">>)
        /\ UNCHANGED <<tex, scene, screen, target, header, pvr_failed, hwVars, torn>>
    BY DEF BeginListAgain, driverVars
  <1>2. todo' = <<"list">> /\ status' = "open"
    BY <1>1 DEF Call, Idle
  <1>3. In(todo') = {"list"} /\ Together(todo') /\ InOrder(todo')
    BY <1>2, InShort, CallsTogether, CallsInOrder
  <1>4. CallOK'
    BY <1>2, <1>3, PlainCall DEF Accesses
  <1> QED
    BY <1>1, <1>4, CallMem, UnchangedTextures, TypedNow DEF MemInv

LEMMA RenderPresentMem == ASSUME MemInv, IInv', RenderPresent PROVE MemInv'
  <1>1. /\ Call(NoTexture, <<"finish", "present", "finish", "presented">>)
        /\ UNCHANGED <<tex, scene, screen, target, header, pvr_failed, hwVars, torn>>
    BY DEF RenderPresent, driverVars
  <1>2. todo' = <<"finish", "present", "finish", "presented">> /\ status' = "open"
    BY <1>1 DEF Call, Idle
  <1>3. /\ In(todo') = {"finish", "present", "finish", "presented"}
        /\ Together(todo') /\ InOrder(todo')
    BY <1>2, InShort, CallsTogether, CallsInOrder
  <1>4. CallOK'
    BY <1>2, <1>3, PlainCall DEF Accesses
  <1> QED
    BY <1>1, <1>4, CallMem, UnchangedTextures, TypedNow DEF MemInv

LEMMA DestroyRendererMem == ASSUME MemInv, IInv', DestroyRenderer PROVE MemInv'
  <1>1. /\ Call(NoTexture, <<"retireall">>)
        /\ UNCHANGED <<tex, scene, screen, target, header, pvr_failed, hwVars, torn>>
    BY DEF DestroyRenderer, driverVars
  <1>2. todo' = <<"retireall">> /\ status' = "open"
    BY <1>1 DEF Call, Idle
  <1>3. In(todo') = {"retireall"} /\ Together(todo') /\ InOrder(todo')
    BY <1>2, InShort, CallsTogether, InOrderShort
  <1>4. CallOK'
    BY <1>2, <1>3, PlainCall DEF Accesses
  <1> QED
    BY <1>1, <1>4, CallMem, UnchangedTextures, TypedNow DEF MemInv

LEMMA DestroyTextureMem == ASSUME MemInv, IInv', NEW t \in Textures, DestroyTexture(t) PROVE MemInv'
  <1>1. /\ UNCHANGED <<tex, scene, screen, target, header, pvr_failed, hwVars, torn>>
        /\ t \in Live
        /\ Call(t, IF t = target THEN <<"finish", "untarget", "retire">> ELSE <<"retire">>)
    BY DEF DestroyTexture, driverVars
  <1>2. arg' = t /\ status' = "open" /\ UNCHANGED <<target, tex>>
    BY <1>1 DEF Call, Idle
  <1>3. CallOK' => MemInv'
    BY <1>1, CallMem, UnchangedTextures, TypedNow DEF MemInv
  <1>4. CallOK'
    <2>1. CASE t = target
      <3>1. todo' = <<"finish", "untarget", "retire">>
        BY <1>1, <2>1 DEF Call
      <3>2. /\ In(todo') = {"finish", "untarget", "retire"}
            /\ Together(todo') /\ InOrder(todo') /\ todo'[1] = "finish"
        BY <3>1, InShort, CallsTogether, CallsInOrder
      <3> QED
        BY <1>1, <1>2, <3>2 DEF CallOK, Accesses, Live
    <2>2. CASE t # target
      <3>1. todo' = <<"retire">>
        BY <1>1, <2>2 DEF Call
      <3>2. In(todo') = {"retire"} /\ Together(todo') /\ InOrder(todo')
        BY <3>1, InShort, CallsTogether, CallsInOrder
      <3> QED
        BY <1>1, <1>2, <2>2, <3>2 DEF CallOK, Accesses, Live
    <2> QED
      BY <2>1, <2>2
  <1> QED
    BY <1>3, <1>4

LEMMA SetRenderTargetMem ==
    ASSUME MemInv, IInv', NEW t \in Textures \cup {NoTexture}, SetRenderTarget(t) PROVE MemInv'
  <1>1. /\ Call(t, <<"finish", "retarget">>)
        /\ UNCHANGED <<tex, scene, screen, target, header, pvr_failed, hwVars, torn>>
        /\ t = NoTexture \/ (t \in Live /\ tex[t].access = "target")
    BY DEF SetRenderTarget, driverVars
  <1>2. todo' = <<"finish", "retarget">> /\ arg' = t /\ status' = "open"
    BY <1>1 DEF Call, Idle
  <1>3. /\ In(todo') = {"finish", "retarget"}
        /\ Together(todo') /\ InOrder(todo') /\ todo'[1] = "finish"
    BY <1>2, InShort, CallsTogether, CallsInOrder
  <1>4. CallOK'
    BY <1>1, <1>2, <1>3 DEF CallOK, Accesses, Live
  <1> QED
    BY <1>1, <1>4, CallMem, UnchangedTextures, TypedNow DEF MemInv

LEMMA CreateWhenFullMem ==
    ASSUME MemInv, IInv', NEW t \in Textures, NEW access \in Accesses, CreateWhenFull(t, access)
    PROVE  MemInv'
  <1>1. /\ Call(t, <<"drain", "reclaimdrained", access>>)
        /\ UNCHANGED <<tex, scene, screen, target, header, pvr_failed, hwVars, torn>>
        /\ t \notin Live \cup Retired
    BY DEF CreateWhenFull, driverVars
  <1>2. todo' = <<"drain", "reclaimdrained", access>> /\ arg' = t /\ status' = "open"
    BY <1>1 DEF Call, Idle
  <1>3. /\ In(todo') = {"drain", "reclaimdrained", access} /\ Together(todo') /\ InOrder(todo')
    BY <1>2, InShort, CallsTogether, CallsInOrder
  <1>4. tex'[t].state = "absent"
    BY <1>1 DEF MemInv, TypeOK, Live, Retired
  <1>5. In(todo') \cap {"upload", "retire", "retarget", "untarget", "finishlast", "close", "abandon"} = {}
    BY <1>3 DEF Accesses
  <1>6. CallOK'
    BY <1>2, <1>3, <1>4, <1>5 DEF CallOK
  <1> QED
    BY <1>1, <1>6, CallMem, UnchangedTextures, TypedNow DEF MemInv

LEMMA UpdateTextureMem ==
    ASSUME MemInv, IInv, IInv', NEW t \in Textures, UpdateTexture(t) \/ UnlockTexture(t)
    PROVE  MemInv'
  <1>1. /\ t \in Live /\ tex[t].access = "streaming"
        /\ tex' \in [Textures -> TexRecords] /\ SameTextures
    <2>1. tex \in [Textures -> TexRecords]
      BY TypedNow DEF MemInv
    <2>2. CASE UpdateTexture(t)
      BY <2>1, <2>2 DEF UpdateTexture, SameTextures
    <2>3. CASE UnlockTexture(t)
      <3>1. tex' = [tex EXCEPT ![t].locked = FALSE] /\ t \in Live /\ tex[t].locked
        BY <2>3 DEF UnlockTexture
      <3>2. tex[t].access = "streaming"
        BY <3>1 DEF MemInv, TexOK
      <3>3. tex' \in [Textures -> TexRecords] /\ SameTextures
        BY ZenonT(60), <2>1, <3>1 DEF SameTextures, TexRecords
      <3> QED
        BY <3>1, <3>2, <3>3
    <2> QED
      BY <2>2, <2>3
  <1>2. /\ WaitTextureIdle(t)
        /\ UNCHANGED <<screen, target, header, pvr_failed, hwVars, torn>>
    BY DEF UpdateTexture, UnlockTexture
  <1>3. \E steps \in {<<"upload">>, <<"drain", "upload">>} : Call(t, steps)
    BY <1>2 DEF WaitTextureIdle
  <1>4. PICK steps \in {<<"upload">>, <<"drain", "upload">>} : Call(t, steps)
    BY <1>3
  <1>5. todo' = steps /\ arg' = t /\ status' = "open"
    BY <1>4 DEF Call, Idle
  <1>6. In(todo') \subseteq {"drain", "upload"} /\ Together(todo') /\ InOrder(todo')
    BY <1>5, InShort, CallsTogether, CallsInOrder
  <1>7. /\ scene'.active = scene.active /\ scene'.kind = scene.kind
        /\ scene'.target = scene.target /\ scene'.begun = scene.begun
    <2> DEFINE done == IF tex[t].last_used = 0 THEN scene.completed ELSE Completed
    <2>1. scene' = [scene EXCEPT !.completed = done]
      BY <1>2 DEF WaitTextureIdle
    <2> HIDE DEF done
    <2> QED
      BY <2>1 DEF IInv, SceneTypeOK
  <1>8. t \in Live' /\ tex'[t].access = "streaming"
    BY <1>1 DEF SameTextures, Live
  <1>9. CallOK'
    BY <1>5, <1>6, <1>8 DEF CallOK, Accesses
  <1> QED
    BY <1>1, <1>2, <1>4, <1>7, <1>9, CallMem

LEMMA BeginSceneMem == ASSUME MemInv, IInv, IInv', BeginScene PROVE MemInv'
  <1> DEFINE n == scene.begun + 1
             kind == IF target = NoTexture THEN "screen" ELSE "target"
  <1>1. /\ Idle /\ todo' = <<"list">> /\ status' = "open" /\ status = "open"
        /\ UNCHANGED <<tex, screen, target, pvr_failed, hwVars, torn>> /\ header' = NoTexture
        /\ scene.begun < MaxScenes
        /\ scene' = [scene EXCEPT !.begun = n, !.active = TRUE, !.is_entered = FALSE,
                        !.kind = kind, !.target = target]
    BY DEF BeginScene, Call, Idle
  <1>2. n \in Nat /\ n <= MaxScenes /\ kind # "none" /\ (kind = "target" => target # NoTexture)
    BY <1>1, BoundAssumption DEF IInv, SceneTypeOK
  <1> HIDE DEF n, kind
  <1>3. /\ scene'.begun = n /\ scene'.active /\ scene'.kind = kind /\ scene'.target = target
    BY <1>1 DEF IInv, SceneTypeOK
  <1>4. In(todo') = {"list"} /\ Together(todo') /\ InOrder(todo')
    BY <1>1, InShort, CallsTogether, CallsInOrder
  <1>5. CallOK'
    BY <1>1, <1>4, PlainCall DEF Accesses
  <1>6. SameTextures
    BY <1>1, UnchangedTextures
  <1>7. TexOK' /\ Disjoint' /\ SameCallTextures
    BY <1>6, SameTexturesKeep DEF MemInv
  <1>8. ~Ending
    BY <1>1, InShort DEF Ending, Idle
  <1>9. target # NoTexture => target \in Live /\ tex[target].access = "target"
    BY <1>8 DEF MemInv, TargetOK
  <1>10. TargetOK'
    BY <1>1, <1>2, <1>3, <1>9 DEF TargetOK, Live, Nonabsent
  <1>11. TypeOK'
    BY <1>1, <1>2, <1>3, TypedNow, QuietTyped DEF MemInv
  <1> QED
    BY <1>1, <1>5, <1>7, <1>10, <1>11 DEF MemInv, ScreenOK

LEMMA EndedCall ==
    ASSUME todo' = <<>>, status' = "open"
    PROVE  CallOK'
  <1>1. In(todo') = {} /\ Together(todo') /\ InOrder(todo')
    BY InShort, CallsTogether, InOrderShort
  <1> QED
    BY <1>1, PlainCall

\* A step that fails ends the call.
LEMMA AbortMem ==
    ASSUME MemInv, IInv, IInv', todo' = <<>>, status = "open", status' = status, ~Ending,
           UNCHANGED <<tex, scene, screen, target, header, hwVars, torn>>, pvr_failed' \in BOOLEAN
    PROVE  MemInv'
  <1>1. CallOK'
    BY EndedCall
  <1>2. TexOK' /\ Disjoint' /\ SameTargets
    BY SameTexturesKeep, UnchangedTextures DEF MemInv
  <1>3. TargetOK'
    BY <1>2, TargetFrame
  <1>4. TypeOK'
    BY TypedNow, QuietTyped DEF MemInv
  <1> QED
    BY <1>1, <1>2, <1>3, <1>4 DEF MemInv, ScreenOK

LEMMA BeginFailsMem == ASSUME MemInv, IInv, IInv', BeginFails PROVE MemInv'
  <1>1. /\ UNCHANGED <<tex, scene, screen, target, header, hwVars, torn>> /\ pvr_failed'
        /\ todo' = <<>> /\ status' = status
        /\ Idle \/ Step("list")
    BY DEF BeginFails, Call, Abort, Proceed
  <1>2. status = "open" /\ ~Ending
    <2>1. CASE Idle
      BY <2>1, InShort DEF Idle, Ending
    <2>2. CASE Step("list")
      <3>1. todo # <<>> /\ "list" \in In(todo)
        BY <2>2, TodoSeq
      <3>2. PICK g \in Groups : In(todo) \subseteq g
        BY DEF MemInv, CallOK, Together
      <3>3. In(todo) \cap EndSteps = {}
        BY <3>1, <3>2 DEF Groups, EndSteps, Accesses
      <3> QED
        BY <3>1, <3>3 DEF Ending, MemInv, CallOK
    <2> QED
      BY <1>1, <2>1, <2>2
  <1>3. pvr_failed' = TRUE
    BY DEF BeginFails
  <1> QED
    BY <1>1, <1>2, <1>3, AbortMem

LEMMA FinishFailsMem == ASSUME MemInv, IInv, IInv', FinishFails PROVE MemInv'
  <1>1. /\ UNCHANGED <<tex, scene, screen, target, header, hwVars, torn>> /\ pvr_failed' = TRUE
        /\ todo' = <<>> /\ status' = status /\ Step("finish")
    BY DEF FinishFails, Abort, Proceed
  <1>2. todo # <<>> /\ "finish" \in In(todo)
    BY <1>1, TodoSeq
  <1>3. PICK g \in Groups : In(todo) \subseteq g
    BY DEF MemInv, CallOK, Together
  <1>4. In(todo) \cap EndSteps = {}
    BY <1>2, <1>3 DEF Groups, EndSteps, Accesses
  <1>5. status = "open" /\ ~Ending
    BY <1>2, <1>4 DEF Ending, MemInv, CallOK
  <1> QED
    BY <1>1, <1>5, AbortMem

LEMMA BeginListMem == ASSUME MemInv, IInv, IInv', BeginList \/ SeedFails PROVE MemInv'
  <1>1. /\ Step("list") /\ header' = NoTexture
        /\ scene' = [scene EXCEPT !.is_entered = TRUE, !.entered = scene.begun]
        /\ todo' = <<"reclaim">> \/ todo' = <<>>
        /\ status' = status /\ pvr_failed' \in BOOLEAN
        /\ UNCHANGED <<tex, screen, target, rendering, unflipped, torn>>
    BY ListEntered DEF MemInv, TypeOK
  <1> PICK fetches \in {{}, Seed} : EnterTA(fetches, FALSE)
    BY ListEntered
  <1>2. scene.active /\ ~scene.is_entered
    BY <1>1, AtStep DEF IInv, TodoOK, TodoGood
  <1>3. /\ scene'.active = scene.active /\ scene'.kind = scene.kind
        /\ scene'.target = scene.target /\ scene'.begun = scene.begun
    BY <1>1 DEF IInv, SceneTypeOK
  <1>4. In(todo') \subseteq {"reclaim"} /\ Together(todo') /\ InOrder(todo')
    BY <1>1, InShort, CallsTogether, InOrderShort
  <1>5. todo # <<>> /\ status = "open" /\ "list" \in In(todo)
    BY <1>1, TodoSeq DEF MemInv, CallOK
  <1>6. CallOK'
    BY <1>1, <1>4, <1>5, PlainCall DEF Accesses
  <1>7. TexOK' /\ Disjoint' /\ SameTargets
    BY <1>1, SameTexturesKeep, UnchangedTextures DEF MemInv
  <1>8. ~Ending
    <2>1. PICK g \in Groups : In(todo) \subseteq g
      BY DEF MemInv, CallOK, Together
    <2>2. In(todo) \cap EndSteps = {}
      BY <1>5, <2>1 DEF Groups, EndSteps, Accesses
    <2> QED
      BY <1>5, <2>2 DEF Ending
  <1>9. TargetOK'
    BY <1>1, <1>3, <1>7, <1>8, TargetFrame
  <1>10. Destination \in Memory \cup {NoBlock} /\ Seed \in SUBSET Memory
    BY <1>2, <1>8 DEF MemInv, TargetOK, TexOK, TypeOK, Destination, Seed, Memory, Nonabsent
  <1>11. ta' \in SceneRecords
    <2>1. scene.begun \in Gens /\ scene.kind \in Kinds
      BY DEF MemInv, TypeOK
    <2> QED
      BY <1>10, <2>1 DEF EnterTA, SceneRecords
  <1>12. TypeOK'
    BY <1>1, <1>3, <1>11, TypedNow, Typed DEF MemInv, TypeOK
  <1> QED
    BY <1>1, <1>6, <1>7, <1>9, <1>12 DEF MemInv, ScreenOK

\* What the driver has proven to be rendered is before the scene that is open.
LEMMA ProvenBeforeOpen ==
    ASSUME IInv
    PROVE  /\ scene.completed \in Nat /\ (scene.active => scene.completed < scene.begun)
           /\ Completed \in Nat /\ (scene.active => Completed < scene.begun)
  <1>1. scene.completed \in Nat /\ scene.completed <= scene.entered /\ Completed \in Nat
        /\ Completed <= scene.entered
    BY CompletedRight DEF IInv, SceneTypeOK, SceneOK
  <1>2. ASSUME scene.active, ~scene.is_entered PROVE scene.entered < scene.begun
    BY <1>2 DEF IInv, SceneTypeOK, SceneOK
  <1>3. ASSUME scene.active, scene.is_entered
        PROVE  scene.completed < scene.begun /\ Completed < scene.begun
    <2>1. ta \in Unrendered /\ ta.gen = scene.begun
      BY <1>3 DEF IInv, SceneOK, OpenEntered, TaBusy, Unrendered
    <2> QED
      BY <2>1, CompletedRight DEF IInv, SceneOK, ProvenIsRendered
  <1> QED
    BY <1>1, <1>2, <1>3 DEF IInv, SceneTypeOK

LEMMA ReclaimCompletedMem ==
    ASSUME MemInv, IInv, ReclaimCompleted
    PROVE  /\ tex' \in [Textures -> TexRecords] /\ torn' \in BOOLEAN
           /\ TexOK' /\ Disjoint' /\ SameCallTextures /\ SameTargets
           /\ \A t \in Textures :
                 tex'[t] = tex[t] \/ (t \in Reclaimable(Completed) /\ tex'[t] = Absent)
           /\ scene'.active = scene.active /\ scene'.kind = scene.kind
           /\ scene'.target = scene.target /\ scene'.begun = scene.begun
           /\ scene'.is_entered = scene.is_entered /\ scene'.entered = scene.entered
  <1>1. CASE Retired = {}
    <2>1. UNCHANGED <<tex, scene, torn>>
      BY <1>1 DEF ReclaimCompleted
    <2>2. SameTextures
      BY <2>1, UnchangedTextures
    <2> QED
      BY <2>1, <2>2, SameTexturesKeep, TypedNow DEF MemInv
  <1>2. CASE Retired # {}
    <2>1. scene' = [scene EXCEPT !.completed = Completed] /\ ReclaimRetired(Completed)
      BY <1>2 DEF ReclaimCompleted
    <2>2. /\ scene'.active = scene.active /\ scene'.kind = scene.kind
          /\ scene'.target = scene.target /\ scene'.begun = scene.begun
          /\ scene'.is_entered = scene.is_entered /\ scene'.entered = scene.entered
      BY <2>1 DEF IInv, SceneTypeOK
    <2> QED
      BY <2>1, <2>2, ProvenBeforeOpen, ReclaimRetiredKeeps
  <1> QED
    BY <1>1, <1>2

LEMMA ReclaimMem == ASSUME MemInv, IInv, IInv', Reclaim \/ Presented PROVE MemInv'
  <1>1. /\ ReclaimCompleted /\ GoOn /\ \E name \in {"reclaim", "presented"} : Step(name)
        /\ UNCHANGED <<target, header, pvr_failed, hwVars>>
        /\ screen' = screen \/ screen' = [screen EXCEPT !.valid = FALSE]
    BY DEF Reclaim, Presented
  <1>2. PICK name \in {"reclaim", "presented"} : Step(name)
    BY <1>1
  <1>3. /\ tex' \in [Textures -> TexRecords] /\ torn' \in BOOLEAN
        /\ TexOK' /\ Disjoint' /\ SameCallTextures /\ SameTargets
        /\ scene'.active = scene.active /\ scene'.kind = scene.kind
        /\ scene'.target = scene.target /\ scene'.begun = scene.begun
    BY <1>1, ReclaimCompletedMem
  <1>4. CallOK'
    BY <1>1, <1>2, <1>3, GoOnCall
  <1>5. Ending => Ending'
    BY <1>1, <1>2, StillEnding DEF EndSteps
  <1>6. TargetOK'
    BY <1>1, <1>3, <1>5, TargetFrame
  <1>7. /\ screen' \in [vram : Screens, vram_next : Screens, valid : BOOLEAN]
        /\ ScreenOK'
    BY <1>1 DEF MemInv, TypeOK, ScreenOK
  <1>8. TypeOK'
    <2>1. /\ unflipped' \in BOOLEAN /\ ta' \in SceneRecords /\ rendering' \in SceneRecords
          /\ status' \in {"open", "destroyed", "recovered"}
      BY <1>1 DEF MemInv, TypeOK, hwVars, GoOn, Proceed
    <2> QED
      BY <1>1, <1>3, <1>7, <2>1, TypedNow, Typed DEF MemInv
  <1> QED
    BY <1>3, <1>4, <1>6, <1>7, <1>8 DEF MemInv

\* A reclaiming in the place of the step that is done.
LEMMA ReclaimNext ==
    ASSUME NEW s \in Seq(StepNames), s # <<>>, InOrder(s)
    PROVE  /\ InOrder(<<"reclaim">> \o Tail(s))
           /\ In(<<"reclaim">> \o Tail(s)) = {"reclaim"} \cup In(Tail(s))
  <1> DEFINE u == Tail(s)
  <1>1. /\ u \in Seq(StepNames) /\ Len(s) \in Nat /\ Len(s) > 0 /\ Len(u) = Len(s) - 1
        /\ \A i \in 1..Len(u) : i + 1 \in 1..Len(s) /\ u[i] = s[i + 1]
    BY TailSteps
  <1>2. "reclaim" \in StepNames
    BY StepNamed
  <1> HIDE DEF u
  <1> DEFINE r == <<"reclaim">> \o u
  <1>3. /\ Len(r) = Len(u) + 1 /\ r[1] = "reclaim" /\ In(r) = {"reclaim"} \cup In(u)
        /\ \A i \in 2..Len(u) + 1 : i - 1 \in 1..Len(u) /\ r[i] = u[i - 1]
    BY <1>1, <1>2, ConsSteps
  <1> HIDE DEF r
  <1>4. Len(r) = Len(s)
    BY <1>1, <1>3
  <1>5. ASSUME NEW i \in 1..Len(r), i # 1 PROVE i \in 1..Len(s) /\ r[i] = s[i]
    <2>1. i \in 2..Len(u) + 1
      BY <1>1, <1>3, <1>5
    <2>2. i - 1 \in 1..Len(u) /\ r[i] = u[i - 1] /\ (i - 1) + 1 = i
      BY <1>3, <2>1
    <2>3. u[i - 1] = s[(i - 1) + 1]
      BY <1>1, <2>2
    <2> QED
      BY <1>4, <2>2, <2>3
  <1>6. "reclaim" \notin {"retire"} \cup EndSteps \cup Accesses /\ "reclaim" # "drain"
    BY DEF EndSteps, Accesses
  <1>7. InOrder(r)
    BY <1>3, <1>4, <1>5, <1>6 DEF InOrder
  <1> QED
    BY <1>3, <1>7 DEF r, u

\* The end of a scene swaps the buffers of the texture that was rendered to.
LEMMA FinishedTextures ==
    ASSUME MemInv,
           tex' = Unreferenced(IF scene.kind = "target"
                               THEN [tex EXCEPT ![scene.target] = Swapped(@)] ELSE tex),
           scene.kind = "target" =>
              scene.target \in Textures /\ Nonabsent(scene.target) /\ tex[scene.target].access = "target"
    PROVE  /\ tex' \in [Textures -> TexRecords]
           /\ TexOK' /\ Disjoint' /\ SameCallTextures /\ SameTargets /\ Retired' = Retired
           /\ \A t \in Textures :
                 /\ tex'[t].state = tex[t].state /\ tex'[t].access = tex[t].access
                 /\ tex'[t].retire = tex[t].retire /\ tex'[t].last_used = tex[t].last_used
                 /\ BlocksOf(tex'[t]) = BlocksOf(tex[t])
  <1> DEFINE x == IF scene.kind = "target"
                  THEN [tex EXCEPT ![scene.target] = Swapped(tex[scene.target])] ELSE tex
  <1>1. tex \in [Textures -> TexRecords]
    BY TypedNow DEF MemInv
  <1>2. ASSUME NEW t \in Textures
        PROVE  /\ x[t] \in TexRecords
               /\ x[t].state = tex[t].state /\ x[t].access = tex[t].access
               /\ x[t].retire = tex[t].retire /\ x[t].last_used = tex[t].last_used
               /\ x[t].locked = tex[t].locked
               /\ \/ x[t].vram = tex[t].vram /\ x[t].vram_next = tex[t].vram_next
                  \/ /\ x[t].vram = tex[t].vram_next /\ x[t].vram_next = tex[t].vram
                     /\ tex[t].access = "target" /\ Nonabsent(t)
    <2>1. tex[t] \in TexRecords
      BY <1>1
    <2>2. CASE scene.kind = "target" /\ t = scene.target
      <3>1. x[t] = Swapped(tex[t]) /\ tex[t].access = "target" /\ Nonabsent(t)
        BY <1>1, <2>2
      <3> HIDE DEF x
      <3> QED
        BY <2>1, <3>1 DEF Swapped, TexRecords
    <2>3. CASE ~(scene.kind = "target" /\ t = scene.target)
      <3>1. x[t] = tex[t]
        BY <1>1, <2>3
      <3> HIDE DEF x
      <3> QED
        BY <2>1, <3>1
    <2> QED
      BY <2>2, <2>3
  <1>3. tex' = [t \in Textures |-> [x[t] EXCEPT !.referenced = FALSE]]
    BY DEF Unreferenced
  <1> HIDE DEF x
  <1>4. tex' \in [Textures -> TexRecords]
    <2>1. \A y \in TexRecords : [y EXCEPT !.referenced = FALSE] \in TexRecords
      BY DEF TexRecords
    <2> QED
      BY <1>2, <1>3, <2>1
  <1>5. ASSUME NEW t \in Textures
        PROVE  /\ tex'[t].state = tex[t].state /\ tex'[t].access = tex[t].access
               /\ tex'[t].retire = tex[t].retire /\ tex'[t].last_used = tex[t].last_used
               /\ tex'[t].locked = tex[t].locked
               /\ \/ tex'[t].vram = tex[t].vram /\ tex'[t].vram_next = tex[t].vram_next
                  \/ /\ tex'[t].vram = tex[t].vram_next /\ tex'[t].vram_next = tex[t].vram
                     /\ tex[t].access = "target" /\ Nonabsent(t)
    <2>1. tex'[t] = [x[t] EXCEPT !.referenced = FALSE]
      BY <1>3
    <2>2. /\ tex'[t].state = x[t].state /\ tex'[t].access = x[t].access
          /\ tex'[t].retire = x[t].retire /\ tex'[t].last_used = x[t].last_used
          /\ tex'[t].locked = x[t].locked
          /\ tex'[t].vram = x[t].vram /\ tex'[t].vram_next = x[t].vram_next
      BY <1>2, <2>1 DEF TexRecords
    <2> QED
      BY <1>2, <2>2
  <1>6. ASSUME NEW t \in Textures PROVE BlocksOf(tex'[t]) = BlocksOf(tex[t])
    BY <1>5 DEF BlocksOf
  <1>7. TexOK'
    <2> SUFFICES ASSUME NEW t \in Textures
                 PROVE  /\ tex'[t].state = "absent" => tex'[t].vram = NoBlock /\ tex'[t].vram_next = NoBlock
                        /\ tex'[t].state # "absent" =>
                              /\ tex'[t].vram \in Blocks
                              /\ tex'[t].access = "target" => tex'[t].vram_next \in Blocks
                              /\ tex'[t].access # "target" => tex'[t].vram_next = NoBlock
                        /\ tex'[t].vram \in Blocks => tex'[t].vram # tex'[t].vram_next
                        /\ tex'[t].locked => tex'[t].access = "streaming"
      BY DEF TexOK, Nonabsent
    <2>1. /\ tex[t].state = "absent" => tex[t].vram = NoBlock /\ tex[t].vram_next = NoBlock
          /\ tex[t].state # "absent" =>
                /\ tex[t].vram \in Blocks
                /\ tex[t].access = "target" => tex[t].vram_next \in Blocks
                /\ tex[t].access # "target" => tex[t].vram_next = NoBlock
          /\ tex[t].vram \in Blocks => tex[t].vram # tex[t].vram_next
          /\ tex[t].locked => tex[t].access = "streaming"
      BY DEF MemInv, TexOK, Nonabsent
    <2> QED
      BY <1>5, <2>1, NoneAssumption DEF Nonabsent
  <1>8. Disjoint'
    BY <1>6 DEF MemInv, Disjoint
  <1>9. SameCallTextures /\ SameTargets /\ Retired' = Retired
    BY ZenonT(60), <1>5 DEF SameCallTextures, SameTargets, Live, Retired
  <1> QED
    BY <1>4, <1>5, <1>6, <1>7, <1>8, <1>9

\* The open scene is finished: it is in the TA, or enters it now.
LEMMA FinishedScene ==
    ASSUME MemInv, scene.active,
           IF scene.is_entered THEN ta' = [ta EXCEPT !.finished = TRUE] ELSE EnterTA({}, TRUE)
    PROVE  ta' \in SceneRecords
  <1>1. scene.kind = "target" =>
            scene.target \in Textures /\ Nonabsent(scene.target) /\ tex[scene.target].access = "target"
    BY DEF MemInv, TargetOK
  <1>2. CASE scene.is_entered
    BY ZenonT(60), <1>2 DEF MemInv, TypeOK, SceneRecords
  <1>3. CASE ~scene.is_entered
    <2>1. ta' = [gen |-> scene.begun, fetches |-> {}, dest |-> Destination,
                 kind |-> scene.kind, finished |-> TRUE]
      BY <1>3 DEF EnterTA
    <2>2. Destination \in Memory \cup {NoBlock}
      BY <1>1 DEF MemInv, TexOK, TypeOK, Destination, Memory, Nonabsent
    <2>3. scene.begun \in Gens /\ scene.kind \in Kinds
      BY DEF MemInv, TypeOK
    <2> QED
      BY <2>1, <2>2, <2>3 DEF SceneRecords
  <1> QED
    BY <1>2, <1>3

LEMMA FinishActiveSceneMem == ASSUME MemInv, IInv, IInv', FinishActiveScene PROVE MemInv'
  <1>1. Step("finish") /\ UNCHANGED <<target, pvr_failed, rendering, unflipped, torn>>
    BY DEF FinishActiveScene
  <1>2. /\ todo \in Seq(StepNames) /\ todo # <<>> /\ todo[1] = "finish" /\ "finish" \in In(todo)
        /\ In(todo) = {"finish"} \cup In(Tail(todo))
    BY <1>1, TodoSeq
  <1>3. PICK g \in Groups : In(todo) \subseteq g
    BY DEF MemInv, CallOK, Together
  <1>4. "reclaim" \in g /\ In(todo) \cap EndSteps = {} /\ status = "open"
    BY <1>2, <1>3 DEF Groups, EndSteps, Accesses, MemInv, CallOK
  <1>5. ~Ending
    BY <1>4 DEF Ending
  <1>6. CASE ~scene.active
    <2>1. GoOn /\ UNCHANGED <<tex, scene, screen, header, ta>>
      BY <1>6 DEF FinishActiveScene
    <2>2. SameTextures
      BY <2>1, UnchangedTextures
    <2>3. TexOK' /\ Disjoint' /\ SameCallTextures /\ SameTargets
      BY <2>2, SameTexturesKeep DEF MemInv
    <2>4. CallOK'
      BY <1>1, <1>6, <2>1, <2>3, GoOnCall
    <2>5. TargetOK'
      BY <1>1, <1>5, <2>1, <2>3, TargetFrame
    <2>6. TypeOK'
      BY <1>1, <2>1, TypedNow, QuietTyped DEF MemInv, GoOn, Proceed, hwVars
    <2> QED
      BY <2>1, <2>3, <2>4, <2>5, <2>6 DEF MemInv, ScreenOK
  <1>7. CASE scene.active
    <2>1. /\ IF scene.is_entered THEN ta' = [ta EXCEPT !.finished = TRUE]
                                  ELSE EnterTA({}, TRUE)
          /\ tex' = Unreferenced(IF scene.kind = "target"
                                 THEN [tex EXCEPT ![scene.target] = Swapped(@)] ELSE tex)
          /\ screen' = IF scene.kind = "screen"
                       THEN [vram |-> screen.vram_next, vram_next |-> screen.vram, valid |-> TRUE]
                       ELSE screen
          /\ scene' = [scene EXCEPT !.active = FALSE, !.is_entered = TRUE,
                                    !.entered = scene.begun,
                                    !.kind = "none", !.target = NoTexture]
          /\ header' = NoTexture
          /\ todo' = <<"reclaim">> \o Tail(todo) /\ status' = status
          /\ todo' # <<>> => arg' = arg
      BY <1>7 DEF FinishActiveScene, Proceed
    <2>2. scene'.active = FALSE /\ scene'.begun = scene.begun
      BY <2>1 DEF IInv, SceneTypeOK
    <2>3. scene.kind = "target" =>
              scene.target \in Textures /\ Nonabsent(scene.target) /\ tex[scene.target].access = "target"
      BY <1>7 DEF MemInv, TargetOK
    <2>4. /\ tex' \in [Textures -> TexRecords]
          /\ TexOK' /\ Disjoint' /\ SameCallTextures /\ SameTargets
      BY <2>1, <2>3, FinishedTextures
    <2>5. /\ InOrder(todo') /\ In(todo') = {"reclaim"} \cup In(Tail(todo))
      BY <1>2, <2>1, ReclaimNext DEF MemInv, CallOK
    <2>6. Together(todo') /\ arg' = arg
      <3>1. In(todo') \subseteq g
        BY <1>2, <1>3, <1>4, <2>5
      <3>2. todo' # <<>>
        BY <2>5, InShort
      <3> QED
        BY <1>3, <2>1, <3>1, <3>2 DEF Together
    <2>7. CallOK'
      BY <1>1, <1>2, <2>1, <2>2, <2>4, <2>5, <2>6, OnCall
    <2>8. TargetOK'
      BY <1>1, <1>5, <2>2, <2>4 DEF MemInv, TargetOK, SameTargets, Live
    <2>9. /\ screen' \in [vram : Screens, vram_next : Screens, valid : BOOLEAN]
          /\ ScreenOK'
      BY <2>1 DEF MemInv, TypeOK, ScreenOK
    <2>10. ta' \in SceneRecords
      BY <1>7, <2>1, FinishedScene
    <2>11. TypeOK'
      BY <1>1, <2>1, <2>2, <2>4, <2>9, <2>10, TypedNow, Typed DEF MemInv, TypeOK
    <2> QED
      BY <2>4, <2>7, <2>8, <2>9, <2>11 DEF MemInv
  <1> QED
    BY <1>6, <1>7

LEMMA SwitchTargetMem == ASSUME MemInv, IInv, IInv', SwitchTarget PROVE MemInv'
  <1>1. /\ GoOn /\ header' = NoTexture
        /\ UNCHANGED <<tex, scene, screen, pvr_failed, hwVars, torn>>
        /\ \/ Step("retarget") /\ target' = arg
           \/ Step("untarget") /\ target' = NoTexture
    BY DEF SwitchTarget
  <1>2. PICK name \in {"retarget", "untarget"} :
             Step(name) /\ target' = IF name = "retarget" THEN arg ELSE NoTexture
    BY <1>1
  <1>3. SameTextures
    BY <1>1, UnchangedTextures
  <1>4. TexOK' /\ Disjoint' /\ SameCallTextures
    BY <1>3, SameTexturesKeep DEF MemInv
  <1>5. name \in In(todo) /\ todo[1] = name
    BY <1>2, TodoSeq
  <1>6. ~scene.active
    BY <1>5 DEF MemInv, CallOK
  <1>7. CallOK'
    BY <1>1, <1>2, <1>4, <1>6, GoOnCall
  <1>8. target' = NoTexture \/ (target' \in Live' /\ tex'[target'].access = "target")
    BY <1>1, <1>2, <1>4, <1>5 DEF MemInv, CallOK, SameCallTextures
  <1>9. TargetOK'
    BY <1>1, <1>6, <1>8 DEF TargetOK
  <1>10. TypeOK'
    BY <1>1, TypedNow, QuietTyped DEF MemInv, GoOn, Proceed
  <1> QED
    BY <1>1, <1>4, <1>7, <1>9, <1>10 DEF MemInv, ScreenOK

LEMMA PresentScreenMem == ASSUME MemInv, IInv, IInv', PresentScreen PROVE MemInv'
  <1> DEFINE n == scene.begun + 1
  <1>1. /\ Step("present") /\ GoOn /\ header' = NoTexture
        /\ UNCHANGED <<tex, screen, target, pvr_failed, rendering, unflipped, torn>>
        /\ scene' = [scene EXCEPT !.begun = n, !.active = TRUE, !.is_entered = TRUE,
                                  !.entered = n, !.kind = "physical"]
        /\ ta' = [gen |-> n, fetches |-> IF screen.valid THEN {screen.vram} ELSE {},
                  dest |-> NoBlock, kind |-> "physical", finished |-> FALSE]
    BY DEF PresentScreen
  <1>2. scene.begun < MaxScenes /\ todo # <<>>
    BY <1>1, AtStep DEF IInv, TodoOK, TodoGood
  <1>3. n \in Gens /\ n <= MaxScenes
    BY <1>2, BoundAssumption DEF IInv, SceneTypeOK, Gens
  <1> HIDE DEF n
  <1>4. scene'.begun = n /\ scene'.active /\ scene'.kind = "physical"
    BY <1>1 DEF IInv, SceneTypeOK
  <1>5. TexOK' /\ Disjoint' /\ SameCallTextures
    BY <1>1, UnchangedTextures, SameTexturesKeep DEF MemInv
  <1>6. CallOK'
    BY <1>1, <1>5, GoOnCall
  <1>7. Ending => Ending'
    BY <1>1, StillEnding DEF EndSteps
  <1>8. TargetOK'
    BY <1>1, <1>4, <1>5, <1>7 DEF MemInv, TargetOK, SameCallTextures, Live
  <1>9. ta' \in SceneRecords
    BY <1>1, <1>3 DEF SceneRecords, MemInv, TypeOK, Memory, Kinds
  <1>10. TypeOK'
    BY <1>1, <1>3, <1>4, <1>9, TypedNow, Typed DEF MemInv, TypeOK, GoOn, Proceed
  <1> QED
    BY <1>1, <1>5, <1>6, <1>8, <1>10 DEF MemInv, ScreenOK

\* A step that goes on with the call, on textures that the scene and the app do not see
\* change, and learns of scenes at most.
LEMMA GoOnMem ==
    ASSUME MemInv, IInv, IInv', NEW name, Step(name), GoOn, name \notin {"finish", "untarget"} \cup EndSteps,
           tex' \in [Textures -> TexRecords], TexOK', Disjoint', SameCallTextures, SameTargets,
           torn' \in BOOLEAN,
           scene'.active = scene.active, scene'.kind = scene.kind, scene'.target = scene.target,
           scene'.begun = scene.begun,
           UNCHANGED <<screen, target, header, pvr_failed, hwVars>>
    PROVE  MemInv'
  <1>1. CallOK'
    BY GoOnCall
  <1>2. Ending => Ending'
    BY StillEnding
  <1>3. TargetOK'
    BY <1>2, TargetFrame
  <1>4. TypeOK'
    BY TypedNow, QuietTyped DEF MemInv, GoOn, Proceed
  <1> QED
    BY <1>1, <1>3, <1>4 DEF MemInv, ScreenOK

LEMMA ReclaimForAllocationMem == ASSUME MemInv, IInv, IInv', ReclaimForAllocation PROVE MemInv'
  <1>1. /\ Step("reclaimdrained") /\ GoOn /\ ReclaimRetired(scene.completed)
        /\ UNCHANGED <<scene, screen, target, header, pvr_failed, hwVars>>
    BY DEF ReclaimForAllocation
  <1>2. scene.completed \in Nat /\ (scene.active => scene.completed < scene.begun)
    BY ProvenBeforeOpen
  <1>3. /\ tex' \in [Textures -> TexRecords] /\ torn' \in BOOLEAN
        /\ TexOK' /\ Disjoint' /\ SameCallTextures /\ SameTargets
    BY <1>1, <1>2, ReclaimRetiredKeeps
  <1> QED
    BY <1>1, <1>3, GoOnMem DEF EndSteps

LEMMA UploadMem == ASSUME MemInv, IInv, IInv', Upload PROVE MemInv'
  <1>1. /\ Step("upload") /\ GoOn
        /\ UNCHANGED <<scene, screen, target, header, pvr_failed, hwVars>>
        /\ \/ tex' = [tex EXCEPT ![arg].filled = TRUE] /\ Touch({tex[arg].vram})
           \/ UNCHANGED <<tex, torn>>
    BY DEF Upload
  <1>2. tex \in [Textures -> TexRecords]
    BY TypedNow DEF MemInv
  <1>3. tex' \in [Textures -> TexRecords] /\ SameTextures
    <2>1. CASE tex' = [tex EXCEPT ![arg].filled = TRUE]
      <3>1. arg \in Textures
        BY <1>1, TodoSeq DEF MemInv, CallOK, Live
      <3> QED
        BY ZenonT(60), <1>2, <2>1, <3>1 DEF SameTextures, TexRecords
    <2>2. CASE UNCHANGED tex
      BY <1>2, <2>2, UnchangedTextures
    <2> QED
      BY <1>1, <2>1, <2>2
  <1>4. torn' \in BOOLEAN
    BY <1>1, TouchTyped DEF MemInv, TypeOK
  <1>5. TexOK' /\ Disjoint' /\ SameCallTextures /\ SameTargets
    BY <1>3, SameTexturesKeep DEF MemInv
  <1> QED
    BY <1>1, <1>3, <1>4, <1>5, GoOnMem DEF EndSteps

LEMMA WaitScenesCompleteMem == ASSUME MemInv, IInv, IInv', WaitScenesComplete PROVE MemInv'
  <1> DEFINE done == IF OpenEntered THEN scene.entered - 1 ELSE scene.entered
             learned == IF done > scene.completed THEN done ELSE scene.completed
  <1>1. /\ Step("drain") /\ GoOn
        /\ UNCHANGED <<tex, screen, target, header, pvr_failed, hwVars, torn>>
        /\ scene' = [scene EXCEPT !.completed = learned]
    BY DEF WaitScenesComplete
  <1> HIDE DEF learned
  <1>2. /\ scene'.active = scene.active /\ scene'.kind = scene.kind
        /\ scene'.target = scene.target /\ scene'.begun = scene.begun
    BY <1>1 DEF IInv, SceneTypeOK
  <1>3. TexOK' /\ Disjoint' /\ SameCallTextures /\ SameTargets
    BY <1>1, UnchangedTextures, SameTexturesKeep DEF MemInv
  <1> QED
    BY <1>1, <1>2, <1>3, TypedNow, GoOnMem DEF EndSteps, MemInv

\* A texture that is live is retired.
LEMMA Retiring ==
    ASSUME MemInv, NEW t \in Live, tex' = Retirement(t)
    PROVE  /\ tex' \in [Textures -> TexRecords] /\ TexOK' /\ Disjoint'
           /\ Live' = Live \ {t} /\ t \in Textures
           /\ tex'[t].state = "retired" /\ tex'[t].retire = scene.begun
           /\ \A u \in Textures : u # t => tex'[u] = tex[u]
           /\ \A u \in Textures :
                 /\ tex'[u].access = tex[u].access /\ tex'[u].last_used = tex[u].last_used
                 /\ BlocksOf(tex'[u]) = BlocksOf(tex[u]) /\ Nonabsent(u)' = Nonabsent(u)
                 /\ tex'[u].vram = tex[u].vram /\ tex'[u].vram_next = tex[u].vram_next
  <1>1. tex \in [Textures -> TexRecords] /\ scene.begun \in Gens /\ t \in Textures
        /\ tex[t].state = "live"
    BY TypedNow DEF MemInv, Live
  <1>2. tex' = [tex EXCEPT ![t].state = "retired", ![t].retire = scene.begun]
    BY DEF Retirement
  <1>3. /\ tex'[t].state = "retired" /\ tex'[t].retire = scene.begun
        /\ \A u \in Textures : u # t => tex'[u] = tex[u]
        /\ tex'[t].access = tex[t].access /\ tex'[t].last_used = tex[t].last_used
        /\ tex'[t].vram = tex[t].vram /\ tex'[t].vram_next = tex[t].vram_next
        /\ tex'[t].locked = tex[t].locked
        /\ tex' \in [Textures -> TexRecords]
    <2> DEFINE r == [tex[t] EXCEPT !.state = "retired", !.retire = scene.begun]
    <2>1. tex' = [tex EXCEPT ![t] = r]
      BY <1>1, <1>2
    <2>2. tex[t] \in TexRecords
      BY <1>1
    <2>3. /\ r \in TexRecords /\ r.state = "retired" /\ r.retire = scene.begun
          /\ r.access = tex[t].access /\ r.last_used = tex[t].last_used
          /\ r.vram = tex[t].vram /\ r.vram_next = tex[t].vram_next /\ r.locked = tex[t].locked
      BY <1>1, <2>2 DEF TexRecords
    <2> HIDE DEF r
    <2> QED
      BY <1>1, <2>1, <2>3
  <1>4. \A u \in Textures :
              /\ tex'[u].access = tex[u].access /\ tex'[u].last_used = tex[u].last_used
              /\ Nonabsent(u)' = Nonabsent(u)
              /\ tex'[u].vram = tex[u].vram /\ tex'[u].vram_next = tex[u].vram_next
              /\ tex'[u].locked = tex[u].locked
              /\ (tex'[u].state = "absent") = (tex[u].state = "absent")
    BY <1>1, <1>3 DEF Nonabsent
  <1>5. \A u \in Textures : BlocksOf(tex'[u]) = BlocksOf(tex[u])
    BY <1>4 DEF BlocksOf
  <1>6. TexOK'
    BY <1>4 DEF MemInv, TexOK, Nonabsent
  <1>7. Disjoint'
    BY <1>5 DEF MemInv, Disjoint
  <1>8. Live' = Live \ {t}
    BY <1>1, <1>3 DEF Live
  <1> QED
    BY <1>1, <1>3, <1>4, <1>5, <1>6, <1>7, <1>8

\* The step that is done was the last of its call.
LEMMA LastStep ==
    ASSUME MemInv, IInv, NEW name, Step(name), name \in {"retire"} \cup EndSteps \cup Accesses
    PROVE  /\ Len(todo) = 1 /\ In(todo) = {name} /\ Tail(todo) = <<>> /\ todo = <<name>>
           /\ \A x \in StepNames : <<x>> \o Tail(todo) = <<x>> /\ <<x>> \o todo = <<x, name>>
           /\ status = "open"
  <1>1. /\ todo \in Seq(StepNames) /\ todo # <<>> /\ todo[1] = name
        /\ Len(todo) \in Nat /\ Len(todo) > 0
        /\ Tail(todo) \in Seq(StepNames) /\ Len(Tail(todo)) = Len(todo) - 1
    BY TodoSeq
  <1>2. 1 = Len(todo)
    <2>1. 1 \in 1..Len(todo)
      BY <1>1
    <2> QED
      BY <1>1, <2>1 DEF MemInv, CallOK, InOrder
  <1>3. /\ In(todo) = {name} /\ Tail(todo) = <<>> /\ todo = <<name>>
        /\ \A x \in StepNames : <<x>> \o Tail(todo) = <<x>> /\ <<x>> \o todo = <<x, name>>
    BY <1>1, <1>2, OneElement
  <1>4. status = "open"
    BY <1>1 DEF MemInv, CallOK
  <1> QED
    BY <1>2, <1>3, <1>4

LEMMA RetireTextureMem == ASSUME MemInv, IInv, IInv', RetireTexture PROVE MemInv'
  <1>1. /\ Step("retire") /\ tex' = Retirement(arg) /\ status' = status
        /\ header' \in {header, NoTexture} /\ todo' = <<"reclaim">> \o Tail(todo)
        /\ UNCHANGED <<scene, screen, target, pvr_failed, hwVars, torn>>
    BY DEF RetireTexture, Proceed
  <1>2. In(todo) = {"retire"} /\ <<"reclaim">> \o Tail(todo) = <<"reclaim">> /\ status = "open"
    BY <1>1, LastStep, StepNamed
  <1>3. arg \in Live /\ arg # target
    BY <1>2 DEF MemInv, CallOK
  <1>4. /\ tex' \in [Textures -> TexRecords] /\ TexOK' /\ Disjoint'
        /\ Live' = Live \ {arg} /\ tex'[arg].state = "retired" /\ tex'[arg].retire = scene.begun
        /\ \A u \in Textures : u # arg => tex'[u] = tex[u]
    BY <1>1, <1>3, Retiring
  <1>5. todo' = <<"reclaim">>
    BY <1>1, <1>2
  <1>6. In(todo') = {"reclaim"} /\ Together(todo') /\ InOrder(todo')
    BY <1>5, InShort, CallsTogether, InOrderShort
  <1>7. CallOK'
    BY <1>1, <1>2, <1>6, PlainCall DEF Accesses
  <1>8. ~Ending
    BY <1>2 DEF Ending, EndSteps
  <1>9. TargetOK'
    BY <1>1, <1>3, <1>4, <1>8 DEF MemInv, TargetOK, Live, Nonabsent
  <1>10. TypeOK'
    BY <1>1, <1>4, TypedNow, QuietTyped DEF MemInv
  <1> QED
    BY <1>1, <1>4, <1>7, <1>9, <1>10 DEF MemInv, ScreenOK

LEMMA RetireAllMem == ASSUME MemInv, IInv, IInv', RetireAll PROVE MemInv'
  <1>1. /\ Step("retireall") /\ UNCHANGED <<arg, status, scene, screen, target, pvr_failed, hwVars, torn>>
    BY DEF RetireAll
  <1>2. /\ In(todo) = {"retireall"} /\ status = "open"
        /\ <<"reclaim">> \o todo = <<"reclaim", "retireall">>
    BY <1>1, LastStep, StepNamed DEF EndSteps
  <1>3. CASE Live = {}
    <2>1. todo' = <<"finishlast">> /\ UNCHANGED <<tex, header>>
      BY <1>3 DEF RetireAll
    <2>2. In(todo') = {"finishlast"} /\ Together(todo') /\ InOrder(todo')
      BY <2>1, InShort, CallsTogether, InOrderShort
    <2>3. TexOK' /\ Disjoint' /\ SameCallTextures /\ SameTargets
      BY <2>1, UnchangedTextures, SameTexturesKeep DEF MemInv
    <2>4. CallOK'
      BY <1>1, <1>2, <1>3, <2>2, <2>3 DEF CallOK, Accesses, SameCallTextures
    <2>5. Ending'
      BY <2>2 DEF Ending, EndSteps
    <2>6. TargetOK'
      BY <1>1, <2>3, <2>5, TargetFrame
    <2>7. TypeOK'
      BY <1>1, <2>1, TypedNow, QuietTyped DEF MemInv
    <2> QED
      BY <1>1, <2>3, <2>4, <2>6, <2>7 DEF MemInv, ScreenOK
  <1>4. CASE Live # {}
    <2>1. PICK t \in Live : /\ tex' = Retirement(t) /\ header' \in {header, NoTexture}
                            /\ todo' = <<"reclaim">> \o todo
      BY <1>4 DEF RetireAll
    <2>2. /\ tex' \in [Textures -> TexRecords] /\ TexOK' /\ Disjoint'
          /\ tex'[t].state = "retired" /\ tex'[t].retire = scene.begun
          /\ \A u \in Textures : u # t => tex'[u] = tex[u]
          /\ \A u \in Textures : tex'[u].access = tex[u].access /\ Nonabsent(u)' = Nonabsent(u)
      BY <2>1, Retiring
    <2>3. todo' = <<"reclaim", "retireall">>
      BY <1>2, <2>1
    <2>4. In(todo') = {"reclaim", "retireall"} /\ Together(todo') /\ InOrder(todo')
      BY <2>3, InShort, CallsTogether, CallsInOrder
    <2>5. CallOK'
      BY <1>1, <1>2, <2>4, PlainCall DEF Accesses
    <2>6. Ending'
      BY <2>4 DEF Ending, EndSteps
    <2>7. TargetOK'
      BY <1>1, <2>2, <2>6 DEF MemInv, TargetOK, Nonabsent
    <2>8. TypeOK'
      BY <1>1, <2>1, <2>2, TypedNow, QuietTyped DEF MemInv
    <2> QED
      BY <1>1, <2>2, <2>5, <2>7, <2>8 DEF MemInv, ScreenOK
  <1> QED
    BY <1>3, <1>4

LEMMA FinishLastSceneMem == ASSUME MemInv, IInv, IInv', FinishLastScene PROVE MemInv'
  <1>1. /\ Step("finishlast")
        /\ UNCHANGED <<arg, status, tex, screen, target, header, pvr_failed, rendering,
                       unflipped, torn>>
        /\ todo' = <<"abandon">> \/ todo' = <<"drain", "close">>
    BY DEF FinishLastScene
  <1>2. /\ In(todo) = {"finishlast"} /\ status = "open"
    BY <1>1, LastStep DEF EndSteps
  <1>3. Live = {}
    BY <1>2 DEF MemInv, CallOK
  <1>4. ~scene'.active /\ scene'.begun = scene.begun
    <2>1. CASE scene.active
      <3>1. scene' = [scene EXCEPT !.active = FALSE, !.is_entered = TRUE, !.entered = scene.begun]
        BY <2>1 DEF FinishLastScene
      <3> QED
        BY <3>1 DEF IInv, SceneTypeOK
    <2>2. CASE ~scene.active
      BY <2>2 DEF FinishLastScene
    <2> QED
      BY <2>1, <2>2
  <1>5. /\ In(todo') = {"abandon"} \/ In(todo') = {"drain", "close"}
        /\ Together(todo') /\ InOrder(todo')
    BY <1>1, InShort, CallsTogether, CallsInOrder, InOrderShort
  <1>6. TexOK' /\ Disjoint' /\ SameCallTextures
    BY <1>1, UnchangedTextures, SameTexturesKeep DEF MemInv
  <1>7. CallOK'
    BY <1>1, <1>2, <1>3, <1>4, <1>5, <1>6 DEF CallOK, Accesses, SameCallTextures
  <1>8. Ending'
    BY <1>5 DEF Ending, EndSteps
  <1>9. TargetOK'
    BY <1>4, <1>8 DEF TargetOK
  <1>10. ta' \in SceneRecords
    <2>1. CASE scene.active
      <3>1. IF scene.is_entered THEN ta' = [ta EXCEPT !.finished = TRUE] ELSE EnterTA({}, TRUE)
        BY <2>1 DEF FinishLastScene
      <3> QED
        BY <2>1, <3>1, FinishedScene
    <2>2. CASE ~scene.active
      BY <2>2 DEF FinishLastScene, MemInv, TypeOK
    <2> QED
      BY <2>1, <2>2
  <1>11. TypeOK'
    BY <1>1, <1>4, <1>10, TypedNow, Typed DEF MemInv, TypeOK
  <1> QED
    BY <1>1, <1>6, <1>7, <1>9, <1>11 DEF MemInv, ScreenOK

LEMMA WaitTimesOutMem == ASSUME MemInv, IInv, IInv', WaitTimesOut PROVE MemInv'
  <1>1. /\ Step("drain") /\ status' = status
        /\ UNCHANGED <<tex, scene, screen, target, header, pvr_failed, hwVars, torn>>
        /\ todo' = IF todo[2] = "close" THEN <<"abandon">> ELSE <<>>
        /\ todo' # <<>> => arg' = arg
    BY DEF WaitTimesOut, Proceed, driverVars
  <1>2. todo # <<>> /\ todo[1] = "drain" /\ "drain" \in In(todo) /\ Len(todo) \in Nat
        /\ 1 \in 1..Len(todo)
    BY <1>1, TodoSeq
  <1>3. status = "open" /\ Len(todo) > 1 /\ 2 \in 1..Len(todo) /\ todo[2] # "drain"
    <2>1. status = "open" /\ Len(todo) > 1
      BY <1>2 DEF MemInv, CallOK, InOrder
    <2>2. 2 \in 1..Len(todo)
      BY <1>2, <2>1
    <2> QED
      BY <2>1, <2>2 DEF MemInv, CallOK, InOrder
  <1>4. todo[2] \in In(todo)
    BY <1>3 DEF In
  <1>5. Ending => todo[2] = "close"
    <2> SUFFICES ASSUME Ending PROVE todo[2] = "close"
      OBVIOUS
    <2>1. PICK g \in Groups : In(todo) \subseteq g
      BY DEF MemInv, CallOK, Together
    <2>2. In(todo) \cap EndSteps # {}
      BY <1>3 DEF Ending
    <2>3. g = {"drain", "close"}
      BY <1>2, <2>1, <2>2 DEF Groups, EndSteps, Accesses
    <2> QED
      BY <1>3, <1>4, <2>1, <2>3
  <1>6. TexOK' /\ Disjoint' /\ SameCallTextures /\ SameTargets
    BY <1>1, UnchangedTextures, SameTexturesKeep DEF MemInv
  <1>7. CallOK' /\ (Ending => Ending')
    <2>1. CASE todo[2] = "close"
      <3>1. todo' = <<"abandon">>
        BY <1>1, <2>1
      <3>2. In(todo') = {"abandon"} /\ Together(todo') /\ InOrder(todo')
        BY <3>1, InShort, CallsTogether, InOrderShort
      <3>3. Live = {} /\ ~scene.active
        BY <1>4, <2>1 DEF MemInv, CallOK
      <3> QED
        BY <1>1, <1>3, <1>6, <3>2, <3>3 DEF CallOK, Accesses, SameCallTextures, Ending, EndSteps
    <2>2. CASE todo[2] # "close"
      BY <1>1, <1>3, <1>5, <2>2, EndedCall
    <2> QED
      BY <2>1, <2>2
  <1>8. TargetOK'
    BY <1>1, <1>6, <1>7, TargetFrame
  <1>9. TypeOK'
    BY <1>1, TypedNow, QuietTyped DEF MemInv
  <1> QED
    BY <1>1, <1>6, <1>7, <1>8, <1>9 DEF MemInv, ScreenOK

LEMMA CloseMem == ASSUME MemInv, IInv, IInv', Close PROVE MemInv'
  <1>1. /\ Step("close") \/ Step("abandon")
        /\ status' \in {"destroyed", "recovered"}
        /\ tex' = [t \in Textures |-> Absent] /\ todo' = <<>>
        /\ Touch(Screens \cup UNION {BlocksOf(tex[t]) : t \in Textures})
        /\ UNCHANGED <<scene, screen, target, header, pvr_failed, hwVars>>
    BY DEF Close
  <1>2. ~scene.active
    BY <1>1, TodoSeq DEF MemInv, CallOK
  <1>3. \A t \in Textures : tex'[t] = Absent
    BY <1>1
  <1>4. Absent.state = "absent" /\ Absent.vram = NoBlock /\ Absent.vram_next = NoBlock /\ ~Absent.locked
    BY DEF Absent
  <1>5. tex' \in [Textures -> TexRecords]
    BY <1>1, AbsentTyped
  <1>6. TexOK'
    BY <1>3, <1>4, NoneAssumption DEF TexOK, Nonabsent
  <1>7. Disjoint'
    BY <1>3, <1>4 DEF Disjoint, BlocksOf
  <1>8. Live' = {} /\ Retired' = {}
    BY <1>3, <1>4 DEF Live, Retired
  <1>9. In(todo') = {} /\ Together(todo') /\ InOrder(todo')
    BY <1>1, InShort, CallsTogether, InOrderShort
  <1>10. CallOK'
    BY <1>1, <1>2, <1>8, <1>9 DEF CallOK
  <1>11. TargetOK'
    BY <1>1, <1>2 DEF TargetOK, Ending
  <1>12. torn' \in BOOLEAN
    BY <1>1, TouchTyped DEF MemInv, TypeOK
  <1>13. TypeOK'
    BY <1>1, <1>5, <1>12, TypedNow, Typed DEF MemInv, TypeOK, hwVars
  <1> QED
    BY <1>1, <1>6, <1>7, <1>10, <1>11, <1>13 DEF MemInv, ScreenOK

\* There are as many free blocks as the allocator is asked for.
LEMMA FreeBlocks ==
    /\ Cardinality(Free) \in Nat
    /\ Cardinality(Free) >= 1 => Free # {}
    /\ Cardinality(Free) >= 2 => \A v \in Free : Free \ {v} # {}
  <1>1. IsFiniteSet(Free) /\ Cardinality(Free) \in Nat
    BY BlocksAssumption, FS_Subset, FS_CardinalityType DEF Free
  <1>2. Cardinality({}) = 0
    BY FS_EmptySet
  <1>3. \A v \in Free : Cardinality(Free \ {v}) = Cardinality(Free) - 1
    BY <1>1, FS_RemoveElement
  <1>4. Cardinality(Free) >= 1 => Free # {}
    BY <1>1, <1>2
  <1>5. ASSUME Cardinality(Free) >= 2, NEW v \in Free PROVE Free \ {v} # {}
    BY <1>1, <1>2, <1>3, <1>5
  <1> QED
    BY <1>1, <1>4, <1>5

\* A texture gets memory that no other has.
LEMMA Allocated ==
    ASSUME MemInv, NEW t \in Textures, tex[t].state = "absent", NEW access \in Accesses,
           Allocate(t, access), Cardinality(Free) >= Needed(access)
    PROVE  /\ tex' \in [Textures -> TexRecords] /\ torn' \in BOOLEAN
           /\ TexOK' /\ Disjoint' /\ SameTargets
           /\ \A u \in Textures : u # t => tex'[u] = tex[u]
           /\ torn' = torn \/ \E v \in Free : Touch({v})
  <1> DEFINE v == CHOOSE b \in Free : TRUE
             n == IF access = "target" THEN CHOOSE b \in Free \ {v} : TRUE ELSE NoBlock
             r == [Absent EXCEPT !.state = "live", !.access = access, !.vram = v,
                                 !.vram_next = n, !.filled = (access = "native")]
  <1>1. tex' = [tex EXCEPT ![t] = r] /\ (torn' = torn \/ Touch({v}))
    BY DEF Allocate
  <1>2. v \in Free /\ (access = "target" => n \in Free \ {v}) /\ (access # "target" => n = NoBlock)
    <2>1. Free # {} /\ (access = "target" => Cardinality(Free) >= 2)
      BY FreeBlocks DEF Needed
    <2>2. v \in Free
      BY <2>1
    <2>3. access = "target" => n \in Free \ {v}
      <3> SUFFICES ASSUME access = "target" PROVE n \in Free \ {v}
        OBVIOUS
      <3>1. Free \ {v} # {}
        BY <2>1, <2>2, FreeBlocks
      <3> HIDE DEF v
      <3> QED
        BY <3>1
    <2> QED
      BY <2>2, <2>3
  <1> HIDE DEF v, n
  <1>3. Free \subseteq Blocks /\ \A u \in Textures : BlocksOf(tex[u]) \cap Free = {}
    BY DEF Free
  <1>4. v \in Blocks /\ n \in Blocks \cup {NoBlock} /\ NoBlock \notin Blocks
    BY <1>2, <1>3, NoneAssumption
  <1>5. /\ r \in TexRecords /\ r.state = "live" /\ r.access = access /\ r.vram = v
        /\ r.vram_next = n /\ r.locked = FALSE
    BY <1>4, AbsentTyped DEF TexRecords, Absent
  <1> HIDE DEF r
  <1>6. tex \in [Textures -> TexRecords]
    BY TypedNow DEF MemInv
  <1>7. /\ tex' \in [Textures -> TexRecords] /\ tex'[t] = r
        /\ \A u \in Textures : u # t => tex'[u] = tex[u]
    BY <1>1, <1>5, <1>6
  <1>8. torn' \in BOOLEAN
    BY <1>1, TouchTyped DEF MemInv, TypeOK
  <1>9. TexOK'
    <2> SUFFICES ASSUME NEW u \in Textures
                 PROVE  /\ tex'[u].state = "absent" => tex'[u].vram = NoBlock /\ tex'[u].vram_next = NoBlock
                        /\ tex'[u].state # "absent" =>
                              /\ tex'[u].vram \in Blocks
                              /\ tex'[u].access = "target" => tex'[u].vram_next \in Blocks
                              /\ tex'[u].access # "target" => tex'[u].vram_next = NoBlock
                        /\ tex'[u].vram \in Blocks => tex'[u].vram # tex'[u].vram_next
                        /\ tex'[u].locked => tex'[u].access = "streaming"
      BY DEF TexOK, Nonabsent
    <2>1. CASE u = t
      BY <1>2, <1>3, <1>4, <1>5, <1>7, <2>1
    <2>2. CASE u # t
      BY <1>7, <2>2 DEF MemInv, TexOK, Nonabsent
    <2> QED
      BY <2>1, <2>2
  <1>10. BlocksOf(tex'[t]) \subseteq Free
    BY <1>2, <1>5, <1>7 DEF BlocksOf
  <1>11. Disjoint'
    BY <1>3, <1>7, <1>10 DEF MemInv, Disjoint
  <1>12. SameTargets
    BY <1>7 DEF SameTargets
  <1> QED
    BY <1>1, <1>2, <1>7, <1>8, <1>9, <1>11, <1>12

\* A step that creates a texture, or fails to, and leaves no step to do.
LEMMA CreatedMem ==
    ASSUME MemInv, IInv', ~Ending, todo' = <<>>, status = "open", status' = "open",
           tex' \in [Textures -> TexRecords], torn' \in BOOLEAN, TexOK', Disjoint', SameTargets,
           UNCHANGED <<scene, screen, target, header, pvr_failed, hwVars>>
    PROVE  MemInv'
  <1>1. CallOK'
    BY EndedCall
  <1>2. TargetOK'
    BY TargetFrame
  <1>3. TypeOK'
    BY TypedNow, QuietTyped DEF MemInv
  <1> QED
    BY <1>1, <1>2, <1>3 DEF MemInv, ScreenOK

LEMMA CreateTextureMem ==
    ASSUME MemInv, IInv', NEW t \in Textures, NEW access \in Accesses, CreateTexture(t, access)
    PROVE  MemInv'
  <1>1. /\ t \notin Live \cup Retired /\ Cardinality(Free) >= Needed(access)
        /\ Allocate(t, access) /\ todo = <<>> /\ todo' = todo /\ status = "open" /\ status' = status
    BY DEF CreateTexture, Idle, callVars
  <1>2. tex[t].state = "absent"
    BY <1>1 DEF MemInv, TypeOK, Live, Retired
  <1>3. /\ tex' \in [Textures -> TexRecords] /\ torn' \in BOOLEAN
        /\ TexOK' /\ Disjoint' /\ SameTargets
    BY <1>1, <1>2, Allocated
  <1>4. ~Ending
    BY <1>1, InShort DEF Ending
  <1>5. UNCHANGED <<scene, screen, target, header, pvr_failed, hwVars>>
    BY <1>1 DEF Allocate
  <1> QED
    BY <1>1, <1>3, <1>4, <1>5, CreatedMem

LEMMA CreateAfterDrainMem ==
    ASSUME MemInv, IInv, IInv', NEW access \in Accesses, CreateAfterDrain(access)
    PROVE  MemInv'
  <1>1. Step(access) /\ GoOn
    BY DEF CreateAfterDrain
  <1>2. /\ In(todo) = {access} /\ Tail(todo) = <<>> /\ status = "open"
    BY <1>1, LastStep
  <1>3. /\ todo' = <<>> /\ status' = "open" /\ arg \in Textures /\ tex[arg].state = "absent"
    BY <1>1, <1>2 DEF GoOn, Proceed, MemInv, CallOK
  <1>4. ~Ending
    BY <1>2 DEF Ending, EndSteps, Accesses
  <1>5. CASE Cardinality(Free) >= Needed(access)
    <2>1. Allocate(arg, access)
      BY <1>5 DEF CreateAfterDrain
    <2>2. /\ tex' \in [Textures -> TexRecords] /\ torn' \in BOOLEAN
          /\ TexOK' /\ Disjoint' /\ SameTargets
      BY <1>3, <1>5, <2>1, Allocated
    <2>3. UNCHANGED <<scene, screen, target, header, pvr_failed, hwVars>>
      BY <2>1 DEF Allocate
    <2> QED
      BY <1>2, <1>3, <1>4, <2>2, <2>3, CreatedMem
  <1>6. CASE ~(Cardinality(Free) >= Needed(access))
    <2>1. UNCHANGED <<tex, scene, screen, target, header, pvr_failed, hwVars, torn>>
      BY <1>6 DEF CreateAfterDrain, driverVars
    <2>2. TexOK' /\ Disjoint' /\ SameTargets
      BY <2>1, UnchangedTextures, SameTexturesKeep DEF MemInv
    <2> QED
      BY <1>2, <1>3, <1>4, <2>1, <2>2, TypedNow, CreatedMem DEF MemInv
  <1> QED
    BY <1>5, <1>6

LEMMA InitMem == Init => MemInv
  <1> SUFFICES ASSUME Init PROVE MemInv
    OBVIOUS
  <1>1. /\ tex = [t \in Textures |-> Absent] /\ todo = <<>> /\ status = "open" /\ target = NoTexture
        /\ scene = [begun |-> 0, entered |-> 0, completed |-> 0, active |-> FALSE,
                    is_entered |-> FALSE, kind |-> "none", target |-> NoTexture]
        /\ header = NoTexture /\ pvr_failed = FALSE /\ arg = NoTexture
        /\ ta = Nothing /\ rendering = Nothing /\ unflipped = FALSE /\ torn = FALSE
    BY DEF Init
  <1>2. \A t \in Textures : tex[t] = Absent
    BY <1>1
  <1>3. Absent.state = "absent" /\ Absent.vram = NoBlock /\ Absent.vram_next = NoBlock /\ ~Absent.locked
    BY DEF Absent
  <1>4. TexOK
    BY <1>2, <1>3, NoneAssumption DEF TexOK, Nonabsent
  <1>5. Disjoint
    BY <1>2, <1>3 DEF Disjoint, BlocksOf
  <1>6. CallOK
    <2>1. In(todo) = {} /\ Together(todo) /\ InOrder(todo)
      BY <1>1, InShort, CallsTogether, InOrderShort
    <2> QED
      BY <1>1, <2>1 DEF CallOK
  <1>7. TargetOK
    BY <1>1 DEF TargetOK
  <1>8. /\ screen \in [vram : Screens, vram_next : Screens, valid : BOOLEAN]
        /\ ScreenOK
    <2> DEFINE first == CHOOSE s \in Screens : TRUE
               second == CHOOSE s \in Screens : s # first
    <2>1. Cardinality({}) = 0 /\ Cardinality({first}) = 1
      BY FS_EmptySet, FS_Singleton
    <2>2. first \in Screens
      BY <2>1, ScreensAssumption
    <2>3. \E s \in Screens : s # first
      BY <2>1, <2>2, ScreensAssumption
    <2>4. second \in Screens /\ second # first
      BY <2>3
    <2>5. screen = [vram |-> first, vram_next |-> second, valid |-> FALSE]
      BY DEF Init
    <2> HIDE DEF first, second
    <2> QED
      BY <2>2, <2>4, <2>5 DEF ScreenOK
  <1>9. tex \in [Textures -> TexRecords]
    BY <1>1, AbsentTyped
  <1>10. scene \in [begun : Gens, entered : Gens, completed : Gens, active : BOOLEAN,
                   is_entered : BOOLEAN, kind : Kinds, target : Textures \cup {NoTexture}]
    BY <1>1, BoundAssumption DEF Gens, Kinds
  <1>11. TypeOK
    BY <1>1, <1>8, <1>9, <1>10, NothingTyped DEF TypeOK, TexRecords
  <1> QED
    BY <1>4, <1>5, <1>6, <1>7, <1>8, <1>11 DEF MemInv

LEMMA NextMem == MemInv /\ IInv /\ [Next]_vars => MemInv'
  <1> SUFFICES ASSUME MemInv, IInv, [Next]_vars PROVE MemInv'
    OBVIOUS
  <1>1. IInv'
    BY NextInv
  <1>2. CASE Calls
    BY <1>1, <1>2, BeginSceneMem, BeginListAgainMem, DropHeaderMem, RenderPresentMem,
       DestroyRendererMem, DrawTextureMem, UpdateTextureMem, LockTextureMem, DestroyTextureMem,
       CreateTextureMem, CreateWhenFullMem, SetRenderTargetMem
       DEF Calls
  <1>3. CASE Continue
    BY <1>1, <1>3, BeginListMem, ReclaimMem, FinishActiveSceneMem, SwitchTargetMem,
       PresentScreenMem, ReclaimForAllocationMem, UploadMem, RetireTextureMem,
       WaitScenesCompleteMem, RetireAllMem, FinishLastSceneMem, CloseMem, CreateAfterDrainMem
       DEF Continue
  <1>4. CASE Failures
    BY <1>1, <1>4, BeginFailsMem, BeginListMem, FinishFailsMem, WaitTimesOutMem DEF Failures
  <1>5. CASE Hardware
    BY <1>1, <1>5, HardwareMem
  <1>6. CASE Destroyed \/ UNCHANGED vars
    BY <1>1, <1>6, DropHeaderMem DEF Destroyed
  <1> QED
    BY <1>2, <1>3, <1>4, <1>5, <1>6 DEF Next

\* The types of every variable, for any textures, blocks and number of scenes: the
\* allocator finds the blocks it is asked for, and no scene is counted beyond the bound.
THEOREM TypeCorrect == Spec => []TypeOK
  <1>1. Init => MemInv /\ IInv
    BY InitMem, InitInv
  <1>2. MemInv /\ IInv /\ [Next]_vars => (MemInv /\ IInv)'
    BY NextMem, NextInv
  <1>3. MemInv => TypeOK
    BY DEF MemInv
  <1> QED
    BY <1>1, <1>2, <1>3, PTL DEF Spec

=============================================================================
