--------------------------- MODULE ServicesProofs ---------------------------
(***************************************************************************)
(* The options, the events of a frame, the shader chain and the            *)
(* descriptors of the engine, for every set of options, ports, shaders and *)
(* files, and for a table of any size; and what Services says of its parts *)
(* when they are side by side.                                             *)
(***************************************************************************)
EXTENDS Services, FrameSyncProofs, ControlsProofs, WellFoundedInduction, TLAPS

-----------------------------------------------------------------------------
(* CoreOptions.                                                            *)

\* A value of the map that the core does not work with yet is still on its way:
\* the flag is up or about to be, or the core is declaring or reading.
OnItsWay(o) ==
  \/ seen[o] = variables[o]
  \/ dirtyVariables \/ setter = "flag" \/ overlooked
  \/ client = "declare" \/ client = "store"
  \/ client = "read" /\ o \in remaining
  \/ client = "clear" /\ toldDirty

SeenInv ==
  /\ \A o \in Options : OnItsWay(o)
  /\ client = "clear" /\ ~toldDirty /\ dirtyVariables => overlooked

\* What SET_VARIABLES holds is not older than the user's last choice.
ChosenInv ==
  /\ client = "store" <=> copied # <<>>
  /\ copied # <<>> => copied[1] \in remaining
  /\ \A o \in Options : chosen[o] # None /\ o \notin overwritten =>
       /\ variables[o] = chosen[o]
       /\ copied # <<>> /\ copied[1] = o => copied[2] = chosen[o]

OptionsInv == OptionsTypeOK /\ SeenInv /\ ChosenInv

LEMMA OptionsTypes ==
  ASSUME OptionsInv, [OptionsNext]_optionVars
  PROVE  OptionsTypeOK'
<1> USE DEF OptionsInv, OptionsTypeOK, ChosenInv, Values
<1>1. ASSUME NEW o \in Options, NEW v \in OptionValues, UpdateVariable(o, v)
      PROVE  OptionsTypeOK'
  BY <1>1 DEF UpdateVariable
<1>2. CASE RaiseFlag
  BY <1>2 DEF RaiseFlag
<1>3. ASSUME NEW o \in Options, CopyOption(o) PROVE OptionsTypeOK'
  BY <1>3 DEF CopyOption
<1>4. ASSUME NEW default \in OptionValues, StoreOption(default) PROVE OptionsTypeOK'
  BY <1>4 DEF StoreOption, WithDefault
<1>5. ASSUME NEW o \in Options, ReadOption(o) PROVE OptionsTypeOK'
  BY <1>5 DEF ReadOption
<1>6. CASE AskUpdate
  BY <1>6 DEF AskUpdate
<1>7. CASE ClearUpdate
  BY <1>7 DEF ClearUpdate
<1>8. CASE NextSession
  BY <1>8 DEF NextSession
<1>9. CASE UNCHANGED optionVars
  BY <1>9 DEF optionVars
<1> QED
  BY <1>1, <1>2, <1>3, <1>4, <1>5, <1>6, <1>7, <1>8, <1>9 DEF OptionsNext

LEMMA OptionsSeen ==
  ASSUME OptionsInv, [OptionsNext]_optionVars
  PROVE  SeenInv'
<1> USE DEF OptionsInv, OptionsTypeOK, SeenInv, OnItsWay
<1>1. ASSUME NEW o \in Options, NEW v \in OptionValues, UpdateVariable(o, v)
      PROVE  SeenInv'
  BY <1>1 DEF UpdateVariable
<1>2. CASE RaiseFlag
  BY <1>2 DEF RaiseFlag
<1>3. ASSUME NEW o \in Options, CopyOption(o) PROVE SeenInv'
  BY <1>3 DEF CopyOption
<1>4. ASSUME NEW default \in OptionValues, StoreOption(default) PROVE SeenInv'
  BY <1>4 DEF StoreOption
<1>5. ASSUME NEW o \in Options, ReadOption(o) PROVE SeenInv'
  BY <1>5 DEF ReadOption
<1>6. CASE AskUpdate
  BY <1>6 DEF AskUpdate
<1>7. CASE ClearUpdate
  BY <1>7 DEF ClearUpdate
<1>8. CASE NextSession
  BY <1>8 DEF NextSession
<1>9. CASE UNCHANGED optionVars
  BY <1>9 DEF optionVars
<1> QED
  BY <1>1, <1>2, <1>3, <1>4, <1>5, <1>6, <1>7, <1>8, <1>9 DEF OptionsNext

LEMMA OptionsChosen ==
  ASSUME OptionsInv, [OptionsNext]_optionVars
  PROVE  ChosenInv'
<1> USE DEF OptionsInv, OptionsTypeOK, ChosenInv
<1>1. ASSUME NEW o \in Options, NEW v \in OptionValues, UpdateVariable(o, v)
      PROVE  ChosenInv'
  BY <1>1 DEF UpdateVariable
<1>2. CASE RaiseFlag
  BY <1>2 DEF RaiseFlag
<1>3. ASSUME NEW o \in Options, CopyOption(o) PROVE ChosenInv'
  BY <1>3 DEF CopyOption
<1>4. ASSUME NEW default \in OptionValues, StoreOption(default) PROVE ChosenInv'
  BY <1>4 DEF StoreOption, WithDefault
<1>5. ASSUME NEW o \in Options, ReadOption(o) PROVE ChosenInv'
  BY <1>5 DEF ReadOption
<1>6. CASE AskUpdate
  BY <1>6 DEF AskUpdate
<1>7. CASE ClearUpdate
  BY <1>7 DEF ClearUpdate
<1>8. CASE NextSession
  BY <1>8 DEF NextSession
<1>9. CASE UNCHANGED optionVars
  BY <1>9 DEF optionVars
<1> QED
  BY <1>1, <1>2, <1>3, <1>4, <1>5, <1>6, <1>7, <1>8, <1>9 DEF OptionsNext

LEMMA OptionsInvariance == OptionsSpec => []OptionsInv
<1>1. OptionsInit => OptionsInv
  BY DEF OptionsInit, OptionsInv, OptionsTypeOK, SeenInv, OnItsWay, ChosenInv, Values
<1>2. OptionsInv /\ [OptionsNext]_optionVars => OptionsInv'
  BY OptionsTypes, OptionsSeen, OptionsChosen DEF OptionsInv
<1> QED
  BY <1>1, <1>2, PTL DEF OptionsSpec

\* An update of an option reaches the core, unless it was announced in the middle
\* of a GET_VARIABLE_UPDATE, for any number of options.
THEOREM UpdatesArrive == OptionsSpec => []NoUpdateLost
<1>1. OptionsInv => NoUpdateLost
  <2> SUFFICES ASSUME OptionsInv, client = "idle" /\ setter = "idle",
                      ~dirtyVariables /\ ~overlooked
               PROVE  seen = variables
    BY DEF NoUpdateLost
  <2>1. \A o \in Options : seen[o] = variables[o]
    BY DEF OptionsInv, SeenInv, OnItsWay
  <2> QED
    BY <2>1 DEF OptionsInv, OptionsTypeOK
<1> QED
  BY <1>1, OptionsInvariance, PTL

\* Defaults and new sessions never replace what the user chose, unless the choice
\* fell into the declaration of that very option.
THEOREM ChoicesLast == OptionsSpec => []ChoiceKept
<1>1. OptionsInv => ChoiceKept
  BY DEF OptionsInv, ChosenInv, ChoiceKept
<1> QED
  BY <1>1, OptionsInvariance, PTL

-----------------------------------------------------------------------------
(* FrameEvents.                                                            *)

\* Where the layout is behind the core, the step has yet to bring it the news.
ShapeInv ==
  /\ \/ layoutRotation = screenRotation
     \/ screenRotationUpdated /\ frame \in {"run", "ran", "shape"}
  /\ \/ layoutAspect = AspectRatio
     \/ gameGeometryUpdated /\ frame \in {"run", "ran", "shape"}
     \/ dirtyVideo /\ frame = "refresh"
     \/ frame = "paused"

\* What the view has not been told of is dirty; a step that has fetched with
\* rumble enabled holds what the core wants, and has told it when it is over.
RumbleInv ==
  /\ \A p \in Ports : rumbleStates[p] = toldStrength[p] \/ dirtyStates[p]
  /\ heard /\ frame \in {"shape", "refresh", "handle"} => rumbleStates = strength
  /\ heard /\ frame \in {"idle", "paused"} => toldStrength = strength

EventsInv == EventsTypeOK /\ ShapeInv /\ RumbleInv

LEMMA EventsTypes ==
  ASSUME EventsAssumption, EventsTypeOK, [EventsNext]_eventVars
  PROVE  EventsTypeOK'
<1> USE DEF EventsTypeOK
<1> AspectRatio \in Aspects
  BY DEF AspectRatio, EventsAssumption
<1>1. CASE BeginFrame \/ CoreRan \/ SetRumbleEnabled \/ PauseFrames
  BY <1>1 DEF BeginFrame, CoreRan, SetRumbleEnabled, PauseFrames, rumbleVars, shapeVars
<1>2. ASSUME NEW p \in Ports, NEW s \in Strengths, SetRumbleState(p, s)
      PROVE  EventsTypeOK'
  BY <1>2 DEF SetRumbleState, shapeVars
<1>3. ASSUME NEW r \in Rotations, SetRotation(r) PROVE EventsTypeOK'
  BY <1>3 DEF SetRotation, rumbleVars
<1>4. ASSUME NEW a \in Aspects, SetGeometry(a) PROVE EventsTypeOK'
  BY <1>4 DEF SetGeometry, rumbleVars
<1>5. CASE FetchRumble
  BY <1>5 DEF FetchRumble, Fetch, shapeVars
<1>6. CASE UpdateShape
  BY <1>6 DEF UpdateShape, Reshape, rumbleVars
<1>7. CASE RefreshVideo
  BY <1>7 DEF RefreshVideo, rumbleVars
<1>8. CASE HandleRumble
  BY <1>8 DEF HandleRumble, shapeVars
<1>9. CASE ResumeFrames
  BY <1>9 DEF ResumeFrames, rumbleVars
<1>10. CASE UNCHANGED eventVars
  BY <1>10 DEF eventVars, rumbleVars, shapeVars
<1> QED
  BY <1>1, <1>2, <1>3, <1>4, <1>5, <1>6, <1>7, <1>8, <1>9, <1>10 DEF EventsNext

LEMMA EventsShape ==
  ASSUME EventsInv, [EventsNext]_eventVars
  PROVE  ShapeInv'
<1> USE DEF EventsInv, EventsTypeOK, ShapeInv, AspectRatio
<1>1. CASE BeginFrame \/ CoreRan \/ SetRumbleEnabled \/ PauseFrames
  BY <1>1 DEF BeginFrame, CoreRan, SetRumbleEnabled, PauseFrames, shapeVars
<1>2. ASSUME NEW p \in Ports, NEW s \in Strengths, SetRumbleState(p, s)
      PROVE  ShapeInv'
  BY <1>2 DEF SetRumbleState, shapeVars
<1>3. ASSUME NEW r \in Rotations, SetRotation(r) PROVE ShapeInv'
  BY <1>3 DEF SetRotation
<1>4. ASSUME NEW a \in Aspects, SetGeometry(a) PROVE ShapeInv'
  BY <1>4 DEF SetGeometry
<1>5. CASE FetchRumble
  BY <1>5 DEF FetchRumble, shapeVars
<1>6. CASE UpdateShape
  BY <1>6 DEF UpdateShape, Reshape
<1>7. CASE RefreshVideo
  BY <1>7 DEF RefreshVideo
<1>8. CASE HandleRumble
  BY <1>8 DEF HandleRumble, shapeVars
<1>9. CASE ResumeFrames
  BY <1>9 DEF ResumeFrames
<1>10. CASE UNCHANGED eventVars
  BY <1>10 DEF eventVars, shapeVars
<1> QED
  BY <1>1, <1>2, <1>3, <1>4, <1>5, <1>6, <1>7, <1>8, <1>9, <1>10 DEF EventsNext

LEMMA EventsRumble ==
  ASSUME EventsInv, [EventsNext]_eventVars
  PROVE  RumbleInv'
<1> USE DEF EventsInv, EventsTypeOK, RumbleInv
<1>1. CASE BeginFrame \/ CoreRan \/ SetRumbleEnabled \/ PauseFrames
  BY <1>1 DEF BeginFrame, CoreRan, SetRumbleEnabled, PauseFrames, rumbleVars
<1>2. ASSUME NEW p \in Ports, NEW s \in Strengths, SetRumbleState(p, s)
      PROVE  RumbleInv'
  BY <1>2 DEF SetRumbleState
<1>3. ASSUME NEW r \in Rotations, SetRotation(r) PROVE RumbleInv'
  BY <1>3 DEF SetRotation, rumbleVars
<1>4. ASSUME NEW a \in Aspects, SetGeometry(a) PROVE RumbleInv'
  BY <1>4 DEF SetGeometry, rumbleVars
<1>5. CASE FetchRumble
  BY <1>5 DEF FetchRumble, Fetch
<1>6. CASE UpdateShape
  BY <1>6 DEF UpdateShape, rumbleVars
<1>7. CASE RefreshVideo
  BY <1>7 DEF RefreshVideo, rumbleVars
<1>8. CASE HandleRumble
  <2>1. frame = "handle" /\ frame' = "idle"
        /\ strength' = strength /\ rumbleStates' = rumbleStates
    BY <1>8 DEF HandleRumble
  <2>2. CASE rumbleEnabled
    <3>1. \A p \in Ports : toldStrength'[p] = rumbleStates[p]
      BY <1>8, <2>2 DEF HandleRumble
    <3>2. toldStrength' = rumbleStates
      BY <1>8, <2>2, <3>1 DEF HandleRumble
    <3> QED
      BY <1>8, <2>1, <2>2, <3>2 DEF HandleRumble
  <2>3. CASE ~rumbleEnabled
    BY <1>8, <2>1, <2>3 DEF HandleRumble
  <2> QED
    BY <2>2, <2>3
<1>9. CASE ResumeFrames
  BY <1>9 DEF ResumeFrames, rumbleVars
<1>10. CASE UNCHANGED eventVars
  BY <1>10 DEF eventVars, rumbleVars
<1> QED
  BY <1>1, <1>2, <1>3, <1>4, <1>5, <1>6, <1>7, <1>8, <1>9, <1>10 DEF EventsNext

LEMMA EventsInvariance ==
  ASSUME EventsAssumption
  PROVE  EventsSpec => []EventsInv
<1>1. EventsInit => EventsInv
  <2>1. EventsInit => EventsTypeOK
    <3>1. EventsInit => gameGeometryUpdated \in BOOLEAN
      BY DEF EventsInit
    <3>2. EventsInit => /\ strength \in [Ports -> Strengths]
                       /\ dirtyStates \in [Ports -> BOOLEAN]
      BY DEF EventsInit, EventsAssumption
    <3> QED
      BY <3>1, <3>2 DEF EventsInit, EventsTypeOK, EventsAssumption
  <2>2. EventsInit => ShapeInv
    BY DEF EventsInit, ShapeInv
  <2>3. EventsInit => RumbleInv
    BY DEF EventsInit, RumbleInv
  <2> QED
    BY <2>1, <2>2, <2>3 DEF EventsInv
<1>2. EventsInv /\ [EventsNext]_eventVars => EventsInv'
  BY EventsTypes, EventsShape, EventsRumble DEF EventsInv
<1> QED
  BY <1>1, <1>2, PTL DEF EventsSpec

\* The view hears of every strength, whatever the main thread switches in between.
THEOREM RumbleHeard ==
  ASSUME EventsAssumption
  PROVE  EventsSpec => []RumbleTold
<1>1. EventsInv => RumbleTold
  BY DEF EventsInv, RumbleInv, RumbleTold
<1> QED
  BY <1>1, EventsInvariance, PTL

\* No rotation and no geometry is lost, also when both change in one frame.
THEOREM ShapeFollows ==
  ASSUME EventsAssumption
  PROVE  EventsSpec => []FrameShapeFollows
<1>1. EventsInv => FrameShapeFollows
  BY DEF EventsInv, ShapeInv, FrameShapeFollows
<1> QED
  BY <1>1, EventsInvariance, PTL

-----------------------------------------------------------------------------
(* ShaderChain.                                                            *)

\* What was requested of the Video is the configuration, unless that was set
\* behind the back of a new Video or is about to be told.
ConfigInv ==
  video # "none" /\ ~missed /\ (configuring => video = "building") =>
    requested = fragmentShaderConfig

\* The two reads of the requested shader agree unless one was set between them.
ReadsInv ==
  /\ ~renewed => loaded = requested
  /\ draw = "get" /\ ~torn => loaded = requested
  /\ draw = "idle" /\ ~torn => loaded = shadersChain

ChainInv ==
  /\ ChainTypeOK
  /\ shaders = shadersChain
  /\ ~rendererDirty => framebuffers = <<shaders, size>>
  /\ ConfigInv /\ ReadsInv

LEMMA ChainStep ==
  ASSUME ChainInv, [ChainNext]_chainVars
  PROVE  ChainInv'
<1> USE DEF ChainInv, ChainTypeOK, ConfigInv, ReadsInv, config, setting, programs,
            rendererVars
<1>1. ASSUME NEW s \in Shaders, SetConfig(s) PROVE ChainInv'
  BY <1>1 DEF SetConfig
<1>2. ASSUME NEW s \in Sizes, NewImage(s) PROVE ChainInv'
  <2>1. CASE Rebuild(s)
    <3>1. framebuffers' = <<shaders', size'>> /\ rendererDirty' = FALSE
      BY <1>2, <2>1 DEF NewImage, Rebuild
    <3>2. ConfigInv' /\ ReadsInv' /\ shaders' = shadersChain'
      BY <1>2 DEF NewImage
    <3>3. ChainTypeOK'
      BY <1>2, <3>1 DEF NewImage
    <3> QED
      BY <3>1, <3>2, <3>3
  <2>2. CASE size = s /\ ~rendererDirty /\ UNCHANGED <<framebuffers, rendererDirty>>
    BY <1>2, <2>2 DEF NewImage
  <2> QED
    BY <1>2, <2>1, <2>2 DEF NewImage
<1>3. ASSUME NEW s \in Sizes, NewResolution(s) PROVE ChainInv'
  BY <1>3 DEF NewResolution
<1>4. CASE NewHardwareFrame
  <2>1. CASE Rebuild(size)
    <3>1. framebuffers' = <<shaders', size'>> /\ rendererDirty' = FALSE
      BY <1>4, <2>1 DEF NewHardwareFrame, Rebuild
    <3>2. ConfigInv' /\ ReadsInv' /\ shaders' = shadersChain'
      BY <1>4 DEF NewHardwareFrame
    <3>3. ChainTypeOK'
      BY <1>4, <3>1 DEF NewHardwareFrame
    <3> QED
      BY <3>1, <3>2, <3>3
  <2>2. CASE ~rendererDirty /\ UNCHANGED <<framebuffers, rendererDirty>>
    BY <1>4, <2>2 DEF NewHardwareFrame
  <2> QED
    BY <1>4, <2>1, <2>2 DEF NewHardwareFrame
<1>5. CASE RenderSame
  BY <1>5 DEF RenderSame, Renders, MustReload
<1>6. CASE RenderReload
  BY <1>6 DEF RenderReload, Renders
<1>7. CASE GetShader
  BY <1>7 DEF GetShader, SetShaders
<1>8. CASE UNCHANGED chainVars
  BY <1>8 DEF chainVars
<1>9. CASE TellVideo
  BY <1>9 DEF TellVideo
<1>10. CASE NoVideo
  BY <1>10 DEF NoVideo
<1>11. CASE BuildVideo
  <2>1. /\ requested' \in Shaders /\ requested' = fragmentShaderConfig
        /\ {requested', loaded', shadersChain', shaders'} = {requested'}
        /\ loaded' = requested' /\ shadersChain' = requested' /\ shaders' = requested'
    BY <1>11 DEF BuildVideo
  <2>2. /\ framebuffers' \in (Shaders \cup {Nothing}) \X (Sizes \cup {Nothing})
        /\ size' \in Sizes \cup {Nothing} /\ rendererDirty' \in BOOLEAN
        /\ ~rendererDirty' => framebuffers' = <<shaders', size'>>
    <3>1. CASE hardwareAccelerated
      <4>1. size' \in Sizes /\ rendererDirty' = FALSE
        BY <1>11, <3>1 DEF BuildVideo
      <4>2. framebuffers' = <<shaders', size'>>
        BY <1>11, <2>1, <3>1 DEF BuildVideo
      <4>3. shaders' \in Shaders
        BY <2>1
      <4> QED
        BY <4>1, <4>2, <4>3
    <3>2. CASE ~hardwareAccelerated
      <4>1. size' = Nothing /\ rendererDirty' = TRUE
        BY <1>11, <3>2 DEF BuildVideo
      <4>2. framebuffers' = <<Nothing, Nothing>>
        BY <1>11, <3>2 DEF BuildVideo
      <4> QED
        BY <4>1, <4>2
    <3> QED
      BY <3>1, <3>2
  <2>3. ChainTypeOK'
    BY <1>11, <2>1, <2>2 DEF BuildVideo
  <2>4. ConfigInv' /\ ReadsInv'
    BY <1>11, <2>1 DEF BuildVideo
  <2> QED
    BY <2>1, <2>2, <2>3, <2>4
<1>12. CASE AssignVideo
  BY <1>12 DEF AssignVideo
<1> QED
  BY <1>1, <1>2, <1>3, <1>4, <1>5, <1>6, <1>7, <1>8, <1>9, <1>10, <1>11, <1>12
     DEF ChainNext

LEMMA ChainInvariance == ChainSpec => []ChainInv
<1>1. ChainInit => ChainInv
  <2> SUFFICES ASSUME ChainInit PROVE ChainInv
    OBVIOUS
  <2>1. framebuffers \in (Shaders \cup {Nothing}) \X (Sizes \cup {Nothing})
    BY DEF ChainInit
  <2>2. ChainTypeOK
    BY <2>1 DEF ChainInit, ChainTypeOK
  <2>3. shaders = shadersChain /\ ConfigInv /\ ReadsInv
    BY DEF ChainInit, ConfigInv, ReadsInv
  <2>4. framebuffers = <<shaders, size>>
    BY DEF ChainInit
  <2> QED
    BY <2>2, <2>3, <2>4 DEF ChainInv
<1>2. ChainInv /\ [ChainNext]_chainVars => ChainInv'
  BY ChainStep
<1> QED
  BY <1>1, <1>2, PTL DEF ChainSpec

\* A clean renderer has the framebuffers of the chain it draws with.
THEOREM BuffersFit == ChainSpec => []FramebuffersFit
<1>1. ChainInv => FramebuffersFit
  BY DEF ChainInv, FramebuffersFit
<1> QED
  BY <1>1, ChainInvariance, PTL

\* The programs that are drawn with are those of the configuration, over any
\* number of surfaces, but for what was set in one of the two windows.
THEOREM ShaderArrives == ChainSpec => []ShaderFollows
<1>1. ChainInv => ShaderFollows
  BY DEF ChainInv, ConfigInv, ReadsInv, ShaderFollows
<1> QED
  BY <1>1, ChainInvariance, PTL

-----------------------------------------------------------------------------
(* Vfs.                                                                    *)

\* An open takes the lowest of the numbers that are free.
LEMMA LowestIsFree ==
  ASSUME VfsAssumption, FreeNumbers # {}
  PROVE  Lowest \in FreeNumbers
<1>1. FreeNumbers \subseteq Nat
  BY DEF FreeNumbers, Numbers, VfsAssumption
<1>2. \E x \in FreeNumbers : \A y \in FreeNumbers : ~(<<y, x>> \in OpToRel(<, Nat))
  BY <1>1, NatLessThanWellFounded, WFMin
<1>3. \E x \in FreeNumbers : \A y \in FreeNumbers : x <= y
  <2>1. PICK x \in FreeNumbers : \A y \in FreeNumbers : ~(<<y, x>> \in OpToRel(<, Nat))
    BY <1>2
  <2>2. ASSUME NEW y \in FreeNumbers PROVE x <= y
    <3>1. x \in Nat /\ y \in Nat
      BY <1>1
    <3>2. <<y, x>> \in Nat \X Nat /\ <<y, x>>[1] = y /\ <<y, x>>[2] = x
      BY <3>1
    <3>3. ~(y < x)
      BY <2>1, <3>2 DEF OpToRel
    <3> QED
      BY <3>1, <3>3
  <2> QED
    BY <2>2
<1> QED
  BY <1>3 DEF Lowest, Min

\* A load without VFS is of one file, and a number that is closed twice is that
\* of a stream half closed or of this file.
LoadInv ==
  /\ loading = "loadGame" => ~loadUsingVFS
  /\ ~loadUsingVFS =>
       /\ \A f, g \in VirtualFiles : wrapper[f] # 0 /\ wrapper[g] # 0 => f = g
       /\ loading \in {"loaded", "destroyed"} => \A f \in VirtualFiles : wrapper[f] = 0
       /\ streams = {}
  /\ loading = "detach" => streams = {}
  /\ loading = "destroyed" =>
       streams = {} /\ \A f \in VirtualFiles : wrapper[f] = 0

\* What is open has an owner.
OwnerInv ==
  \A n \in Numbers :
    /\ table[n] = "game" => \E f \in VirtualFiles : wrapper[f] = n
    /\ table[n] = "stream" => n \in streams

\* What is owned is open, as long as no open took a number to be closed again.
OpenInv ==
  ~raced =>
    /\ \A f \in VirtualFiles :
         wrapper[f] # 0 /\ wrapper[f] \notin Stale => table[wrapper[f]] = "game"
    /\ \A n \in others : table[n] = "other"
    /\ \A n \in streams \ halfClosed : table[n] = "stream"
    /\ \A n \in Numbers : n \in Stale => table[n] = Free
    /\ \A f \in VirtualFiles : wrapper[f] \notin streams

VfsInv == VfsTypeOK /\ LoadInv /\ OwnerInv /\ OpenInv

LEMMA VfsTypes ==
  ASSUME VfsAssumption, VfsInv, [VfsNext]_vfsVars
  PROVE  VfsTypeOK' /\ LoadInv'
<1> USE DEF VfsInv, VfsTypeOK, LoadInv, FilesOf
<1>0. FreeNumbers # {} => Lowest \in Numbers /\ Lowest # 0
  BY LowestIsFree DEF FreeNumbers, Numbers, VfsAssumption
<1>1. ASSUME NEW f \in VirtualFiles, Detach(f) PROVE VfsTypeOK' /\ LoadInv'
  BY <1>0, <1>1 DEF Detach
<1>2. ASSUME NEW f \in VirtualFiles, ReadBytes(f) PROVE VfsTypeOK' /\ LoadInv'
  BY <1>2 DEF ReadBytes, Free
<1>3. ASSUME NEW f \in VirtualFiles, VirtualOpen(f) PROVE VfsTypeOK' /\ LoadInv'
  BY <1>0, <1>3 DEF VirtualOpen, OpenedMeanwhile
<1>4. CASE InitializeVFS
  BY <1>4 DEF InitializeVFS
<1>5. CASE LoadReturns
  BY <1>5 DEF LoadReturns, CloseAll
<1>6. CASE DeinitializeVFS
  BY <1>6 DEF DeinitializeVFS, CloseAll
<1>7. ASSUME NEW n \in Numbers, CloseFile(n) PROVE VfsTypeOK' /\ LoadInv'
  BY <1>7 DEF CloseFile
<1>8. ASSUME NEW n \in Numbers, CloseNumber(n) PROVE VfsTypeOK' /\ LoadInv'
  BY <1>8 DEF CloseNumber
<1>9. ASSUME NEW n \in Numbers, CloseOther(n) PROVE VfsTypeOK' /\ LoadInv'
  BY <1>9 DEF CloseOther
<1>10. CASE OpenOther
  BY <1>0, <1>10 DEF OpenOther, OpenedMeanwhile
<1>11. CASE UNCHANGED vfsVars
  BY <1>11 DEF vfsVars
<1> QED
  BY <1>1, <1>2, <1>3, <1>4, <1>5, <1>6, <1>7, <1>8, <1>9, <1>10, <1>11 DEF VfsNext

LEMMA VfsOwners ==
  ASSUME VfsAssumption, VfsInv, [VfsNext]_vfsVars
  PROVE  OwnerInv'
<1> USE DEF VfsInv, VfsTypeOK, OwnerInv, FilesOf, Free
<1>0. FreeNumbers # {} => Lowest \in Numbers /\ Lowest # 0 /\ table[Lowest] = Free
  BY LowestIsFree DEF FreeNumbers, Numbers, VfsAssumption
<1>1. ASSUME NEW f \in VirtualFiles, Detach(f) PROVE OwnerInv'
  BY <1>0, <1>1 DEF Detach, Numbers
<1>2. ASSUME NEW f \in VirtualFiles, ReadBytes(f) PROVE OwnerInv'
  BY <1>2 DEF ReadBytes
<1>3. ASSUME NEW f \in VirtualFiles, VirtualOpen(f) PROVE OwnerInv'
  BY <1>0, <1>3 DEF VirtualOpen
<1>4. CASE InitializeVFS
  BY <1>4 DEF InitializeVFS
<1>5. CASE LoadReturns
  BY <1>5 DEF LoadReturns, CloseAll
<1>6. CASE DeinitializeVFS
  BY <1>6 DEF DeinitializeVFS, CloseAll
<1>7. ASSUME NEW n \in Numbers, CloseFile(n) PROVE OwnerInv'
  BY <1>7 DEF CloseFile
<1>8. ASSUME NEW n \in Numbers, CloseNumber(n) PROVE OwnerInv'
  BY <1>8 DEF CloseNumber
<1>9. ASSUME NEW n \in Numbers, CloseOther(n) PROVE OwnerInv'
  BY <1>9 DEF CloseOther
<1>10. CASE OpenOther
  BY <1>0, <1>10 DEF OpenOther
<1>11. CASE UNCHANGED vfsVars
  BY <1>11 DEF vfsVars
<1> QED
  BY <1>1, <1>2, <1>3, <1>4, <1>5, <1>6, <1>7, <1>8, <1>9, <1>10, <1>11 DEF VfsNext

\* The numbers to be closed again, in and out of the loading of a single file.
LEMMA StaleNumbers ==
  ASSUME NEW n
  PROVE  /\ loading # "loadGame" => (n \in Stale <=> n \in halfClosed)
         /\ loading = "loadGame" =>
              (n \in Stale <=> n \in halfClosed \/ \E f \in VirtualFiles : wrapper[f] = n)
         /\ loading' # "loadGame" => (n \in Stale' <=> n \in halfClosed')
         /\ loading' = "loadGame" =>
              (n \in Stale' <=> n \in halfClosed' \/ \E f \in VirtualFiles : wrapper'[f] = n)
  BY DEF Stale

LEMMA VfsOpen ==
  ASSUME VfsAssumption, VfsInv, [VfsNext]_vfsVars
  PROVE  OpenInv'
<1> USE DEF VfsInv, VfsTypeOK, LoadInv, OpenInv, FilesOf, Free
<1>0. FreeNumbers # {} => Lowest \in Numbers /\ Lowest # 0 /\ table[Lowest] = Free
  BY LowestIsFree DEF FreeNumbers, Numbers, VfsAssumption
<1> USE StaleNumbers
<1>1. ASSUME NEW f \in VirtualFiles, Detach(f) PROVE OpenInv'
  BY <1>0, <1>1 DEF Detach, Numbers
<1>2. ASSUME NEW f \in VirtualFiles, ReadBytes(f) PROVE OpenInv'
  <2> SUFFICES ASSUME ~raced PROVE OpenInv'
    BY <1>2 DEF ReadBytes
  <2>1. /\ loading = "detach" /\ loading' = "loadGame" /\ ~loadUsingVFS
        /\ streams = {} /\ halfClosed = {} /\ wrapper[f] # 0 /\ wrapper[f] \in Numbers
        /\ UNCHANGED <<wrapper, streams, halfClosed, others, raced>>
    BY <1>2 DEF ReadBytes
  <2>2. table[wrapper[f]] = "game"
    BY <2>1
  <2>3. \A n \in Numbers : table'[n] = IF n = wrapper[f] THEN Free ELSE table[n]
    BY <1>2, <2>1 DEF ReadBytes
  <2>4. \A g \in VirtualFiles : wrapper[g] # 0 => g = f
    BY <2>1
  <2>5. \A n \in others : table'[n] = "other"
    BY <2>2, <2>3
  <2>6. \A g \in VirtualFiles : wrapper'[g] \in Stale'
    BY <2>1
  <2>7. \A n \in Numbers : n \in Stale' => n = wrapper[f]
    BY <2>1, <2>4 DEF Numbers, VfsAssumption
  <2> QED
    BY <2>1, <2>3, <2>5, <2>6, <2>7
<1>3. ASSUME NEW f \in VirtualFiles, VirtualOpen(f) PROVE OpenInv'
  <2> SUFFICES ASSUME ~raced' PROVE OpenInv'
    OBVIOUS
  <2>1. /\ ~raced /\ Lowest \notin Stale
        /\ loading = "loaded" /\ loadUsingVFS
        /\ Lowest \in Numbers /\ Lowest # 0 /\ table[Lowest] = Free
        /\ streams' = streams \cup {Lowest}
        /\ UNCHANGED <<wrapper, loading, halfClosed, others>>
    BY <1>0, <1>3 DEF VirtualOpen, OpenedMeanwhile
  <2>2. \A n \in Numbers : table'[n] = IF n = Lowest THEN "stream" ELSE table[n]
    BY <1>3, <2>1 DEF VirtualOpen
  <2>3. \A g \in VirtualFiles : wrapper[g] # Lowest
    BY <2>1
  <2>4. \A n : n \in Stale' <=> n \in Stale
    BY <2>1
  <2> HIDE DEF OpenInv
  <2>5. \A g \in VirtualFiles :
          wrapper'[g] # 0 /\ wrapper'[g] \notin Stale' => table'[wrapper'[g]] = "game"
    BY <2>1, <2>2, <2>3, <2>4 DEF OpenInv
  <2>6. \A n \in others' : table'[n] = "other"
    BY <2>1, <2>2 DEF OpenInv
  <2>7. \A n \in streams' \ halfClosed' : table'[n] = "stream"
    BY <2>1, <2>2 DEF OpenInv
  <2>8. \A n \in Numbers : n \in Stale' => table'[n] = Free
    BY <2>1, <2>2, <2>4 DEF OpenInv
  <2>9. \A g \in VirtualFiles : wrapper'[g] \notin streams'
    BY <2>1, <2>3 DEF OpenInv
  <2> QED
    BY <2>5, <2>6, <2>7, <2>8, <2>9 DEF OpenInv
<1>4. CASE InitializeVFS
  BY <1>4 DEF InitializeVFS
<1>5. CASE LoadReturns
  BY <1>5 DEF LoadReturns, CloseAll
<1>6. CASE DeinitializeVFS
  <2> SUFFICES ASSUME ~raced PROVE OpenInv'
    BY <1>6 DEF DeinitializeVFS
  <2>1. /\ loading = "loaded" /\ loading' = "destroyed"
        /\ streams = {} /\ halfClosed = {}
        /\ UNCHANGED <<streams, halfClosed, others, raced>>
        /\ \A g \in VirtualFiles : wrapper'[g] = 0
    BY <1>6 DEF DeinitializeVFS, CloseAll
  <2>2. \A n \in others : table'[n] = "other"
    <3> SUFFICES ASSUME NEW n \in others PROVE table'[n] = "other"
      OBVIOUS
    <3>1. n \in Numbers /\ n # 0 /\ table[n] = "other"
      BY DEF Numbers, VfsAssumption
    <3>2. \A g \in VirtualFiles : wrapper[g] # n
      BY <2>1, <3>1
    <3> QED
      BY <1>6, <3>1, <3>2 DEF DeinitializeVFS, CloseAll
  <2>3. \A n : n \notin Stale'
    BY <2>1
  <2> QED
    BY <2>1, <2>2, <2>3
<1>7. ASSUME NEW n \in Numbers, CloseFile(n) PROVE OpenInv'
  BY <1>7 DEF CloseFile
<1>8. ASSUME NEW n \in Numbers, CloseNumber(n) PROVE OpenInv'
  BY <1>8 DEF CloseNumber
<1>9. ASSUME NEW n \in Numbers, CloseOther(n) PROVE OpenInv'
  BY <1>9 DEF CloseOther
<1>10. CASE OpenOther
  <2> SUFFICES ASSUME ~raced' PROVE OpenInv'
    OBVIOUS
  <2>1. /\ ~raced /\ Lowest \notin Stale
        /\ Lowest \in Numbers /\ Lowest # 0 /\ table[Lowest] = Free
        /\ others' = others \cup {Lowest}
        /\ UNCHANGED <<wrapper, loading, streams, halfClosed>>
    BY <1>0, <1>10 DEF OpenOther, OpenedMeanwhile
  <2>2. \A n \in Numbers : table'[n] = IF n = Lowest THEN "other" ELSE table[n]
    BY <1>10, <2>1 DEF OpenOther
  <2>3. \A n : n \in Stale' <=> n \in Stale
    BY <2>1
  <2> HIDE DEF OpenInv
  <2>4. \A g \in VirtualFiles :
          wrapper'[g] # 0 /\ wrapper'[g] \notin Stale' => table'[wrapper'[g]] = "game"
    BY <2>1, <2>2, <2>3 DEF OpenInv
  <2>5. \A n \in others' : table'[n] = "other"
    BY <2>1, <2>2 DEF OpenInv
  <2>6. \A n \in streams' \ halfClosed' : table'[n] = "stream"
    BY <2>1, <2>2 DEF OpenInv
  <2>7. \A n \in Numbers : n \in Stale' => table'[n] = Free
    BY <2>1, <2>2, <2>3 DEF OpenInv
  <2>8. \A g \in VirtualFiles : wrapper'[g] \notin streams'
    BY <2>1 DEF OpenInv
  <2> QED
    BY <2>4, <2>5, <2>6, <2>7, <2>8 DEF OpenInv
<1>11. CASE UNCHANGED vfsVars
  BY <1>11 DEF vfsVars
<1> QED
  BY <1>1, <1>2, <1>3, <1>4, <1>5, <1>6, <1>7, <1>8, <1>9, <1>10, <1>11 DEF VfsNext

LEMMA VfsInvariance ==
  ASSUME VfsAssumption
  PROVE  VfsSpec => []VfsInv
<1>1. VfsInit => VfsInv
  BY DEF VfsInit, VfsInv, VfsTypeOK, LoadInv, OwnerInv, OpenInv, Stale, FilesOf, Free, Numbers
<1>2. VfsInv /\ [VfsNext]_vfsVars => VfsInv'
  BY VfsTypes, VfsOwners, VfsOpen DEF VfsInv
<1> QED
  BY <1>1, <1>2, PTL DEF VfsSpec

\* Every registered file, every stream and every file of another part of the
\* process stays open under its number, as long as no open fell between the two
\* closes of a number.
THEOREM OwnersKeepFiles ==
  ASSUME VfsAssumption
  PROVE  VfsSpec => []OwnershipPreserved
<1>1. VfsInv => OwnershipPreserved
  BY DEF VfsInv, OpenInv, OwnershipPreserved
<1> QED
  BY <1>1, VfsInvariance, PTL

\* Nothing of the game stays open, however the numbers were reused.
THEOREM AllReturned ==
  ASSUME VfsAssumption
  PROVE  VfsSpec => []NothingLeaks
<1>1. VfsInv => NothingLeaks
  BY DEF VfsInv, VfsTypeOK, LoadInv, OwnerInv, NothingLeaks, FilesOf, Numbers
<1> QED
  BY <1>1, VfsInvariance, PTL

-----------------------------------------------------------------------------
(* Services.                                                               *)

\* Side by side, every part behaves as it does alone.
THEOREM Composition ==
  Spec => PaceSpec /\ OptionsSpec /\ EventsSpec /\ ControlsSpec /\ VfsSpec /\ ChainSpec
<1>1. Init => PaceInit /\ OptionsInit /\ EventsInit /\ ControlsInit /\ VfsInit /\ ChainInit
  BY DEF Init
<1>2. [Next]_vars => [PaceNext]_paceVars
  BY DEF Next, vars
<1>3. [Next]_vars => [OptionsNext]_optionVars
  BY DEF Next, vars
<1>4. [Next]_vars => [EventsNext]_eventVars
  BY DEF Next, vars
<1>5. [Next]_vars => [ControlsNext]_controlVars
  BY DEF Next, vars
<1>6. [Next]_vars => [VfsNext]_vfsVars
  BY DEF Next, vars
<1>7. [Next]_vars => [ChainNext]_chainVars
  BY DEF Next, vars
<1> QED
  BY <1>1, <1>2, <1>3, <1>4, <1>5, <1>6, <1>7, PTL
  DEF Spec, PaceSpec, OptionsSpec, EventsSpec, ControlsSpec, VfsSpec, ChainSpec

\* The types of all parts.
THEOREM TypeCorrect ==
  ASSUME PaceAssumption, EventsAssumption, ControlsAssumption, VfsAssumption
  PROVE  Spec => []TypeOK
<1>1. Spec => [](focus \in Parts)
  <2>1. Init => focus \in Parts
    BY DEF Init
  <2>2. focus \in Parts /\ [Next]_vars => (focus \in Parts)'
    BY DEF Next, vars
  <2> QED
    BY <2>1, <2>2, PTL DEF Spec
<1>2. OptionsInv => OptionsTypeOK
  BY DEF OptionsInv
<1>3. EventsInv => EventsTypeOK
  BY DEF EventsInv
<1>4. VfsInv => VfsTypeOK
  BY DEF VfsInv
<1>5. ChainInv => ChainTypeOK
  BY DEF ChainInv
<1>6. focus \in Parts /\ PaceTypeOK /\ OptionsTypeOK /\ EventsTypeOK
        /\ ControlsTypeOK /\ VfsTypeOK /\ ChainTypeOK => TypeOK
  BY DEF TypeOK
<1> QED
  BY <1>1, <1>2, <1>3, <1>4, <1>5, <1>6, Composition, PaceTypeCorrect, ControlsTypeCorrect,
     OptionsInvariance, EventsInvariance, VfsInvariance, ChainInvariance, PTL
=============================================================================
