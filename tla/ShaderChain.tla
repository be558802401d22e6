----------------------------- MODULE ShaderChain -----------------------------
(***************************************************************************)
(* Class Video and its renderers: the shader that was configured, the one  *)
(* that was requested of the Video, the chain of programs that was loaded  *)
(* for it, and the framebuffers between its passes.  The main thread sets  *)
(* the shader in two steps, the second only if there is a Video; all the   *)
(* rest is on the GL thread, which makes a Video for every surface and     *)
(* whose updateProgram reads the requested shader twice.                   *)
(*                                                                         *)
(* A chain is known by its shader, which is read and written as a whole.   *)
(* Two renderers: ImageRendererES3 for games that draw in memory,          *)
(* FramebufferRenderer for those that draw with OpenGL.                    *)
(***************************************************************************)
EXTENDS Integers

CONSTANTS
  Shaders,
  Sizes               \* of the frames

Nothing == "nothing"

ASSUME ShadersAssumption == Nothing \notin Shaders /\ Nothing \notin Sizes

VARIABLES
  hardwareAccelerated, skipDuplicateFrames,
  fragmentShaderConfig,
  configuring,        \* the main thread is about to tell the Video
  video,              \* "none", "building" outside of the member, or "up"
  requested,          \* requestedShaderConfig
  loaded,             \* loadedShaderType
  shadersChain,       \* the programs
  shaders,            \* the chain that the renderer knows
  framebuffers,       \* a pair: the chain and the size they were built for
  rendererDirty,      \* isDirty of the renderer
  videoDirty,         \* isDirty of Video
  size,               \* width and height, or lastFrameSize, of the renderer
  draw,               \* the GL thread: "idle", or in updateProgram
  renewed,            \* history: the Video was told since the last comparison
  torn,               \* history: it was told between the two reads
  missed              \* history: a configuration was set after the new Video
                      \* had copied the one before, and before it could be told

config       == <<hardwareAccelerated, skipDuplicateFrames>>
setting      == <<fragmentShaderConfig, configuring, missed>>
programs     == <<requested, loaded, shadersChain>>
rendererVars == <<shaders, framebuffers, rendererDirty, size>>
chainVars == <<config, setting, video, programs, rendererVars, videoDirty, draw,
               renewed, torn>>

ChainTypeOK ==
  /\ hardwareAccelerated \in BOOLEAN /\ skipDuplicateFrames \in BOOLEAN
  /\ fragmentShaderConfig \in Shaders /\ configuring \in BOOLEAN
  /\ video \in {"none", "building", "up"}
  /\ LET Chain == IF video = "none" THEN {Nothing} ELSE Shaders
     IN  {requested, loaded, shadersChain, shaders} \subseteq Chain
  /\ framebuffers \in (Shaders \cup {Nothing}) \X (Sizes \cup {Nothing})
  /\ rendererDirty \in BOOLEAN /\ videoDirty \in BOOLEAN
  /\ size \in Sizes \cup {Nothing}
  /\ draw \in {"idle", "get"}
  /\ renewed \in BOOLEAN /\ torn \in BOOLEAN /\ missed \in BOOLEAN

\* After create, before the first surface.
ChainInit ==
  /\ hardwareAccelerated \in BOOLEAN /\ skipDuplicateFrames \in BOOLEAN
  /\ fragmentShaderConfig \in Shaders /\ configuring = FALSE
  /\ video = "none"
  /\ requested = Nothing /\ loaded = Nothing
  /\ shadersChain = Nothing /\ shaders = Nothing
  /\ rendererDirty = FALSE /\ size = Nothing /\ framebuffers = <<Nothing, Nothing>>
  /\ videoDirty = FALSE /\ draw = "idle"
  /\ renewed = FALSE /\ torn = FALSE /\ missed = FALSE

-----------------------------------------------------------------------------
(* Variants of the definitions below with one fault each.                  *)

\* A renderer that takes a new chain without rebuilding.
SetShadersQuietly ==
  /\ shaders' = requested
  /\ rendererDirty' = rendererDirty

\* A program that is loaded only once.
NeverReload == FALSE

-----------------------------------------------------------------------------
(* setShaderConfig, on the main thread.                                    *)

SetConfig(s) ==
  /\ ~configuring /\ configuring' = TRUE
  /\ fragmentShaderConfig' = s
  /\ missed' = (video = "building")
  /\ UNCHANGED <<config, video, programs, rendererVars, videoDirty, draw, renewed, torn>>

\* updateShaderType.
TellVideo ==
  /\ configuring /\ video = "up" /\ configuring' = FALSE
  /\ requested' = fragmentShaderConfig
  /\ renewed' = TRUE /\ torn' = (torn \/ draw = "get") /\ missed' = FALSE
  /\ UNCHANGED <<config, fragmentShaderConfig, video, loaded, shadersChain, rendererVars,
                 videoDirty, draw>>

\* if (video): there is none to tell.
NoVideo ==
  /\ configuring /\ video # "up" /\ configuring' = FALSE
  /\ UNCHANGED <<config, fragmentShaderConfig, missed, video, programs, rendererVars,
                 videoDirty, draw, renewed, torn>>

-----------------------------------------------------------------------------
(* onSurfaceCreated.                                                       *)

\* The old Video goes, and a new one is made from a copy of the configuration;
\* its constructor loads the programs.  A FramebufferRenderer has its buffers
\* from the start, an ImageRendererES3 makes them for the first frame.
BuildVideo ==
  /\ draw = "idle" /\ video # "building" /\ video' = "building"
  /\ requested' = fragmentShaderConfig
  /\ loaded' = requested' /\ shadersChain' = requested' /\ shaders' = requested'
  /\ \/ /\ hardwareAccelerated /\ rendererDirty' = FALSE
        /\ size' \in Sizes /\ framebuffers' = <<requested', size'>>
     \/ /\ ~hardwareAccelerated /\ rendererDirty' = TRUE
        /\ size' = Nothing /\ framebuffers' = <<Nothing, Nothing>>
  /\ videoDirty' = FALSE
  /\ renewed' = FALSE /\ torn' = FALSE /\ missed' = FALSE
  /\ UNCHANGED <<config, fragmentShaderConfig, configuring, draw>>

\* Only now does the main thread find it.
AssignVideo ==
  /\ video = "building" /\ video' = "up"
  /\ UNCHANGED <<config, setting, programs, rendererVars, videoDirty, draw, renewed, torn>>

-----------------------------------------------------------------------------
(* handleVideoRefresh and onNewFrame of the renderers.                     *)

Rebuild(s) == framebuffers' = <<shaders, s>> /\ rendererDirty' = FALSE

\* The size of a frame in memory is that of the data.
NewImage(s) ==
  /\ video = "up" /\ draw = "idle" /\ ~hardwareAccelerated
  /\ \/ (size # s \/ rendererDirty) /\ Rebuild(s)
     \/ size = s /\ ~rendererDirty /\ UNCHANGED <<framebuffers, rendererDirty>>
  /\ size' = s
  /\ videoDirty' = TRUE
  /\ UNCHANGED <<config, setting, video, programs, shaders, draw, renewed, torn>>

NewHardwareFrame ==
  /\ video = "up" /\ draw = "idle" /\ hardwareAccelerated
  /\ \/ rendererDirty /\ Rebuild(size)
     \/ ~rendererDirty /\ UNCHANGED <<framebuffers, rendererDirty>>
  /\ videoDirty' = TRUE
  /\ UNCHANGED <<config, setting, video, programs, shaders, size, draw, renewed, torn>>

\* updateRenderedResolution: a new geometry, which an image renderer ignores.
NewResolution(s) ==
  /\ video = "up" /\ draw = "idle" /\ hardwareAccelerated /\ s # size
  /\ size' = s /\ rendererDirty' = TRUE
  /\ UNCHANGED <<config, setting, video, programs, shaders, framebuffers, videoDirty, draw,
                 renewed, torn>>

-----------------------------------------------------------------------------
(* renderFrame and updateProgram.                                          *)

MustReload == loaded # requested

Renders == video = "up" /\ draw = "idle" /\ (~skipDuplicateFrames \/ videoDirty)

RenderSame ==
  /\ Renders /\ ~MustReload
  /\ videoDirty' = FALSE /\ renewed' = FALSE
  /\ UNCHANGED <<config, setting, video, programs, rendererVars, draw, torn>>

RenderReload ==
  /\ Renders /\ MustReload
  /\ videoDirty' = FALSE /\ renewed' = FALSE /\ torn' = FALSE
  /\ loaded' = requested
  /\ draw' = "get"
  /\ UNCHANGED <<config, setting, video, requested, shadersChain, rendererVars>>

\* setShaders: a FramebufferRenderer rebuilds only for a chain that differs.
SetShaders ==
  /\ shaders' = requested
  /\ rendererDirty' = (rendererDirty \/ ~hardwareAccelerated \/ shaders # requested)

\* The second read, and the drawing of the frame.
GetShader ==
  /\ draw = "get" /\ draw' = "idle"
  /\ shadersChain' = requested
  /\ SetShaders
  /\ UNCHANGED <<config, setting, video, requested, loaded, framebuffers, size, videoDirty,
                 renewed, torn>>

ChainNext ==
  \/ \E s \in Shaders : SetConfig(s)
  \/ TellVideo \/ NoVideo \/ BuildVideo \/ AssignVideo
  \/ \E s \in Sizes : NewImage(s) \/ NewResolution(s)
  \/ NewHardwareFrame \/ RenderSame \/ RenderReload \/ GetShader

ChainSpec == ChainInit /\ [][ChainNext]_chainVars

-----------------------------------------------------------------------------
\* Outside of updateProgram, a renderer that is not dirty has the framebuffers
\* of the chain that is drawn and of the size of its frames: no pass is drawn to
\* the screen that should not be, and the last one is.
FramebuffersFit ==
  draw = "idle" /\ ~rendererDirty => framebuffers = <<shadersChain, size>>

\* Once a frame has been rendered after the shader was set, on the surface of
\* that moment or on a later one, the programs are those of that shader
\* (LibretroDroid::setShaderConfig and onSurfaceCreated, Video::updateProgram),
\* with two windows excepted: between the two reads of updateProgram one shader
\* may be loaded under the name of another, and between the copy for a new Video
\* and its assignment the shader is set, but nobody is told.
ShaderFollows ==
  video = "up" /\ ~configuring /\ draw = "idle" /\ ~renewed /\ ~torn /\ ~missed =>
    shadersChain = fragmentShaderConfig
=============================================================================
