-------------------------------- MODULE MCClient -------------------------------
(***************************************************************************)
(* The calls of the game and the client's own side for TLC.  A behaviour   *)
(* is about one thing: the calls that reach the server, the keyboard, the  *)
(* focus, what the game polls, the DirectInput devices, the Remix API's    *)
(* structures, the addresses of the shadow state, the shaders or the       *)
(* options.                                                                *)
(* What one of these changes, no step of the others reads, but for the     *)
(* active UI, which the keyboard and the devices each see at every moment, *)
(* and the options, which each of the others takes at any value.           *)
(***************************************************************************)
EXTENDS Calls, Input, RemixApi, Shadow, Shaders, Options

CONSTANT Subjects  \* what the behaviours of a run are about

VARIABLE about

mcVars == <<vars, inputVars, channelVars, keyVars, hookVars, remixVars, shadowVars, shaderVars, optionVars, about>>

DefaultPolicy == [d \in DeviceType |-> "RemixUIActive"]

--------------------------------------------------------------------------------
(* Meshes without, with plain and with skinned surfaces; skins of one and   *)
(* of several vertices and bones, and one of a surface that has no vertex.  *)
MCSurfaces ==
  {[vertices |-> 0, indices |-> 0, skin |-> <<>>],
   [vertices |-> 2, indices |-> 1, skin |-> <<>>],
   [vertices |-> 1, indices |-> 2, skin |-> [bones |-> 1, weights |-> 1, indices |-> 1]],
   [vertices |-> 2, indices |-> 1, skin |-> [bones |-> 2, weights |-> 4, indices |-> 4]],
   [vertices |-> 0, indices |-> 1, skin |-> [bones |-> 2, weights |-> 0, indices |-> 0]]}

(* Arguments on both sides of every gap and end.                            *)
Stages == {0, 7, 15, 16, 255, 256, 257, 260, 261}

MCArguments ==
  [s \in {"viewport", "material", "scissorRect", "vertexDecl", "vertexShader", "pixelShader", "indices",
          "clipStatus", "curTexPalette", "bSoftwareVtxProcessing", "NPatchMode", "FVF", "gpuThreadPriority",
          "maxFrameLatency"} |-> {<<0, 0>>}]
  @@ [s \in {"lights", "bLightEnables"} |-> {0, 1, 300} \X {0}]
  @@ [s \in {"streams", "streamFreqs"} |-> {0, 15, 16} \X {0}]
  @@ [transforms |-> {2, 3, 4, 16, 23, 24, 255, 256, 257, 511, 512} \X {0},
      clipPlanes |-> {0, 5, 6} \X {0}, renderStates |-> {7, 209, 255, 256} \X {0}, textures |-> Stages \X {0},
      textureStageStates |-> {0, 7, 8} \X (1..12 \cup 22..33), samplerStates |-> Stages \X {0, 1, 2, 13, 15},
      paletteEntries |-> {0, 1} \X {0},
      vertexF |-> ({0, 1, 254, 256, 8191} \X {0, 1, 3}) \cup {<<SizeT - 1, 2>>}, vertexI |-> {0, 1, 15, 16} \X {1, 3},
      vertexB |-> {0, 1, 14, 31} \X {1, 3}, pixelF |-> {0, 221, 223} \X {1, 3},
      pixelI |-> {0, 13, 15} \X {1, 3}, pixelB |-> {0, 13, 15, SizeT - 2} \X {1, 3}]

(* Files of one line with every kind of option and value; of two lines of   *)
(* one option, and of the options that speak about the shared heap.         *)
Value(kind) ==
  CASE kind = "uint8" -> {<<"2">>, <<"2", "5", "6">>, <<"word">>, <<"2", "word">>}
    [] kind = "uint16" -> {<<"6", "5", "5">>, <<"-", "1">>}
    [] kind = "uint32" -> {<<"1", "0", "0">>, <<"2", "kB">>, <<"6", "MB">>, <<"1", "GB">>, <<"0x", "1", "f">>,
                           <<"0b", "1", "0">>, <<"0b", "2">>, <<"word">>, <<>>}
    [] kind = "int32" -> {<<"-", "1">>, <<"2">>, <<"word">>}
    [] kind = "bool" -> {<<"True">>, <<"False">>, <<"1">>}
    [] kind = "strings" -> {<<"Textures", ",", "DynamicBuffers">>, <<"StaticBuffers">>, <<"word">>}
    [] kind = "string" -> {<<"word">>, <<>>}

Forms == {"plain", "spaced", "quoted", "remark", "comment", "section", "no value"}

LinesOf(key, kind, forms) == [key : {key}, value : Value(kind), form : forms]

Single ==
  LinesOf("presentSemaphoreMaxFrames", "uint8", {"plain"}) \cup LinesOf("keyStateCircBufMaxSize", "uint16", {"plain"})
  \cup LinesOf("clientCmdQueueSize", "uint32", Forms) \cup LinesOf("disableTimeouts", "bool", Forms)
  \cup LinesOf("client.DirectInput.forward.mousePolicy", "int32", {"plain"})
  \cup LinesOf("logLevel", "string", {"plain"}) \cup LinesOf("server.shutdownTimeout", "uint32", {"plain"})

Heap ==
  LinesOf("useSharedHeap", "bool", {"plain", "comment"}) \cup LinesOf("sharedHeapPolicy", "strings", {"plain"})
  \cup LinesOf("useShadowMemoryForDynamicBuffers", "bool", {"plain"})

MCFiles ==
  {<<>>} \cup {<<line>> : line \in Single} \cup {<<a, b>> : a, b \in Heap}
  \cup {<<[key |-> "useSharedHeap", value |-> <<"True">>, form |-> "plain"], a, b>> : a, b \in Heap}
  \cup {<<a, b>> : a, b \in LinesOf("clientCmdQueueSize", "uint32", {"plain", "comment"})}

--------------------------------------------------------------------------------
(* A behaviour leaves what it is not about as it is at first.               *)
MCInit ==
  /\ about \in Subjects
  /\ Init /\ InitInput
  /\ about = "calls" \/ responses = "none"
  /\ about \in {"keyboard", "focus"} \/ ~hookMessagePump
  /\ about = "focus" \/ m_handshakeMsgId
  /\ about = "polling" \/ ~overrideCustomWinHooks
  /\ InitRemix
  /\ about = "structures" \/ ~exposeRemixApi
  /\ InitShadow
  /\ about = "shadow" \/ slot = "viewport"
  /\ InitShaders
  /\ InitOptions
  /\ about = "options" \/ (file = <<>> /\ ~hl2 /\ ~parentSeen)

Others(own) ==
  LET Kept(name, group) == IF name = own THEN TRUE ELSE UNCHANGED group
  IN /\ UNCHANGED about
     /\ Kept("calls", vars)
     /\ Kept("input", <<inputVars, channelVars, keyVars, hookVars>>)
     /\ Kept("structures", remixVars)
     /\ Kept("shadow", shadowVars)
     /\ Kept("shaders", shaderVars)
     /\ Kept("options", optionVars)

(* What the game does on its own side it may leave; a call must return.     *)
MCNext ==
  \/ about # "calls" /\ UNCHANGED mcVars
  \/ about = "calls" /\ Next /\ Others("calls")
  \/ about = "keyboard" /\ KeyboardNext /\ Others("input")
  \/ about = "focus" /\ ChannelNext /\ Others("input")
  \/ about = "polling" /\ PollingNext /\ Others("input")
  \/ about = "devices" /\ DevicesNext /\ Others("input")
  \/ about = "structures" /\ RemixNext /\ Others("structures")
  \/ about = "shadow" /\ ShadowNext /\ Others("shadow")
  \/ about = "shaders" /\ ShaderNext /\ Others("shaders")
  \/ about = "options" /\ OptionsNext /\ Others("options")

MCSpec == MCInit /\ [][MCNext]_mcVars
================================================================================
