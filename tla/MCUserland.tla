----------------------------- MODULE MCUserland -----------------------------
(***************************************************************************)
(* What runs above the kernel: the supervisor of the services (Push), the  *)
(* arbiter of capabilities (Gordian), the desktop portal and the planes of *)
(* the Quantum desktop, the Crest compositor, and the package manager      *)
(* Corinth with its compiler and its build queue, and the gateway through  *)
(* which a program reaches the Nexus.  The parts share no state here, so   *)
(* each behaviour runs one of them.                                        *)
(***************************************************************************)
EXTENDS Integers, Sequences

VARIABLES focus, plane, past

Services == <<"net", "corinth", "crest">>

Request(op, object, value, scene) ==
    [op |-> op, object |-> object, value |-> value, scene |-> scene]

\* What the clients ask, in order; the second session may do less.
DesktopRequests ==
    <<{Request("acknowledge", 0, 1, 0)},
      {Request("checkpoint", 0, 0, 1), Request("focus", 1, 1, 0)},
      {Request("present", 1, 2, 1), Request("release", 1, 0, 0)},
      {Request("recover", 0, 1, 2), Request("present", 1, 3, 1)},
      {Request("present", 1, 2, 1)}>>

Rectangle(x, y, w, h) == [x |-> x, y |-> y, w |-> w, h |-> h]

Desk == INSTANCE Desktop WITH
    \* DesktopPortal.
    Sessions <- 1 .. 2,
    PortalRights <- <<{"present", "acknowledge", "checkpoint", "recover", "focus", "release", "query"},
                {"present", "acknowledge"}>>,
    Requests <- DesktopRequests, Publishers <- {1}, Plans <- {1}, PolicyEpochs <- {1},
    MaxSnapshots <- 2,
    \* QuantumScene.
    SurfaceCapacity <- 2, Surfaces <- {1, 2}, SurfaceRights <- {"move", "destroy"}, Expiries <- {6},
    Positions <- {0, 1}, Depths <- {0}, Callers <- {1, 2}, MaxLeases <- 2, MaxEpoch <- 4,
    \* QuantumFocus.
    FocusCapacity <- 3, Nodes <- {1}, Classes <- {"key", "pointer"}, Pointing <- {"pointer"},
    MaximumDepth <- 2, RightSets <- {{"key", "pointer", "modal"}, {"key"}}, Lifetimes <- {2, 4},
    FocusMaxTick <- 2, MaxGrants <- 3,
    \* QuantumFrame.
    Width <- 5, Height <- 2, TileSize <- 2,
    Rectangles <- {Rectangle(1, 0, 2, 1), Rectangle(4, 0, 9, 1)}, Points <- {[x |-> 2, y |-> 0]},
    FullConfidence <- 2, Risks <- {400, 760},
    FlagSets <- {{}, {"safe"}, {"revoked"}, {"at_risk", "degraded"}}, MaxSequence <- 2,
    FrameMaxTick <- 2,
    \* CrestInput.
    Pointers <- {1}, Span <- 3, TapMaxPixels <- 3, DragThreshold <- 2, TapMaxTicks <- 1,
    HoldTicks <- 2, QueueSize <- 1, InputMaxTick <- 3,
    Keys <- <<"caps", "shift", "shift", "ctrl", "none">>, MaxStrokes <- 6, NamedActions <- 2,
    Customs <- {1}, Codes <- {1, 2}, MaxKeybinds <- 2, BufferSizes <- {1, 2},
    \* CrestScene.
    MaxInstructions <- 5, MaxStack <- 2, MaxNodes <- 2, Apps <- {1, 2}, Heats <- {1, 3},
    Places <- {0, 2}, Tweens <- {1, 2}, Durations <- {1, 3}, MaxTweens <- 1, MaxTicks <- 3,
    Flippers <- {1, 2}, MaxFlips <- 3, Heights <- {1, 3, 5}, SliceLimit <- 3,
    PanelWidths <- {6, 16}, PanelHeight <- 4,
    state <- plane

Code(op, argument) == [op |-> op, a |-> argument]

Peer(latency, honest) == [latency |-> latency, trust |-> 1, honest |-> honest]

Offer(kind, opcode, sequence, intact, present) ==
    [kind |-> kind, opcode |-> opcode, sequence |-> sequence, intact |-> intact, present |-> present]

\* The first caller may do everything, the second only observe.
GatewayOffers ==
    [p |-> {Offer("control", "Entangle", 0, TRUE, TRUE), Offer("control", "QueryStats", 0, FALSE, TRUE),
            Offer("control", "unknown", 0, TRUE, TRUE), Offer("telemetry", "QueryStats", 0, TRUE, TRUE)},
     q |-> {Offer("control", "QueryStats", 0, TRUE, TRUE), Offer("control", "Entangle", 0, TRUE, FALSE),
            Offer("scalar", "Entangle", 1, TRUE, TRUE), Offer("scalar", "Entangle", 0, TRUE, TRUE)}]

Heartbeat(energy, drift) == [energy |-> energy, drift |-> drift]

Served == INSTANCE Services WITH
    \* PushSupervisor.
    Services <- Services,
    PushDependencies <- [s \in {"net", "corinth", "crest"} |->
                        CASE s = "net" -> {} [] s = "corinth" -> {"net"} [] OTHER -> {"corinth"}],
    PushCritical <- {"net", "corinth"}, MaximumRestarts <- [s \in {"net", "corinth", "crest"} |-> 1],
    BackoffTicks <- [s \in {"net", "corinth", "crest"} |-> IF s = "net" THEN 2 ELSE 1],
    DeadlockTicks <- 3, MaximumMass <- 1,
    \* GordianKnot.
    Threads <- {1, 2}, Owner <- "corinth", Named <- {"corinth", "crest"},
    Capabilities <- {"net", "gpu"}, Legal <- {<<"corinth", "net">>, <<"crest", "gpu">>},
    Handles <- {7}, Sequences <- <<<<1, 3>>, <<2>>>>, MaxEvaluations <- 3,
    \* CorinthResolver.
    Names <- {1, 2}, Versions <- {1, 2}, Roots <- {<<1, 1>>, <<2, 2>>}, MaxPackages <- 3,
    MaxClauses <- 4, OptionLists <- {<<1, 2>>, <<2, 1>>, <<>>},
    VersionLists <- {<<1, 2, 3>>, <<1, 2, 3, 4>>}, MaxRequests <- 3, Clients <- {1, 2},
    MaxInstalled <- 1, MaxGeneration <- 2, DigestValues <- 4,
    \* CorinthBuild.
    MaxIr <- 12, MaxProgram <- 4, MaxUnroll <- 3, MaxBody <- 2,
    Bodies <- <<<<Code("mov", 1), Code("inline", 2)>>, <<Code("mov", 2)>>, <<Code("inline", 4)>>,
                <<Code("inline", 3)>>, <<Code("inline", 5), Code("mov", 1)>>>>,
    QueueCapacity <- 2, MaxJobs <- 3, Workers <- 2, Priorities <- {1, 2},
    Temperatures <- {0, 2, 3}, Throttle <- 2, BuildCritical <- 3, Packages <- 3,
    Graphs <- {<<>>, <<0>>, <<1>>, <<2>>, <<0, 1>>, <<1, 1>>, <<2, 1>>},
    Peers <- <<Peer(0, FALSE), Peer(1, TRUE), Peer(1, FALSE)>>, Fragments <- 3,
    BuildDependencies <- {0, 2},
    \* NexusGateway.
    Callers <- {"p", "q"}, Rights <- [p |-> {"observe", "resonance"}, q |-> {"observe"}], Quota <- 2,
    SequenceModulus <- 3, Window <- 2, Log <- 3, Offers <- GatewayOffers, MaxCalls <- 3, MaxTick <- 2,
    Samples <- {Heartbeat(0, FALSE), Heartbeat(0, TRUE), Heartbeat(2, FALSE), Heartbeat(4, FALSE),
                Heartbeat(5, FALSE), Heartbeat(10, FALSE)},
    Excited <- 2, NexusCritical <- 5, Containment <- 10, RapidGrowth <- 3, StableObservations <- 3,
    MaxObservations <- 5,
    state <- plane

all == <<focus, plane, past>>

MCInit ==
    \/ focus = "push" /\ Served!PushInit
    \/ focus = "gordian" /\ Served!GordianInit
    \/ focus = "portal" /\ Desk!PortalInit
    \/ focus = "surfaces" /\ Desk!SurfaceInit
    \/ focus = "focus" /\ Desk!FocusInit
    \/ focus = "frame" /\ Desk!FrameInit
    \/ focus = "input" /\ Desk!InputInit
    \/ focus = "scene" /\ Desk!SceneInit
    \/ focus = "resolver" /\ Served!ResolverInit
    \/ focus = "build" /\ Served!BuildInit
    \/ focus = "gateway" /\ Served!NexusInit

MCNext ==
    \/ focus = "push" /\ Served!PushNext /\ UNCHANGED focus
    \/ focus = "gordian" /\ Served!GordianNext /\ UNCHANGED focus
    \/ focus = "portal" /\ Desk!PortalNext /\ UNCHANGED focus
    \/ focus = "surfaces" /\ Desk!SurfaceNext /\ UNCHANGED focus
    \/ focus = "focus" /\ Desk!FocusNext /\ UNCHANGED focus
    \/ focus = "frame" /\ Desk!FrameNext /\ UNCHANGED focus
    \/ focus = "input" /\ Desk!InputNext /\ UNCHANGED focus
    \/ focus = "scene" /\ Desk!SceneNext /\ UNCHANGED focus
    \/ focus = "resolver" /\ Served!ResolverNext /\ UNCHANGED focus
    \/ focus = "build" /\ Served!BuildNext /\ UNCHANGED focus
    \/ focus = "gateway" /\ Served!NexusNext /\ UNCHANGED focus

MCSpec == MCInit /\ [][MCNext]_all



=============================================================================
