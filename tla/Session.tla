-------------------------------- MODULE Session --------------------------------
(***************************************************************************)
(* A page, the camera it has configured, and the size of what it draws:    *)
(* AVRecorder.swift and ConstraintsManager.swift on iOS, the handlers of   *)
(* WebSocketCamera.swift, camera.ts and scene.ts.                          *)
(*                                                                         *)
(* The handlers run one at a time on the service thread; the capture       *)
(* threads use the width and height of the recorder meanwhile.  The page   *)
(* is told the size and the side by the answers to its requests, and takes *)
(* each frame for one of that size.  How a frame is sent is left to        *)
(* WebSocketCamera: here, one that is asked for and there is put on the    *)
(* wire.                                                                   *)
(***************************************************************************)
EXTENDS Naturals, Sequences, SequencesExt, FiniteSets

CONSTANTS
    Captures,   \* capture threads
    Phones,     \* what may be found: the presets of the device of each position there is
    MayFail,    \* whether a device may refuse to be opened
    MaxChanges, \* bound: changes the page asks for
    None

\* The resolutions ResolutionConverter.toSize can name
Resolutions == {"640x480", "1280x720", "1920x1080"}

ASSUME SessionAssumption ==
    None \notin Resolutions /\ \A phone \in Phones : None \notin DOMAIN phone

VARIABLES
    Cameras,    \* the devices of this phone
    rec,        \* AVRecorder: resolution, width, height, captureDevice
    session,    \* the capture session as configured, and the depth of configurations
    live,       \* the session as last committed
    svc,        \* the handler that runs: where it is, and its request
    sample,     \* the sample each capture thread was called with
    stored,     \* yBuffer and uvBuffer: the size and the device of a frame
    asked,      \* needFrame
    inbox,      \* requests on the way
    wire,       \* answers and frames on the way
    page,       \* start() of the page; its scene: the size, and if it mirrors; the last upload
    changes, failed, trapped

server == <<rec, session, live, failed, trapped>>
vars == <<Cameras, server, svc, sample, stored, asked, inbox, wire, page, changes>>

Positions == {"back", "front"}

Idle == [pc |-> "idle", request |-> None, arg |-> None, device |-> None]

Init ==
    /\ Cameras \in Phones
    /\ rec = [resolution |-> None, width |-> 0, height |-> 0, device |-> None]
    /\ session = [preset |-> None, input |-> None, depth |-> 0, running |-> FALSE]
    /\ live = [preset |-> None, input |-> None]
    /\ svc = Idle
    /\ sample = [t \in Captures |-> None] /\ stored = None /\ asked = FALSE
    /\ inbox = <<>> /\ wire = <<>>
    /\ page = [start |-> "no", scene |-> None, mirrored |-> FALSE, upload |-> None]
    /\ changes = 0 /\ failed = FALSE /\ trapped = FALSE

-----------------------------------------------------------------------------
(* Presets *)

NoFullHD ==     \* the table of macOS
    [p \in {"640x480", "1280x720"} |->
        IF p = "640x480" THEN [width |-> 640, height |-> 480] ELSE [width |-> 1280, height |-> 720]]

\* ConstraintsManager.presets
PresetSizes ==
    [p \in {"352x288", "640x480", "1280x720", "1920x1080"} |->
        CASE p = "352x288"  -> [width |-> 352,  height |-> 288]
          [] p = "640x480"  -> [width |-> 640,  height |-> 480]
          [] p = "1280x720" -> [width |-> 1280, height |-> 720]
          [] OTHER          -> [width |-> 1920, height |-> 1080]]

Area(p) == PresetSizes[p].width * PresetSizes[p].height

\* AVRecorder.presetsMap: the preset of a resolution
PresetOf(resolution) == resolution

\* getPerfectPreset: the optimal one, or one of those between the two bounds in
\* the order of a dictionary.
PerfectPresets(device, optimal) ==
    LET between == {p \in DOMAIN PresetSizes \cap Cameras[device] :
                        Area(p) \in Area("640x480")..Area("1280x720")}
    IN  IF optimal \in Cameras[device] THEN {optimal}
        ELSE IF between # {} THEN between ELSE {"640x480"}

-----------------------------------------------------------------------------
(* The recorder, in the steps of a handler *)

Goto(pc) == svc' = [svc EXCEPT !.pc = pc]

\* changePosition unwraps the resolution, which there is since a configure.
NoResolution == svc.request = "change-position" /\ rec.resolution = None

\* setDevice, up to setOptimalPreset.  A position without a device changes
\* nothing; a device that does not open leaves the configuration begun.
SetDevice ==
    /\ svc.pc = "device"
    /\ LET at == IF svc.request = "configure" THEN svc.arg.position ELSE svc.arg
       IN  \/ /\ NoResolution
              /\ trapped' = TRUE /\ UNCHANGED <<svc, session, failed>>
           \/ /\ ~NoResolution /\ at \notin DOMAIN Cameras
              /\ Goto("answer")
              /\ failed' = (failed \/ rec.device = None) /\ UNCHANGED <<session, trapped>>
           \/ /\ ~NoResolution /\ at \in DOMAIN Cameras
              /\ session' = [session EXCEPT !.depth = @ + 1, !.input = None]
              /\ \/ /\ MayFail /\ failed' = TRUE /\ Goto("answer")
                 \/ /\ failed' = failed /\ svc' = [svc EXCEPT !.pc = "width", !.device = at]
              /\ UNCHANGED trapped
    /\ UNCHANGED <<rec, live>>

\* setResolution
SetResolution ==
    /\ svc.pc = "resolution"
    /\ rec' = [rec EXCEPT !.resolution = svc.arg]
    /\ IF rec.device = None
       THEN trapped' = TRUE /\ UNCHANGED <<svc, session>>
       ELSE /\ session' = [session EXCEPT !.depth = @ + 1]
            /\ svc' = [svc EXCEPT !.pc = "width", !.device = rec.device]
            /\ UNCHANGED trapped
    /\ UNCHANGED <<live, failed>>

\* setOptimalPreset.  The capture threads can see one of the two numbers set.
SetWidth ==
    /\ svc.pc = "width"
    /\ \E p \in PerfectPresets(svc.device, PresetOf(rec.resolution)) :
        /\ session' = [session EXCEPT !.preset = p]
        /\ IF p \notin DOMAIN PresetSizes
           THEN trapped' = TRUE /\ UNCHANGED <<rec, svc>>
           ELSE rec' = [rec EXCEPT !.width = PresetSizes[p].width] /\ Goto("height")
                /\ UNCHANGED trapped
    /\ UNCHANGED <<live, failed>>

SetHeight ==
    /\ svc.pc = "height"
    /\ rec' = [rec EXCEPT !.height = PresetSizes[session.preset].height]
    /\ Goto("commit")
    /\ UNCHANGED <<session, live, failed, trapped>>

ForgetDevice == UNCHANGED rec   \* captureDevice is still the one before

\* The device is remembered, for what the page is told.
KeepDevice == rec' = [rec EXCEPT !.device = svc.device]

\* addInput, commitConfiguration: what is configured takes effect when the
\* outermost configuration is committed.
Commit ==
    /\ svc.pc = "commit"
    /\ LET s == [session EXCEPT !.depth = @ - 1,
                    !.input = IF svc.request = "change-resolution" THEN @ ELSE svc.device]
       IN  /\ session' = s
           /\ live' = IF s.depth = 0 THEN [preset |-> s.preset, input |-> s.input] ELSE live
    /\ KeepDevice /\ Goto("answer")
    /\ UNCHANGED <<failed, trapped>>

-----------------------------------------------------------------------------
(* The handlers *)

\* getCaptureInfos: the size, and if the picture is to be mirrored
CaptureInfos ==
    [kind |-> "answer", request |-> svc.request, width |-> rec.width, height |-> rec.height,
     mirrored |-> rec.device = "front"]

\* clear: what is queued for the page and not written yet is dropped, answers too.
Clear ==
    /\ \E n \in 0..Len(wire) : wire' = SubSeq(wire, 1, n)
    /\ stored' = None /\ asked' = FALSE

Frame(f) == [kind |-> "frame", width |-> f.width, height |-> f.height, device |-> f.device]

\* A request is taken up; configure starts the camera once.
Receive ==
    /\ inbox # <<>> /\ svc.pc = "idle"
    /\ inbox' = Tail(inbox)
    /\ LET m == Head(inbox)
           at(pc) == svc' = [Idle EXCEPT !.pc = pc, !.request = m.request, !.arg = m.arg]
       IN  \/ /\ m.request = "configure"
              /\ at(IF session.running THEN "answer" ELSE "device")
              /\ rec' = IF session.running THEN rec
                        ELSE [rec EXCEPT !.resolution = m.arg.resolution]
              /\ UNCHANGED <<wire, stored, asked>>
           \/ /\ m.request = "change-position" /\ at("device")
              /\ Clear /\ UNCHANGED rec
           \/ /\ m.request = "change-resolution" /\ at("resolution")
              /\ Clear /\ UNCHANGED rec
           \/ /\ m.request = "need-frame" /\ UNCHANGED <<svc, rec>>
              /\ IF stored # None
                 THEN wire' = Append(wire, Frame(stored)) /\ stored' = None /\ asked' = FALSE
                 ELSE asked' = TRUE /\ UNCHANGED <<wire, stored>>
    /\ UNCHANGED <<session, live, failed, trapped, sample, page, changes>>

\* The end of a handler, and of start, which runs the session.
Answer ==
    /\ svc.pc = "answer"
    /\ session' = [session EXCEPT !.running = @ \/ svc.request = "configure"]
    /\ wire' = Append(wire, CaptureInfos)
    /\ svc' = Idle
    /\ UNCHANGED <<rec, live, failed, trapped, sample, stored, asked, inbox, page, changes>>

Configuring ==
    /\ SetDevice \/ SetResolution \/ SetWidth \/ SetHeight \/ Commit
    /\ UNCHANGED <<sample, stored, asked, inbox, wire, page, changes>>

-----------------------------------------------------------------------------
(* Capture threads *)

Sample(t) ==
    /\ sample[t] = None /\ session.running /\ live.input # None
    /\ sample' = [sample EXCEPT ![t] =
            [width |-> PresetSizes[live.preset].width,
             height |-> PresetSizes[live.preset].height, device |-> live.input]]
    /\ UNCHANGED <<server, svc, stored, asked, inbox, wire, page, changes>>

\* onCapture and onBuffer: a sample that differs both ways is scaled to what the
\* recorder wants.
OnCapture(t) ==
    /\ sample[t] # None
    /\ LET s == sample[t]
           f == IF s.width # rec.width /\ s.height # rec.height
                THEN [s EXCEPT !.width = rec.width, !.height = rec.height] ELSE s
       IN  IF asked
           THEN wire' = Append(wire, Frame(f)) /\ stored' = None /\ asked' = FALSE
           ELSE stored' = f /\ UNCHANGED <<wire, asked>>
    /\ sample' = [sample EXCEPT ![t] = None]
    /\ UNCHANGED <<server, svc, inbox, page, changes>>

-----------------------------------------------------------------------------
(* The page *)

Asks(request, arg) == inbox' = Append(inbox, [request |-> request, arg |-> arg])

\* start, once: configure, whose answer starts the loop of the animation.
Start ==
    /\ page.start = "no" /\ page' = [page EXCEPT !.start = "asked"]
    /\ \E r \in Resolutions, p \in Positions :
            Asks("configure", [resolution |-> r, position |-> p])
    /\ UNCHANGED <<server, svc, sample, stored, asked, wire, changes>>

\* The changes do not ask if the page was started, or the server configured.
ChangePosition ==
    /\ changes < MaxChanges /\ changes' = changes + 1
    /\ \E p \in Positions : Asks("change-position", p)
    /\ UNCHANGED <<server, svc, sample, stored, asked, wire, page>>

ChangeResolution ==
    /\ changes < MaxChanges /\ changes' = changes + 1
    /\ \E r \in Resolutions : Asks("change-resolution", r)
    /\ UNCHANGED <<server, svc, sample, stored, asked, wire, page>>

\* requestCameraFrame; a request that would change nothing is not repeated.
RequestCameraFrame ==
    /\ page.start = "running" /\ ~asked
    /\ \A i \in DOMAIN inbox : inbox[i].request # "need-frame"
    /\ \A i \in DOMAIN wire : wire[i].kind # "frame"
    /\ Asks("need-frame", None)
    /\ UNCHANGED <<server, svc, sample, stored, asked, wire, page, changes>>

\* configureGL, setSize; start goes on with the answer to its own request.
SetSize(m) ==
    [page EXCEPT !.start = IF m.request = "configure" THEN "running" ELSE @,
                 !.mirrored = m.mirrored, !.scene = [width |-> m.width, height |-> m.height]]

\* uploadTextures: what it is given, for a texture of the size of the scene
UploadTextures(m) ==
    [page EXCEPT !.upload = [fits |-> m.width = page.scene.width /\ m.height = page.scene.height,
                             mirrored |-> m.device = "front"]]

Deliver ==
    /\ wire # <<>> /\ wire' = Tail(wire)
    /\ LET m == Head(wire)
       IN  page' = IF m.kind = "answer" THEN SetSize(m) ELSE UploadTextures(m)
    /\ UNCHANGED <<server, svc, sample, stored, asked, inbox, changes>>

-----------------------------------------------------------------------------
\* A trap ends the program.
Running(A) == ~trapped /\ A /\ Cameras' = Cameras

Next ==
    \/ Running(Receive) \/ Running(Configuring) \/ Running(Answer)
    \/ \E t \in Captures : Running(Sample(t)) \/ Running(OnCapture(t))
    \/ Running(Start) \/ Running(ChangePosition) \/ Running(ChangeResolution)
    \/ Running(RequestCameraFrame) \/ Running(Deliver)

\* The threads run, the camera produces, messages arrive and the page asks on.
Fairness ==
    /\ WF_vars(Running(Receive)) /\ WF_vars(Running(Configuring)) /\ WF_vars(Running(Answer))
    /\ \A t \in Captures : WF_vars(Running(Sample(t))) /\ WF_vars(Running(OnCapture(t)))
    /\ WF_vars(Running(RequestCameraFrame)) /\ WF_vars(Running(Deliver))

Spec == Init /\ [][Next]_vars /\ Fairness

-----------------------------------------------------------------------------
(* Properties *)

\* In the end the page draws what the camera takes: the planes have the size of
\* the scene, from the side the scene mirrors for, whatever changes overlapped
\* with captures, if no device refused to open (AVRecorder.swift:241, :367,
\* scene.ts:305).
Fits == page.upload # None => page.upload.fits /\ page.upload.mirrored = page.mirrored
PictureSettles == <>[](Fits \/ failed \/ trapped)

\* The forced unwraps of the recorder (AVRecorder.swift:242, :252, :263, :360)
\* never fail within configure, and none fails in a request that comes after it,
\* unless a device was missing or did not open.  What is left are changes that
\* come before any configure: those of a page that was not started, or that has
\* connected again to a program that was.
TrapsOnlyUnconfigured ==
    trapped => failed \/ (~session.running /\ svc.request # "configure")

\* "if you're using 1080p default resolution, you'll get 1080p on the back
\* camera and 720p on the front" (README.md:37): the best preset that the device
\* has and that is not above what was asked for.
BestPreset ==
    svc.pc = "answer" /\ ~failed /\ rec.device # None =>
        \A p \in Cameras[rec.device] :
            Area(p) <= Area(PresetOf(rec.resolution)) => Area(p) <= Area(session.preset)
=============================================================================
