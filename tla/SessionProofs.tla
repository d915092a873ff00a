----------------------------- MODULE SessionProofs -----------------------------
(***************************************************************************)
(* Proofs about Session, for any phones, any number of capture threads and *)
(* of changes: the forced unwraps of the recorder.                         *)
(***************************************************************************)
EXTENDS Session, TLAPS, SequenceTheorems

\* A device was opened, or one did not open.
Known == failed \/ rec.device # None

Shape ==
    /\ Cameras \in Phones
    /\ rec = [resolution |-> rec.resolution, width |-> rec.width,
              height |-> rec.height, device |-> rec.device]
    /\ svc = [pc |-> svc.pc, request |-> svc.request, arg |-> svc.arg,
              device |-> svc.device]
    /\ session = [preset |-> session.preset, input |-> session.input,
                  depth |-> session.depth, running |-> session.running]
    /\ session.running \in BOOLEAN /\ failed \in BOOLEAN /\ trapped \in BOOLEAN

\* A message names a resolution there is.
Fit(m) ==
    /\ m.request = "configure" => m.arg.resolution \in Resolutions
    /\ m.request = "change-resolution" => m.arg \in Resolutions

AllFit(s) == \E S : s \in Seq(S) /\ \A m \in S : Fit(m)

\* Before the camera runs nothing is known of it, but in configure.
NotYet ==
    ~session.running =>
        \/ rec.resolution = None /\ rec.device = None
        \/ svc.pc # "idle" /\ svc.request = "configure" /\ rec.resolution \in Resolutions

\* While it runs, the device and the resolution are known.
Runs == session.running => Known /\ rec.resolution \in Resolutions

\* Where a handler is, and what it has found by then: past its first step it is
\* configure, or the camera runs.
Handler ==
    /\ svc.pc = "device" =>
            \/ svc.request = "configure" /\ rec.resolution \in Resolutions
            \/ svc.request = "change-position"
    /\ svc.pc = "resolution" => svc.request = "change-resolution" /\ svc.arg \in Resolutions
    /\ svc.pc \in {"width", "height", "commit", "answer"} =>
            /\ session.running \/ svc.request = "configure"
            /\ rec.resolution \in Resolutions
    /\ svc.pc \in {"width", "height", "commit"} => svc.device # None
    /\ svc.pc = "answer" => Known

\* All but the property is of a program that goes on.
SessionInv ==
    /\ Shape /\ AllFit(inbox) /\ TrapsOnlyUnconfigured
    /\ ~trapped => NotYet /\ Runs /\ Handler

-----------------------------------------------------------------------------
(* Messages and presets *)

LEMMA FitNone == AllFit(<<>>)
<1> DEFINE S == {m \in {0} : FALSE}
<1>1. <<>> \in Seq(S) /\ \A m \in S : Fit(m)
  OBVIOUS
<1> HIDE DEF S
<1> QED BY <1>1 DEF AllFit

LEMMA FitMore ==
    ASSUME NEW s, AllFit(s), NEW m, Fit(m)
    PROVE  AllFit(Append(s, m))
<1>1. PICK S : s \in Seq(S) /\ \A x \in S : Fit(x)
  BY DEF AllFit
<1> DEFINE T == S \cup {m}
<1>2. s \in Seq(T) /\ m \in T
  <2>1. s \in [1..Len(s) -> T] /\ Len(s) \in Nat
    BY <1>1
  <2> QED BY <2>1
<1>3. Append(s, m) \in Seq(T)
  BY <1>2, AppendProperties
<1>4. \A x \in T : Fit(x)
  BY <1>1
<1> QED BY <1>3, <1>4 DEF AllFit

LEMMA FitLess ==
    ASSUME NEW s, AllFit(s), s # <<>>
    PROVE  AllFit(Tail(s)) /\ Fit(Head(s))
<1>1. PICK S : s \in Seq(S) /\ \A x \in S : Fit(x)
  BY DEF AllFit
<1>2. Tail(s) \in Seq(S) /\ Head(s) \in S
  BY <1>1, HeadTailProperties
<1> QED BY <1>1, <1>2 DEF AllFit

\* Whatever device there is, the preset that is taken has an entry in the table.
LEMMA PresetsHaveSizes ==
    ASSUME NEW device, NEW optimal \in Resolutions
    PROVE  PerfectPresets(device, optimal) \subseteq DOMAIN PresetSizes
<1>1. DOMAIN PresetSizes = {"352x288", "640x480", "1280x720", "1920x1080"}
  BY DEF PresetSizes
<1>2. optimal \in DOMAIN PresetSizes /\ "640x480" \in DOMAIN PresetSizes
  BY <1>1 DEF Resolutions
<1> HIDE DEF PresetSizes
<1> QED BY <1>2 DEF PerfectPresets

-----------------------------------------------------------------------------
(* The steps *)

LEMMA SessionInit == Init => SessionInv
<1> SUFFICES ASSUME Init PROVE SessionInv
  OBVIOUS
<1>1. AllFit(inbox)
  BY FitNone DEF Init
<1>2. Shape
  BY DEF Init, Idle, Shape
<1>3. NotYet /\ Runs
  BY DEF Init, Idle, NotYet, Runs
<1>4. Handler /\ TrapsOnlyUnconfigured
  BY DEF Init, Idle, Handler, TrapsOnlyUnconfigured
<1> QED BY <1>1, <1>2, <1>3, <1>4 DEF SessionInv

\* A handler begins.
LEMMA StepReceive ==
    ASSUME SessionInv, ~trapped, Receive, Cameras' = Cameras
    PROVE  SessionInv'
<1> DEFINE m == Head(inbox)
           at(pc) == svc' = [Idle EXCEPT !.pc = pc, !.request = m.request, !.arg = m.arg]
<1>1. AllFit(Tail(inbox)) /\ Fit(m)
  BY FitLess DEF SessionInv, Receive
<1>2. /\ inbox' = Tail(inbox) /\ UNCHANGED <<session, failed, trapped>>
      /\ svc.pc = "idle"
  BY DEF Receive
<1>3. AllFit(inbox')
  BY <1>1, <1>2
<1> USE DEF SessionInv, Shape, Runs, NotYet, Handler, Known, TrapsOnlyUnconfigured, Idle
<1>4. CASE m.request = "configure"
  <2>1. /\ svc' = [Idle EXCEPT !.pc = IF session.running THEN "answer" ELSE "device",
                               !.request = m.request, !.arg = m.arg]
        /\ rec' = IF session.running THEN rec
                  ELSE [rec EXCEPT !.resolution = m.arg.resolution]
    BY <1>4 DEF Receive
  <2>2. svc'.pc = (IF session.running THEN "answer" ELSE "device")
        /\ svc'.request = "configure"
        /\ svc' = [pc |-> svc'.pc, request |-> svc'.request, arg |-> svc'.arg,
                   device |-> svc'.device]
    BY <1>4, <2>1
  <2>3. m.arg.resolution \in Resolutions
    BY <1>1, <1>4 DEF Fit
  <2>4. CASE session.running
    BY <1>2, <1>3, <2>1, <2>2, <2>4
  <2>5. CASE ~session.running
    <3>1. /\ rec'.resolution \in Resolutions /\ rec'.device = rec.device
          /\ rec' = [resolution |-> rec'.resolution, width |-> rec'.width,
                     height |-> rec'.height, device |-> rec'.device]
      BY <2>1, <2>3, <2>5
    <3> QED BY <1>2, <1>3, <2>1, <2>2, <2>5, <3>1
  <2> QED BY <2>4, <2>5
<1>5. CASE m.request # "configure"
  <2>1. rec' = rec
    BY <1>5 DEF Receive
  <2>2. \/ /\ m.request = "change-position" /\ at("device")
        \/ /\ m.request = "change-resolution" /\ at("resolution")
        \/ svc' = svc
    BY <1>5 DEF Receive
  <2>3. CASE svc' = svc
    BY <1>2, <1>3, <2>1, <2>3
  <2>4. CASE m.request = "change-position" /\ at("device")
    <3>1. svc'.pc = "device" /\ svc'.request = "change-position"
          /\ svc' = [pc |-> svc'.pc, request |-> svc'.request, arg |-> svc'.arg,
                     device |-> svc'.device]
      BY <2>4
    <3> QED BY <1>2, <1>3, <2>1, <3>1
  <2>5. CASE m.request = "change-resolution" /\ at("resolution")
    <3>1. m.arg \in Resolutions
      BY <1>1, <2>5 DEF Fit
    <3>2. svc'.pc = "resolution" /\ svc'.request = "change-resolution"
          /\ svc'.arg \in Resolutions
          /\ svc' = [pc |-> svc'.pc, request |-> svc'.request, arg |-> svc'.arg,
                     device |-> svc'.device]
      BY <2>5, <3>1
    <3> QED BY <1>2, <1>3, <2>1, <3>2
  <2> QED BY <2>2, <2>3, <2>4, <2>5
<1> QED BY <1>4, <1>5

\* The recorder is configured, in whatever step.
LEMMA StepConfiguring ==
    ASSUME SessionInv, ~trapped, Configuring, Cameras' = Cameras
    PROVE  SessionInv'
<1> USE DEF SessionInv, Shape, Runs, NotYet, Handler, Known, TrapsOnlyUnconfigured, Goto
<1>1. UNCHANGED inbox
  BY DEF Configuring
<1>2. CASE SetDevice
  <2> DEFINE where == IF svc.request = "configure" THEN svc.arg.position ELSE svc.arg
  <2>1. /\ svc.pc = "device" /\ UNCHANGED rec
        /\ session'.running = session.running
        /\ session' = [preset |-> session'.preset, input |-> session'.input,
                       depth |-> session'.depth, running |-> session'.running]
    BY <1>2 DEF SetDevice
  <2>2. \/ /\ NoResolution /\ trapped' = TRUE /\ UNCHANGED <<svc, session, failed>>
        \/ /\ ~NoResolution /\ trapped' = trapped /\ svc' = [svc EXCEPT !.pc = "answer"]
           /\ failed' = (failed \/ rec.device = None) \/ failed' = TRUE
        \/ /\ ~NoResolution /\ trapped' = trapped
           /\ failed' = failed /\ where \in DOMAIN Cameras
           /\ svc' = [svc EXCEPT !.pc = "width", !.device = where]
    BY <1>2 DEF SetDevice
  <2>3. CASE NoResolution /\ trapped' = TRUE /\ UNCHANGED <<svc, session, failed>>
    <3>1. ~session.running /\ svc.request # "configure"
      BY <2>3, SessionAssumption DEF NoResolution
    <3> QED BY <1>1, <2>1, <2>3, <3>1
  <2>4. ASSUME ~NoResolution
        PROVE  /\ session.running \/ svc.request = "configure"
               /\ rec.resolution \in Resolutions
    <3>1. svc.request # "configure" => session.running
      <4> SUFFICES ASSUME svc.request # "configure", ~session.running PROVE FALSE
        OBVIOUS
      <4>1. rec.resolution = None
        OBVIOUS
      <4> QED BY <2>1, <2>4, <4>1 DEF NoResolution
    <3>2. svc.request = "configure" /\ ~session.running => rec.resolution \in Resolutions
      BY <2>1
    <3> QED BY <3>1, <3>2
  <2>5. CASE /\ ~NoResolution /\ trapped' = trapped /\ svc' = [svc EXCEPT !.pc = "answer"]
             /\ failed' = (failed \/ rec.device = None) \/ failed' = TRUE
    <3>1. svc'.pc = "answer" /\ svc'.request = svc.request
          /\ svc' = [pc |-> svc'.pc, request |-> svc'.request, arg |-> svc'.arg,
                     device |-> svc'.device]
      BY <2>5
    <3>2. (failed' \/ rec.device # None) /\ failed' \in BOOLEAN /\ (failed => failed')
      BY <2>5
    <3> QED BY <1>1, <2>1, <2>4, <2>5, <3>1, <3>2
  <2>6. CASE /\ ~NoResolution /\ trapped' = trapped
             /\ failed' = failed /\ where \in DOMAIN Cameras
             /\ svc' = [svc EXCEPT !.pc = "width", !.device = where]
    <3>1. where # None
      BY <2>6, SessionAssumption
    <3> HIDE DEF where
    <3>2. svc'.pc = "width" /\ svc'.request = svc.request /\ svc'.device # None
          /\ svc' = [pc |-> svc'.pc, request |-> svc'.request, arg |-> svc'.arg,
                     device |-> svc'.device]
      BY <2>6, <3>1
    <3> QED BY <1>1, <2>1, <2>4, <2>6, <3>2
  <2> QED BY <2>2, <2>3, <2>5, <2>6
<1>3. CASE SetResolution
  <2>1. /\ svc.pc = "resolution" /\ rec' = [rec EXCEPT !.resolution = svc.arg]
        /\ failed' = failed /\ svc.arg \in Resolutions
        /\ svc.request = "change-resolution"
    BY <1>3 DEF SetResolution
  <2>2. rec'.resolution \in Resolutions /\ rec'.device = rec.device
        /\ rec' = [resolution |-> rec'.resolution, width |-> rec'.width,
                   height |-> rec'.height, device |-> rec'.device]
    BY <2>1
  <2>3. CASE rec.device = None
    <3>1. UNCHANGED <<svc, session>> /\ trapped' = TRUE
      BY <1>3, <2>3 DEF SetResolution
    <3>2. session.running => failed
      BY <2>3
    <3> QED BY <1>1, <2>1, <2>2, <3>1, <3>2
  <2>4. CASE rec.device # None
    <3>1. session.running
      BY <2>1, <2>4
    <3>2. svc'.pc = "width" /\ svc'.device # None /\ trapped' = trapped
          /\ svc' = [pc |-> svc'.pc, request |-> svc'.request, arg |-> svc'.arg,
                     device |-> svc'.device]
          /\ session'.running = session.running
          /\ session' = [preset |-> session'.preset, input |-> session'.input,
                         depth |-> session'.depth, running |-> session'.running]
      BY <1>3, <2>4 DEF SetResolution
    <3> QED BY <1>1, <2>1, <2>2, <3>1, <3>2
  <2> QED BY <2>3, <2>4
<1>4. CASE SetWidth
  <2>1. svc.pc = "width" /\ rec.resolution \in Resolutions
    BY <1>4 DEF SetWidth
  <2>2. PICK p \in PerfectPresets(svc.device, PresetOf(rec.resolution)) :
           /\ session' = [session EXCEPT !.preset = p]
           /\ IF p \notin DOMAIN PresetSizes
              THEN trapped' = TRUE /\ UNCHANGED <<rec, svc>>
              ELSE /\ rec' = [rec EXCEPT !.width = PresetSizes[p].width]
                   /\ svc' = [svc EXCEPT !.pc = "height"]
                   /\ UNCHANGED trapped
    BY <1>4 DEF SetWidth
  <2>3. p \in DOMAIN PresetSizes
    BY <2>1, PresetsHaveSizes DEF PresetOf
  <2>4. /\ \E w : rec' = [rec EXCEPT !.width = w]
        /\ svc' = [svc EXCEPT !.pc = "height"] /\ trapped' = trapped
        /\ failed' = failed /\ session' = [session EXCEPT !.preset = p]
    BY <1>4, <2>2, <2>3 DEF SetWidth
  <2> QED BY <1>1, <2>1, <2>4
<1>5. CASE SetHeight
  <2>1. /\ \E h : rec' = [rec EXCEPT !.height = h]
        /\ svc.pc = "height" /\ svc' = [svc EXCEPT !.pc = "commit"]
        /\ UNCHANGED <<session, failed, trapped>>
    BY <1>5 DEF SetHeight
  <2> QED BY <1>1, <2>1
<1>6. CASE Commit
  <2>1. /\ svc.pc = "commit" /\ svc' = [svc EXCEPT !.pc = "answer"]
        /\ rec' = [rec EXCEPT !.device = svc.device]
        /\ session'.running = session.running
        /\ session' = [preset |-> session'.preset, input |-> session'.input,
                       depth |-> session'.depth, running |-> session'.running]
        /\ UNCHANGED <<failed, trapped>>
    BY <1>6 DEF Commit, KeepDevice
  <2> QED BY <1>1, <2>1
<1> QED BY <1>2, <1>3, <1>4, <1>5, <1>6 DEF Configuring

\* A handler ends: the camera runs, or the handler was configure and it does now.
LEMMA StepAnswer ==
    ASSUME SessionInv, ~trapped, Answer, Cameras' = Cameras
    PROVE  SessionInv'
<1> USE DEF SessionInv, Shape, Runs, NotYet, Handler, Known, TrapsOnlyUnconfigured, Idle
<1>1. /\ svc.pc = "answer" /\ svc' = Idle
      /\ session' = [session EXCEPT !.running = @ \/ svc.request = "configure"]
      /\ UNCHANGED <<rec, failed, trapped, inbox>>
  BY DEF Answer
<1>2. session'.running = TRUE
  BY <1>1
<1> QED BY <1>1, <1>2

\* Captures and frames change nothing of the recorder.
LEMMA StepCamera ==
    ASSUME SessionInv, ~trapped, Cameras' = Cameras,
           Deliver \/ \E t \in Captures : Sample(t) \/ OnCapture(t)
    PROVE  SessionInv'
<1>1. UNCHANGED <<rec, session, svc, failed, trapped, inbox>>
  BY DEF Deliver, Sample, OnCapture, server
<1> QED BY <1>1 DEF SessionInv, Shape, Runs, NotYet, Handler, Known,
        TrapsOnlyUnconfigured

\* The page asks, whatever it was told.
LEMMA StepAsk ==
    ASSUME SessionInv, ~trapped, Cameras' = Cameras,
           Start \/ ChangePosition \/ ChangeResolution \/ RequestCameraFrame
    PROVE  SessionInv'
<1>1. UNCHANGED <<rec, session, svc, failed, trapped>>
  BY DEF Start, ChangePosition, ChangeResolution, RequestCameraFrame, server
<1>2. PICK m : inbox' = Append(inbox, m) /\ Fit(m)
  <2>1. CASE Start
    <3>1. PICK r \in Resolutions, p \in Positions :
              Asks("configure", [resolution |-> r, position |-> p])
      BY <2>1 DEF Start
    <3> QED BY <3>1 DEF Asks, Fit
  <2>2. CASE ChangePosition
    <3>1. \E p \in Positions : Asks("change-position", p)
      BY <2>2 DEF ChangePosition
    <3> QED BY <3>1 DEF Asks, Fit
  <2>3. CASE ChangeResolution
    <3>1. \E r \in Resolutions : Asks("change-resolution", r)
      BY <2>3 DEF ChangeResolution
    <3> QED BY <3>1 DEF Asks, Fit
  <2>4. CASE RequestCameraFrame
    <3>1. Asks("need-frame", None)
      BY <2>4 DEF RequestCameraFrame
    <3> QED BY <3>1 DEF Asks, Fit
  <2> QED BY <2>1, <2>2, <2>3, <2>4
<1>3. AllFit(inbox')
  BY <1>2, FitMore DEF SessionInv
<1> QED BY <1>1, <1>3 DEF SessionInv, Shape, Runs, NotYet, Handler, Known,
        TrapsOnlyUnconfigured

LEMMA SessionStep == SessionInv /\ [Next]_vars => SessionInv'
<1> SUFFICES ASSUME SessionInv, [Next]_vars PROVE SessionInv'
  OBVIOUS
<1>1. CASE UNCHANGED vars
  BY <1>1 DEF vars, server, SessionInv, Shape, Runs, NotYet, Handler, Known,
     TrapsOnlyUnconfigured
<1>2. CASE Next
  BY <1>2, StepReceive, StepConfiguring, StepAnswer, StepCamera, StepAsk
     DEF Next, Running
<1> QED BY <1>1, <1>2

-----------------------------------------------------------------------------

\* The forced unwraps of the recorder (AVRecorder.swift:242, :252, :263, :360)
\* never fail within configure, and after it only if a device was missing or did
\* not open: on any phone, whatever pages ask for and in whatever order, and
\* whenever samples arrive.
THEOREM TrapsOnlyUnconfiguredHolds == Spec => []TrapsOnlyUnconfigured
<1>1. SessionInv => TrapsOnlyUnconfigured
  BY DEF SessionInv
<1> QED BY SessionInit, SessionStep, <1>1, PTL DEF Spec
=============================================================================
