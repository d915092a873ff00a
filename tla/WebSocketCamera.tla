---------------------------- MODULE WebSocketCamera ----------------------------
(***************************************************************************)
(* The frame pipeline of src/JSCameraKit/WebSocketCamera.swift, and the    *)
(* pages that draw what it sends (src/client/src/camera.ts).               *)
(*                                                                         *)
(* Three kinds of threads share the properties of the pipeline without a   *)
(* lock.  Capture threads store the two planes of a frame (onBuffer), and  *)
(* send them if a page has asked.  The service thread runs the handlers of *)
(* the requests of the pages, and sends the planes if they are there.  The *)
(* serial queue "WebSocketCamera" waits until what was sent is gone, and   *)
(* then drops the planes and gives the flag `sending` back.                *)
(*                                                                         *)
(* A plane is broadcast as WebSocketServer models it, seen from outside:   *)
(* each page has a queue of planes it is still to be written, the close of *)
(* a page or cancelAllWrites empties queues, and the completion block runs *)
(* when nobody is owed the plane any more.                                 *)
(***************************************************************************)
EXTENDS Naturals, Integers, Sequences, FiniteSets

CONSTANTS
    Pages,      \* pages that come and go
    Captures,   \* threads of the capture queue, which is concurrent
    svc,        \* the service thread
    Frames,     \* what tells frames apart; names are used again
    Sends,      \* bound: frames that are being sent, or are still to be cleared
    Requests,   \* bound: the requests that pages make
    Slow,       \* whether a second may go by since a frame was sent
    None

Threads == Captures \cup {svc}

ASSUME CameraAssumption ==
    /\ svc \notin Captures
    /\ None \notin Frames \cup Sends
    /\ IsFiniteSet(Captures) /\ IsFiniteSet(Sends)
    /\ Slow \in BOOLEAN

VARIABLES
    \* WebSocketCamera
    initied, yBuffer, uvBuffer, needFrame, sending,
    overdue,    \* now - lastFrame >= 1
    timer,      \* the run loop activityTimer is scheduled on
    sendGroup,  \* count of the dispatch group
    blocks,     \* blocks on the queue: the frames they are about
    qpc,        \* where the block at its head is
    \* threads
    pc,         \* where a thread is
    shot,       \* the frame a capture thread was called with
    slot,       \* the frame a thread is sending
    \* broadcasts
    plane,      \* the planes of each frame being sent
    unsent,     \* broadcasts of planes whose completion block has not run
    queue,      \* planes still to be written to each page
    \* pages
    pages,      \* those connected
    held,       \* planes a page has received but not uploaded
    torn        \* pages whose textures hold planes of two frames

bufferVars == <<yBuffer, uvBuffer>>
lockVars   == <<sending, overdue>>
queueVars  == <<blocks, qpc>>
pageVars   == <<pages, held, torn>>
sendVars   == <<sendGroup, unsent, queue>>
vars == <<initied, bufferVars, needFrame, lockVars, timer, sendVars, queueVars,
          pc, shot, slot, plane, pageVars>>

Kinds == {"y", "uv"}
Empty == [k \in Kinds |-> None]

Init ==
    /\ initied = FALSE /\ needFrame = FALSE /\ sending = FALSE
    /\ yBuffer = None /\ uvBuffer = None
    /\ overdue = FALSE /\ timer = "none"
    /\ sendGroup = 0 /\ blocks = <<>> /\ qpc = "wait"
    /\ pc = [t \in Threads |-> "idle"]
    /\ shot = [t \in Threads |-> None] /\ slot = [t \in Threads |-> None]
    /\ plane = [s \in Sends |-> Empty]
    /\ unsent = {} /\ queue = [p \in Pages |-> <<>>]
    /\ pages = {} /\ held = [p \in Pages |-> Empty] /\ torn = {}

Step(t, from, to) == pc[t] = from /\ pc' = [pc EXCEPT ![t] = to]

-----------------------------------------------------------------------------
(* Requests, on the service thread *)

\* configure starts the camera, once.
Configure ==
    /\ "configure" \in Requests /\ pages # {} /\ pc[svc] = "idle"
    /\ initied' = TRUE
    /\ UNCHANGED <<bufferVars, needFrame, lockVars, timer, sendVars, queueVars,
                   pc, shot, slot, plane, pageVars>>

\* need-frame sends the planes if both are there.  It does not start the camera
\* again: nothing stops it (see timer), and without configure it knows no
\* resolution.
NeedFrame ==
    /\ "need-frame" \in Requests /\ pages # {}
    /\ Step(svc, "idle", IF yBuffer = None THEN "ask" ELSE "testUV")
    /\ UNCHANGED <<initied, bufferVars, needFrame, lockVars, timer, sendVars,
                   queueVars, shot, slot, plane, pageVars>>

TestUV ==
    /\ Step(svc, "testUV", IF uvBuffer = None THEN "ask" ELSE "write")
    /\ UNCHANGED <<initied, bufferVars, needFrame, lockVars, timer, sendVars,
                   queueVars, shot, slot, plane, pageVars>>

Ask ==
    /\ Step(svc, "ask", "idle")
    /\ needFrame' = TRUE
    /\ UNCHANGED <<initied, bufferVars, lockVars, timer, sendVars, queueVars,
                   shot, slot, plane, pageVars>>

\* change-position and change-resolution clear the pipeline first.  Before
\* configure they end the program: the recorder has no device.
Change ==
    /\ "change" \in Requests /\ pages # {} /\ initied
    /\ Step(svc, "idle", "clearNeed")
    /\ queue' = [p \in Pages |-> <<>>]    \* cancelAllWrites
    /\ UNCHANGED <<initied, bufferVars, needFrame, lockVars, timer, sendGroup,
                   unsent, queueVars, shot, slot, plane, pageVars>>

Clear ==
    /\ \/ /\ Step(svc, "clearNeed", "clearY")
          /\ needFrame' = FALSE /\ UNCHANGED bufferVars
       \/ /\ Step(svc, "clearY", "clearUV")
          /\ yBuffer' = None /\ UNCHANGED <<uvBuffer, needFrame>>
       \/ /\ Step(svc, "clearUV", "idle")
          /\ uvBuffer' = None /\ UNCHANGED <<yBuffer, needFrame>>
    /\ UNCHANGED <<initied, lockVars, timer, sendVars, queueVars, shot, slot,
                   plane, pageVars>>

-----------------------------------------------------------------------------
(* onBuffer, on a capture thread *)

OnBuffer(t) ==
    /\ initied
    /\ Step(t, "idle", "storeUV")
    /\ \E f \in Frames : yBuffer' = f /\ shot' = [shot EXCEPT ![t] = f]
    /\ UNCHANGED <<initied, uvBuffer, needFrame, lockVars, timer, sendVars,
                   queueVars, slot, plane, pageVars>>

StoreUV(t) ==
    /\ Step(t, "storeUV", "testNeed")
    /\ uvBuffer' = shot[t]
    /\ UNCHANGED <<initied, yBuffer, needFrame, lockVars, timer, sendVars,
                   queueVars, shot, slot, plane, pageVars>>

\* A thread is done with its frame.
Leave(t) == shot' = [shot EXCEPT ![t] = None]

TestNeed(t) ==
    /\ Step(t, "testNeed", IF needFrame THEN "write" ELSE "idle")
    /\ IF needFrame THEN UNCHANGED shot ELSE Leave(t)
    /\ UNCHANGED <<initied, bufferVars, needFrame, lockVars, timer, sendVars,
                   queueVars, slot, plane, pageVars>>

-----------------------------------------------------------------------------
(* writeFrame, on the service thread and on capture threads *)

TestOverdue(t) ==
    /\ Step(t, "write", IF sending /\ overdue THEN "break" ELSE "lock")
    /\ UNCHANGED <<initied, bufferVars, needFrame, lockVars, timer, sendVars,
                   queueVars, shot, slot, plane, pageVars>>

BreakLock(t) ==
    /\ Step(t, "break", "lock")
    /\ sending' = FALSE
    /\ UNCHANGED <<initied, bufferVars, needFrame, overdue, timer, sendVars,
                   queueVars, shot, slot, plane, pageVars>>

TestLock(t) ==
    /\ LET go == initied /\ ~sending
       IN  /\ Step(t, "lock", IF go THEN "readY" ELSE "idle")
           /\ IF go THEN UNCHANGED shot ELSE Leave(t)
    /\ UNCHANGED <<initied, bufferVars, needFrame, lockVars, timer, sendVars,
                   queueVars, slot, plane, pageVars>>

Used == {blocks[i] : i \in DOMAIN blocks} \cup {slot[t] : t \in Threads}

ReadY(t) ==
    /\ IF yBuffer = None
       THEN Step(t, "readY", "idle") /\ Leave(t) /\ UNCHANGED <<slot, plane>>
       ELSE /\ Step(t, "readY", "readUV")
            /\ \E s \in Sends \ Used :
                 /\ slot' = [slot EXCEPT ![t] = s]
                 /\ plane' = [plane EXCEPT ![s]["y"] = yBuffer]
            /\ UNCHANGED shot
    /\ UNCHANGED <<initied, bufferVars, needFrame, lockVars, timer, sendVars,
                   queueVars, pageVars>>

AnyPlane == FALSE    \* the guard only looks at yBuffer
NoUV == uvBuffer = None

ReadUV(t) ==
    /\ IF NoUV
       THEN /\ Step(t, "readUV", "idle") /\ Leave(t)
            /\ slot' = [slot EXCEPT ![t] = None]
            /\ plane' = [plane EXCEPT ![slot[t]] = Empty]
       ELSE /\ Step(t, "readUV", "take")
            /\ plane' = [plane EXCEPT ![slot[t]]["uv"] = uvBuffer]
            /\ UNCHANGED <<shot, slot>>
    /\ UNCHANGED <<initied, bufferVars, needFrame, lockVars, timer, sendVars,
                   queueVars, pageVars>>

Take(t) ==
    /\ Step(t, "take", "stamp")
    /\ sending' = TRUE
    /\ UNCHANGED <<initied, bufferVars, needFrame, overdue, timer, sendVars,
                   queueVars, shot, slot, plane, pageVars>>

Stamp(t) ==
    /\ Step(t, "stamp", "enter")
    /\ overdue' = FALSE
    /\ UNCHANGED <<initied, bufferVars, needFrame, sending, timer, sendVars,
                   queueVars, shot, slot, plane, pageVars>>

Enter(t) ==
    /\ Step(t, "enter", "sendY")
    /\ needFrame' = FALSE
    /\ timer' = IF timer = "none" THEN "submitted" ELSE timer
    /\ sendGroup' = sendGroup + 2
    /\ UNCHANGED <<initied, bufferVars, lockVars, unsent, queue, queueVars, shot,
                   slot, plane, pageVars>>

NeverRun == sendGroup    \* -writeDatas returns without calling its block
LeftAtOnce == sendGroup - 1

\* -writeDatas of a plane.  With no page, its completion block runs at once.
Send(t, k) ==
    /\ IF pages = {}
       THEN sendGroup' = LeftAtOnce /\ UNCHANGED <<unsent, queue>>
       ELSE /\ unsent' = unsent \cup {<<slot[t], k>>}
            /\ queue' = [p \in Pages |-> IF p \in pages
                                         THEN Append(queue[p], <<slot[t], k>>)
                                         ELSE queue[p]]
            /\ UNCHANGED sendGroup
    /\ UNCHANGED <<initied, bufferVars, needFrame, lockVars, timer, queueVars,
                   shot, slot, plane, pageVars>>

SendY(t)  == Step(t, "sendY", "sendUV") /\ Send(t, "y")
SendUV(t) == Step(t, "sendUV", "submit") /\ Send(t, "uv")

Submit(t) ==
    /\ Step(t, "submit", "idle") /\ Leave(t)
    /\ blocks' = Append(blocks, slot[t])
    /\ slot' = [slot EXCEPT ![t] = None]
    /\ UNCHANGED <<initied, bufferVars, needFrame, lockVars, timer, sendVars, qpc,
                   plane, pageVars>>

WriteFrame(t) ==
    \/ TestOverdue(t) \/ BreakLock(t) \/ TestLock(t) \/ ReadY(t) \/ ReadUV(t)
    \/ Take(t) \/ Stamp(t) \/ Enter(t) \/ SendY(t) \/ SendUV(t) \/ Submit(t)

\* setActivityTimer: a thread of the capture queue schedules the timer on its own
\* run loop.
ScheduleTimer ==
    /\ timer = "submitted"
    /\ timer' = "worker"
    /\ UNCHANGED <<initied, bufferVars, needFrame, lockVars, sendVars, queueVars,
                   pc, shot, slot, plane, pageVars>>

-----------------------------------------------------------------------------
(* The queue, and the completion blocks of the broadcasts *)

Owed(b) == \E p \in Pages : \E i \in DOMAIN queue[p] : queue[p][i] = b

Sent(b) ==
    /\ b \in unsent /\ ~Owed(b)
    /\ unsent' = unsent \ {b}
    /\ sendGroup' = sendGroup - 1
    /\ UNCHANGED <<initied, bufferVars, needFrame, lockVars, timer, queue,
                   queueVars, pc, shot, slot, plane, pageVars>>

\* sendGroup.wait returns.
Waited ==
    /\ blocks # <<>> /\ qpc = "wait" /\ sendGroup = 0
    /\ qpc' = "clearY"
    /\ UNCHANGED <<initied, bufferVars, needFrame, lockVars, timer, sendVars,
                   blocks, pc, shot, slot, plane, pageVars>>

QStep(from, to) == qpc = from /\ qpc' = to

ClearFrameData ==
    /\ \/ /\ QStep("clearY", "clearUV")
          /\ yBuffer' = None /\ UNCHANGED <<uvBuffer, needFrame>>
       \/ /\ QStep("clearUV", "clearNeed")
          /\ uvBuffer' = None /\ UNCHANGED <<yBuffer, needFrame>>
       \/ /\ QStep("clearNeed", "clearSending")
          /\ needFrame' = FALSE /\ UNCHANGED bufferVars
    /\ UNCHANGED <<initied, lockVars, timer, sendVars, blocks, pc, shot, slot,
                   plane, pageVars>>

LockKept == sending    \* clearFrameData forgets the lock
Freed == FALSE

Release ==
    /\ QStep("clearSending", "wait")
    /\ sending' = Freed
    /\ plane' = [plane EXCEPT ![Head(blocks)] = Empty]
    /\ blocks' = Tail(blocks)
    /\ UNCHANGED <<initied, bufferVars, needFrame, overdue, timer, sendVars, pc,
                   shot, slot, pageVars>>

Queue == Waited \/ ClearFrameData \/ Release

-----------------------------------------------------------------------------
(* Pages *)

Connect(p) ==
    /\ p \notin pages /\ pc[svc] = "idle"
    /\ pages' = pages \cup {p}
    /\ UNCHANGED <<initied, bufferVars, needFrame, lockVars, timer, sendVars,
                   queueVars, pc, shot, slot, plane, held, torn>>

\* The connection is lost, and what waits for it is cancelled.  A page that
\* connects again still holds the plane it has, another page holds none.
Close(p) ==
    /\ p \in pages /\ pc[svc] = "idle"
    /\ pages' = pages \ {p}
    /\ queue' = [queue EXCEPT ![p] = <<>>]
    /\ \/ UNCHANGED <<held, torn>>
       \/ held' = [held EXCEPT ![p] = Empty] /\ torn' = torn \ {p}
    /\ UNCHANGED <<initied, bufferVars, needFrame, lockVars, timer, sendGroup,
                   unsent, queueVars, pc, shot, slot, plane>>

Received(p) ==
    LET b == Head(queue[p]) IN [held[p] EXCEPT ![b[2]] = plane[b[1]][b[2]]]

\* The page uploads two planes as soon as it holds two.
Uploads(p) == \A k \in Kinds : Received(p)[k] # None

\* A plane is written to the page, which gets it.
Deliver(p) ==
    /\ queue[p] # <<>>
    /\ queue' = [queue EXCEPT ![p] = Tail(@)]
    /\ IF Uploads(p)
       THEN /\ held' = [held EXCEPT ![p] = Empty]
            /\ torn' = IF Received(p)["y"] = Received(p)["uv"]
                       THEN torn \ {p} ELSE torn \cup {p}
       ELSE held' = [held EXCEPT ![p] = Received(p)] /\ UNCHANGED torn
    /\ UNCHANGED <<initied, bufferVars, needFrame, lockVars, timer, sendGroup,
                   unsent, queueVars, pc, shot, slot, plane, pages>>

\* A second has gone by since lastFrame.
SecondPasses ==
    /\ Slow /\ ~overdue
    /\ overdue' = TRUE
    /\ UNCHANGED <<initied, bufferVars, needFrame, sending, timer, sendVars,
                   queueVars, pc, shot, slot, plane, pageVars>>

-----------------------------------------------------------------------------
Handler == TestUV \/ Ask \/ Clear \/ WriteFrame(svc)
Capture(t) == StoreUV(t) \/ TestNeed(t) \/ WriteFrame(t)

Next ==
    \/ Configure \/ NeedFrame \/ Change \/ Handler
    \/ \E t \in Captures : OnBuffer(t) \/ Capture(t)
    \/ Queue \/ ScheduleTimer \/ SecondPasses
    \/ \E s \in Sends, k \in Kinds : Sent(<<s, k>>)
    \/ \E p \in Pages : Connect(p) \/ Close(p) \/ Deliver(p)

Spec == Init /\ [][Next]_vars

-----------------------------------------------------------------------------
(* Properties *)

\* Steps of writeFrame after it has set sending, and the planes it still has to
\* broadcast at each.
Locked == {"stamp", "enter", "sendY", "sendUV", "submit"}

Places == Locked \cup
    {"idle", "ask", "testUV", "clearNeed", "clearY", "clearUV", "storeUV",
     "testNeed", "write", "break", "lock", "readY", "readUV", "take"}

TypeOK ==
    /\ initied \in BOOLEAN /\ needFrame \in BOOLEAN
    /\ sending \in BOOLEAN /\ overdue \in BOOLEAN
    /\ yBuffer \in Frames \cup {None} /\ uvBuffer \in Frames \cup {None}
    /\ timer \in {"none", "submitted", "worker"}
    /\ sendGroup \in Int
    /\ blocks \in Seq(Sends)
    /\ qpc \in {"wait", "clearY", "clearUV", "clearNeed", "clearSending"}
    /\ pc \in [Threads -> Places]
    /\ shot \in [Threads -> Frames \cup {None}]
    /\ slot \in [Threads -> Sends \cup {None}]
    /\ plane \in [Sends -> [Kinds -> Frames \cup {None}]]
    /\ unsent \subseteq Sends \X Kinds
    /\ queue \in [Pages -> Seq(Sends \X Kinds)]
    /\ pages \subseteq Pages /\ torn \subseteq Pages
    /\ held \in [Pages -> [Kinds -> Frames \cup {None}]]

\* Whoever finds `sending` set need not fear that it stays so: a thread is about
\* to put the block on the queue that gives it back, or the block is there, also
\* after the lock was broken, or taken twice, or frame data were cleared late.
LockHasReleaser ==
    sending => blocks # <<>> \/ \E t \in Threads : pc[t] \in Locked

At(place) == {t \in Threads : pc[t] = place}

\* sendGroup counts the planes of all the writeFrames that have entered it, each
\* once until its completion block has run, so that leave is never called too
\* often, which raises an exception, nor too seldom, which blocks the queue.
GroupBalanced ==
    sendGroup = Cardinality(unsent) + 2 * Cardinality(At("sendY"))
                                    + Cardinality(At("sendUV"))

\* With one capture thread at a time, what onBuffer sends are the two planes of
\* the frame it was called with, or nothing, although the service thread and the
\* queue drop planes while it reads them.
OwnFramesWhole ==
    \A t \in Captures : pc[t] \in Locked \cup {"take"} =>
        \A k \in Kinds : plane[slot[t]][k] = shot[t]

\* A page's textures hold the two planes of one frame.
TexturesWhole == torn = {}

\* `sending` is a lock: as long as it is not broken, one frame is sent at a time.
SendingExcludes ==
    Len(blocks) + Cardinality({t \in Threads : pc[t] \in Locked}) <= 1

\* The activity timer is on the run loop of the main thread, the only one that
\* is run.
TimerOnMainLoop == timer # "worker"

-----------------------------------------------------------------------------
(* Liveness *)

\* Threads run, completion blocks do, pages read what they are sent, and the
\* camera records as long as it is not stopped.
Fairness ==
    /\ WF_vars(Handler) /\ WF_vars(Queue)
    /\ \A t \in Captures : WF_vars(Capture(t)) /\ WF_vars(OnBuffer(t))
    /\ \A s \in Sends, k \in Kinds : WF_vars(Sent(<<s, k>>))
    /\ \A p \in Pages : WF_vars(Deliver(p))
    /\ SF_vars(NeedFrame)

FairSpec == Spec /\ Fairness

\* A lock that was taken is given back even if nobody ever breaks it.
LockIsReleased == sending ~> ~sending

\* A page that stays gets one frame after the other once the configuration is no
\* longer changed, for pages ask again in every animation frame: an ask that is
\* dropped because a frame is being sent, or that clearFrameData wipes out, is made
\* up for by a later one, also after a lock was broken.
PagesAreFed ==
    \A p \in Pages :
        <>[](p \in pages /\ initied) /\ <>[][~Change]_vars
            => []<><<Deliver(p) /\ Uploads(p)>>_vars
=============================================================================
