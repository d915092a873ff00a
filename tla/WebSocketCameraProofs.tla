------------------------- MODULE WebSocketCameraProofs -------------------------
(* Proofs about WebSocketCamera. *)
EXTENDS WebSocketCamera, TLAPS, FiniteSetTheorems, SequenceTheorems

\* What the types of TypeOK leave out: a thread that sends has a slot for it, and
\* the queue only clears after a block.
HasSlot == Locked \cup {"readUV", "take"}

WellFormed ==
    /\ \A t \in Threads : pc[t] \in HasSlot => slot[t] \in Sends
    /\ qpc # "wait" => blocks # <<>>

TypeInv == TypeOK /\ WellFormed

\* Every step is one of the program, of a thread, or of a page.
Quiet ==
    \/ Configure \/ NeedFrame \/ TestUV \/ Ask \/ Change \/ Clear
    \/ Waited \/ ClearFrameData \/ Release \/ ScheduleTimer \/ SecondPasses

\* The cases of the proofs below: Next, with its handlers and threads unfolded.
LEMMA Steps ==
    ASSUME [Next]_vars
    PROVE  \/ Quiet \/ UNCHANGED vars
           \/ \E t \in Captures : OnBuffer(t) \/ StoreUV(t) \/ TestNeed(t)
           \/ \E t \in Threads : WriteFrame(t)
           \/ \E s \in Sends, k \in Kinds : Sent(<<s, k>>)
           \/ \E p \in Pages : Connect(p) \/ Close(p) \/ Deliver(p)
BY DEF Next, Handler, Capture, Queue, Quiet, Threads

-----------------------------------------------------------------------------
(* Types *)

\* Nobody is served, sends or is waited for at the start.
LEMMA TypeInit == Init => TypeInv
<1> SUFFICES ASSUME Init PROVE TypeInv
  OBVIOUS
<1>1. Empty \in [Kinds -> Frames \cup {None}]
  BY DEF Empty
<1>2. /\ plane \in [Sends -> [Kinds -> Frames \cup {None}]]
      /\ held \in [Pages -> [Kinds -> Frames \cup {None}]]
  BY <1>1 DEF Init
<1>3. <<>> \in Seq(Sends) /\ <<>> \in Seq(Sends \X Kinds)
  OBVIOUS
<1>4. blocks \in Seq(Sends) /\ queue \in [Pages -> Seq(Sends \X Kinds)]
  BY <1>3 DEF Init
<1>5. /\ pc \in [Threads -> Places]
      /\ shot \in [Threads -> Frames \cup {None}]
      /\ slot \in [Threads -> Sends \cup {None}]
  BY DEF Init, Places
<1>6. WellFormed
  BY DEF Init, WellFormed, HasSlot, Locked
<1>7. /\ initied \in BOOLEAN /\ needFrame \in BOOLEAN
      /\ sending \in BOOLEAN /\ overdue \in BOOLEAN
  BY DEF Init
<1>8. /\ yBuffer \in Frames \cup {None} /\ uvBuffer \in Frames \cup {None}
      /\ timer \in {"none", "submitted", "worker"} /\ sendGroup \in Int
      /\ qpc \in {"wait", "clearY", "clearUV", "clearNeed", "clearSending"}
  BY DEF Init
<1>9. /\ unsent \subseteq Sends \X Kinds
      /\ pages \subseteq Pages /\ torn \subseteq Pages
  BY DEF Init
<1> QED BY <1>2, <1>4, <1>5, <1>6, <1>7, <1>8, <1>9 DEF TypeInv, TypeOK

\* The handlers of requests, and the queue, keep the types.
LEMMA TypeQuiet == TypeInv /\ Quiet => TypeInv'
<1> SUFFICES ASSUME TypeInv, Quiet PROVE TypeInv'
  OBVIOUS
<1> USE DEF TypeInv, TypeOK, WellFormed, HasSlot, Locked, Places, Step, QStep,
            bufferVars, lockVars, queueVars, pageVars, sendVars, Threads
<1>1. CASE Configure
  BY <1>1 DEF Configure
<1>2. CASE NeedFrame
  BY <1>2 DEF NeedFrame
<1>3. CASE TestUV
  BY <1>3 DEF TestUV
<1>4. CASE Ask
  BY <1>4 DEF Ask
<1>5. CASE Change
  BY <1>5 DEF Change
<1>6. CASE Clear
  BY <1>6, ZenonT(60) DEF Clear
<1>7. CASE Waited
  BY <1>7 DEF Waited
<1>8. CASE ClearFrameData
  BY <1>8 DEF ClearFrameData
<1>9. CASE Release
  <2>1. blocks # <<>> /\ Tail(blocks) \in Seq(Sends)
    BY <1>9 DEF Release
  <2>2. Empty \in [Kinds -> Frames \cup {None}]
    BY DEF Empty
  <2> QED BY <1>9, <2>1, <2>2 DEF Release, Freed
<1>10. CASE ScheduleTimer
  BY <1>10 DEF ScheduleTimer
<1>11. CASE SecondPasses
  BY <1>11 DEF SecondPasses
<1> QED BY <1>1, <1>2, <1>3, <1>4, <1>5, <1>6, <1>7, <1>8, <1>9, <1>10, <1>11
        DEF Quiet

\* onBuffer keeps the types.
LEMMA TypeCapture ==
    ASSUME TypeInv, NEW t \in Captures, OnBuffer(t) \/ StoreUV(t) \/ TestNeed(t)
    PROVE  TypeInv'
<1> USE DEF TypeInv, TypeOK, WellFormed, HasSlot, Locked, Places, Step, Leave,
            bufferVars, lockVars, queueVars, pageVars, sendVars, Threads
<1>1. CASE OnBuffer(t)
  BY <1>1 DEF OnBuffer
<1>2. CASE StoreUV(t)
  BY <1>2 DEF StoreUV
<1>3. CASE TestNeed(t)
  BY <1>3 DEF TestNeed
<1> QED BY <1>1, <1>2, <1>3

\* The broadcast of a plane keeps the types of the queues.
LEMMA SendType ==
    ASSUME TypeInv, NEW t \in Threads, pc[t] \in Locked, NEW k \in Kinds, Send(t, k)
    PROVE  /\ sendGroup' \in Int
           /\ unsent' \subseteq Sends \X Kinds
           /\ queue' \in [Pages -> Seq(Sends \X Kinds)]
<1> DEFINE b == <<slot[t], k>>
<1>1. b \in Sends \X Kinds
  BY DEF TypeInv, WellFormed, HasSlot
<1>2. \A q \in Seq(Sends \X Kinds) : Append(q, b) \in Seq(Sends \X Kinds)
  BY <1>1
<1> HIDE DEF b
<1>3. /\ sendGroup \in Int /\ unsent \subseteq Sends \X Kinds
      /\ queue \in [Pages -> Seq(Sends \X Kinds)]
  BY DEF TypeInv, TypeOK
<1>4. \/ sendGroup' = sendGroup - 1 /\ unsent' = unsent /\ queue' = queue
      \/ /\ sendGroup' = sendGroup
         /\ unsent' = unsent \cup {b}
         /\ queue' = [p \in Pages |-> IF p \in pages THEN Append(queue[p], b)
                                                     ELSE queue[p]]
  BY DEF Send, LeftAtOnce, b
<1>5. /\ sendGroup' \in Int
      /\ unsent' \subseteq Sends \X Kinds
  BY <1>1, <1>3, <1>4
<1>6. queue' \in [Pages -> Seq(Sends \X Kinds)]
  BY <1>2, <1>3, <1>4
<1> QED BY <1>5, <1>6

\* writeFrame keeps the types.
LEMMA TypeWriteFrame ==
    ASSUME TypeInv, NEW t \in Threads, WriteFrame(t)
    PROVE  TypeInv'
<1> USE DEF TypeInv, TypeOK, WellFormed, HasSlot, Locked, Places, Step, Leave,
            bufferVars, lockVars, queueVars, pageVars, sendVars
<1>1. CASE TestOverdue(t)
  BY <1>1 DEF TestOverdue
<1>2. CASE BreakLock(t)
  BY <1>2 DEF BreakLock
<1>3. CASE TestLock(t)
  BY <1>3 DEF TestLock
<1>4. CASE ReadY(t)
  <2>1. CASE yBuffer = None
    BY <1>4, <2>1 DEF ReadY
  <2>2. CASE yBuffer # None
    <3>1. PICK s \in Sends \ Used :
             /\ slot' = [slot EXCEPT ![t] = s]
             /\ plane' = [plane EXCEPT ![s]["y"] = yBuffer]
      BY <1>4, <2>2 DEF ReadY
    <3>2. plane' \in [Sends -> [Kinds -> Frames \cup {None}]]
      BY <3>1
    <3>3. Step(t, "readY", "readUV") /\ shot' = shot
      BY <1>4, <2>2 DEF ReadY
    <3> QED BY <1>4, <3>1, <3>2, <3>3 DEF ReadY
  <2> QED BY <2>1, <2>2
<1>5. CASE ReadUV(t)
  <2>1. CASE NoUV
    <3>1. /\ Step(t, "readUV", "idle") /\ Leave(t)
          /\ slot' = [slot EXCEPT ![t] = None]
          /\ plane' = [plane EXCEPT ![slot[t]] = Empty]
      BY <1>5, <2>1 DEF ReadUV
    <3>2. Empty \in [Kinds -> Frames \cup {None}]
      BY DEF Empty
    <3>3. plane' \in [Sends -> [Kinds -> Frames \cup {None}]]
      BY <3>1, <3>2
    <3> QED BY <1>5, <3>1, <3>3 DEF ReadUV
  <2>2. CASE ~NoUV
    <3>1. /\ Step(t, "readUV", "take") /\ shot' = shot /\ slot' = slot
          /\ plane' = [plane EXCEPT ![slot[t]]["uv"] = uvBuffer]
      BY <1>5, <2>2 DEF ReadUV
    <3>2. plane' \in [Sends -> [Kinds -> Frames \cup {None}]]
      BY <3>1
    <3> QED BY <1>5, <3>1, <3>2 DEF ReadUV
  <2> QED BY <2>1, <2>2
<1>6. CASE Take(t)
  BY <1>6 DEF Take
<1>7. CASE Stamp(t)
  BY <1>7 DEF Stamp
<1>8. CASE Enter(t)
  <2>1. sendGroup' \in Int /\ timer' \in {"none", "submitted", "worker"}
    BY <1>8 DEF Enter
  <2> QED BY <1>8, <2>1 DEF Enter
<1>9. CASE SendY(t)
  <2>1. /\ sendGroup' \in Int /\ unsent' \subseteq Sends \X Kinds
        /\ queue' \in [Pages -> Seq(Sends \X Kinds)]
    BY <1>9, SendType DEF SendY, Kinds
  <2> QED BY <1>9, <2>1 DEF SendY, Send
<1>10. CASE SendUV(t)
  <2>1. /\ sendGroup' \in Int /\ unsent' \subseteq Sends \X Kinds
        /\ queue' \in [Pages -> Seq(Sends \X Kinds)]
    BY <1>10, SendType DEF SendUV, Kinds
  <2> QED BY <1>10, <2>1 DEF SendUV, Send
<1>11. CASE Submit(t)
  <2>1. slot[t] \in Sends
    BY <1>11 DEF Submit
  <2>2. blocks' \in Seq(Sends) /\ blocks' # <<>>
    BY <1>11, <2>1 DEF Submit
  <2> QED BY <1>11, <2>2 DEF Submit
<1> QED BY <1>1, <1>2, <1>3, <1>4, <1>5, <1>6, <1>7, <1>8, <1>9, <1>10, <1>11
        DEF WriteFrame

\* Completion blocks, and pages, keep the types.
LEMMA TypePages ==
    ASSUME TypeInv,
           \/ \E s \in Sends, k \in Kinds : Sent(<<s, k>>)
           \/ \E p \in Pages : Connect(p) \/ Close(p) \/ Deliver(p)
    PROVE  TypeInv'
<1> USE DEF TypeInv, TypeOK, WellFormed, bufferVars, lockVars, queueVars, pageVars,
            sendVars
<1>1. ASSUME NEW s \in Sends, NEW k \in Kinds, Sent(<<s, k>>) PROVE TypeInv'
  BY <1>1 DEF Sent
<1>2. ASSUME NEW p \in Pages, Connect(p) PROVE TypeInv'
  BY <1>2 DEF Connect
<1>3. ASSUME NEW p \in Pages, Close(p) PROVE TypeInv'
  <2>1. Empty \in [Kinds -> Frames \cup {None}] /\ <<>> \in Seq(Sends \X Kinds)
    BY DEF Empty
  <2>2. /\ held' \in [Pages -> [Kinds -> Frames \cup {None}]]
        /\ torn' \subseteq Pages /\ queue' \in [Pages -> Seq(Sends \X Kinds)]
    BY <1>3, <2>1 DEF Close
  <2> QED BY <1>3, <2>2 DEF Close
<1>4. ASSUME NEW p \in Pages, Deliver(p) PROVE TypeInv'
  <2>1. queue[p] \in Seq(Sends \X Kinds) /\ queue[p] # <<>>
    BY <1>4 DEF Deliver
  <2>2. PICK s \in Sends, k \in Kinds : Head(queue[p]) = <<s, k>>
    BY <2>1
  <2>3. Tail(queue[p]) \in Seq(Sends \X Kinds)
    BY <2>1
  <2>4. Received(p) = [held[p] EXCEPT ![k] = plane[s][k]]
    <3>1. Head(queue[p])[1] = s /\ Head(queue[p])[2] = k
      BY <2>2
    <3> QED BY <3>1 DEF Received
  <2>5. Received(p) \in [Kinds -> Frames \cup {None}]
    BY <2>4
  <2>6. Empty \in [Kinds -> Frames \cup {None}]
    BY DEF Empty
  <2>7. queue' \in [Pages -> Seq(Sends \X Kinds)]
    BY <1>4, <2>3 DEF Deliver
  <2>8. held' \in [Pages -> [Kinds -> Frames \cup {None}]]
    <3>1. \/ held' = [held EXCEPT ![p] = Empty]
          \/ held' = [held EXCEPT ![p] = Received(p)]
      BY <1>4 DEF Deliver
    <3> QED BY <2>5, <2>6, <3>1
  <2>9. torn' \subseteq Pages
    BY <1>4 DEF Deliver
  <2> QED BY <1>4, <2>7, <2>8, <2>9 DEF Deliver
<1> QED BY <1>1, <1>2, <1>3, <1>4

LEMMA TypeNext == TypeInv /\ [Next]_vars => TypeInv'
<1> SUFFICES ASSUME TypeInv, [Next]_vars PROVE TypeInv'
  OBVIOUS
<1>1. CASE UNCHANGED vars
  BY <1>1 DEF vars, bufferVars, lockVars, queueVars, pageVars, sendVars, TypeInv,
     TypeOK, WellFormed
<1> QED BY <1>1, Steps, TypeQuiet, TypeCapture, TypeWriteFrame, TypePages

\* The properties of WebSocketCamera, and the state of pages, have their types in
\* every instance.
THEOREM TypeCorrect == Spec => []TypeOK
<1>1. Spec => []TypeInv
  BY TypeInit, TypeNext, PTL DEF Spec
<1> QED BY <1>1, PTL DEF TypeInv

-----------------------------------------------------------------------------
(* The lock *)

\* A lock that is held has a thread, or a block of the queue, that will give it
\* back, however many threads capture frames, and also when it was broken.
LEMMA ReleaserNext ==
    ASSUME TypeInv, LockHasReleaser, [Next]_vars
    PROVE  LockHasReleaser'
<1> USE DEF LockHasReleaser
<1> DEFINE Kept == /\ sending' = sending /\ blocks' = blocks
                   /\ \A t \in Threads : pc[t] \in Locked => pc'[t] \in Locked
<1>1. Kept => LockHasReleaser'
  OBVIOUS
<1> USE DEF TypeInv, TypeOK, Step, QStep, bufferVars, lockVars, queueVars, pageVars,
            sendVars, Threads, Locked
<1>2. CASE Quiet
  <2>1. CASE Release
    BY <2>1 DEF Release, Freed
  <2>2. CASE ~Release
    <3>1. Kept
      BY <1>2, <2>2 DEF Quiet, Configure, NeedFrame, TestUV, Ask, Change, Clear,
         Waited, ClearFrameData, ScheduleTimer, SecondPasses
    <3> QED BY <1>1, <3>1
  <2> QED BY <2>1, <2>2
<1>3. CASE UNCHANGED vars
  BY <1>3 DEF vars
<1>4. ASSUME NEW t \in Captures, OnBuffer(t) \/ StoreUV(t) \/ TestNeed(t)
      PROVE  LockHasReleaser'
  <2>1. Kept
    BY <1>4 DEF OnBuffer, StoreUV, TestNeed
  <2> QED BY <1>1, <2>1
<1>5. ASSUME NEW t \in Threads, WriteFrame(t) PROVE LockHasReleaser'
  <2>1. CASE TestOverdue(t) \/ TestLock(t) \/ ReadY(t) \/ ReadUV(t)
    <3>1. Kept
      BY <2>1 DEF TestOverdue, TestLock, ReadY, ReadUV
    <3> QED BY <1>1, <3>1
  <2>2. CASE BreakLock(t)
    BY <2>2 DEF BreakLock
  <2>3. CASE Take(t)
    BY <2>3 DEF Take
  <2>4. CASE Stamp(t) \/ Enter(t) \/ SendY(t) \/ SendUV(t)
    <3>1. Kept
      BY <2>4 DEF Stamp, Enter, SendY, SendUV, Send
    <3> QED BY <1>1, <3>1
  <2>5. CASE Submit(t)
    <3>1. blocks' # <<>>
      BY <2>5 DEF Submit
    <3> QED BY <3>1
  <2> QED BY <1>5, <2>1, <2>2, <2>3, <2>4, <2>5 DEF WriteFrame
<1>6. ASSUME NEW s \in Sends, NEW k \in Kinds, Sent(<<s, k>>)
      PROVE  LockHasReleaser'
  BY <1>6 DEF Sent
<1>7. ASSUME NEW p \in Pages, Connect(p) \/ Close(p) \/ Deliver(p)
      PROVE  LockHasReleaser'
  BY <1>7 DEF Connect, Close, Deliver
<1> QED BY <1>2, <1>3, <1>4, <1>5, <1>6, <1>7, Steps

\* The lock of writeFrame is never left behind, however many threads capture.
THEOREM LockAlwaysHasReleaser == Spec => []LockHasReleaser
<1>1. Init => LockHasReleaser
  BY DEF Init, LockHasReleaser
<1>2. TypeInv /\ LockHasReleaser /\ [Next]_vars => LockHasReleaser'
  BY ReleaserNext
<1> QED BY <1>1, <1>2, TypeInit, TypeNext, PTL DEF Spec

-----------------------------------------------------------------------------
(* Slots, and the dispatch group *)

\* Steps of writeFrame before both planes are broadcast.
Early == {"readUV", "take", "stamp", "enter", "sendY"}

\* A frame has a slot of its own from the time its planes are read until they are
\* cleared: no other thread, block or broadcast has it.
SlotInv ==
    /\ \A t \in Threads : pc[t] \notin HasSlot => slot[t] = None
    /\ \A t, u \in Threads : slot[t] = slot[u] /\ slot[t] # None => t = u
    /\ \A t \in Threads, i \in DOMAIN blocks : blocks[i] # slot[t]
    /\ \A s \in Sends, k \in Kinds : <<s, k>> \in unsent => s \in Used
    /\ \A t \in Threads, k \in Kinds :
           pc[t] \in Early => <<slot[t], k>> \notin unsent
    /\ \A t \in Threads : pc[t] = "sendUV" => <<slot[t], "uv">> \notin unsent
    /\ qpc # "wait" => \A k \in Kinds : <<Head(blocks), k>> \notin unsent

SendInv == TypeInv /\ SlotInv /\ GroupBalanced

\* Everything that is counted is finite.
LEMMA Finite ==
    ASSUME TypeInv
    PROVE  /\ IsFiniteSet(unsent) /\ Cardinality(unsent) \in Nat
           /\ \A c : IsFiniteSet(At(c)) /\ Cardinality(At(c)) \in Nat
<1>1. IsFiniteSet(Threads)
  <2>1. IsFiniteSet(Captures) /\ IsFiniteSet({svc})
    BY CameraAssumption, FS_Singleton
  <2> QED BY <2>1, FS_Union DEF Threads
<1>2. IsFiniteSet(Kinds)
  <2>1. IsFiniteSet({"y"}) /\ IsFiniteSet({"uv"}) /\ Kinds = {"y"} \cup {"uv"}
    BY FS_Singleton DEF Kinds
  <2> QED BY <2>1, FS_Union
<1>3. IsFiniteSet(Sends \X Kinds)
  BY <1>2, CameraAssumption, FS_Product
<1>4. IsFiniteSet(unsent)
  BY <1>3, FS_Subset DEF TypeInv, TypeOK
<1>5. ASSUME NEW c PROVE IsFiniteSet(At(c))
  BY <1>1, FS_Subset DEF At
<1> QED BY <1>4, <1>5, FS_CardinalityType

\* An empty group means that every broadcast has completed.
LEMMA EmptyGroup ==
    ASSUME TypeInv, GroupBalanced, sendGroup = 0
    PROVE  unsent = {}
<1>1. /\ IsFiniteSet(unsent) /\ Cardinality(unsent) \in Nat
      /\ Cardinality(At("sendY")) \in Nat /\ Cardinality(At("sendUV")) \in Nat
  BY Finite
<1>2. Cardinality(unsent) = 0
  BY <1>1 DEF GroupBalanced
<1> QED BY <1>1, <1>2, FS_EmptySet

\* Most steps start no frame, finish none and broadcast nothing.
LEMMA SlotKept ==
    ASSUME TypeInv, SlotInv,
           slot' = slot, blocks' = blocks, unsent' \subseteq unsent,
           qpc' # "wait" => qpc # "wait",
           \A t \in Threads : /\ pc'[t] \notin HasSlot => pc[t] \notin HasSlot
                              /\ pc'[t] \in Early => pc[t] \in Early
                              /\ pc'[t] = "sendUV" => pc[t] = "sendUV"
    PROVE  SlotInv'
BY DEF SlotInv, Used

\* A thread that broadcasts a plane has it neither in flight nor cleared.
LEMMA SlotSend ==
    ASSUME TypeInv, SlotInv, NEW t \in Threads, SendY(t) \/ SendUV(t)
    PROVE  SlotInv'
<1> USE DEF TypeInv, TypeOK, Step, HasSlot, Locked, Early
<1>1. PICK k \in Kinds : /\ \/ k = "y" /\ Step(t, "sendY", "sendUV")
                            \/ k = "uv" /\ Step(t, "sendUV", "submit")
                         /\ Send(t, k)
  BY DEF SendY, SendUV, Kinds
<1>2. slot' = slot /\ blocks' = blocks /\ qpc' = qpc
  BY <1>1 DEF Send, queueVars
<1>3. unsent' \subseteq unsent \cup {<<slot[t], k>>}
  BY <1>1 DEF Send
<1>4. slot[t] \in Sends /\ slot[t] # None
  BY <1>1, CameraAssumption DEF WellFormed
<1>5. \A u \in Threads : pc'[u] = IF u = t THEN pc'[t] ELSE pc[u]
  BY <1>1
<1>6. \A u \in Threads : u # t => slot[u] # slot[t]
  BY <1>4 DEF SlotInv
<1>7. \A u \in Threads : pc'[u] \notin HasSlot => slot'[u] = None
  BY <1>1, <1>2, <1>5 DEF SlotInv
<1>8. \A s \in Sends, j \in Kinds : <<s, j>> \in unsent' => s \in Used'
  <2>1. \A s \in Sends, j \in Kinds :
            <<s, j>> \in unsent' => <<s, j>> \in unsent \/ s = slot[t]
    BY <1>3
  <2>2. Used' = Used /\ slot[t] \in Used
    BY <1>2 DEF Used
  <2> QED BY <2>1, <2>2 DEF SlotInv
<1>9. \A u \in Threads, j \in Kinds :
          pc'[u] \in Early => <<slot'[u], j>> \notin unsent'
  BY <1>1, <1>2, <1>3, <1>5, <1>6 DEF SlotInv
<1>10. \A u \in Threads : pc'[u] = "sendUV" => <<slot'[u], "uv">> \notin unsent'
  BY <1>1, <1>2, <1>3, <1>5, <1>6 DEF SlotInv
<1>11. qpc' # "wait" => \A j \in Kinds : <<Head(blocks'), j>> \notin unsent'
  <2> SUFFICES ASSUME qpc # "wait", NEW j \in Kinds
               PROVE  <<Head(blocks), j>> \notin unsent'
    BY <1>2
  <2>1. 1 \in DOMAIN blocks /\ Head(blocks) = blocks[1]
    BY DEF WellFormed
  <2>2. Head(blocks) # slot[t]
    BY <2>1 DEF SlotInv
  <2> QED BY <1>3, <2>2 DEF SlotInv
<1> QED BY <1>2, <1>7, <1>8, <1>9, <1>10, <1>11 DEF SlotInv

\* A slot is taken when it is free, and goes from its thread to its block.
LEMMA SlotWriteFrame ==
    ASSUME SendInv, NEW t \in Threads, WriteFrame(t)
    PROVE  SlotInv'
<1> USE DEF SendInv, TypeInv, TypeOK, Step, HasSlot, Locked, Early, bufferVars,
            lockVars, queueVars, pageVars, sendVars
<1>1. CASE TestOverdue(t) \/ BreakLock(t) \/ TestLock(t) \/ Take(t) \/ Stamp(t)
           \/ Enter(t)
  BY <1>1, SlotKept
     DEF TestOverdue, BreakLock, TestLock, Take, Stamp, Enter
<1>2. CASE SendY(t) \/ SendUV(t)
  BY <1>2, SlotSend
<1>3. CASE ReadY(t)
  <2>1. CASE yBuffer = None
    BY <1>3, <2>1, SlotKept DEF ReadY
  <2>2. CASE yBuffer # None
    <3>1. PICK s \in Sends \ Used : slot' = [slot EXCEPT ![t] = s]
      BY <1>3, <2>2 DEF ReadY
    <3>2. Step(t, "readY", "readUV") /\ blocks' = blocks /\ unsent' = unsent
          /\ qpc' = qpc
      BY <1>3, <2>2 DEF ReadY
    <3>3. slot[t] = None /\ s # None
      BY <3>2, CameraAssumption DEF SlotInv
    <3>4. \A u \in Threads : slot[u] # s
      BY <3>1 DEF Used
    <3>5. \A i \in DOMAIN blocks : blocks[i] # s
      BY <3>1 DEF Used
    <3>6. \A k \in Kinds : <<s, k>> \notin unsent
      BY <3>1 DEF SlotInv
    <3>7. \A x \in Sends : x \in Used => x \in Used'
      <4>1. \A u \in Threads : slot[u] \in Sends => slot'[u] = slot[u]
        BY <3>1, <3>3, CameraAssumption
      <4> SUFFICES ASSUME NEW x \in Sends, x \in Used PROVE x \in Used'
        OBVIOUS
      <4>2. CASE \E u \in Threads : slot[u] = x
        BY <4>1, <4>2 DEF Used
      <4>3. CASE \E i \in DOMAIN blocks : blocks[i] = x
        <5>1. \E i \in DOMAIN blocks' : blocks'[i] = x
          BY <3>2, <4>3
        <5> QED BY <5>1 DEF Used
      <4> QED BY <4>2, <4>3 DEF Used
    <3> QED BY <3>1, <3>2, <3>3, <3>4, <3>5, <3>6, <3>7 DEF SlotInv
  <2> QED BY <2>1, <2>2
<1>4. CASE ReadUV(t)
  <2>1. CASE ~NoUV
    BY <1>4, <2>1, SlotKept DEF ReadUV
  <2>2. CASE NoUV
    <3>1. /\ Step(t, "readUV", "idle") /\ slot' = [slot EXCEPT ![t] = None]
          /\ blocks' = blocks /\ unsent' = unsent /\ qpc' = qpc
      BY <1>4, <2>2 DEF ReadUV
    <3>2. \A k \in Kinds : <<slot[t], k>> \notin unsent
      BY <3>1 DEF SlotInv
    <3>3. \A i \in DOMAIN blocks : blocks[i] \in Sends
      OBVIOUS
    <3>4. \A s \in Sends : s \in Used /\ s # slot[t] => s \in Used'
      BY <3>1 DEF Used
    <3> QED BY <3>1, <3>2, <3>3, <3>4, CameraAssumption DEF SlotInv
  <2> QED BY <2>1, <2>2
<1>5. CASE Submit(t)
  <2>1. /\ Step(t, "submit", "idle") /\ slot' = [slot EXCEPT ![t] = None]
        /\ blocks' = Append(blocks, slot[t]) /\ unsent' = unsent /\ qpc' = qpc
    BY <1>5 DEF Submit
  <2>2. slot[t] \in Sends
    BY <2>1 DEF WellFormed
  <2>3. /\ DOMAIN blocks' = DOMAIN blocks \cup {Len(blocks) + 1}
        /\ \A i \in DOMAIN blocks : blocks'[i] = blocks[i]
        /\ blocks'[Len(blocks) + 1] = slot[t]
    BY <2>1, <2>2
  <2>4. \A u \in Threads, i \in DOMAIN blocks' : blocks'[i] # slot'[u]
    BY <2>1, <2>2, <2>3, CameraAssumption DEF SlotInv
  <2>5. \A s \in Sends : s \in Used => s \in Used'
    BY <2>1, <2>3 DEF Used
  <2>6. qpc' # "wait" => Head(blocks') = Head(blocks)
    BY <2>1, <2>2, <2>3 DEF WellFormed
  <2> QED BY <2>1, <2>2, <2>4, <2>5, <2>6, CameraAssumption DEF SlotInv
<1> QED BY <1>1, <1>2, <1>3, <1>4, <1>5 DEF WriteFrame

\* The queue waits until nothing is in flight, and then frees the slot of the block.
LEMMA SlotNext == SendInv /\ [Next]_vars => SlotInv'
<1> SUFFICES ASSUME SendInv, [Next]_vars PROVE SlotInv'
  OBVIOUS
<1> USE DEF SendInv, TypeInv, TypeOK, Step, QStep, HasSlot, Locked, Early,
            bufferVars, lockVars, queueVars, pageVars, sendVars, Threads
<1>1. CASE Quiet
  <2>1. CASE Waited
    <3>1. unsent = {}
      BY <2>1, EmptyGroup DEF Waited
    <3> QED BY <2>1, <3>1 DEF Waited, SlotInv, Used
  <2>2. CASE Release
    <3>1. /\ blocks # <<>> /\ blocks' = Tail(blocks) /\ slot' = slot /\ pc' = pc
          /\ unsent' = unsent /\ qpc' = "wait"
      BY <2>2 DEF Release, WellFormed
    <3>2. /\ \A i \in DOMAIN blocks' : /\ i + 1 \in DOMAIN blocks
                                       /\ blocks'[i] = blocks[i + 1]
          /\ \A i \in DOMAIN blocks : i = 1 \/ /\ i - 1 \in DOMAIN blocks'
                                               /\ blocks'[i - 1] = blocks[i]
      BY <3>1
    <3>3. \A k \in Kinds : <<Head(blocks), k>> \notin unsent
      BY <2>2 DEF Release, SlotInv
    <3>4. \A s \in Sends : s \in Used => s \in Used' \/ s = Head(blocks)
      <4> SUFFICES ASSUME NEW s \in Sends, s \in Used, s # Head(blocks)
                   PROVE  s \in Used'
        OBVIOUS
      <4>1. CASE \E t \in Threads : slot[t] = s
        BY <3>1, <4>1 DEF Used
      <4>2. CASE \E i \in DOMAIN blocks : blocks[i] = s
        <5>1. PICK i \in DOMAIN blocks : blocks[i] = s
          BY <4>2
        <5>2. i # 1
          BY <3>1, <5>1
        <5>3. i - 1 \in DOMAIN blocks' /\ blocks'[i - 1] = s
          BY <3>2, <5>1, <5>2
        <5> QED BY <5>3 DEF Used
      <4> QED BY <4>1, <4>2 DEF Used
    <3>5. \A t \in Threads, i \in DOMAIN blocks' : blocks'[i] # slot'[t]
      BY <3>1, <3>2 DEF SlotInv
    <3> QED BY <3>1, <3>3, <3>4, <3>5 DEF SlotInv
  <2>3. CASE ~Waited /\ ~Release
    BY <1>1, <2>3, SlotKept DEF Quiet, Configure, NeedFrame, TestUV, Ask, Change,
       Clear, ClearFrameData, ScheduleTimer, SecondPasses
  <2> QED BY <2>1, <2>2, <2>3
<1>2. CASE UNCHANGED vars
  BY <1>2, SlotKept DEF vars
<1>3. ASSUME NEW t \in Captures, OnBuffer(t) \/ StoreUV(t) \/ TestNeed(t)
      PROVE  SlotInv'
  BY <1>3, SlotKept DEF OnBuffer, StoreUV, TestNeed
<1>4. ASSUME NEW s \in Sends, NEW k \in Kinds, Sent(<<s, k>>) PROVE SlotInv'
  BY <1>4, SlotKept DEF Sent
<1>5. ASSUME NEW p \in Pages, Connect(p) \/ Close(p) \/ Deliver(p) PROVE SlotInv'
  BY <1>5, SlotKept DEF Connect, Close, Deliver
<1> QED BY <1>1, <1>2, <1>3, <1>4, <1>5, Steps, SlotWriteFrame

\* Most steps neither enter nor leave the group.
LEMMA BalanceKept ==
    ASSUME GroupBalanced, sendGroup' = sendGroup, unsent' = unsent,
           \A t \in Threads : \A c \in {"sendY", "sendUV"} : pc'[t] = c <=> pc[t] = c
    PROVE  GroupBalanced'
<1>1. At("sendY")' = At("sendY") /\ At("sendUV")' = At("sendUV")
  BY DEF At
<1> QED BY <1>1 DEF GroupBalanced

\* A thread enters for two planes, and is out after its second broadcast.
LEMMA BalanceWriteFrame ==
    ASSUME SendInv, NEW t \in Threads, WriteFrame(t)
    PROVE  GroupBalanced'
<1> USE DEF SendInv, Step, bufferVars, lockVars, queueVars, pageVars, sendVars
<1>1. pc \in [Threads -> Places]
  BY DEF TypeInv, TypeOK
<1>2. /\ IsFiniteSet(unsent) /\ Cardinality(unsent) \in Nat
      /\ \A c : IsFiniteSet(At(c)) /\ Cardinality(At(c)) \in Nat
  BY Finite
<1>3. CASE Enter(t)
  <2>1. /\ At("sendY")' = At("sendY") \cup {t} /\ t \notin At("sendY")
        /\ At("sendUV")' = At("sendUV")
    BY <1>1, <1>3 DEF Enter, At
  <2>2. Cardinality(At("sendY")') = Cardinality(At("sendY")) + 1
    BY <1>2, <2>1, FS_AddElement
  <2> QED BY <1>2, <1>3, <2>1, <2>2 DEF Enter, GroupBalanced
<1>4. CASE SendY(t)
  <2>1. /\ At("sendY")' = At("sendY") \ {t} /\ t \in At("sendY")
        /\ At("sendUV")' = At("sendUV") \cup {t} /\ t \notin At("sendUV")
    BY <1>1, <1>4 DEF SendY, At
  <2>2. /\ Cardinality(At("sendY")') = Cardinality(At("sendY")) - 1
        /\ Cardinality(At("sendUV")') = Cardinality(At("sendUV")) + 1
    <3>1. Cardinality(At("sendY")') = Cardinality(At("sendY")) - 1
      BY <1>2, <2>1, FS_RemoveElement
    <3>2. Cardinality(At("sendUV")') = Cardinality(At("sendUV")) + 1
      BY <1>2, <2>1, FS_AddElement
    <3> QED BY <3>1, <3>2
  <2>3. <<slot[t], "y">> \notin unsent
    BY <1>4 DEF SendY, SlotInv, Early, Kinds
  <2>4. Cardinality(unsent \cup {<<slot[t], "y">>}) = Cardinality(unsent) + 1
    BY <1>2, <2>3, FS_AddElement
  <2>5. \/ sendGroup' = sendGroup - 1 /\ unsent' = unsent
        \/ sendGroup' = sendGroup /\ unsent' = unsent \cup {<<slot[t], "y">>}
    BY <1>4 DEF SendY, Send, LeftAtOnce
  <2>6. \/ /\ sendGroup' = sendGroup - 1
           /\ Cardinality(unsent') = Cardinality(unsent)
        \/ /\ sendGroup' = sendGroup
           /\ Cardinality(unsent') = Cardinality(unsent) + 1
    BY <2>4, <2>5
  <2> QED BY <1>2, <2>1, <2>2, <2>6 DEF GroupBalanced
<1>5. CASE SendUV(t)
  <2>1. /\ At("sendUV")' = At("sendUV") \ {t} /\ t \in At("sendUV")
        /\ At("sendY")' = At("sendY")
    BY <1>1, <1>5 DEF SendUV, At
  <2>2. Cardinality(At("sendUV")') = Cardinality(At("sendUV")) - 1
    BY <1>2, <2>1, FS_RemoveElement
  <2>3. <<slot[t], "uv">> \notin unsent
    BY <1>5 DEF SendUV, SlotInv
  <2>4. Cardinality(unsent \cup {<<slot[t], "uv">>}) = Cardinality(unsent) + 1
    BY <1>2, <2>3, FS_AddElement
  <2>5. \/ sendGroup' = sendGroup - 1 /\ unsent' = unsent
        \/ sendGroup' = sendGroup /\ unsent' = unsent \cup {<<slot[t], "uv">>}
    BY <1>5 DEF SendUV, Send, LeftAtOnce
  <2>6. \/ /\ sendGroup' = sendGroup - 1
           /\ Cardinality(unsent') = Cardinality(unsent)
        \/ /\ sendGroup' = sendGroup
           /\ Cardinality(unsent') = Cardinality(unsent) + 1
    BY <2>4, <2>5
  <2> QED BY <1>2, <2>1, <2>2, <2>6 DEF GroupBalanced
<1>6. CASE \/ TestOverdue(t) \/ BreakLock(t) \/ TestLock(t) \/ ReadY(t)
           \/ ReadUV(t) \/ Take(t) \/ Stamp(t) \/ Submit(t)
  BY <1>1, <1>6, BalanceKept
     DEF TestOverdue, BreakLock, TestLock, ReadY, ReadUV, Take, Stamp, Submit
<1> QED BY <1>3, <1>4, <1>5, <1>6 DEF WriteFrame

\* The group is left once per completion block.
LEMMA BalanceNext == SendInv /\ [Next]_vars => GroupBalanced'
<1> SUFFICES ASSUME SendInv, [Next]_vars PROVE GroupBalanced'
  OBVIOUS
<1> USE DEF SendInv, Step, QStep, bufferVars, lockVars, queueVars, pageVars,
            sendVars
<1>1. pc \in [Threads -> Places]
  BY DEF TypeInv, TypeOK
<1>2. CASE Quiet
  BY <1>1, <1>2, BalanceKept DEF Quiet, Configure, NeedFrame, TestUV, Ask, Change,
     Clear, Waited, ClearFrameData, Release, ScheduleTimer, SecondPasses, Threads
<1>3. CASE UNCHANGED vars
  BY <1>3, BalanceKept DEF vars
<1>4. ASSUME NEW t \in Captures, OnBuffer(t) \/ StoreUV(t) \/ TestNeed(t)
      PROVE  GroupBalanced'
  BY <1>1, <1>4, BalanceKept DEF OnBuffer, StoreUV, TestNeed, Threads
<1>5. ASSUME NEW s \in Sends, NEW k \in Kinds, Sent(<<s, k>>)
      PROVE  GroupBalanced'
  <2>1. /\ IsFiniteSet(unsent) /\ Cardinality(unsent) \in Nat
        /\ \A c : IsFiniteSet(At(c)) /\ Cardinality(At(c)) \in Nat
    BY Finite
  <2>2. /\ unsent' = unsent \ {<<s, k>>} /\ <<s, k>> \in unsent
        /\ sendGroup' = sendGroup - 1 /\ pc' = pc
    BY <1>5 DEF Sent
  <2>3. Cardinality(unsent') = Cardinality(unsent) - 1
    BY <2>1, <2>2, FS_RemoveElement
  <2>4. \A c : At(c)' = At(c)
    BY <2>2 DEF At
  <2> QED BY <2>1, <2>2, <2>3, <2>4 DEF GroupBalanced
<1>6. ASSUME NEW p \in Pages, Connect(p) \/ Close(p) \/ Deliver(p)
      PROVE  GroupBalanced'
  BY <1>6, BalanceKept DEF Connect, Close, Deliver
<1> QED BY <1>2, <1>3, <1>4, <1>5, <1>6, Steps, BalanceWriteFrame

\* At the start no slot is taken, and the group is empty.
LEMMA SendInit == Init => SendInv
<1> SUFFICES ASSUME Init PROVE SlotInv /\ GroupBalanced
  BY TypeInit DEF SendInv
<1>1. SlotInv
  BY DEF Init, SlotInv, Used, HasSlot, Locked, Early
<1>2. unsent = {} /\ At("sendY") = {} /\ At("sendUV") = {} /\ sendGroup = 0
  BY DEF Init, At
<1>3. Cardinality({}) = 0
  BY FS_EmptySet
<1>4. GroupBalanced
  BY <1>2, <1>3 DEF GroupBalanced
<1> QED BY <1>1, <1>4

LEMMA SendNext == SendInv /\ [Next]_vars => SendInv'
BY TypeNext, SlotNext, BalanceNext DEF SendInv

\* sendGroup is entered and left in balance, for any threads, pages and slots:
\* the completion blocks of -writeDatas never leave it too often.
THEOREM GroupAlwaysBalanced == Spec => []GroupBalanced
<1>1. SendInv => GroupBalanced
  BY DEF SendInv
<1> QED BY <1>1, SendInit, SendNext, PTL DEF Spec

-----------------------------------------------------------------------------
(* Frames of a capture thread *)

\* What a capture thread that runs alone finds in the buffers is its own frame or
\* nothing, and what it has read stays its own.
FrameInv(c) ==
    /\ pc[c] = "storeUV" => yBuffer \in {None, shot[c]}
    /\ pc[c] \in {"testNeed", "write", "break", "lock", "readY", "readUV"} =>
           yBuffer \in {None, shot[c]} /\ uvBuffer \in {None, shot[c]}
    /\ pc[c] = "readUV" => plane[slot[c]]["y"] = shot[c]
    /\ pc[c] \in Locked \cup {"take"} =>
           \A k \in Kinds : plane[slot[c]][k] = shot[c]

\* The other threads only drop planes, and use slots of their own.
LEMMA FrameKept ==
    ASSUME NEW c \in Captures, FrameInv(c),
           pc'[c] = pc[c], shot'[c] = shot[c], slot'[c] = slot[c],
           yBuffer' \in {yBuffer, None}, uvBuffer' \in {uvBuffer, None},
           pc[c] \in HasSlot => plane'[slot[c]] = plane[slot[c]]
    PROVE  FrameInv(c)'
BY DEF FrameInv, HasSlot

\* writeFrame reads the planes of its own frame, or gives up.
LEMMA FrameWritten ==
    ASSUME SendInv, NEW c \in Captures, FrameInv(c), WriteFrame(c)
    PROVE  FrameInv(c)'
<1> USE DEF SendInv, TypeInv, TypeOK, FrameInv, Step, Leave, Locked, bufferVars,
            lockVars, queueVars, pageVars, sendVars
<1>0. c \in Threads
  BY DEF Threads
<1>1. CASE ReadY(c)
  <2>1. CASE yBuffer = None
    BY <1>0, <1>1, <2>1 DEF ReadY
  <2>2. CASE yBuffer # None
    <3>1. PICK s \in Sends \ Used :
             /\ slot' = [slot EXCEPT ![c] = s]
             /\ plane' = [plane EXCEPT ![s]["y"] = yBuffer]
      BY <1>1, <2>2 DEF ReadY
    <3>2. plane'[slot'[c]]["y"] = yBuffer
      BY <1>0, <3>1 DEF Kinds
    <3> QED BY <1>0, <1>1, <2>2, <3>2 DEF ReadY
  <2> QED BY <2>1, <2>2
<1>2. CASE ReadUV(c)
  <2>1. CASE NoUV
    BY <1>0, <1>2, <2>1 DEF ReadUV
  <2>2. CASE ~NoUV
    <3>1. /\ pc[c] = "readUV" /\ pc' = [pc EXCEPT ![c] = "take"]
          /\ plane' = [plane EXCEPT ![slot[c]]["uv"] = uvBuffer]
          /\ shot' = shot /\ slot' = slot
      BY <1>2, <2>2 DEF ReadUV
    <3>2. slot[c] \in Sends /\ uvBuffer = shot[c]
      BY <1>0, <2>2, <3>1 DEF WellFormed, HasSlot, NoUV
    <3>3. \A k \in Kinds : plane'[slot[c]][k] = shot[c]
      BY <3>1, <3>2 DEF Kinds
    <3> QED BY <1>0, <3>1, <3>3
  <2> QED BY <2>1, <2>2
<1>3. CASE \/ TestOverdue(c) \/ BreakLock(c) \/ TestLock(c) \/ Take(c) \/ Stamp(c)
           \/ Enter(c) \/ SendY(c) \/ SendUV(c) \/ Submit(c)
  BY <1>0, <1>3 DEF TestOverdue, BreakLock, TestLock, Take, Stamp, Enter, SendY,
     SendUV, Send, Submit
<1> QED BY <1>1, <1>2, <1>3 DEF WriteFrame

\* The service thread sends frames from slots that are not the capture thread's.
LEMMA FrameOther ==
    ASSUME SendInv, NEW c \in Captures, FrameInv(c),
           NEW t \in Threads, t # c, WriteFrame(t)
    PROVE  FrameInv(c)'
<1> USE DEF SendInv, TypeInv, TypeOK, Step, Leave, bufferVars, lockVars, queueVars,
            pageVars, sendVars
<1>0. c \in Threads /\ (pc[c] \in HasSlot => slot[c] \in Sends /\ slot[c] # None)
  BY CameraAssumption DEF Threads, WellFormed
<1>1. pc'[c] = pc[c] /\ shot'[c] = shot[c] /\ slot'[c] = slot[c]
  BY <1>0 DEF WriteFrame, TestOverdue, BreakLock, TestLock, ReadY, ReadUV, Take,
     Stamp, Enter, SendY, SendUV, Send, Submit
<1>2. yBuffer' = yBuffer /\ uvBuffer' = uvBuffer
  BY DEF WriteFrame, TestOverdue, BreakLock, TestLock, ReadY, ReadUV, Take, Stamp,
     Enter, SendY, SendUV, Send, Submit
<1>3. ASSUME pc[c] \in HasSlot PROVE plane'[slot[c]] = plane[slot[c]]
  <2>1. CASE ReadY(t)
    <3>1. slot[c] \in Used
      BY <1>0 DEF Used
    <3>2. \/ plane' = plane
          \/ \E s \in Sends \ Used : plane' = [plane EXCEPT ![s]["y"] = yBuffer]
      BY <2>1 DEF ReadY
    <3> QED BY <1>0, <1>3, <3>1, <3>2
  <2>2. CASE ReadUV(t)
    <3>1. slot[t] # slot[c]
      BY <1>0, <1>3 DEF SlotInv
    <3>2. \/ plane' = [plane EXCEPT ![slot[t]] = Empty]
          \/ plane' = [plane EXCEPT ![slot[t]]["uv"] = uvBuffer]
      BY <2>2 DEF ReadUV
    <3> QED BY <1>0, <1>3, <3>1, <3>2
  <2>3. CASE ~ReadY(t) /\ ~ReadUV(t)
    BY <2>3 DEF WriteFrame, TestOverdue, BreakLock, TestLock, Take, Stamp, Enter,
       SendY, SendUV, Send, Submit
  <2> QED BY <2>1, <2>2, <2>3
<1> QED BY <1>1, <1>2, <1>3, FrameKept

\* Nobody but the thread itself stores planes or changes those it sends.
LEMMA FrameNext ==
    ASSUME NEW c, Captures = {c}, SendInv, FrameInv(c), [Next]_vars
    PROVE  FrameInv(c)'
<1> USE DEF SendInv, TypeInv, TypeOK, Step, QStep, Leave, bufferVars, lockVars,
            queueVars, pageVars, sendVars
<1>0. c \in Threads /\ c \in Captures /\ c # svc /\ Threads = {c, svc}
  BY CameraAssumption DEF Threads
<1>1. CASE Quiet
  <2>1. pc'[c] = pc[c] /\ shot'[c] = shot[c] /\ slot'[c] = slot[c]
    BY <1>0, <1>1 DEF Quiet, Configure, NeedFrame, TestUV, Ask, Change, Clear,
       Waited, ClearFrameData, Release, ScheduleTimer, SecondPasses
  <2>2. yBuffer' \in {yBuffer, None} /\ uvBuffer' \in {uvBuffer, None}
    BY <1>1 DEF Quiet, Configure, NeedFrame, TestUV, Ask, Change, Clear, Waited,
       ClearFrameData, Release, ScheduleTimer, SecondPasses
  <2>3. plane'[slot[c]] = plane[slot[c]]
    <3>1. CASE Release
      <4>1. 1 \in DOMAIN blocks /\ Head(blocks) = blocks[1]
        BY <3>1 DEF Release, WellFormed
      <4>2. Head(blocks) # slot[c]
        BY <1>0, <4>1 DEF SlotInv
      <4> QED BY <3>1, <4>2 DEF Release
    <3>2. CASE ~Release
      BY <1>1, <3>2 DEF Quiet, Configure, NeedFrame, TestUV, Ask, Change, Clear,
         Waited, ClearFrameData, ScheduleTimer, SecondPasses
    <3> QED BY <3>1, <3>2
  <2> QED BY <1>0, <2>1, <2>2, <2>3, FrameKept
<1>2. CASE UNCHANGED vars
  BY <1>0, <1>2, FrameKept DEF vars
<1>3. CASE OnBuffer(c)
  BY <1>0, <1>3 DEF OnBuffer, FrameInv, Locked
<1>4. CASE StoreUV(c)
  BY <1>0, <1>4 DEF StoreUV, FrameInv, Locked
<1>5. CASE TestNeed(c)
  BY <1>0, <1>5 DEF TestNeed, FrameInv, Locked
<1>6. ASSUME NEW t \in Threads, WriteFrame(t) PROVE FrameInv(c)'
  BY <1>0, <1>6, FrameWritten, FrameOther
<1>7. ASSUME NEW s \in Sends, NEW k \in Kinds, Sent(<<s, k>>) PROVE FrameInv(c)'
  BY <1>0, <1>7, FrameKept DEF Sent
<1>8. ASSUME NEW p \in Pages, Connect(p) \/ Close(p) \/ Deliver(p)
      PROVE  FrameInv(c)'
  BY <1>0, <1>8, FrameKept DEF Connect, Close, Deliver
<1> QED BY <1>1, <1>2, <1>3, <1>4, <1>5, <1>6, <1>7, <1>8, Steps

\* If frames are captured one at a time, onBuffer never sends planes of two frames,
\* whatever the service thread, the queue and the requests do meanwhile.
THEOREM OwnFramesAreWhole ==
    ASSUME NEW c, Captures = {c}
    PROVE  Spec => []OwnFramesWhole
<1>1. Init => FrameInv(c)
  BY DEF Init, FrameInv, Locked, Threads
<1>2. SendInv /\ FrameInv(c) /\ [Next]_vars => FrameInv(c)'
  BY FrameNext
<1>3. FrameInv(c) => OwnFramesWhole
  BY DEF FrameInv, OwnFramesWhole
<1> QED BY <1>1, <1>2, <1>3, SendInit, SendNext, PTL DEF Spec
=============================================================================
