------------------------- MODULE ServerLifecycleProofs -------------------------
(***************************************************************************)
(* Proofs about ServerLifecycle, for any number of starts, of connections, *)
(* whether or not contexts can be created, and whenever the app changes    *)
(* sides: as long as a block of -start begins when the one before it is    *)
(* over, no loop uses a context that is gone.                              *)
(***************************************************************************)
EXTENDS ServerLifecycle, TLAPS

Phases == {"none", "queued", "create", "clear flag", "drain", "test", "poll",
           "destroy", "forget", "done"}

Begun(b) == loop[b] \notin {"none", "queued", "done"}

\* A block past the creation of its context, and not past the destruction.
Owner(b)  == loop[b] \in {"clear flag", "drain", "test", "poll", "destroy"}

\* The blocks that -start has not put on the queue yet do nothing.
Shape ==
    /\ loop \in [Blocks -> Phases]
    /\ using = [b \in Blocks |-> using[b]]
    /\ starts \in Nat /\ context \in Nat /\ met \in BOOLEAN
    /\ \A b \in Blocks : b > starts => loop[b] = "none"

\* There is one loop at a time.
OneLoop == \A b, c \in Blocks : Begun(b) /\ Begun(c) => b = c

\* What the pointer and the contexts are, wherever the loop is.
ByPhase ==
    /\ (\A b \in Blocks : ~Begun(b)) => context = None /\ live = {}
    /\ \A b \in Blocks :
         /\ loop[b] = "create" => context = None /\ live = {}
         /\ Owner(b) => live = {context} \ {None}
         /\ loop[b] = "forget" => live = {}
         /\ loop[b] = "poll" => using[b] = context

Apart == OneLoop /\ ByPhase /\ fault # "service"

LifecycleInv == Shape /\ (~met => Apart)

-----------------------------------------------------------------------------

LEMMA BlocksAreNat == MaxStarts \in Nat /\ \A b \in Blocks : b \in Nat
<1>1. MaxStarts \in Nat
  BY LifecycleAssumption
<1> QED BY <1>1 DEF Blocks

LEMMA LifecycleInit == Init => LifecycleInv
<1> SUFFICES ASSUME Init PROVE LifecycleInv
  OBVIOUS
<1>1. Shape
  <2>1. /\ loop \in [Blocks -> Phases] /\ using = [b \in Blocks |-> using[b]]
        /\ starts \in Nat /\ context \in Nat
    BY DEF Init, Phases, None
  <2>2. met \in BOOLEAN
    BY DEF Init
  <2>3. \A b \in Blocks : b > starts => loop[b] = "none"
    BY BlocksAreNat DEF Init
  <2> QED BY <2>1, <2>2, <2>3 DEF Shape
<1>2. Apart
  BY LifecycleAssumption DEF Init, Apart, OneLoop, ByPhase, Begun, Owner, Blocks, None
<1> QED BY <1>1, <1>2 DEF LifecycleInv

\* The main thread puts another block on the queue, or nothing.
LEMMA MainThread ==
    ASSUME LifecycleInv, Background \/ Foreground \/ Pause
    PROVE  LifecycleInv'
<1> USE DEF LifecycleInv, Apart, Shape, OneLoop, ByPhase, Begun, Owner, Phases,
            loopVars, appVars, ghosts, netVars, None
<1>1. CASE Background
  BY <1>1 DEF Background
<1>2. CASE Foreground
  <2>1. /\ starts' = starts + 1 /\ starts + 1 \in Blocks
        /\ loop' = [loop EXCEPT ![starts + 1] = "queued"]
        /\ UNCHANGED <<using, context, live, fault, met>>
    <3>1. MaxStarts \in Nat
      BY BlocksAreNat
    <3>2. /\ starts < MaxStarts /\ starts' = starts + 1
          /\ loop' = [loop EXCEPT ![starts + 1] = "queued"]
          /\ UNCHANGED <<using, context, live, fault, met>>
      BY ONLY <1>2 DEF Foreground, ghosts
    <3>3. starts + 1 \in Blocks
      <4>1. starts \in Nat
        OBVIOUS
      <4> QED BY ONLY <3>1, <3>2, <4>1 DEF Blocks
    <3> QED BY <3>2, <3>3
  <2>2. /\ loop'[starts + 1] = "queued"
        /\ \A b \in Blocks : b # starts + 1 => loop'[b] = loop[b]
    BY <2>1
  <2>3. loop[starts + 1] = "none"
    <3>1. starts \in Nat
      OBVIOUS
    <3>2. starts + 1 > starts
      BY ONLY <3>1
    <3> QED BY <2>1, <3>2
  <2>4. Shape'
    <3>1. loop' \in [Blocks -> Phases]
      BY <2>1
    <3>2. starts' \in Nat /\ context' \in Nat /\ met' \in BOOLEAN
      <4>1. starts \in Nat /\ context \in Nat /\ met \in BOOLEAN
        OBVIOUS
      <4> QED BY ONLY <2>1, <4>1
    <3>3. using' = [b \in Blocks |-> using'[b]]
      BY <2>1
    <3>4. \A b \in Blocks : b > starts' => b > starts /\ b # starts + 1
      <4>1. starts \in Nat
        OBVIOUS
      <4> QED BY ONLY <2>1, <4>1, BlocksAreNat
    <3> QED BY <2>2, <3>1, <3>2, <3>3, <3>4
  <2>5. ~met => OneLoop' /\ ByPhase'
    BY <2>1, <2>2, <2>3
  <2> QED BY <2>1, <2>4, <2>5
<1>3. CASE Pause
  BY <1>3 DEF Pause, CancelService, Crash
<1> QED BY <1>1, <1>2, <1>3

\* A block begins.
LEMMA BlockEnters ==
    ASSUME LifecycleInv, NEW b \in Blocks, Enter(b)
    PROVE  LifecycleInv'
<1> USE DEF LifecycleInv, Apart, Shape, OneLoop, ByPhase, Begun, Owner, Phases
<1>1. /\ loop[b] = "queued" /\ met' \in BOOLEAN
      /\ loop' = [loop EXCEPT ![b] = IF context = None THEN "create" ELSE "clear flag"]
      /\ UNCHANGED <<starts, using, context, live, fault>>
      /\ ~met' => ~met /\ \A c \in Blocks : ~Begun(c)
  BY DEF Enter, Goes
<1>2. Shape'
  BY <1>1
<1>3. ASSUME ~met' PROVE Apart'
  <2>1. context = None /\ live = {} /\ loop' = [loop EXCEPT ![b] = "create"]
    BY <1>1, <1>3
  <2>2. loop'[b] = "create" /\ \A c \in Blocks : c # b => loop'[c] = loop[c]
    BY <1>1, <2>1
  <2> QED BY <1>1, <1>3, <2>1, <2>2
<1> QED BY <1>2, <1>3

\* It goes on, whatever others do: of the shape.
LEMMA BlockShape ==
    ASSUME LifecycleInv, NEW b \in Blocks, Run(b), ~Enter(b)
    PROVE  Shape' /\ met' = met
<1> USE DEF LifecycleInv, Shape, appVars, ghosts, loopVars, netVars
<1>1. \/ UNCHANGED <<loop, using, context, starts, met>>
      \/ /\ loop[b] # "none" /\ \E to \in Phases : loop' = [loop EXCEPT ![b] = to]
         /\ \/ using' = using \/ \E c : using' = [using EXCEPT ![b] = c]
         /\ context' \in {context, None, b} /\ UNCHANGED <<starts, met>>
  BY Zenon DEF Run, CreateContext, ClearFlag, Drain, Test, Service, ContextDestroy, Forget,
     Goes, Crash, Phases
<1>2. context' \in Nat
  BY <1>1, BlocksAreNat DEF None
<1> QED BY <1>1, <1>2

\* As the only one.
LEMMA BlockRuns ==
    ASSUME LifecycleInv, NEW b \in Blocks, Run(b), ~Enter(b), ~met
    PROVE  Apart'
<1> USE DEF LifecycleInv, Apart, Shape, OneLoop, ByPhase, Begun, Owner, Phases,
            loopVars, appVars, netVars
<1>1. ASSUME NEW to \in Phases \ {"none"}, Begun(b), loop' = [loop EXCEPT ![b] = to]
      PROVE  OneLoop' /\ \A c \in Blocks : c # b => ~Begun(c)'
  <2>1. loop'[b] = to /\ \A c \in Blocks : c # b => loop'[c] = loop[c]
    BY <1>1
  <2> QED BY <1>1, <2>1
<1>3. CASE CreateContext(b)
  <2>1. loop' = [loop EXCEPT ![b] = "clear flag"] /\ Begun(b)
    BY <1>3 DEF CreateContext, Goes
  <2>2. OneLoop' /\ \A c \in Blocks : c # b => ~Begun(c)'
    BY <1>1, <2>1
  <2>3. live = {} /\ context = None
    BY <1>3 DEF CreateContext, Goes
  <2>4. live' = {context'} \ {None}
    <3>1. CASE CreateVhost(b) /\ context' = b
      <4>1. live' = {b} /\ b \in Nat /\ b # None
        BY ONLY <2>3, <3>1 DEF CreateVhost, Blocks, None
      <4> QED BY ONLY <3>1, <4>1
    <3>2. CASE context' = None /\ live' = live
      BY ONLY <2>3, <3>2 DEF None
    <3> QED BY <1>3, <3>1, <3>2 DEF CreateContext
  <2> QED BY <1>3, <2>1, <2>2, <2>4 DEF CreateContext, Goes
<1>4. CASE ClearFlag(b)
  <2>1. loop' = [loop EXCEPT ![b] = "drain"] /\ Begun(b)
    BY <1>4 DEF ClearFlag, Goes
  <2>2. OneLoop' /\ \A c \in Blocks : c # b => ~Begun(c)'
    BY <1>1, <2>1
  <2> QED BY <1>4, <2>1, <2>2 DEF ClearFlag, Goes
<1>5. CASE Drain(b)
  <2>1. loop' = [loop EXCEPT ![b] = "test"] /\ Begun(b)
    BY <1>5 DEF Drain, Goes
  <2>2. OneLoop' /\ \A c \in Blocks : c # b => ~Begun(c)'
    BY <1>1, <2>1
  <2> QED BY <1>5, <2>1, <2>2 DEF Drain, Goes
<1>6. CASE Test(b)
  <2> DEFINE to == IF stop THEN "destroy" ELSE "poll"
  <2>1. loop' = [loop EXCEPT ![b] = to] /\ Begun(b)
    BY <1>6 DEF Test, Goes
  <2>2. to \in Phases \ {"none"}
    OBVIOUS
  <2>3. OneLoop' /\ \A c \in Blocks : c # b => ~Begun(c)'
    BY <1>1, <2>1, <2>2
  <2>4. using' = [using EXCEPT ![b] = IF stop THEN None ELSE context]
    BY <1>6 DEF Test
  <2>5. loop'[b] = "poll" => using'[b] = context
    BY <2>1, <2>4
  <2>6. live = {context} \ {None} /\ UNCHANGED <<context, live, fault>>
    BY <1>6 DEF Test, Goes
  <2>7. loop'[b] \in {"destroy", "poll"}
    BY <2>1
  <2>8. ByPhase'
    BY <2>3, <2>5, <2>6, <2>7
  <2> QED BY <2>3, <2>6, <2>8
<1>7. CASE Service(b)
  <2>1. loop[b] = "poll"
    BY <1>7 DEF Service, Goes
  <2>2. using[b] \in live \cup {None}
    BY <2>1
  <2>3. /\ loop' = [loop EXCEPT ![b] = "test"] /\ Begun(b)
        /\ UNCHANGED <<using, context, live, fault>>
    BY <1>7, <2>1, <2>2 DEF Service, Goes
  <2>4. OneLoop' /\ \A c \in Blocks : c # b => ~Begun(c)'
    BY <1>1, <2>3
  <2> QED BY <2>1, <2>3, <2>4
<1>8. CASE ContextDestroy(b)
  <2>1. loop[b] = "destroy"
    BY <1>8 DEF ContextDestroy, Goes
  <2>2. context \in live \cup {None}
    BY <2>1
  <2>3. /\ loop' = [loop EXCEPT ![b] = "forget"] /\ Begun(b)
        /\ live' = live \ {context} /\ UNCHANGED <<using, context, fault>>
    BY <1>8, <2>1, <2>2 DEF ContextDestroy, Goes
  <2>4. OneLoop' /\ \A c \in Blocks : c # b => ~Begun(c)'
    BY <1>1, <2>3
  <2>5. live' = {}
    BY <2>1, <2>3
  <2> QED BY <2>1, <2>3, <2>4, <2>5
<1>9. CASE Forget(b)
  <2>1. loop' = [loop EXCEPT ![b] = "done"] /\ Begun(b)
    BY <1>9 DEF Forget, Goes
  <2>2. OneLoop' /\ \A c \in Blocks : c # b => ~Begun(c)'
    BY <1>1, <2>1
  <2> QED BY <1>9, <2>1, <2>2 DEF Forget, Goes, None
<1> QED BY <1>3, <1>4, <1>5, <1>6, <1>7, <1>8, <1>9, Zenon DEF Run

LEMMA LifecycleStep == LifecycleInv /\ [Next]_vars => LifecycleInv'
<1> SUFFICES ASSUME LifecycleInv, [Next]_vars PROVE LifecycleInv'
  OBVIOUS
<1>1. CASE Background \/ Foreground \/ Pause
  BY <1>1, MainThread
<1>2. CASE \E b \in Blocks : Run(b)
  BY <1>2, BlockEnters, BlockShape, BlockRuns DEF LifecycleInv
<1>3. CASE UNCHANGED vars
  BY <1>3 DEF vars, appVars, ghosts, loopVars, LifecycleInv, Apart, Shape, OneLoop, ByPhase,
     Begun, Owner
<1> QED BY <1>1, <1>2, <1>3 DEF Next

-----------------------------------------------------------------------------

\* No loop polls or destroys a context that was destroyed (WebSockerServer.m:82-118),
\* whatever fails, however often the app comes back, and whenever it changes
\* sides, unless a block of -start begins while another is not over.
THEOREM ContextAliveHolds == Spec => []ContextAlive
<1>1. LifecycleInv => ContextAlive
  BY DEF LifecycleInv, Apart, Shape, ContextAlive, ByPhase, Owner
<1> QED BY LifecycleInit, LifecycleStep, <1>1, PTL DEF Spec
=============================================================================
