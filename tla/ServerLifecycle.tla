---------------------------- MODULE ServerLifecycle ----------------------------
(***************************************************************************)
(* The life of the broadcast server: -init, -start and -pause of           *)
(* src/JSCameraKit/WebSockerServer.m, and the context of libwebsockets     *)
(* (src/libwebsockets/context.c) they create and destroy.                  *)
(*                                                                         *)
(* -start puts a block on a concurrent queue.  The block creates the       *)
(* context if there is none, serves it until self.stop, destroys it, and   *)
(* forgets it.  -pause runs on the main thread when the app enters the     *)
(* background: it cancels the waiting writes, sets self.stop, and wakes    *)
(* the poll.  Nothing orders a -start after the end of the loop before it. *)
(*                                                                         *)
(* What happens while a context is served is the business of               *)
(* WebSocketServer; here a turn of the loop serves at most one event.      *)
(***************************************************************************)
EXTENDS Naturals, FiniteSets

CONSTANTS
    Wsi,        \* addresses of struct lws
    MaxStarts,  \* bound: calls of -start
    MayFail     \* lws_create_context may fail: the port is taken, no memory

Blocks == 1..MaxStarts  \* the blocks of -start, in the order of the calls
None   == 0             \* no context; a context is named after its creator

ASSUME LifecycleAssumption == MaxStarts \in Nat \ {0} /\ MayFail \in BOOLEAN

VARIABLES
    app,        \* "fore" or "back"
    pausing,    \* the step of -pause the main thread has still to take
    starts,     \* calls of -start so far
    patient,    \* the app changes sides only once the server has followed
    met,        \* a block of -start has begun before the one before it was over
    loop,       \* where each block is
    using,      \* the context its call of lws_service was given
    stop,       \* self.stop
    context,    \* self.context
    live,       \* contexts that are not destroyed
    pipe,       \* bytes in the pipe of each context
    conns,      \* the context of each connection
    clients,    \* _clients
    waiting,    \* clients with a waiter in _clientWriteablePtrs
    fault       \* the call that ended the process, if it has ended

ghosts   == <<patient, met>>
appVars  == <<app, pausing, starts, ghosts>>
loopVars == <<loop, using>>
netVars  == <<conns, clients, waiting>>
vars == <<appVars, loopVars, stop, context, live, pipe, netVars, fault>>

Init ==
    /\ app = "fore" /\ pausing = "no" /\ starts = 1
    /\ patient \in BOOLEAN /\ met = FALSE
    /\ loop = [b \in Blocks |-> IF b = 1 THEN "queued" ELSE "none"]
    /\ using = [b \in Blocks |-> None]
    /\ stop = FALSE /\ context = None /\ live = {}
    /\ pipe = [b \in Blocks |-> 0]
    /\ conns = [w \in Wsi |-> None] /\ clients = {} /\ waiting = {}
    /\ fault = "no"

Alive     == fault = "no"
Crash(how) ==
    fault' = how /\ UNCHANGED <<appVars, loopVars, stop, context, live, pipe, netVars>>

Serving(b) == loop[b] = "poll" /\ using[b] \in live

-----------------------------------------------------------------------------
(* The main thread *)

\* didEnterBackground
Background ==
    /\ Alive /\ app = "fore" /\ pausing = "no"
    /\ patient => \E b \in Blocks : loop[b] = "poll"
    /\ app' = "back" /\ pausing' = "cancel"
    /\ UNCHANGED <<starts, ghosts, loopVars, stop, context, live, pipe, netVars, fault>>

\* willEnterForeground
Foreground ==
    /\ Alive /\ app = "back" /\ pausing = "no" /\ starts < MaxStarts
    /\ patient => \A b \in Blocks : loop[b] \in {"none", "done"}
    /\ app' = "fore" /\ starts' = starts + 1
    /\ loop' = [loop EXCEPT ![starts + 1] = "queued"]
    /\ UNCHANGED <<pausing, ghosts, using, stop, context, live, pipe, netVars, fault>>

SetsFlagOnly ==     \* -pause does not wake the poll
    /\ pausing' = "no"
    /\ UNCHANGED <<app, starts, ghosts, loopVars, stop, context, live, pipe, netVars, fault>>

\* lws_cancel_service reads the context it is given: the process ends if there
\* is none yet, or if the loop has just been woken by an event, saw self.stop,
\* and destroyed it.
CancelService ==
    IF context \in live
    THEN /\ pipe' = [pipe EXCEPT ![context] = @ + 1] /\ pausing' = "no"
         /\ UNCHANGED <<app, starts, ghosts, loopVars, stop, context, live, netVars, fault>>
    ELSE Crash("wake")

\* The block of -pause, which dispatch_sync waits for.
Pause ==
    /\ Alive
    /\ \/ /\ pausing = "cancel" /\ pausing' = "flag" /\ waiting' = {}
          /\ UNCHANGED <<app, starts, ghosts, loopVars, stop, context, live, pipe, conns, clients, fault>>
       \/ /\ pausing = "flag" /\ pausing' = "wake" /\ stop' = TRUE
          /\ UNCHANGED <<app, starts, ghosts, loopVars, context, live, pipe, netVars, fault>>
       \/ pausing = "wake" /\ CancelService

-----------------------------------------------------------------------------
(* A block of -start *)

Goes(b, from, to) == Alive /\ loop[b] = from /\ loop' = [loop EXCEPT ![b] = to]

\* if(self.context == nil)
Enter(b) ==
    /\ Goes(b, "queued", IF context = None THEN "create" ELSE "clear flag")
    /\ met' = (met \/ \E c \in Blocks : loop[c] \notin {"none", "queued", "done"})
    /\ UNCHANGED <<app, pausing, starts, patient, using, stop, context, live, pipe, netVars, fault>>

\* lws_context_init_server: two contexts cannot listen on one port.
PortFree == live = {}

\* lws_create_vhost, which listens at once
CreateVhost(b) == PortFree /\ live' = live \cup {b}

\* lws_create_context makes the pipe of the poll and a vhost; a failure leaves
\* nil.
CreateContext(b) ==
    /\ Goes(b, "create", "clear flag")
    /\ \/ CreateVhost(b) /\ context' = b
       \/ (MayFail \/ ~PortFree) /\ context' = None /\ UNCHANGED live
    /\ UNCHANGED <<appVars, using, stop, pipe, netVars, fault>>

KeepFlag(b) ==      \* the stop of the last pause stays
    /\ Goes(b, "clear flag", "drain")
    /\ UNCHANGED <<appVars, using, stop, context, live, pipe, netVars, fault>>

\* self.stop = NO
ClearFlag(b) ==
    /\ Goes(b, "clear flag", "drain") /\ stop' = FALSE
    /\ UNCHANGED <<appVars, using, context, live, pipe, netVars, fault>>

\* [self cancelAllWrites]
Drain(b) ==
    /\ Goes(b, "drain", "test") /\ waiting' = {}
    /\ UNCHANGED <<appVars, using, stop, context, live, pipe, conns, clients, fault>>

\* while(!self.stop), and lws_service is called with self.context
Test(b) ==
    /\ Goes(b, "test", IF stop THEN "destroy" ELSE "poll")
    /\ using' = [using EXCEPT ![b] = IF stop THEN None ELSE context]
    /\ UNCHANGED <<appVars, stop, context, live, pipe, netVars, fault>>

\* One event of a socket of the context c, and the callback it leads to.
Event(c) ==
    \/ UNCHANGED netVars
    \/ \E w \in Wsi :
        \/ /\ conns[w] = None    \* LWS_CALLBACK_ESTABLISHED
           /\ conns' = [conns EXCEPT ![w] = c]
           /\ clients' = clients \cup {w} /\ UNCHANGED waiting
        \/ /\ conns[w] = c       \* LWS_CALLBACK_RECEIVE, answered to every client
           /\ waiting' = waiting \cup clients /\ UNCHANGED <<conns, clients>>
        \/ /\ conns[w] = c /\ w \in waiting  \* LWS_CALLBACK_SERVER_WRITEABLE
           /\ waiting' = waiting \ {w} /\ UNCHANGED <<conns, clients>>
        \/ /\ conns[w] = c       \* LWS_CALLBACK_CLOSED
           /\ conns' = [conns EXCEPT ![w] = None]
           /\ clients' = clients \ {w} /\ waiting' = waiting \ {w}

\* lws_service: without a context it returns at once; the poll returns for a
\* byte in the pipe, which it reads, for events, or after an hour.
Service(b) ==
    IF using[b] \in live \cup {None}
    THEN LET c == using[b]
         IN  /\ Goes(b, "poll", "test")
             /\ IF c = None THEN UNCHANGED <<pipe, netVars>>
                ELSE /\ pipe' = [pipe EXCEPT ![c] = IF @ > 0 THEN @ - 1 ELSE 0]
                     /\ Event(c)
             /\ UNCHANGED <<appVars, using, stop, context, live, fault>>
    ELSE Alive /\ loop[b] = "poll" /\ Crash("service")

\* lws_context_destroy closes every connection, each with its callback
\* LWS_CALLBACK_CLOSED, and frees the context; of nil it does nothing.
ContextDestroy(b) ==
    IF context \in live \cup {None}
    THEN LET gone == {w \in Wsi : context # None /\ conns[w] = context}
         IN  /\ Goes(b, "destroy", "forget")
             /\ conns' = [w \in Wsi |-> IF w \in gone THEN None ELSE conns[w]]
             /\ clients' = clients \ gone /\ waiting' = waiting \ gone
             /\ live' = live \ {context}
             /\ UNCHANGED <<appVars, using, stop, context, pipe, fault>>
    ELSE Alive /\ loop[b] = "destroy" /\ Crash("service")

KeepPointer(b) ==
    /\ Goes(b, "forget", "done")
    /\ UNCHANGED <<appVars, using, stop, context, live, pipe, netVars, fault>>

\* self.context = nil
Forget(b) ==
    /\ Goes(b, "forget", "done") /\ context' = None
    /\ UNCHANGED <<appVars, using, stop, live, pipe, netVars, fault>>

Run(b) ==
    \/ Enter(b) \/ CreateContext(b) \/ ClearFlag(b) \/ Drain(b) \/ Test(b)
    \/ Service(b) \/ ContextDestroy(b) \/ Forget(b)

-----------------------------------------------------------------------------

Next == Background \/ Foreground \/ Pause \/ \E b \in Blocks : Run(b)

\* Threads that can run do.  A poll is obliged to return only for a byte in
\* its pipe: sockets may be silent, and an hour is too long to wait for.
Fairness ==
    /\ WF_vars(Pause)
    /\ \A b \in Blocks :
        /\ WF_vars(Run(b) /\ loop[b] # "poll")
        /\ WF_vars(Service(b) /\ (using[b] \in live => pipe[using[b]] > 0))

Spec == Init /\ [][Next]_vars /\ Fairness

-----------------------------------------------------------------------------
(* Properties *)

\* A loop never polls, and never destroys, a context that was destroyed: it is
\* forgotten only after lws_context_destroy (WebSockerServer.m:116), and the
\* next loop takes a pointer that is not nil for a context it can serve.  The app
\* may change sides at any time, and call -start before the loop has ended; only
\* if its block also begins by then, nothing is sure.
ContextAlive ==
    met \/ /\ fault # "service"
           /\ \A b \in Blocks : loop[b] = "poll" => using[b] \in live \cup {None}

\* As -start would have it, with two loops at once: it is not so.
ContextAliveForTwo == fault # "service"

\* README.md:31, "Automatic background/sleep management": after -pause has
\* returned, of a patient app, the server closes every connection, forgets every client and
\* waiter, and stops listening.
PauseCloses ==
    patient /\ app = "back" /\ pausing = "no"
      ~> \/ /\ context = None /\ live = {}
            /\ \A w \in Wsi : conns[w] = None
            /\ clients = {} /\ waiting = {}
         \/ app = "fore" \/ ~Alive

\* Every -start leads to a loop that serves a context, unless none can be
\* created (then it turns without one), or the app leaves.
StartServes ==
    \A b \in Blocks :
        loop[b] = "queued"
          ~> \/ Serving(b) \/ (loop[b] = "poll" /\ using[b] = None)
             \/ app = "back" \/ ~Alive
=============================================================================
