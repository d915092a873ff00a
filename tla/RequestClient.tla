------------------------------ MODULE RequestClient ------------------------------
(***************************************************************************)
(* Pages and their requests: WebSocketController (client/src/ctrl.ts) on   *)
(* its EventEmitter, and the dispatch of WebSocketController.swift that    *)
(* answers them.                                                           *)
(*                                                                         *)
(* A page is one thread.  A task of its event loop runs to its end, then   *)
(* the continuations of settled promises run, then the next task: `micro`  *)
(* holds those continuations.  The server answers by a broadcast; pages    *)
(* number their requests from zero.                                        *)
(***************************************************************************)
EXTENDS Naturals, Sequences, FiniteSets, SequencesExt

CONSTANTS
    Pages,          \* page loads; one that is reloaded is another page
    SyncRequests,   \* requests with a handler that answers at once
    ClearRequests,  \* those of them whose handler cancels all writes first
    AsyncRequests,  \* requests with a handler that answers later
    Unhandled,      \* requests without a handler
    MaxRequests,    \* bound: requests of one page
    NoAnswer        \* a promise that is not settled

Requests == SyncRequests \cup AsyncRequests \cup Unhandled

Ids == 0..(MaxRequests - 1)
RequestIds == [page : Pages, id : Ids]
Message(p, i) == [page |-> p, id |-> i]

ASSUME ConstantsAssumption ==
    /\ MaxRequests \in Nat
    /\ SyncRequests \cap AsyncRequests = {}
    /\ Unhandled \cap (SyncRequests \cup AsyncRequests) = {}
    /\ ClearRequests \subseteq SyncRequests
    /\ NoAnswer \notin RequestIds

VARIABLES
    \* the page
    webSocket,      \* readyState of this.webSocket, "null", "unloaded" or "gone"
    connectTimer,   \* pages whose reconnection timer is armed
    made,           \* requests a page has made; their number is requestID
    promise,        \* the request whose answer settled each promise
    jsonListeners,  \* listeners of 'json-message', by the id they wait for
    openListeners,  \* once-listeners of 'open', by the id whose send waits
    timers,         \* ids whose once-listener has its timeout armed
    micro,          \* sends to go on once the current task is over
    \* the connection
    link,           \* pages that are clients of the server
    inbox,          \* events the browser has still to give to the page
    toServer,       \* requests on their way to the server
    outbox,         \* answers whose waiter is still to be called, per client
    \* the server
    running,        \* requests whose asynchronous handler is at work
    done,           \* asynchronous requests whose handler has finished
    fault           \* pages that called send on a socket that cannot send

pageVars == <<webSocket, connectTimer, made, promise, jsonListeners,
              openListeners, timers, micro, fault>>
netVars  == <<link, inbox, toServer, outbox>>
srvVars  == <<running, done>>
vars == <<pageVars, netVars, srvVars>>

SocketStates == {"unloaded", "null", "connecting", "open", "closing", "gone"}

PreIncrement(p) == Len(made[p]) + 1    \* ++requestID
requestID(p) == Len(made[p])
Loaded(p) == webSocket[p] \notin {"unloaded", "gone"}

Init ==
    /\ webSocket = [p \in Pages |-> "unloaded"]
    /\ connectTimer = {}
    /\ made = [p \in Pages |-> <<>>]
    /\ promise = [p \in Pages |-> [i \in Ids |-> NoAnswer]]
    /\ jsonListeners = [p \in Pages |-> <<>>]
    /\ openListeners = [p \in Pages |-> <<>>]
    /\ timers = [p \in Pages |-> {}]
    /\ micro = [p \in Pages |-> <<>>]
    /\ link = {}
    /\ inbox = [p \in Pages |-> <<>>]
    /\ toServer = [p \in Pages |-> <<>>]
    /\ outbox = [p \in Pages |-> <<>>]
    /\ running = {} /\ done = {} /\ fault = {}

-----------------------------------------------------------------------------
(* EventEmitter *)

\* The next listener of the array is called: the live one, so that when one that
\* is leaving calls off for itself the element after it is at its place, and the
\* index goes on.  The calls that matter are those of the listeners in heard.
Call(s, leaving, heard) ==
    IF s.i > Len(s.rest) THEN s
    ELSE [i |-> s.i + 1,
          called |-> IF s.rest[s.i] \in heard THEN Append(s.called, s.rest[s.i]) ELSE s.called,
          rest |-> IF s.rest[s.i] \in leaving THEN RemoveAt(s.rest, s.i) ELSE s.rest]

\* forEach
EmitNoOff(list, leaving, heard) ==    \* listeners stay
    [called |-> list, rest |-> list]
Emit(list, leaving, heard) ==
    LET step[n \in 0..Len(list)] ==
            IF n = 0 THEN [i |-> 1, called |-> <<>>, rest |-> list]
            ELSE Call(step[n - 1], leaving, heard)
    IN step[Len(list)]

-----------------------------------------------------------------------------
(* The page *)

\* A task may start: the continuations of the one before have run.
Idle(p) == Loaded(p) /\ micro[p] = <<>>

\* new WebSocket; the handlers of the socket before it were taken off by clear.
Connect(p) ==
    /\ webSocket' = [webSocket EXCEPT ![p] = "connecting"]
    /\ inbox' = [inbox EXCEPT ![p] = <<>>]

\* The constructor.
Load(p) ==
    /\ webSocket[p] = "unloaded"
    /\ Connect(p)
    /\ UNCHANGED <<connectTimer, made, promise, jsonListeners, openListeners,
                   timers, micro, fault, link, toServer, outbox, srvVars>>

\* The page goes away, and its connection with it.  A photo it asked for is
\* still taken.
Unload(p) ==
    /\ Loaded(p)
    /\ webSocket' = [webSocket EXCEPT ![p] = "gone"]
    /\ made' = [made EXCEPT ![p] = <<>>]
    /\ promise' = [promise EXCEPT ![p] = [i \in Ids |-> NoAnswer]]
    /\ jsonListeners' = [jsonListeners EXCEPT ![p] = <<>>]
    /\ openListeners' = [openListeners EXCEPT ![p] = <<>>]
    /\ timers' = [timers EXCEPT ![p] = {}]
    /\ micro' = [micro EXCEPT ![p] = <<>>]
    /\ connectTimer' = connectTimer \ {p}
    /\ inbox' = [inbox EXCEPT ![p] = <<>>]
    /\ link' = link \ {p}
    /\ outbox' = [outbox EXCEPT ![p] = <<>>]
    /\ toServer' = [toServer EXCEPT ![p] = <<>>]
    /\ UNCHANGED <<srvVars, fault>>

\* waitForSocket as far as its caller's await: the send of request i goes on
\* when this task is over, or when 'open' is emitted.
WaitNonNull(p, i) ==    \* the readyState is not looked at
    IF webSocket[p] # "null"
    THEN /\ micro' = [micro EXCEPT ![p] = Append(@, i)]
         /\ UNCHANGED <<openListeners, timers>>
    ELSE /\ openListeners' = [openListeners EXCEPT ![p] = Append(@, i)]
         /\ timers' = [timers EXCEPT ![p] = @ \cup {i}]
         /\ UNCHANGED micro
WaitForSocket(p, i) ==
    IF webSocket[p] = "open"
    THEN /\ micro' = [micro EXCEPT ![p] = Append(@, i)]
         /\ UNCHANGED <<openListeners, timers>>
    ELSE /\ openListeners' = [openListeners EXCEPT ![p] = Append(@, i)]
         /\ timers' = [timers EXCEPT ![p] = @ \cup {i}]
         /\ UNCHANGED micro

\* request
Request(p) ==
    /\ Idle(p) /\ Len(made[p]) < MaxRequests
    /\ \E what \in Requests : made' = [made EXCEPT ![p] = Append(@, what)]
    /\ jsonListeners' = [jsonListeners EXCEPT ![p] = Append(@, requestID(p))]
    /\ WaitForSocket(p, requestID(p))
    /\ UNCHANGED <<webSocket, connectTimer, promise, fault, netVars, srvVars>>

\* The rest of send.  A socket that is closing drops what it is given; one that
\* is null or still connecting throws.
Send(p) ==
    /\ micro[p] # <<>>
    /\ micro' = [micro EXCEPT ![p] = Tail(@)]
    /\ toServer' = IF p \in link /\ webSocket[p] = "open"
                   THEN [toServer EXCEPT ![p] = Append(@, Head(micro[p]))]
                   ELSE toServer
    /\ fault' = IF webSocket[p] \in {"null", "connecting"}
                THEN fault \cup {p} ELSE fault
    /\ UNCHANGED <<webSocket, connectTimer, made, promise, jsonListeners,
                   openListeners, timers, link, inbox, outbox, srvVars>>

\* The timeout of once rejects the promise of its send, which nobody looks at.
\* Its listener stays.
Timeout(p) ==
    /\ Idle(p)
    /\ \E i \in timers[p] : timers' = [timers EXCEPT ![p] = @ \ {i}]
    /\ UNCHANGED <<webSocket, connectTimer, made, promise, jsonListeners,
                   openListeners, micro, fault, netVars, srvVars>>

Next_(p, event) ==
    /\ Idle(p) /\ inbox[p] # <<>> /\ Head(inbox[p]).event = event
    /\ inbox' = [inbox EXCEPT ![p] = Tail(@)]

\* onopen: every listener called takes itself off, stops its timer and resolves,
\* which makes the sends go on whose promise had not been rejected.
OnOpen(p) ==
    LET out == Emit(openListeners[p], Ids, timers[p])
    IN  /\ Next_(p, "open")
        /\ webSocket' = [webSocket EXCEPT ![p] = "open"]
        /\ openListeners' = [openListeners EXCEPT ![p] = out.rest]
        /\ timers' = [timers EXCEPT ![p] = @ \ ToSet(out.called)]
        /\ micro' = [micro EXCEPT ![p] = out.called]
        /\ UNCHANGED <<connectTimer, made, promise, jsonListeners, fault, link,
                       toServer, outbox, srvVars>>

\* onmessage with an answer: the listener of its id takes itself off and
\* resolves the promise of its request.
AnyAnswer(p, answer) == ToSet(jsonListeners[p])    \* the id is not compared
Matching(p, answer) == ToSet(jsonListeners[p]) \cap {answer.id}

OnMessage(p) ==
    LET answer == Head(inbox[p]).answer
        leaving == Matching(p, answer)
        out == Emit(jsonListeners[p], leaving, leaving)
    IN  /\ Next_(p, "message")
        /\ jsonListeners' = [jsonListeners EXCEPT ![p] = out.rest]
        /\ promise' = [promise EXCEPT ![p] =
                [i \in Ids |-> IF i \in ToSet(out.called) THEN answer ELSE @[i]]]
        /\ UNCHANGED <<webSocket, connectTimer, made, openListeners, timers,
                       micro, fault, link, toServer, outbox, srvVars>>

\* The close handshake has begun.
OnClosing(p) ==
    /\ Next_(p, "closing")
    /\ webSocket' = [webSocket EXCEPT ![p] = "closing"]
    /\ UNCHANGED <<connectTimer, made, promise, jsonListeners, openListeners,
                   timers, micro, fault, link, toServer, outbox, srvVars>>

\* onclose: the socket is cleared, and a timer armed unless there is one.
ClearOnly(p) ==    \* no timer
    webSocket' = [webSocket EXCEPT ![p] = "null"] /\ UNCHANGED connectTimer
ArmReconnect(p) ==
    /\ webSocket' = [webSocket EXCEPT ![p] = "null"]
    /\ connectTimer' = connectTimer \cup {p}

OnClose(p) ==
    /\ Next_(p, "close")
    /\ ArmReconnect(p)
    /\ UNCHANGED <<made, promise, jsonListeners, openListeners, timers, micro,
                   fault, link, toServer, outbox, srvVars>>

\* The reconnection timer.
Reconnect(p) ==
    /\ Idle(p) /\ p \in connectTimer
    /\ Connect(p)
    /\ connectTimer' = connectTimer \ {p}
    /\ UNCHANGED <<made, promise, jsonListeners, openListeners, timers, micro,
                   fault, link, toServer, outbox, srvVars>>

-----------------------------------------------------------------------------
(* The connection: the browser, the network and the server's clients *)

Event(e) == [event |-> e, answer |-> NoAnswer]

\* The handshake succeeds, or the server cannot be reached.
Accept(p) ==
    /\ webSocket[p] = "connecting" /\ p \notin link /\ inbox[p] = <<>>
    /\ link' = link \cup {p}
    /\ inbox' = [inbox EXCEPT ![p] = <<Event("open")>>]
    /\ toServer' = [toServer EXCEPT ![p] = <<>>]
    /\ UNCHANGED <<pageVars, outbox, srvVars>>

Refuse(p) ==
    /\ webSocket[p] = "connecting" /\ p \notin link /\ inbox[p] = <<>>
    /\ inbox' = [inbox EXCEPT ![p] = <<Event("close")>>]
    /\ UNCHANGED <<pageVars, link, toServer, outbox, srvVars>>

\* The connection is lost, with everything in it; -onConnectionClose cancels the
\* waiters of the client.
Drop(p) ==
    /\ p \in link
    /\ link' = link \ {p}
    /\ outbox' = [outbox EXCEPT ![p] = <<>>]
    /\ toServer' = [toServer EXCEPT ![p] = <<>>]
    /\ \E last \in {<<Event("close")>>, <<Event("closing"), Event("close")>>} :
         inbox' = [inbox EXCEPT ![p] = @ \o last]
    /\ UNCHANGED <<pageVars, srvVars>>

\* The client is writable, and its first waiter is called.
Write(p) ==
    /\ outbox[p] # <<>>
    /\ inbox' = [inbox EXCEPT ![p] =
            Append(@, [event |-> "message", answer |-> Head(outbox[p])])]
    /\ outbox' = [outbox EXCEPT ![p] = Tail(@)]
    /\ UNCHANGED <<pageVars, link, toServer, srvVars>>

-----------------------------------------------------------------------------
(* The server *)

\* writeJSON with the id of the request: to every client, whoever asked.
WriteJSON(answer, boxes) ==
    [p \in Pages |-> IF p \in link THEN Append(boxes[p], answer) ELSE boxes[p]]

\* onMessageStringBlock and processMessage.  A request without a handler is
\* dropped.  A page that has gone may have left requests behind.
DispatchAsync(p, i, what) ==    \* processMessage without its second branch
    /\ running' = running \cup (IF what \in AsyncRequests
                                THEN {Message(p, i)} ELSE {})
    /\ UNCHANGED outbox
Dispatch(p, i, what) ==
    IF what \in AsyncRequests
    THEN running' = running \cup {Message(p, i)} /\ UNCHANGED outbox
    ELSE /\ outbox' = IF what \in SyncRequests
                      THEN WriteJSON(Message(p, i),
                               IF what \in ClearRequests
                               THEN [q \in Pages |-> <<>>] ELSE outbox)
                      ELSE outbox
         /\ UNCHANGED running

Receive(p) ==
    /\ p \in link /\ toServer[p] # <<>>
    /\ toServer' = [toServer EXCEPT ![p] = Tail(@)]
    /\ Dispatch(p, Head(toServer[p]), made[p][Head(toServer[p]) + 1])
    /\ UNCHANGED <<pageVars, link, inbox, done>>

\* The handler of a photo calls back, on a thread of the capture queue.
Finish ==
    \E r \in running :
        /\ running' = running \ {r}
        /\ done' = done \cup {r}
        /\ outbox' = WriteJSON(r, outbox)
        /\ UNCHANGED <<pageVars, link, inbox, toServer>>

\* A photo that is not taken, cannot be read, or is not found among those that
\* were to be saved: nobody calls back, and nobody is answered.
PhotoFails ==
    /\ \E r \in running : running' = running \ {r}
    /\ UNCHANGED <<pageVars, netVars, done>>

-----------------------------------------------------------------------------

PageTask(p) ==
    \/ OnOpen(p) \/ OnMessage(p) \/ OnClosing(p) \/ OnClose(p) \/ Reconnect(p)
    \/ Send(p)

Network(p) == Accept(p) \/ Refuse(p) \/ Drop(p) \/ Write(p)

Next ==
    \/ \E p \in Pages :
         \/ Load(p) \/ Unload(p) \/ Request(p) \/ Timeout(p)
         \/ PageTask(p) \/ Network(p) \/ Receive(p)
    \/ Finish \/ PhotoFails

Spec == Init /\ [][Next]_vars

\* Pages run their tasks; the server serves its clients.
FairPage(p) == WF_vars(PageTask(p)) /\ WF_vars(Write(p)) /\ WF_vars(Receive(p))

\* A server that is up accepts a page that goes on trying.  A photo comes to an
\* end, one or the other.
Fairness ==
    /\ WF_vars(Finish \/ PhotoFails)
    /\ \A p \in Pages : FairPage(p) /\ SF_vars(Accept(p)) /\ SF_vars(OnOpen(p))

FairSpec == Spec /\ Fairness

-----------------------------------------------------------------------------
(* Properties *)

TypeOK ==
    /\ webSocket \in [Pages -> SocketStates]
    /\ connectTimer \subseteq Pages /\ link \subseteq Pages
    /\ \A p \in Pages : made[p] \in Seq(Requests)
    /\ promise \in [Pages -> [Ids -> RequestIds \cup {NoAnswer}]]
    /\ \A p \in Pages :
         /\ jsonListeners[p] \in Seq(Ids) /\ openListeners[p] \in Seq(Ids)
         /\ micro[p] \in Seq(Ids) /\ toServer[p] \in Seq(Ids)
         /\ timers[p] \subseteq Ids
         /\ outbox[p] \in Seq(RequestIds)
    /\ running \subseteq RequestIds /\ done \subseteq RequestIds
    /\ fault \subseteq Pages

\* A page that has no socket has a reconnection timer, and the timer runs only
\* then: it never has two sockets, nor waits for nothing (clear, connectTimer).
SocketOrTimer ==
    \A p \in Pages : p \in connectTimer <=> webSocket[p] = "null"

\* A request of a loaded page that is not answered has one listener, whatever
\* listeners come and go while answers are emitted; an answered one has none.
PendingHasListener ==
    \A p \in Pages : Loaded(p) =>
        \A i \in Ids :
            Cardinality({n \in DOMAIN jsonListeners[p] : jsonListeners[p][n] = i})
              = IF i < Len(made[p]) /\ promise[p][i] = NoAnswer THEN 1 ELSE 0

\* Between the await of send and its use of the socket, the socket cannot be lost
\* nor be one that still connects.
SendsOnOpenSocket == fault = {}

\* The promise of capturePhoto resolves when that photo was saved
\* (README.md:112, `.then(() => console.log('Photo saved to CameraRoll'))`).
PhotoMeansSaved ==
    \A p \in Pages, i \in Ids :
        /\ promise[p][i] # NoAnswer
        /\ made[p][i + 1] \in AsyncRequests
        => Message(p, i) \in done

\* The answer a page's request resolves with is its own, as long as no other page
\* was ever there, whatever is lost and made again.
AloneGetsOwn ==
    \A p \in Pages, i \in Ids :
        /\ promise[p][i] # NoAnswer
        /\ \A q \in Pages \ {p} : webSocket[q] = "unloaded"
        => /\ promise[p][i] = Message(p, i)
           /\ made[p][i + 1] \in AsyncRequests => Message(p, i) \in done

\* A send whose timeout still runs waits for a socket to open (eventemitter.ts:28
\* says "Timout! Waited 5000ms" when it ends).
WaitersHearOpen ==
    \A p \in Pages : webSocket[p] = "open" => timers[p] = {}

\* A page that stays is connected again and again, whatever is lost or refused.
AlwaysReconnects ==
    \A p \in Pages :
        []<>(webSocket[p] = "open" \/ ~Loaded(p))

\* The server has forgotten a request it got, and will not answer it.
Abandoned(p, i) ==
    /\ i < Len(made[p]) /\ made[p][i + 1] \in AsyncRequests
    /\ i \notin ToSet(toServer[p]) /\ Message(p, i) \notin running \cup done

\* A request that was sent is answered, if it has a handler and its connection
\* lasts, and no request cancels what is still to be written.  A photo may fail:
\* then its page waits for ever (AVRecorder.swift:141, :157, :200).
SentIsAnswered ==
    \A p \in Pages, i \in Ids :
        (/\ i \in ToSet(toServer[p])
         /\ made[p][i + 1] \notin Unhandled)
            ~> \/ webSocket[p] # "open" \/ p \notin link
               \/ promise[p][i] # NoAnswer
               \/ Abandoned(p, i)
               \/ \E q \in Pages : ToSet(made[q]) \cap ClearRequests # {}
=============================================================================
