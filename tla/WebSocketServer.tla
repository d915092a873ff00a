---------------------------- MODULE WebSocketServer ----------------------------
(***************************************************************************)
(* The broadcast server of JSCameraKit (src/JSCameraKit/WebSockerServer.m) *)
(* on the libwebsockets event loop it runs on.                             *)
(*                                                                         *)
(* One service thread runs the loop of -start.  It polls the sockets, and  *)
(* calls back into the server when a client connects, sends a message, is  *)
(* writable or has gone.  Capture threads call -writeDatas and             *)
(* -writeString concurrently.  Nobody may call lws_write outside of the    *)
(* writable callback of its client, so a broadcast queues one waiter per   *)
(* client (-waitForWriteable), asks libwebsockets for the callback and     *)
(* wakes the poll through a pipe, once per turn of the loop (canCancel).   *)
(*                                                                         *)
(* A broadcast ("job") is the dispatch group of one -writeDatas or         *)
(* -writeString call.  The two parallel arrays of waiters are modelled as  *)
(* one queue per client pointer: both readers of the arrays only ever look *)
(* for the entries of one pointer, in order.                               *)
(*                                                                         *)
(* -pause and the end of the loop only happen on iOS, and are left out.    *)
(***************************************************************************)
EXTENDS Naturals, Integers, Sequences, FiniteSets

CONSTANTS
    Wsi,        \* addresses of struct lws; an address is reused after a close
    Writers,    \* threads of the capture queue
    svc,        \* the service thread
    DataJobs,   \* bound: calls of -writeDatas that are under way
    StringJobs, \* bound: calls of -writeString that are under way
    NoWsi, NoThread

Threads == Writers \cup {svc}
Jobs    == DataJobs \cup StringJobs

ASSUME ConstantsAssumption ==
    /\ svc \notin Writers
    /\ NoThread \notin Writers \cup {svc}
    /\ NoWsi \notin Wsi
    /\ DataJobs \cap StringJobs = {}
    /\ IsFiniteSet(Wsi)

VARIABLES
    \* libwebsockets
    conn,       \* state of each connection
    pollout,    \* sockets whose pollfd asks for POLLOUT
    pollset,    \* those that did when poll() was entered
    revOut,     \* POLLOUT events of this turn, still to be serviced
    revIn,      \* POLLIN or POLLHUP events of this turn, still to be serviced
    trunc,      \* connections with a truncated send stored (trunc_len # 0)
    choked,     \* sockets whose send buffer is full
    pipe,       \* bytes in the pipe of lws_cancel_service
    \* WebSocketServer
    clients,    \* _clients
    pending,    \* _clientWriteableCallbacks, by _clientWriteablePtrs
    mutex,      \* holder of _clientWriteableMutex
    canCancel,  \* self.canCancel
    group,      \* count of the dispatch group of each job
    phase,      \* progress of each job
    \* threads
    spc,        \* where the service thread is
    cur,        \* the connection it calls back for
    script,     \* jobs a thread has still to broadcast
    bpc,        \* where a thread is in its broadcast
    todo,       \* clients its enumeration has still to visit
    at,         \* the client it visits
    mutated,    \* threads whose array of clients changed under their enumeration
    raced,      \* threads whose list of connections changed under their walk
    fault       \* how the process ended, if it has

netVars    == <<conn, trunc, choked>>
pollVars   == <<pollset, revOut, revIn>>
jobVars    == <<group, phase>>
threadVars == <<script, bpc, todo, at>>
raceVars   == <<mutated, raced>>
vars == <<netVars, pollVars, pollout, pipe, clients, pending, mutex, canCancel,
          jobVars, spc, cur, threadVars, raceVars, fault>>

-----------------------------------------------------------------------------
(* The state *)

\* LWSS_ESTABLISHED, LWSS_RETURNED_CLOSE_ALREADY, LWSS_FLUSHING_STORED_SEND_
\* BEFORE_CLOSE, LWSS_SHUTDOWN, and socket_is_permanently_unusable
ConnStates == {"none", "open", "replying", "flushing", "shutdown", "dead"}

Open(w) == conn[w] = "open"

\* Connections lws_callback_on_writable does not return early for.
Armable == {w \in Wsi : conn[w] \in {"open", "replying", "flushing"}}

EntriesOf(j, ws) ==
    {e \in UNION {{w} \X DOMAIN pending[w] : w \in ws} : pending[e[1]][e[2]] = j}

Waiting(w) == pending[w] # <<>>

Init ==
    /\ conn = [w \in Wsi |-> "none"]
    /\ pollout = {} /\ pollset = {} /\ revOut = {} /\ revIn = {}
    /\ trunc = {} /\ choked = {} /\ pipe = 0
    /\ clients = {}
    /\ pending = [w \in Wsi |-> <<>>]
    /\ mutex = NoThread
    /\ canCancel = FALSE
    /\ group = [j \in Jobs |-> 0]
    /\ phase = [j \in Jobs |-> "free"]
    /\ spc = "enter" /\ cur = NoWsi
    /\ script = [t \in Threads |-> <<>>]
    /\ bpc = [t \in Threads |-> "idle"]
    /\ todo = [t \in Threads |-> {}]
    /\ at = [t \in Threads |-> NoWsi]
    /\ mutated = {} /\ raced = {}
    /\ fault = "none"

Alive == fault = "none"

-----------------------------------------------------------------------------
(* Waiters *)

\* cb(nil) for every waiter of the clients ws, which are then forgotten.  The
\* waiter of a -writeDatas leaves its group, the waiter of a -writeString
\* returns before it does.
FirstOnly(ws) ==    \* the loop stops after its first match
    [w \in Wsi |-> IF w \in ws /\ Waiting(w) THEN Tail(pending[w]) ELSE pending[w]]
WithoutWaiters(ws) == [w \in Wsi |-> IF w \in ws THEN <<>> ELSE pending[w]]

NeverLeft(ws) == group    \* the waiters of -writeDatas return early as well
LeftBy(ws) ==
    [j \in Jobs |-> IF j \in DataJobs
                    THEN group[j] - Cardinality(EntriesOf(j, ws))
                    ELSE group[j]]

Cancelled(ws) == pending' = WithoutWaiters(ws) /\ group' = LeftBy(ws)

\* lws_write of a whole message to w, from a waiter called with w.  A send that
\* comes while an earlier one is still stored runs into assert(0).
LwsWrite(w) ==
    \/ /\ w \in trunc
       /\ fault' = "illegalWrite"
       /\ UNCHANGED <<netVars, pollout>>
    \/ /\ w \notin trunc /\ Open(w)
       /\ UNCHANGED <<netVars, pollout, fault>>
    \/ /\ w \notin trunc /\ Open(w)
       /\ trunc' = trunc \cup {w} /\ choked' = choked \cup {w}
       /\ pollout' = pollout \cup {w}
       /\ UNCHANGED <<conn, fault>>
    \/ /\ w \notin trunc
       /\ conn' = [conn EXCEPT ![w] = "dead"]
       /\ UNCHANGED <<trunc, choked, pollout, fault>>

\* The waiter at the head of the queue of w, called with w.
Served(w) ==
    LET j == Head(pending[w])
    IN  /\ LwsWrite(w)
        /\ group' = [group EXCEPT ![j] = @ - 1]
        /\ pending' = [pending EXCEPT ![w] = Tail(@)]

-----------------------------------------------------------------------------
(* Broadcasts: -writeDatas and -writeString, on any thread *)

\* The connections and the array of clients change under the threads that walk
\* them without a lock.
Enumerating == {"enum", "append", "walk", "cancel", "wake"}

ListChanges ==
    raced' = raced \cup {t \in Threads : bpc[t] = "walk"}
ArrayChanges ==
    mutated' = mutated \cup {t \in Threads : bpc[t] \in Enumerating}

\* Thread t is about to make the calls jobs, after cancelAllWrites if clear.
Start(t, jobs, clear) ==
    /\ \A i \in DOMAIN jobs : phase[jobs[i]] = "free"
    /\ phase' = [j \in Jobs |-> IF \E i \in DOMAIN jobs : jobs[i] = j
                                THEN "called" ELSE phase[j]]
    /\ script' = [script EXCEPT ![t] = jobs]
    /\ bpc' = [bpc EXCEPT ![t] = IF clear THEN "clear" ELSE "call"]

\* A capture thread has a frame (two planes) or the answer about a photo.
Capture(t) ==
    /\ Alive /\ bpc[t] = "idle"
    /\ \/ \E y, uv \in DataJobs : y # uv /\ Start(t, <<y, uv>>, FALSE)
       \/ \E s \in StringJobs : Start(t, <<s>>, FALSE)
    /\ UNCHANGED <<netVars, pollVars, pollout, pipe, clients, pending, mutex,
                   canCancel, group, spc, cur, todo, at, raceVars, fault>>

CancelAllWrites(t) ==
    /\ Alive /\ bpc[t] = "clear" /\ mutex = NoThread
    /\ Cancelled(Wsi)
    /\ bpc' = [bpc EXCEPT ![t] = "call"]
    /\ UNCHANGED <<netVars, pollVars, pollout, pipe, clients, mutex, canCancel,
                   phase, spc, cur, script, todo, at, raceVars, fault>>

\* The thread goes on with its next job, the one at hand being left in phase p.
NextJob(t, p) ==
    /\ phase' = [phase EXCEPT ![Head(script[t])] = p]
    /\ script' = [script EXCEPT ![t] = Tail(@)]
    /\ bpc' = [bpc EXCEPT ![t] = IF Len(script[t]) = 1 THEN "idle" ELSE "call"]

\* With no client, the completion block runs at once.
Broadcast(t) ==
    /\ Alive /\ bpc[t] = "call"
    /\ IF clients = {}
       THEN NextJob(t, "free") /\ UNCHANGED <<todo, mutated>>
       ELSE /\ bpc' = [bpc EXCEPT ![t] = "enum"]
            /\ todo' = [todo EXCEPT ![t] = clients]
            /\ mutated' = mutated \ {t}
            /\ UNCHANGED <<phase, script>>
    /\ UNCHANGED <<netVars, pollVars, pollout, pipe, clients, pending, mutex,
                   canCancel, group, spc, cur, at, raced, fault>>

\* -eachClient and dispatch_group_enter.
Visit(t) ==
    /\ Alive /\ bpc[t] = "enum" /\ t \notin mutated
    /\ \E w \in todo[t] :
         /\ at' = [at EXCEPT ![t] = w]
         /\ todo' = [todo EXCEPT ![t] = @ \ {w}]
    /\ group' = [group EXCEPT ![Head(script[t])] = @ + 1]
    /\ bpc' = [bpc EXCEPT ![t] = "append"]
    /\ UNCHANGED <<netVars, pollVars, pollout, pipe, clients, pending, mutex,
                   canCancel, phase, spc, cur, script, raceVars, fault>>

\* Fast enumeration raises an exception when it fetches an element of an array
\* that has changed.
EnumerationMutated(t) ==
    /\ Alive /\ bpc[t] = "enum" /\ t \in mutated
    /\ fault' = "enumeration"
    /\ UNCHANGED <<netVars, pollVars, pollout, pipe, clients, pending, mutex,
                   canCancel, jobVars, spc, cur, threadVars, raceVars>>

\* The enumeration is over and the wait for the group is on the queue.
Submit(t) ==
    /\ Alive /\ bpc[t] = "enum" /\ todo[t] = {}
    /\ NextJob(t, "waiting")
    /\ UNCHANGED <<netVars, pollVars, pollout, pipe, clients, pending, mutex,
                   canCancel, group, spc, cur, todo, at, raceVars, fault>>

\* -waitForWriteable takes the mutex and adds the waiter.
Append_(t) ==
    /\ Alive /\ bpc[t] = "append" /\ mutex = NoThread
    /\ mutex' = t
    /\ pending' = [pending EXCEPT ![at[t]] = Append(@, Head(script[t]))]
    /\ bpc' = [bpc EXCEPT ![t] = "walk"]
    /\ raced' = raced \ {t}
    /\ UNCHANGED <<netVars, pollVars, pollout, pipe, clients, canCancel, jobVars,
                   spc, cur, script, todo, at, mutated, fault>>

\* lws_callback_on_writable_all_protocol walks the list of connections.  The
\* list may have changed since the walk began, and the walk then reads a freed
\* connection, fails an assertion, or gets through.
Arm(t) ==
    /\ Alive /\ bpc[t] = "walk"
    /\ \/ /\ pollout' = pollout \cup Armable
          /\ bpc' = [bpc EXCEPT ![t] = "cancel"]
          /\ UNCHANGED fault
       \/ /\ t \in raced
          /\ fault' = "listWalk"
          /\ UNCHANGED <<pollout, bpc>>
    /\ UNCHANGED <<netVars, pollVars, pipe, clients, pending, mutex, canCancel,
                   jobVars, spc, cur, script, todo, at, raceVars>>

TestCanCancel(t) ==
    /\ Alive /\ bpc[t] = "cancel"
    /\ canCancel' = FALSE
    /\ IF canCancel
       THEN bpc' = [bpc EXCEPT ![t] = "wake"] /\ UNCHANGED mutex
       ELSE bpc' = [bpc EXCEPT ![t] = "enum"] /\ mutex' = NoThread
    /\ UNCHANGED <<netVars, pollVars, pollout, pipe, clients, pending, jobVars,
                   spc, cur, script, todo, at, raceVars, fault>>

\* lws_cancel_service writes a byte to the pipe.
Wake(t) ==
    /\ Alive /\ bpc[t] = "wake"
    /\ pipe' = pipe + 1
    /\ mutex' = NoThread
    /\ bpc' = [bpc EXCEPT ![t] = "enum"]
    /\ UNCHANGED <<netVars, pollVars, pollout, clients, pending, canCancel,
                   jobVars, spc, cur, script, todo, at, raceVars, fault>>

NotAwaited(j) == TRUE    \* dispatch_group_wait with a timeout of zero
GroupEmpty(j) == group[j] = 0

\* dispatch_group_wait returns and the completion block runs.
Complete(j) ==
    /\ Alive /\ phase[j] = "waiting" /\ GroupEmpty(j)
    /\ phase' = [phase EXCEPT ![j] = "free"]
    /\ UNCHANGED <<netVars, pollVars, pollout, pipe, clients, pending, mutex,
                   canCancel, group, spc, cur, threadVars, raceVars, fault>>

-----------------------------------------------------------------------------
(* The service loop: lws_service and the rest of the body of -start *)

serverVars == <<clients, mutex, canCancel, phase, threadVars>>

PollEnter ==
    /\ Alive /\ spc = "enter"
    /\ spc' = "poll"
    /\ pollset' = pollout
    /\ UNCHANGED <<netVars, revOut, revIn, pollout, pipe, pending, group,
                   serverVars, cur, raceVars, fault>>

BlindRead == pipe - 1    \* the pipe is read in every turn
NotRead == pipe          \* the pipe is never read
BytesLeft == IF pipe > 0 THEN pipe - 1 ELSE 0

\* poll() returns when a socket it was told to watch is writable, when there is
\* input or when the pipe is readable, and one byte is then read from the pipe.
\* A broken socket is always ready, other input comes when it pleases.  The
\* timeout of one hour is left out.
PollReturn ==
    /\ Alive /\ spc = "poll"
    /\ revOut' = pollset \ choked
    /\ \E input \in SUBSET {w \in Wsi : conn[w] # "dead"} :
         revIn' = input \cup {w \in Wsi : conn[w] = "dead"}
    /\ pipe > 0 \/ revOut' \cup revIn' # {}
    /\ pipe' = BytesLeft
    /\ spc' = "fds" /\ pollset' = {}
    /\ UNCHANGED <<netVars, pollout, pending, group, serverVars, cur, raceVars,
                   fault>>

HandlersElsewhere == Alive /\ spc = "fds"    \* handlers run on another thread

\* lws_service_fd_tsi is between two calls to the user, none of whose handlers
\* is running.
Servicing == Alive /\ spc = "fds" /\ bpc[svc] = "idle"

StoredOrNot(w) == w \in revOut    \* the user is asked while a send is stored
UserTurn(w) == w \in revOut \ trunc

\* remove_wsi_socket_from_fds, then the CLOSED callback.
Kill(w) ==
    /\ conn' = [conn EXCEPT ![w] = "none"]
    /\ pollout' = pollout \ {w}
    /\ trunc' = trunc \ {w} /\ choked' = choked \ {w}
    /\ revOut' = revOut \ {w} /\ revIn' = revIn \ {w}
    /\ ListChanges
    /\ spc' = "closed" /\ cur' = w
    /\ UNCHANGED <<pollset, pipe, pending, group, serverVars, mutated, fault>>

\* lws_close_free_wsi of a connection that still works: what is stored is sent
\* first, then the socket is shut down and waits for its peer.
CloseFreeWsi(w) ==
    /\ conn' = [conn EXCEPT ![w] = IF w \in trunc THEN "flushing" ELSE "shutdown"]
    /\ pollout' = IF w \in trunc THEN pollout \cup {w} ELSE pollout \ {w}

\* The slot of a connection that closes but still has its socket is serviced
\* again, and counted twice: the events of one ready socket, maybe its own or that
\* of the listener, are left for the next poll to report.
Retried(w) ==
    \E o \in Wsi \cup {NoWsi} : revOut' = revOut \ {w, o} /\ revIn' = revIn \ {o}

\* Priority 1 of lws_handle_POLLOUT_event: send what is stored, all of it or not
\* all.  A connection that only waited for that is closed.
FlushTruncated(w) ==
    /\ Servicing /\ w \in revOut \cap trunc
    /\ \/ /\ trunc' = trunc \ {w}
          /\ IF conn[w] = "flushing"
             THEN /\ conn' = [conn EXCEPT ![w] = "shutdown"]
                  /\ pollout' = pollout \ {w}
                  /\ Retried(w)
             ELSE /\ pollout' = pollout \cup {w}
                  /\ revOut' = revOut \ {w}
                  /\ UNCHANGED <<conn, revIn>>
          /\ UNCHANGED choked
       \/ /\ choked' = choked \cup {w} /\ pollout' = pollout \cup {w}
          /\ revOut' = revOut \ {w}
          /\ UNCHANGED <<conn, trunc, revIn>>
    /\ UNCHANGED <<pollset, pipe, pending, group, serverVars, spc, cur,
                   raceVars, fault>>

\* Priority 3: the reply to a close frame, after which the connection closes, or
\* is flushed first when the reply was truncated.
ReplyToClose(w) ==
    /\ Servicing /\ w \in revOut \ trunc /\ conn[w] = "replying"
    /\ Retried(w)
    /\ \/ CloseFreeWsi(w) /\ UNCHANGED <<trunc, choked>>
       \/ /\ trunc' = trunc \cup {w} /\ choked' = choked \cup {w}
          /\ conn' = [conn EXCEPT ![w] = "flushing"]
          /\ pollout' = pollout \cup {w}
    /\ UNCHANGED <<pollset, pipe, pending, group, serverVars, spc, cur,
                   raceVars, fault>>

\* The user's turn: POLLOUT is one-shot.
Writable(w) ==
    /\ Servicing /\ UserTurn(w) /\ conn[w] \in {"open", "dead"}
    /\ revOut' = revOut \ {w}
    /\ pollout' = pollout \ {w}
    /\ spc' = "writable" /\ cur' = w
    /\ UNCHANGED <<netVars, pollset, revIn, pipe, pending, group, serverVars,
                   raceVars, fault>>

\* The first waiter of the client, under the mutex.
OnClientWritable ==
    /\ Alive /\ spc = "writable" /\ mutex = NoThread
    /\ IF Waiting(cur)
       THEN Served(cur)
       ELSE UNCHANGED <<netVars, pollout, pending, group, fault>>
    /\ spc' = "fds" /\ cur' = NoWsi
    /\ UNCHANGED <<pollVars, pipe, serverVars, raceVars>>

\* The handshake of a new connection is complete: it joins the list of its
\* protocol and the ESTABLISHED callback adds it to the clients, unlocked.
Establish(w) ==
    /\ Servicing /\ w \in revIn /\ conn[w] = "none"
    /\ revIn' = revIn \ {w}
    /\ conn' = [conn EXCEPT ![w] = "open"]
    /\ clients' = clients \cup {w}
    /\ ListChanges /\ ArrayChanges
    /\ UNCHANGED <<trunc, choked, pollset, revOut, pollout, pipe, pending, group,
                   mutex, canCancel, phase, threadVars, spc, cur, fault>>

\* A message of an open client: it is ignored, answered (ping, configure,
\* get-configuration), answered after a frame (need-frame), or answered after
\* every waiter has been cancelled (change-position, change-resolution).
Receive(w) ==
    /\ Servicing /\ w \in revIn \ revOut /\ conn[w] \in {"open", "dead"}
    /\ revIn' = revIn \ {w}
    /\ \/ UNCHANGED <<phase, script, bpc>>
       \/ \E s \in StringJobs :
            \/ \E clear \in BOOLEAN : Start(svc, <<s>>, clear)
            \/ \E y, uv \in DataJobs : y # uv /\ Start(svc, <<y, uv, s>>, FALSE)
    /\ UNCHANGED <<netVars, pollset, revOut, pollout, pipe, clients, pending,
                   mutex, canCancel, group, spc, cur, todo, at, raceVars, fault>>

\* Input of a connection that is not open yet, or not open any more, is read and
\* leads to nothing.
Ignore(w) ==
    /\ Servicing /\ w \in revIn \ revOut
    /\ conn[w] \in {"none", "replying", "flushing", "shutdown"}
    /\ revIn' = revIn \ {w}
    /\ UNCHANGED <<netVars, pollset, revOut, pollout, pipe, pending, group,
                   serverVars, spc, cur, raceVars, fault>>

\* A close frame of the peer is answered once the socket is writable.  If a send
\* is stored the connection is broken off instead, see HangUp.
ReceiveClose(w) ==
    /\ Servicing /\ w \in revIn \ (revOut \cup trunc) /\ Open(w)
    /\ revIn' = revIn \ {w}
    /\ conn' = [conn EXCEPT ![w] = "replying"]
    /\ pollout' = pollout \cup {w}
    /\ UNCHANGED <<trunc, choked, pollset, revOut, pipe, pending, group,
                   serverVars, spc, cur, raceVars, fault>>

\* The peer has closed its side.
ReceiveEnd(w) ==
    /\ Servicing /\ w \in revIn \ revOut
    /\ conn[w] \in {"open", "replying", "flushing"}
    /\ CloseFreeWsi(w)
    /\ Retried(w)
    /\ UNCHANGED <<trunc, choked, pollset, pipe, pending, group,
                   serverVars, spc, cur, raceVars, fault>>

\* The end of a connection that was shut down, or an error on any other.
HangUp(w) == Servicing /\ w \in revIn /\ conn[w] # "none" /\ Kill(w)

\* An error while a stored message, or the reply to a close frame, is sent.
FlushFails(w) ==
    /\ Servicing /\ w \in revOut /\ (w \in trunc \/ conn[w] = "replying")
    /\ Kill(w)

\* The client is forgotten and its waiters are cancelled, under the mutex.
OnConnectionClose ==
    /\ Alive /\ spc = "closed" /\ mutex = NoThread
    /\ IF cur \in clients
       THEN clients' = clients \ {cur} /\ ArrayChanges /\ Cancelled({cur})
       ELSE UNCHANGED <<clients, mutated, pending, group>>
    /\ spc' = "fds" /\ cur' = NoWsi
    /\ UNCHANGED <<netVars, pollVars, pollout, pipe, mutex, canCancel, phase,
                   threadVars, raced, fault>>

NeverRearmed == FALSE    \* POLLOUT is not asked for again
AnyWaiting == \E w \in Wsi : Waiting(w)

\* lws_service returns; the loop looks, without the mutex, whether anybody waits.
CountWaiters ==
    /\ Servicing /\ revOut = {} /\ revIn = {}
    /\ spc' = IF AnyWaiting THEN "rearm" ELSE "allow"
    /\ UNCHANGED <<netVars, pollVars, pollout, pipe, pending, group, serverVars,
                   cur, raceVars, fault>>

Rearm ==
    /\ Alive /\ spc = "rearm"
    /\ pollout' = pollout \cup Armable
    /\ spc' = "allow"
    /\ UNCHANGED <<netVars, pollVars, pipe, pending, group, serverVars, cur,
                   raceVars, fault>>

AllowCancel ==
    /\ Alive /\ spc = "allow"
    /\ canCancel' = TRUE
    /\ spc' = "enter"
    /\ UNCHANGED <<netVars, pollVars, pollout, pipe, clients, pending, mutex,
                   jobVars, threadVars, cur, raceVars, fault>>

-----------------------------------------------------------------------------
(* The environment, and the whole *)

\* The peer reads, and the send buffer of its socket has room again.
Drain(w) ==
    /\ Alive /\ w \in choked
    /\ choked' = choked \ {w}
    /\ UNCHANGED <<conn, trunc, pollVars, pollout, pipe, pending, group,
                   serverVars, spc, cur, raceVars, fault>>

\* The process is gone.
Crashed == ~Alive /\ UNCHANGED vars

Caller(t) ==
    \/ CancelAllWrites(t) \/ Broadcast(t) \/ Visit(t) \/ EnumerationMutated(t)
    \/ Submit(t) \/ Append_(t) \/ Arm(t) \/ TestCanCancel(t) \/ Wake(t)

Service(w) ==
    \/ FlushTruncated(w) \/ FlushFails(w) \/ ReplyToClose(w) \/ Writable(w)
    \/ Establish(w) \/ Receive(w) \/ Ignore(w) \/ ReceiveClose(w)
    \/ ReceiveEnd(w) \/ HangUp(w)

Loop ==
    \/ PollEnter \/ PollReturn \/ OnClientWritable \/ OnConnectionClose
    \/ CountWaiters \/ Rearm \/ AllowCancel

Next ==
    \/ \E t \in Writers : Capture(t)
    \/ \E t \in Threads : Caller(t)
    \/ \E j \in Jobs : Complete(j)
    \/ \E w \in Wsi : Service(w) \/ Drain(w)
    \/ Loop
    \/ Crashed

Spec == Init /\ [][Next]_vars

-----------------------------------------------------------------------------
(* Properties *)

TypeOK ==
    /\ conn \in [Wsi -> ConnStates]
    /\ pollout \in SUBSET Wsi /\ pollset \in SUBSET Wsi
    /\ revOut \in SUBSET Wsi /\ revIn \in SUBSET Wsi
    /\ trunc \in SUBSET Wsi /\ choked \in SUBSET Wsi
    /\ pipe \in Nat
    /\ clients \in SUBSET Wsi
    /\ pending \in [Wsi -> Seq(Jobs)]
    /\ mutex \in Threads \cup {NoThread}
    /\ canCancel \in BOOLEAN
    /\ group \in [Jobs -> Int]
    /\ phase \in [Jobs -> {"free", "called", "waiting"}]
    /\ spc \in {"enter", "poll", "fds", "writable", "closed", "rearm", "allow"}
    /\ cur \in Wsi \cup {NoWsi}
    /\ script \in [Threads -> Seq(Jobs)]
    /\ bpc \in [Threads -> {"idle", "clear", "call", "enum", "append", "walk",
                            "cancel", "wake"}]
    /\ todo \in [Threads -> SUBSET Wsi]
    /\ at \in [Threads -> Wsi \cup {NoWsi}]
    /\ mutated \in SUBSET Threads /\ raced \in SUBSET Threads
    /\ fault \in {"none", "enumeration", "listWalk", "illegalWrite"}

\* A thread holds the mutex from adding its waiter until it has woken the poll.
InMutex == {"walk", "cancel", "wake"}

\* The service thread never sleeps in poll() on a waiter it could serve: either
\* poll watches the socket for POLLOUT, or the pipe will make it return, for it
\* holds a byte or the thread that added a waiter is about to write one.  This
\* is what canCancel, the flag set at the end of each turn of -start and tested
\* in -waitForWriteable, and the test of the count of waiters are for.
NoLostWakeup ==
    spc = "poll" =>
        \A w \in Wsi : Open(w) /\ Waiting(w) =>
            \/ w \in pollset
            \/ pipe > 0
            \/ \E t \in Threads : bpc[t] \in InMutex

\* The pipe never holds more than three bytes, so the write of lws_cancel_service
\* never blocks, with the mutex held, on a full pipe: canCancel lets at most one
\* byte in per turn of the loop, which reads one byte per turn.
PipeBounded == pipe <= 3

\* Serving one waiter per writable callback keeps lws_write legal: it never runs
\* into the assertion about a send while an earlier one is stored.
LegalWrite == fault # "illegalWrite"

\* The thread that is about to queue a waiter of job j.
Adding(j) == {t \in Threads : bpc[t] = "append" /\ Head(script[t]) = j}

\* What the dispatch group of a -writeDatas counts: its queued waiters, and the
\* one its thread is about to queue.
Outstanding(j) == Cardinality(EntriesOf(j, Wsi)) + Cardinality(Adding(j))

\* The group of a -writeDatas counts exactly the waiters that are still to be
\* called: whichever of the writable callback, cancelAllWrites and the close of
\* a client takes a waiter, it leaves the group once.
GroupCounts == \A j \in DataJobs : group[j] = Outstanding(j)

\* When the completion block of a broadcast runs no waiter of it is left, so that
\* its buffers can be released.
DoneMeansGone == \A j \in Jobs : phase[j] = "free" => Outstanding(j) = 0

\* Only capture threads are overtaken by a change of the clients: a broadcast the
\* service thread makes in a message handler is over before the loop goes on.
ServiceNotOvertaken == svc \notin mutated \cup raced

\* No waiter is left behind for a client that has gone: what its CLOSED callback
\* did not cancel would be sent to the next client at the same address, and hold
\* up its group until then.  A broadcast of the service thread never leaves one;
\* a capture thread does, when the client closes between Visit and Append_.
NoOrphans == \A w \in Wsi \ clients : ~Waiting(w)

\* The group of -writeDatas implements the promise of Broadcast.
Queued(w, j) == \E i \in DOMAIN pending[w] : pending[w][i] = j
Visiting(j)  == \E t \in Threads : bpc[t] \in Enumerating /\ Head(script[t]) = j

Stage(j) == IF phase[j] = "waiting" THEN "visited"
            ELSE IF Visiting(j) THEN "visiting" ELSE "idle"
Owed(j)  == {w \in Wsi : Queued(w, j)} \cup {at[t] : t \in Adding(j)}

B == INSTANCE Broadcast WITH
    Job <- DataJobs, Client <- Wsi,
    stage <- [j \in DataJobs |-> Stage(j)], owed <- [j \in DataJobs |-> Owed(j)]

KeepsPromise == B!Spec

-----------------------------------------------------------------------------
(* Liveness *)

\* Threads run; a thread that waits for the mutex gets it in the end; peers read
\* what they are sent and close what was shut down, and sockets then report it.
Fairness ==
    /\ WF_vars(Loop \/ \E w \in Wsi : Service(w))
    /\ SF_vars(OnClientWritable \/ OnConnectionClose)
    /\ \A t \in Threads : WF_vars(Caller(t)) /\ SF_vars(Append_(t))
    /\ SF_vars(CancelAllWrites(svc))
    /\ \A j \in Jobs : WF_vars(Complete(j))
    /\ \A w \in Wsi :
         /\ WF_vars(Drain(w))
         /\ SF_vars(FlushTruncated(w) /\ trunc' # trunc)
         /\ SF_vars(PollReturn /\ conn[w] = "shutdown" /\ w \in revIn')
         /\ SF_vars(HangUp(w) /\ conn[w] \in {"shutdown", "dead"})

FairSpec == Spec /\ Fairness

\* Every waiter of an open client is called, whatever the service thread and the
\* capture threads do meanwhile.
Answered ==
    \A w \in Wsi, j \in Jobs :
        Open(w) /\ Queued(w, j) ~> ~Alive \/ ~Open(w) \/ ~Queued(w, j)
=============================================================================
