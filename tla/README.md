# JSCameraKit, modelled in TLA+

JSCameraKit gives a web page the camera of the machine it runs on: a native
program records frames, and streams them over a WebSocket to pages that draw
them with WebGL.  This directory holds TLA+ modules of the program, the
configurations that check them with TLC, and proofs that TLAPS checks.

## 1. The system

| Component | Source | State | Operations |
|---|---|---|---|
| Broadcast server | `JSCameraKit/WebSockerServer.m` | clients, waiters and their pointers, the mutex, `canCancel`, `stop`, the context, the send buffer | `-start`, `-pause`, `-writeJSON`/`-writeString`/`-writeData(s)`, `-cancelAllWrites`, the callbacks ESTABLISHED, RECEIVE, SERVER_WRITEABLE, CLOSED |
| libwebsockets | `libwebsockets/*.c` | one `struct lws` per connection (state, stored send, poll events), the list of connections of a protocol, the wake-up pipe | `lws_service`, `lws_write`, `lws_callback_on_writable_all_protocol`, `lws_cancel_service`, `lws_close_free_wsi` |
| Request dispatch | `JSCameraKit/WebSocketController.swift` | tables of handlers | one message in, one broadcast answer out |
| Frame pipeline | `JSCameraKit/WebSocketCamera.swift` | planes of the last frame, `needFrame`, `sending`, `lastFrame`, `initied`, the activity timer | eight request handlers, `onBuffer`, `writeFrame`, `clearFrameData`, `activityTimeout`, background and foreground |
| Recorder | `JSCameraKit/AVRecorder.swift`, `ConstraintsManager.swift` | capture session, device, size, scaling buffers, photo callbacks | `start`, `stop`, `setDevice`, `setResolution`, `takePhoto`, `onCapture` |
| Programs | `JSCameraKit Server/main.swift`, `CDVJSCameraKit.m` | one `WebSocketCamera` | a run loop; a Cordova plugin |
| Request client | `client/src/ctrl.ts`, `eventemitter.ts` | socket, reconnection timer, request number, listeners | `connect`, `waitForSocket`, `request`, `send`; `on`, `once`, `emit`, `off` |
| Camera client | `client/src/camera.ts` | the two planes, `running`, `shouldDraw`, debounce times | `start`, `stop`, `configure`, requests, the animation loop |
| Scene | `client/src/scene.ts`, `program.ts`, `glutils.ts` | WebGL objects, sizes | `initGL`, `setSize`, `uploadTextures`, `draw` |

### How they interact

Three kinds of threads share one process.

* The **service thread** runs the loop of `-start`: `lws_service`, then a test
  of the count of waiters, then `canCancel = YES`.  All callbacks of
  libwebsockets run on it, and so do the request handlers, which broadcast
  their answers (and a frame, for `need-frame`) from inside of the RECEIVE
  callback.
* **Capture threads** (the queue of AVFoundation, and the queues of photo
  callbacks) call `-writeDatas` and `-writeJSON` when a frame or a photo is
  there.
* The **queue of the server** runs the blocks that wait for a dispatch group and
  then run the completion block of a broadcast; a completion block lets the
  pipeline send its next frame.

A broadcast may not write to a socket: libwebsockets wants `lws_write` in the
writable callback, one message per callback.  So it enters a dispatch group
once per client, adds a *waiter* per client to two parallel arrays under a
mutex, asks for POLLOUT on every connection, and wakes the poll with a byte in
a pipe, unless that was done since the last turn (`canCancel`).  The writable
callback takes the first waiter of its client and calls it.
`-cancelAllWrites` and the close of a client call waiters with `nil`.

On the other side a page sends `need-frame` in every animation frame, receives
two binary messages (Y, then UV), and draws when it has both.

### What is hard in it

* The mutex protects the waiters, not the clients, the connections, `canCancel`
  or the pollfds.  The poll is entered without it.
* A waiter is taken by one of three parties, and each must settle its group.
* A connection closes in several steps (stored send, close frame, shutdown), and
  its address is reused by the next one.
* A frame is two broadcasts; pages pair the planes by order of arrival alone.
* Flags of the pipeline (`sending`, `needFrame`) are read and written by three
  threads without a lock, and a lock that is held for a second is broken.
* Answers are broadcast to every page, and pages number requests from zero.

### What makes each component correct

* *Broadcast server*: the poll never sleeps on a waiter it could serve; a
  broadcast completes once, after its last client was served or cancelled, and
  leaves nothing behind; `lws_write` is only called when it is legal; nobody
  blocks with the mutex held.
* *libwebsockets loop*: stored data goes out before anything else; CLOSED is
  called once per connection, and nothing is called for it afterwards.
* *Frame pipeline*: one frame at a time; planes come in pairs of one frame; a
  page that asks is answered; a camera nobody uses stops.
* *Request client*: a request resolves with its own answer; a lost connection is
  replaced by one other; no listener is skipped or left behind.
* *Recorder*: configurations are committed; the chosen preset is the best the
  device has; nothing is unwrapped that is not there.
* *Scene*: what is uploaded has the size the textures were made for.
* *libwebsockets, input*: however the network cuts it, what reaches the user is
  what was sent, once and in order; tables, slots and buffers are given back.

`PROJECT.json` lists every hazard at its line, with the properties that cover
it or the reason why none does.  Smaller ones that the models meet are in section 3.

## 2. The modules

`WebSocketServer` -- the broadcast server on the event loop of libwebsockets.

| In the module | In the code |
|---|---|
| `conn` | the state of a `struct lws`: `none` (free, or before the end of the handshake), `open` (LWSS_ESTABLISHED), `replying` (RETURNED_CLOSE_ALREADY), `flushing` (FLUSHING_STORED_SEND_BEFORE_CLOSE), `shutdown`, `dead` (`socket_is_permanently_unusable`) |
| `pollout`, `pollset` | `pollfd.events`, and what `poll()` was given |
| `revOut`, `revIn` | `pollfd.revents` of this turn, still to be serviced |
| `trunc`, `choked` | `trunc_len # 0`; the kernel's send buffer is full |
| `pipe` | bytes in `dummy_pipe_fds` |
| `clients`, `pending`, `mutex`, `canCancel` | the properties of the same meaning; `pending` is a queue per address, which is all that the readers of the two arrays look at |
| `group`, `phase` | the dispatch group of a broadcast, and how far its call is (`called`, `waiting` for the group, `free`) |
| `script`, `bpc`, `todo`, `at` | a thread's calls of `-writeDatas`/`-writeString`: those still to make, where it is, the clients its enumeration has still to visit, the client at hand |
| `mutated`, `raced` | the array of clients changed under a thread's enumeration; the list of connections changed under its walk |
| `fault` | how the process ended: an exception of the enumeration, a broken walk, `assert(0)` of `lws_issue_raw` |

Actions: `Capture`, and the steps of a broadcast `CancelAllWrites`, `Broadcast`,
`Visit`, `Append_`, `Arm`, `TestCanCancel`, `Wake`, `Submit`, `Complete`; the
loop `PollEnter`, `PollReturn`, `CountWaiters`, `Rearm`, `AllowCancel` with the
handlers `OnClientWritable` and `OnConnectionClose`; one action per thing that
`lws_service_fd_tsi` may do with a ready socket (`FlushTruncated`,
`ReplyToClose`, `Writable`, `Establish`, `Receive`, `Ignore`, `ReceiveClose`,
`ReceiveEnd`, `HangUp`, `FlushFails`).  A step is what runs under one lock, or
between two accesses to state that another thread shares.  The data races of the
code are kept: what a thread finds after one is a choice of `Visit` or
`EnumerationMutated`, and of the two disjuncts of `Arm`.

`Broadcast` -- what `-writeDatas:withCompletionBlock:` promises: data is owed to
the clients that were visited, owed data is settled by a write or a cancel, and
the completion block runs once, after the last visit, when nothing is owed.
`WebSocketServer!KeepsPromise` is the refinement.

`WebSocketCamera` -- the frame pipeline, on broadcasts seen from outside, and the
pages that draw.

| In the module | In the code |
|---|---|
| `initied`, `yBuffer`, `uvBuffer`, `needFrame`, `sending`, `sendGroup` | the properties of `WebSocketCamera.swift` of these names |
| `overdue` | `now - lastFrame >= 1` |
| `timer` | the run loop `activityTimer` is scheduled on: none, still on its way to the capture queue, or that of a worker of the queue |
| `blocks`, `qpc` | the blocks on the serial queue, and how far `clearFrameData` is |
| `pc`, `shot`, `slot` | where a thread is, the frame it was called with, and the frame it sends |
| `plane`, `unsent`, `queue` | the planes in flight, the broadcasts whose completion block has not run, and what is still to be written to each page |
| `pages`, `held`, `torn` | the connected pages; `yBuffer` and `uvBuffer` of `camera.ts`; pages whose textures hold planes of two frames |

Actions: the handlers `Configure`, `NeedFrame`/`TestUV`/`Ask`, `Change`/`Clear`
(the service thread); `OnBuffer`, `StoreUV`, `TestNeed` (capture threads);
`writeFrame` on either, one action per access to a property that another thread
uses, from `TestOverdue` to `Submit`; `Sent`, the completion block of a
broadcast; `Waited`, `ClearFrameData`, `Release`, the block on the queue;
`ScheduleTimer`; `Connect`, `Close`, `Deliver` for pages, which pair planes by
arrival alone.

`ServerLifecycle` -- `-init`, `-start`, `-pause` and the contexts they create.

| In the module | In the code |
|---|---|
| `app`, `pausing` | where the app is, and the step of `-pause` the main thread has still to take |
| `patient`, `met` | no state of the code: if the app changes sides only once the server has followed (chosen at the start), and if a block of `-start` has begun while another was in its loop |
| `loop`, `using` | the block of each `-start` (queued, creating a context, clearing `stop`, dropping old waiters, testing `stop`, in the poll, destroying, forgetting), and the context it was given |
| `stop`, `context`, `clients`, `waiting` | the properties; clients with a waiter |
| `live`, `pipe`, `conns` | contexts not destroyed yet, their wake-up pipes, their connections |

`RequestClient` -- pages that ask and a server that broadcasts its answers:
`ctrl.ts`, `eventemitter.ts`, `WebSocketController.swift`.

| In the module | In the code |
|---|---|
| `webSocket`, `connectTimer` | `readyState` of the socket (or that there is none), and `this.connectTimer` |
| `made`, `promise` | `requestID` with the requests it numbered, and what their promises resolved with |
| `jsonListeners`, `openListeners`, `timers` | the arrays of the emitter, with the timeouts of `once` |
| `micro` | continuations of settled promises: they run after the current task, before the next |
| `inbox`, `toServer`, `outbox`, `link` | events the browser has still to give, requests on the way, answers that wait for the client to be writable, clients |
| `running`, `done` | `capture-photo` and its callback on another thread, which a photo that fails never makes (`PhotoFails`) |

`Emit` is the loop over the live array of listeners that the code runs, with its
index; `heard` collects the listeners that were called, and `OnOpen` queues the
sends of those whose timer was not over yet.

`Session` -- the recorder on iOS, its presets, the handlers, and the scene of one
page.  `rec`, `session` and `live` are what `AVRecorder` believes, what the capture
session was told (with the depth of configurations), and what was committed;
`svc` is the handler that runs, one step per access that capture threads can see;
`wire` is what is on its way to the page, in order; `page` is what `scene.ts`
knows: `page.start` says if it has called `start`, once, and been answered.  Changes of
position and resolution are asked for at any time, as `camera.ts` does.  A frame is its
size and its device.

`Connections` -- server connections of libwebsockets from accept to free.

| In the module | In the code |
|---|---|
| `conn` | a `struct lws`: `mode`, `state`, `state_pre_close`, `pending_timeout`, its header table, its position in the pollfds, `hdr_parsing_completed`, the callbacks told |
| `pool`, `waiting` | `pt->ah_pool` with the input kept in each table, and `ah_wait_list` |
| `fds`, `listen` | the table of pollfds, and whether accepts are on |
| `wire`, `net` | what the peer has sent, in tokens, and how it left |

One action per event of the poll (`Service`), with each function of the library
a function on its state: `Attach`, `Detach`, `NukeAh`, `Close` with its stages,
`RemoveFromFds`, `Handshake`, `Upgrade`, ....  `WebSocketServer` has the same
loop with several threads and without handshakes, tables and timeouts.

Six modules take apart what is sent, each on its own:

* `WsReceive` -- the byte-wise parsers of frames (server and client), the bulk
  copy of payload, `rxflow_buffer` and the flow control, answers to ping and close.
* `Deflate` -- permessage-deflate on both sides: what `lws_write` makes of the
  fragments, the held trailer, and the draining of either side.  zlib is external.  A
  server that would drain in the middle of a frame falls out of step (`DrainMidFrame`)
  and is not followed further.
* `HttpClient` -- a client connection: header table, proxy, connect, reply,
  redirect, sized, unsized and chunked bodies, timeouts; the story its user hears.
* `HeaderParser` -- `lws_parse`: the URI, decoded and normalised on the way,
  arguments, and lines of headers as chains of fragments.  A fragment has the bytes
  stored and how many of them count, which differ after a separator.
* `Forms` -- `lws_spa_process`: urlencoded and multipart bodies, the storage of
  parameters, files, and what is written past the storage (`overrun`).
* `Json` -- `lejp`, the streaming parser of JSON, which is compiled with the rest and
  called by nobody: its stack, the path of names it is in, the patterns and wildcards
  its user gave, the callbacks, and the refusals.  The level below the bottom of its stack
  (`Under`), which it reads outside of the array, is part of the document (`beneath`).

`MCWebSocketServer`, `MCWebSocketCamera`, `MCRequestClient`, `MCConnections`,
`MCSession`, `MCLibrary` -- the instances for TLC.  Where one run checks several
instances, a variable (`instance`, `part`) chosen in the initial state says which
one a behaviour belongs to.  `MCLibrary` holds the six modules above: `HttpClient` and
`WsReceive` are extended with their own variables, the other four share one set, of
which each uses what it needs.  TLC then reports the next-state relation as one action.

`WebSocketServerProofs`, `WsReceiveProofs`, `WebSocketCameraProofs`,
`RequestClientProofs`, `ServerLifecycleProofs`, `SessionProofs`, `ConnectionsProofs`,
`HttpClientProofs` -- proofs.

### Abstractions

* Messages have no contents: a job stands for one call.  The planes of a frame
  are two elements of `DataJobs`, called one after the other as in `writeFrame`.
* In `WebSocketServer` the handshake is one input, whole messages are received,
  and the poll's timeout of one hour and the timeouts of connections are left out;
  `Connections` and `WsReceive` have them.  Pings and pongs are left out there,
  for browsers send none and the server asks for none.
* Sending is all or nothing, per call: how much of a message was sent changes
  nothing else.
* A test and a change of one `pollfd` by `lws_callback_on_writable` are one step,
  although no lock makes it one (`pollfd.c:382`).
* The test of the count of clients and the start of the enumeration are one step.
* In `WebSocketCamera` a broadcast visits all pages in one step, and a plane that
  is written has arrived; `WebSocketServer` has the steps in between.  Every page
  has a queue of its own, so what a page receives is the same.  `RequestClient`
  and `Session` see broadcasts in the same way.
* A plane is the name of its frame.  That its memory is not copied, and may show a
  later frame by the time it is written (`AVRecorder.swift:443`), is left out.
* Answers are left out of `WebSocketCamera`: they share the queues of the pages
  with planes, but carry nothing a plane depends on.  `Session` has both on one
  wire.
* Nothing stops the camera: `stop` is called by the activity timer alone, which
  never fires.  So `need-frame` never starts it again.
* In `ServerLifecycle` a turn of the loop serves at most one event.
* In `Connections` a peer sends tokens: a part of a header set, a `get`, `post` or
  `upgrade` that completes one, `deny`, a unit of a body, a message, a close, a
  violation of the protocol.  A timeout may be due at any time it is armed.
* In `WsReceive`, bytes carry what they mean to a receiver in step; one that is
  out of step reads garbage, and the properties fail.
* In `Forms` and `HeaderParser` names that a generated table recognises are one byte.

## 3. The runs

| Run | Instances | Shows |
|---|---|---|
| `server` | `one_client` (1 client, 1 capture thread, 2 planes, 1 answer), `service_only` (2 clients, no capture thread, 2 planes, 1 answer), `two_writers` (1 client, 2 capture threads, 2 answers) | `TypeOK`, `NoLostWakeup`, `GroupCounts`, `LegalWrite`, `ServiceNotOvertaken`, `PipeBounded`, `DoneMeansGone`; `NoOrphansAlone` where only the service thread broadcasts; `KeepsPromise`, the refinement of `Broadcast` |
| `live` | `live` (1 client, 1 capture thread, 2 planes), `live_service` (no capture thread, 2 planes, 1 answer) | `Answered`, `DataCompletesAlone` |
| `pipeline` | `frames` (2 names of frames, 1 in flight), `in_flight` (2 in flight); 1 page, 1 capture thread, all requests, slow sends | `LockHasReleaser`, `GroupBalanced`, `OwnFramesWhole` |
| `pipeline_live` | 1 page, 1 capture thread, 1 in flight, all requests, slow sends | `LockIsReleased`, `PagesAreFed` |
| `requests` | `alone` (1 page, 2 requests of any kind), `two` (2 pages, 1 request each) | `SocketOrTimer`, `PendingHasListener`, `SendsOnOpenSocket`, `AloneGetsOwn`, `AlwaysReconnects`, `SentIsAnswered` |
| `lifecycle` | 2 addresses, 3 calls of `-start`, contexts that may fail to be created, an app that is patient or not | `ContextAlive`, `PauseCloses`, `StartServes` |
| `connections` | 2 connections, 1 header table, room for 2, 2 and 1 tokens | `HeaderTables`, `FdsConsistent`, `CallbacksPaired`, `EndsInTime` |
| `session` | 3 phones, 1 capture thread, 2 changes, devices that may refuse to open | `TrapsOnlyUnconfigured`, `PictureSettles` |
| `library` | the scripts of `MCLibrary` | `DeliveredInOrder`, `RepliesEcho`, `FlowResumes` (`WsReceive`), `RoundTrip` (`Deflate`), `OneStory`, `BodyDelivered` (`HttpClient`), `HeadersRead` (`HeaderParser`), `FormsRead` (`Forms`), `JsonRead` (`Json`) |
| `pipeline_textures` | as `pipeline_live`, 2 names of frames, no change | violates `TexturesWhole` |
| `requests_photo` | 2 pages, 1 request each | violates `PhotoMeansSaved` |
| `forms_cut` | as `library` | violates `AnyCut` |

**Deadlock** is checked where the program never stops: `server`, `live` and the
pipeline (a broken process stutters, `Crashed`).  It is not where the system
really ends: when every page has been left (`requests`, `requests_photo`), the app
stays in the background with its starts used up (`lifecycle`), every connection is
freed (`connections`), the recorder has trapped or the page asks no more
(`session`), or all input is consumed (`library`, `forms_cut`).

### Bounds

*Server.*  The size of `Wsi`, `Writers`, `DataJobs` and `StringJobs` is the only
bound.  A job is free again once it has completed, so behaviours are infinite, and
a client may come, close and be replaced at the same address any number of times.
Two planes are what one frame needs; the pipeline sends one frame at a time.  Two
clients are enough for one socket to be served, closed or armed while another one
is in the same turn.  Three threads that broadcast are more than canCancel can let
through in one turn, and the bound of three bytes is reached.

*Pipeline.*  `Sends` bounds the frames that are in flight or still to be cleared;
two are enough for a frame that is sent while another one is, which is what all
the races of the lock lead to.  `Frames` are names that are used again: two tell
any pair of different frames apart.  A page that asks for changes in a row without
end is never fed, so `PagesAreFed` speaks of a configuration that is left alone in
the end.

*Requests.*  `MaxRequests` bounds the requests of a page.  Two of one page are
enough for listeners that leave while others are called, for a timeout that races
an `open`, and for answers out of order; two pages for numbers that collide.
Connections are lost and made again without bound.

*Lifecycle.*  Three starts are two stays in the background; the second loop meets
what the first one left, the third one shows that nothing piles up.  They are also
enough for two loops at once (`met`).

*Connections.*  One table for two connections is the least for which one waits;
the peer that sends two tokens goes through a request and what follows it, the
other one competes.  Two slots are the limit at which accepts go off.

*Session.*  Two changes overlap with each other, with captures and with answers.
The phones differ in what makes `getPerfectPreset` take each of its branches that
a real device can reach.  Changes come before, between and after the answer to `start`.

*Library.*  Bytes have two values and the first length byte holds 1, so each form
of a length occurs with payloads of a few bytes; reads may be cut anywhere; room
in buffers is set so that each is left empty, filled in part and filled exactly.
A control frame has at most two bytes that are told apart (`Short`), the code of a close.
Receivers of `Deflate` are clients and servers with a buffer for part of a frame, and
for any frame.  Paths hold slashes, dots and a letter, separators, a plus and an equals
sign, plain and escaped, and an escaped blank, end of line and NUL.  What is beneath the
stack of `Json` is a length of the path of none, less, or more than there is, and a
number of indices of none or one.
An int of `HttpClient` has 2^15 values that are not negative (`Half`), as the
2^31 of the code are more than TLC can count; no body of the run comes near either.

### What is false

Three runs end in a violation, each of something the repository says.

* `pipeline_textures`: the service thread reads the Y plane after, and the UV plane
  before, `onBuffer` has stored its new frame.  (Two frames sent at once, a page
  that connects between two planes, and a cancel between them also lead to a
  texture of two frames, and the page then pairs wrongly until it misses another
  plane.)
* `requests_photo`: the answer to the ping of one page resolves the
  `capturePhoto` of another one, as both have the same number.
* `forms_cut`: a body cut within an escape gives another character.

These definitions have no run of their own, and TLC refutes each of them in a few
steps:

* `WebSocketCamera!SendingExcludes`: the service thread and a capture thread both
  find `sending` false and both send.
* `WebSocketCamera!TimerOnMainLoop`: the activity timer is on the run loop of a
  worker of the capture queue (`WebSocketCamera.swift:230`).
* `RequestClient!WaitersHearOpen`: a listener that takes itself off while `open` is
  emitted makes the next one be skipped; its request waits for the next connection
  or times out (`eventemitter.ts:47`).
* `Session!BestPreset`: the preset for a device that lacks the one asked for is the
  first of a dictionary, not the best (`README.md:37`).
* `Deflate!PingsArrive`: a ping that comes due while the extension is drained is
  lost (`service.c:166`).
* `Deflate!RoundTripAnyBuffer`: a server whose buffer holds part of a frame, and whose
  extension has more to give after that part, is asked to drain in the middle of the
  frame; its parser looks for that between frames only (`parsers.c:956`) and takes the
  byte it is given, 0, for payload.
* `HeaderParser!QueryIsArguments`: `/..` before a question mark swallows it
  (`parsers.c:705`).
* `HeaderParser!PathIsAsked`, that the path is the one of the request: `&` and `;` in it
  are dropped and split it (`parsers.c:641`), `+` becomes a blank (`:669`), an escaped
  carriage return ends it (`:762`) and an escaped NUL ends the request (`:638`), unless it
  follows a slash.
* `Forms!FilesEnd`: a file whose last piece is empty has no last call (`server.c:2298`),
  although "the last chunk (possibly zero length) of file content has arrived" is what
  `libwebsockets.h:2825` says of one.
* `Forms!NoOverrun`: the test for room is an equality (`server.c:2209`), which the length
  of a value steps over when bytes of a boundary are given back, or when the storage
  left by earlier values is too short, and what follows is written past the storage.
* `Json!JsonReadAnywhere`: when the first object or array in the root ends, the number of
  indices is read from beneath the stack (`lejp.c:586`, `:613`), and is not put right by
  what follows.
* `ServerLifecycle!ContextAliveForTwo`: while the block of one `-start` is in its loop, a
  quick pause and return queues another; the flag it clears keeps the first one going, or
  it adopts the pointer to the context that the first one is destroying
  (`WebSockerServer.m:95`, `:116`).
* `ServerLifecycle!PauseCloses` without `patient`: a stop set before the block of
  `-start` clears it is lost.

A change of position or resolution before any `configure` ends the program
(`AVRecorder.swift:263`, `:360`): `camera.ts:125` asks whatever the page was told, a page
need not call `start`, and one that stays open connects again to a program that was
started again.  `TrapsOnlyUnconfigured` says that this, and a device that is missing or
does not open, is all.

**With capture threads**, `NoOrphans` and `DataCompletes` are false, and are checked
with broadcasts of the service thread alone.  A capture thread that has visited a
client while the client closes adds a waiter that nobody cancels
(`WebSockerServer.m:196`): the waiter is called when a client with the same address
is writable, and its group waits until then.  For the same reason
`ServiceNotOvertaken` speaks of the service thread only.

**Left aside by a premise.**  An empty fragment in the middle of a message drops
what `Deflate` holds back, and a server never reports a last part that turns out to
be empty.  In `HttpClient` a body of length zero is never COMPLETED, the timeout of
a proxy or of a body is not told as an error, the condition on redirects is
inverted (`client.c:468`) and one is followed on memory that was freed, and an unsized
body longer than one read wraps `content_remain`.  `HeaderParser` reads an empty last
argument as a slash, and nothing is said of a path with separators, a plus, or an escaped
end of line or NUL (`PlainPath`), nor of arguments behind an escaped end of line or NUL
(`EndsEarly`, `EncodedEnd`).  `Json` accepts `[1}]`, refuses `{}`, `[]`, negative numbers
and fractions, and tells START again when a segment begins at the root with an empty
path; a letter in a `\u` escape after a digit other than zero gives another character
(`lejp.c:296`), so escapes have letters only after zeros.  What `Json` reads beneath its stack is taken for no indices (`beneath.i = 0`: bits 48-55
of an address, on 64 bits).  `Forms` takes a storage that is longer than a boundary; a form
whose values do not fit it is refused, or written past its end.  In `Connections` a connection that
is flushing without a timeout stays until its peer reads (`service.c:848`).

**Also seen**, and in no module: a cancelled waiter of `-writeString` never leaves its
group (`WebSockerServer.m:304`); a page that stops
reading blocks the queue of the pipeline (`WebSocketCamera.swift:207`); `-pause` may wake
a context that was just destroyed (`WebSockerServer.m:85`; the fault `wake` of
`ServerLifecycle`); a virtual host that cannot listen leaks (`context.c:760`); the loop over
timeouts keeps a pointer to the next connection (`service.c:704`); a POST that nobody
answers keeps its header table (`handshake.c:190`).

### Fairness

*Server.*  The service thread runs (`WF` of its loop), threads go on with their
broadcasts, and a thread that waits for the mutex gets it at last (`SF`; a pthread
mutex has no order, but threads leave it for whole turns).  Peers read what they are
sent and close what was shut down, without which no server could deliver; the
operating system reports it.  `Complete` is the queue of the server, which is
concurrent, so a wait that is over is run.

*Pipeline.*  Threads, the queue and completion blocks run, the camera records, pages
read what they are sent, and a page asks again in every animation frame (`SF` of
`NeedFrame`, for the service thread is busy in between).

*Requests.*  Pages run their tasks, the server writes and receives, and a photo ends one
way or the other (`WF` of `Finish` and `PhotoFails` together): AVFoundation and the album
call back, but `AVRecorder.swift:141`, `:157` and `:200` return without telling anybody, and
`SentIsAnswered` leaves such a request aside (`Abandoned`).  A server
that is up accepts a page that goes on trying, and the page hears of it (`SF` of
`Accept` and `OnOpen`): with an attempt a second, not all of them are refused.  Nothing
is assumed of requests, timeouts or losses.

*Lifecycle.*  The main thread and the blocks run (`WF`).  A poll is obliged to return
only when there is a byte in its pipe.

*Connections.*  One thread serves who has input or hung up, and time passes (`WF` of
accept, hang-up, timeout and readable service, together per connection).  Nothing is
assumed of peers, nor that a socket becomes writable.

*Session.*  The service thread, the capture threads and messages go on (`WF`), and the
page asks on.

*Library.*  `WsReceive`: the service thread goes round (`WF`), and a socket becomes
writable again and again (`SF`), as the kernel sends what it holds.  The other parts
have safety properties only.

## 4. The proofs

`WebSocketServerProofs` holds for any set of capture threads and jobs and any
finite set of addresses (`ConstantsAssumption`: the threads are distinct from
each other and from the null values, the two kinds of jobs are disjoint).

* `TypeCorrect`.  `TypeOK` is not inductive: a step takes the head of a script
  and of a queue.  `TypeInv` adds that a thread that broadcasts has a job, and
  that the clients at hand exist.
* `NeverLosesWakeup`.  `NoLostWakeup` speaks of the poll only.  `WakeInv` says
  why it holds when the poll is entered: whoever is between `Append_` and `Wake`
  has the mutex (`MutexHeld`); outside of the states from which the loop asks for
  POLLOUT again, a waiter is armed or its thread is about to (`Armed`); a socket
  armed too late for this poll is known to a thread that still has to test
  canCancel, or somebody has tested it since (`ArmedLate`); and where somebody
  has, a byte is in the pipe or about to be (`CancelledPoll`).
* `PipeStaysBounded`.  `PipeInv` counts the bytes in the pipe and those that can
  still come before canCancel is set again: at most two, or three from the end of
  a turn to the return of the poll.
* `WritesAreLegal`.  The writable callback runs with no send stored.
* `ServiceIsNotOvertaken`.  When the service thread is out of
  `lws_service_fd_tsi`, or in the handler of another event, it broadcasts nothing.

The second half of the module is about broadcasts:

* `GroupIsExact` and `DoneIsGone`.  `CountInv` adds to the types that the jobs threads have
  still to broadcast are called and on one list only (`JobInv`), that a group counts the
  waiters of its job in all queues and the one a thread is about to add (`GroupInv`; of an
  answer's, no fewer), and that a job is owed only while it is visited or waited for, and not to
  those its enumeration has still to visit (`OwedInv`).  Most of the work is in the
  `Cardinality` of the places in the queues, when an entry is appended, taken off, or a
  queue emptied.
* `PromiseIsKept`, the refinement of `Broadcast`: under `CountInv` every step of the server
  is a visit, a settlement, a completion, the start of a round, or none of them.
* `AloneLeavesNoOrphans`, for the specification of the instance, whose initial state may
  leave the service thread alone.  Then no other thread is in a broadcast (`Quiet`), a
  handler is over before a client comes or goes (`HandlerInv`), and so what the service
  thread has still to visit are clients (`OrphanInv`).

`WebSocketCameraProofs` holds for any pages, frames and requests, and any finite
sets of capture threads and slots.

* `TypeCorrect`, with the facts that a thread that sends has a slot, and that the
  queue only clears after a block.
* `LockAlwaysHasReleaser`.  `LockHasReleaser` is inductive with the types: only
  the last setter of `sending` matters, and its block comes after it.
* `GroupAlwaysBalanced`.  A completed broadcast leaves the group once only if no
  two frames share a slot.  `SlotInv` says that a slot belongs to one thread or to
  the queue, that no plane of a slot is in flight before its thread has sent it,
  and that none is once the queue has waited; the last of these needs
  `GroupBalanced` itself, so both are proved together (`SendInv`).
* `OwnFramesAreWhole`, if frames are captured one at a time.  `FrameInv` follows
  the frame through the buffers into its slot; the other threads only drop planes,
  and by `SlotInv` never write to that slot.

`RequestClientProofs` holds for any pages, kinds of requests and bounds.

* `SocketOrTimerHolds`.  The close of a socket is an event among others in the inbox
  of its page, and answers to others are still put there.  `SocketInv` says that a
  close is the last event of its socket (`CloseIsLast`), that a page that is not a
  client is sent nothing (`NoneForStrangers`), and that no event is left for a page
  without a socket (`NullIsQuiet`): so the timer is armed once, and no event reaches
  the next socket.
* `SendsOnOpenSocketHolds`.  A send goes on in a microtask, and while there is one the
  socket is open (`MicroIsOpen`): no task, and so no close, comes in between.
* `RequestTypes`, `PendingIsHeard` and `AloneIsAnswered`.  `AnswerInv` adds, for each page
  (`PageOk`), that what waits or is on its way are requests it made (`MadeBy`), that the
  server only says answers to requests (`Heard`), that a promise is settled by an answer
  with its id (`Settled`), and that exactly the requests without one are listened for, each
  once (`ListensFor`); `capture-photo` is at work only for pages that asked.  An event is
  emitted to listeners that take themselves off the array that is walked, so this needs
  what an emission does to lists of every length.  `Emit` is a recursive function on the
  number of calls; the induction over them is written out with the least number for which
  a claim fails (`Least`, `Steps`), as the prover cannot instantiate the library's
  induction theorems.  `EmitKeeps` says that nothing appears on the list, `EmitTakesOff`
  that the one listener of an answer is called, and gone after it.

`ServerLifecycleProofs`, for any addresses, any number of starts and any app:
`ContextAliveHolds`.  `LifecycleInv` says that, unless a block of `-start` has begun while
another was in its loop (`met`), at most one is (`OneLoop`), and what each phase of that
block says of the context (`ByPhase`).  A block that begins while no other has begun finds
no context; what the app does in the meantime is put on the queue, or sets the flag, and
disturbs none of this.  With two loops at once it is false (section 3).

`SessionProofs`, for any phones (a position is never the null value), capture threads and
requests in any order: `TrapsOnlyUnconfiguredHolds`.  While the session does not run,
nothing is known of device and resolution but what the handler of a `configure` has found
(`NotYet`); while it runs without a failure there are both (`Runs`); a handler that is past
its first step is that of `configure`, or the session runs, and it has what its next steps
unwrap (`Handler`).  So what traps is the first step of a change, or follows a failure.  Every preset that
`getPerfectPreset` returns has a size (`PresetsHaveSizes`).

`ConnectionsProofs`, for any connections, header tables and inputs, and room for at least
one connection in the pollfds: `TablesNeverIdle`, `PollfdsAgree`, `EveryEndIsTold`.  The
functions of the library work on its whole state, so the invariant is a predicate of such
a state, `Sound`, and each function has a lemma that says which parts of it it keeps or
brings about, from what its callers have checked.  `Shape` has the types and, per
connection, what its mode and state say of the callbacks told (`Staged`); `TablesOk`, that
a table and its connection know each other, that one is free and empty only while nobody
waits, and that who waits has none and waits once; `FdsOk`, that the connections on the
poll are those that live, each at the position it remembers, and that accepts are off
exactly when the table is full; and who waits is alive.  A close detaches the table, which
goes to who waits longest, before it swaps the last of the pollfds into its place: the
lemmas follow the calls in the order of the code.

`HttpClientProofs`, for any calls of a client's user and any room in its buffer:
`StoryHolds` and `BodyIsWhole`.  What was told is `Tidy`: each callback once but the creation of a socket,
which a redirect repeats; an end only after its beginning, and nothing after the last
word.  `Story` says what the user may have heard in each stage of the connection --
`Connecting`, `Served` (and what a body in the course of `Reading` may be taken to have
told), `Upgraded`, `Leaving` after a shutdown, and `Over`.  An error is told by whoever
meets it, before the connection is closed, and the close tells an end: so each function
that closes has a lemma that it meets the connection `Closable`, a state in which what it
tells was not told before, and the flag `already_did_cce` is what keeps the error from
being told twice.

`BodyIsWhole` is about the body, for any data, any cut of it into chunks and any digits of
their sizes (`HttpClientAssumption`: a length and the size of a chunk fit an int, and the
last chunk is the only empty one).  `BodyDelivered` compares what was told with the data,
which says nothing of the reads to come.  `BodyInv` does: either no reply was taken yet
(`Fresh`), or o bytes of the body were read and `BodyAt` says what the parser and
`content_remain` are then -- in chunks, `ChunkedAt` gives the chunk and the place in it, the
number that the digits so far say or the rest of the chunk, and how much of the data came
before.  `NextByteIs` says which byte comes there and `ReadOne` that `chunk_parser` makes of
it what that calls for, `ReadMany` that this goes for reads of every length.  Every other
function of the connection keeps what is known of the body (`Keeps`, `Stays`).  The property
and the proof leave aside the bodies of redirects, and those without a length that take
more than one byte, for which `content_remain` wraps (section 3).

`WsReceiveProofs`, for any frames whose lengths fit eight digits, any keys, any buffer that
holds a control frame (`WsReceiveAssumption`), and any bounds on reads and stops:
`PayloadDelivered` and `AnswersEcho`.  `DeliveredInOrder` alone is not inductive, as it
does not say what the bytes that were not used yet will be taken for.  `IInv` (theorem
`StaysInStep`) says that a connection that is open is in step at some byte o of some frame f
(`IsInStep`):

* `Position`: the input in the read, in `rxflow_buffer` and on the wire is, put together,
  what the peer sends after that byte.  The steps of the flow (`CacheInput`, `EndInput`,
  `ReadInput`) move bytes between the three and lose none.
* `ParserAt`: the parser is in the state that belongs to byte o, with the digits of the
  length, the key and the data it has seen of this frame, and none of an older one.  There
  is a lemma for each state of the parser, `OpcodeStep` to `PayloadStep`, and `BulkStep` for
  the payload that is copied in one go.
* `Telling`: what was told is the payload of the frames before, and of this one what is
  not in the buffer.  `Spills` and its parts follow the buffer when it is full or its frame is over.
* `Answers`: the pongs written are to pings, in their order, and the one that is pending is
  to a later ping.  `CloseDue` takes its place while a close is returned.  A client answers
  a close with what `CloseAnswer` says: its payload, with 1002 for an invalid code.

What a sequence of sequences is end to end is defined by recursion (`FlattenSeq`), so it,
too, comes with its induction written out by `Least` and `Steps`: `Laid` says where the
bytes of each frame are.  `HttpClientProofs` uses the same lemmas for chunks.

Only model-checked:

* the other parsers of `MCLibrary`: `RoundTrip`, `HeadersRead`, `FormsRead` and `JsonRead`
  compare what was parsed, for every cut of the input, with references that are recursive
  themselves (`Json` and the module of the run, which extends it, declare RECURSIVE
  operators, about which nothing can be proved);
* liveness, which is out of the prover's reach: `Answered`, `DataCompletesAlone`,
  `LockIsReleased`, `PagesAreFed`, `AlwaysReconnects`, `SentIsAnswered`, `PauseCloses`,
  `StartServes`, `EndsInTime`, `PictureSettles`, `FlowResumes`.

## 5. The plan

Done: the server, its promise and its proofs; the frame pipeline and its proofs; requests
and dispatch; the life cycle; the recorder's sessions and the scene's sizes; connections,
input, compression, client, headers, forms and JSON of libwebsockets, and proofs of every
safety property of the runs but those of four parsers.

Left, in this order:

1. The photo and its album callback, and the scaling buffers of vImage.
2. The animation loop of `camera.ts`, its debounced requests, and `stop`.
3. Files that a server serves, and ranges.

Not modelled:

* TLS (not compiled), HTTP/2, CGI, proxying, mounts, rewriting and served files: the
  server configures none of them.  A mount or a file would add states to
  `Connections` that this program never enters.
* SHA-1, base64 and the daemon, SMTP and test tools
  are pure functions or unused.
* The variants for macOS, where they differ; WebGL calls, shaders and effects; the run
  loop of `main.swift` and the Cordova plugin, which keep no state of their own; build
  files.  The repository's tests are empty templates.
