------------------------- MODULE WebSocketServerProofs -------------------------
(***************************************************************************)
(* Proofs about WebSocketServer: types, wake-ups, legal writes and the     *)
(* pipe; and about its broadcasts: what the dispatch group of a job        *)
(* counts, when its completion block runs, that -writeDatas keeps the      *)
(* promise of Broadcast, and that a service thread that broadcasts alone   *)
(* leaves no waiter behind.                                                *)
(***************************************************************************)
EXTENDS WebSocketServer, MCWebSocketServer, TLAPS, FiniteSetTheorems, FunctionTheorems,
        SequenceTheorems

\* What the types of TypeOK leave out: a thread that broadcasts has a job, and the
\* client it visits, or the service thread calls back for, is there.
WellFormed ==
    /\ \A t \in Threads : bpc[t] \in {"clear", "call"} \cup Enumerating =>
                            script[t] # <<>>
    /\ \A t \in Threads : bpc[t] \in {"append"} => at[t] \in Wsi
    /\ spc \in {"writable", "closed"} => cur \in Wsi

TypeInv == TypeOK /\ WellFormed

\* The waiters of a job are finitely many, so the calls of dispatch_group_leave
\* can be counted.
LEMMA EntriesFinite ==
    ASSUME TypeOK, NEW j \in Jobs, NEW ws \in SUBSET Wsi
    PROVE  /\ IsFiniteSet(EntriesOf(j, ws))
           /\ Cardinality(EntriesOf(j, ws)) \in Nat
<1> DEFINE f == [w \in ws |-> {w} \X DOMAIN pending[w]]
           F == {{w} \X DOMAIN pending[w] : w \in ws}
<1>1. IsFiniteSet(ws)
  BY FS_Subset, ConstantsAssumption
<1>2. f \in Surjection(ws, F)
  BY DEF Surjection
<1>3. IsFiniteSet(F)
  BY <1>1, <1>2, FS_Surjection
<1>4. \A S \in F : IsFiniteSet(S)
  <2> TAKE S \in F
  <2>1. PICK w \in ws : S = {w} \X DOMAIN pending[w]
    OBVIOUS
  <2>2. pending[w] \in Seq(Jobs)
    BY DEF TypeOK
  <2>3. DOMAIN pending[w] = 1..Len(pending[w]) /\ Len(pending[w]) \in Nat
    BY <2>2
  <2>4. IsFiniteSet({w}) /\ IsFiniteSet(1..Len(pending[w]))
    <3>1. IsFiniteSet({w})
      BY FS_Singleton
    <3>2. 1 \in Int /\ Len(pending[w]) \in Int
      BY <2>3
    <3>3. IsFiniteSet(1..Len(pending[w]))
      BY <3>2, FS_Interval
    <3> QED BY <3>1, <3>3
  <2> QED BY <2>1, <2>3, <2>4, FS_Product
<1>5. IsFiniteSet(UNION F)
  BY <1>3, <1>4, FS_UNION
<1>6. EntriesOf(j, ws) \subseteq UNION F
  BY DEF EntriesOf
<1> QED BY <1>5, <1>6, FS_Subset, FS_CardinalityType


\* cancelAllWrites and onConnectionClose: what they leave is of the right type.
LEMMA CancelledType ==
    ASSUME TypeOK, NEW ws \in SUBSET Wsi, Cancelled(ws)
    PROVE  pending' \in [Wsi -> Seq(Jobs)] /\ group' \in [Jobs -> Int]
<1>1. \A j \in Jobs : Cardinality(EntriesOf(j, ws)) \in Nat
  BY EntriesFinite
<1>2. pending \in [Wsi -> Seq(Jobs)] /\ group \in [Jobs -> Int]
  BY DEF TypeOK
<1>3. <<>> \in Seq(Jobs)
  OBVIOUS
<1>4. WithoutWaiters(ws) \in [Wsi -> Seq(Jobs)]
  BY <1>2, <1>3 DEF WithoutWaiters
<1>5. LeftBy(ws) \in [Jobs -> Int]
  BY <1>1, <1>2 DEF LeftBy
<1> QED BY <1>4, <1>5 DEF Cancelled

\* onClientWritable: serving a waiter keeps the types.
LEMMA ServedType ==
    ASSUME TypeOK, NEW w \in Wsi, Waiting(w), Served(w)
    PROVE  /\ pending' \in [Wsi -> Seq(Jobs)] /\ group' \in [Jobs -> Int]
           /\ conn' \in [Wsi -> ConnStates]
           /\ trunc' \in SUBSET Wsi /\ choked' \in SUBSET Wsi
           /\ pollout' \in SUBSET Wsi
           /\ fault' \in {fault, "illegalWrite"}
<1>1. /\ pending[w] \in Seq(Jobs) /\ pending[w] # <<>>
  BY DEF TypeOK, Waiting
<1>2. Head(pending[w]) \in Jobs /\ Tail(pending[w]) \in Seq(Jobs)
  BY <1>1
<1> pending \in [Wsi -> Seq(Jobs)] /\ group \in [Jobs -> Int]
  BY DEF TypeOK
<1>3. pending' \in [Wsi -> Seq(Jobs)] /\ group' \in [Jobs -> Int]
  BY <1>2 DEF Served
<1>4. /\ conn' \in [Wsi -> ConnStates]
      /\ trunc' \in SUBSET Wsi /\ choked' \in SUBSET Wsi
      /\ pollout' \in SUBSET Wsi
      /\ fault' \in {fault, "illegalWrite"}
  BY DEF Served, LwsWrite, netVars, TypeOK, ConnStates
<1> QED BY <1>3, <1>4

\* What TypeInv says of the jobs and threads, for the two helpers that start and
\* end a job.
ThreadsFine ==
    /\ phase \in [Jobs -> {"free", "called", "waiting"}]
    /\ script \in [Threads -> Seq(Jobs)]
    /\ bpc \in [Threads -> {"idle", "clear", "call", "enum", "append", "walk",
                            "cancel", "wake"}]
    /\ \A t \in Threads : bpc[t] \in {"clear", "call"} \cup Enumerating =>
                            script[t] # <<>>

\* A thread that starts its broadcasts has a first one to make.
LEMMA StartType ==
    ASSUME ThreadsFine, NEW t \in Threads, NEW jobs \in Seq(Jobs), jobs # <<>>,
           NEW clear \in BOOLEAN, Start(t, jobs, clear)
    PROVE  /\ ThreadsFine'
           /\ \A u \in Threads : bpc'[u] = "append" => bpc[u] = "append"
<1>1. phase' \in [Jobs -> {"free", "called", "waiting"}]
  BY DEF Start, ThreadsFine
<1>2. script' = [script EXCEPT ![t] = jobs] /\ bpc' \in
        {[bpc EXCEPT ![t] = "clear"], [bpc EXCEPT ![t] = "call"]}
  BY DEF Start
<1> QED BY <1>1, <1>2 DEF ThreadsFine, Enumerating

\* A thread that is done with a broadcast has another one to make, or none.
LEMMA NextJobType ==
    ASSUME ThreadsFine, NEW t \in Threads, script[t] # <<>>,
           NEW p \in {"free", "waiting"}, NextJob(t, p)
    PROVE  /\ ThreadsFine'
           /\ \A u \in Threads : bpc'[u] = "append" => bpc[u] = "append"
<1>1. script[t] \in Seq(Jobs)
  BY DEF ThreadsFine
<1>2. Head(script[t]) \in Jobs /\ Tail(script[t]) \in Seq(Jobs)
  BY <1>1
<1>3. Len(script[t]) # 1 => Tail(script[t]) # <<>>
  <2>1. Len(script[t]) \in Nat /\ Len(script[t]) # 0
    BY <1>1, EmptySeq
  <2>2. Len(Tail(script[t])) = Len(script[t]) - 1
    BY <1>1, HeadTailProperties
  <2>3. Len(<<>>) = 0
    BY EmptySeq
  <2>4. Len(Tail(script[t])) = 0 => Len(script[t]) = 1
    BY ONLY <1>1, <2>1, <2>2
  <2>5. Tail(script[t]) = <<>> => Len(Tail(script[t])) = 0
    BY ONLY <2>3, Zenon
  <2> QED BY ONLY <2>4, <2>5, Zenon
<1>4. phase' \in [Jobs -> {"free", "called", "waiting"}]
  BY <1>2 DEF NextJob, ThreadsFine
<1>5. script' = [script EXCEPT ![t] = Tail(script[t])]
  BY DEF NextJob
<1>6. \/ Len(script[t]) = 1 /\ bpc' = [bpc EXCEPT ![t] = "idle"]
      \/ Len(script[t]) # 1 /\ bpc' = [bpc EXCEPT ![t] = "call"]
  BY DEF NextJob
<1>7. script' \in [Threads -> Seq(Jobs)]
  BY <1>2, <1>5 DEF ThreadsFine
<1>8. bpc' \in [Threads -> {"idle", "clear", "call", "enum", "append", "walk",
                            "cancel", "wake"}]
  BY <1>6 DEF ThreadsFine
<1>9. ASSUME NEW u \in Threads
      PROVE  /\ bpc'[u] = "append" => bpc[u] = "append"
             /\ bpc'[u] \in {"clear", "call"} \cup Enumerating => script'[u] # <<>>
  <2>1. CASE u = t
    BY <1>3, <1>5, <1>6, <2>1 DEF ThreadsFine, Enumerating
  <2>2. CASE u # t
    BY <1>5, <1>6, <2>2 DEF ThreadsFine
  <2> QED BY <2>1, <2>2
<1> QED BY <1>4, <1>7, <1>8, <1>9 DEF ThreadsFine

\* Every step of the threads, of the loop and of the peers keeps the types.
LEMMA TypeStep == TypeInv /\ [Next]_vars => TypeInv'
<1> USE DEF TypeInv, TypeOK, WellFormed, ConnStates, Enumerating, vars, netVars,
            pollVars, jobVars, threadVars, raceVars, serverVars
<1>1. ASSUME TypeInv, NEW t \in Writers, Capture(t) PROVE TypeInv'
  <2>1. t \in Threads
    BY DEF Threads
  <2>2. PICK jobs \in Seq(Jobs) : jobs # <<>> /\ Start(t, jobs, FALSE)
    <3>1. \A y, uv \in DataJobs : <<y, uv>> \in Seq(Jobs) /\ <<y, uv>> # <<>>
      BY DEF Jobs
    <3>2. \A s \in StringJobs : <<s>> \in Seq(Jobs) /\ <<s>> # <<>>
      BY DEF Jobs
    <3>3. \/ \E y, uv \in DataJobs : Start(t, <<y, uv>>, FALSE)
          \/ \E s \in StringJobs : Start(t, <<s>>, FALSE)
      BY <1>1 DEF Capture
    <3> QED BY ONLY <3>1, <3>2, <3>3
  <2>3. ThreadsFine' /\ \A u \in Threads : bpc'[u] = "append" => bpc[u] = "append"
    <3>1. ThreadsFine
      BY <1>1 DEF ThreadsFine
    <3>2. FALSE \in BOOLEAN
      OBVIOUS
    <3> QED BY ONLY <2>1, <2>2, <3>1, <3>2, StartType
  <2> QED BY <1>1, <2>3 DEF Capture, ThreadsFine
<1>2. ASSUME TypeInv, NEW t \in Threads, CancelAllWrites(t) PROVE TypeInv'
  BY <1>2, CancelledType DEF CancelAllWrites
<1>3. ASSUME TypeInv, NEW t \in Threads, Broadcast(t) PROVE TypeInv'
  <2>1. CASE clients = {}
    <3>1. ThreadsFine' /\ \A u \in Threads : bpc'[u] = "append" => bpc[u] = "append"
      BY <1>3, <2>1, NextJobType DEF ThreadsFine, Broadcast
    <3> QED BY <1>3, <2>1, <3>1 DEF Broadcast, ThreadsFine
  <2>2. CASE clients # {}
    BY <1>3, <2>2, ZenonT(60) DEF Broadcast
  <2> QED BY <2>1, <2>2
<1>4. ASSUME TypeInv, NEW t \in Threads, Visit(t) PROVE TypeInv'
  BY <1>4 DEF Visit
<1>5. ASSUME TypeInv, NEW t \in Threads, EnumerationMutated(t) PROVE TypeInv'
  BY <1>5 DEF EnumerationMutated
<1>6. ASSUME TypeInv, NEW t \in Threads, Submit(t) PROVE TypeInv'
  <2>1. ThreadsFine' /\ \A u \in Threads : bpc'[u] = "append" => bpc[u] = "append"
    BY <1>6, NextJobType DEF ThreadsFine, Submit
  <2> QED BY <1>6, <2>1 DEF Submit, ThreadsFine
<1>7. ASSUME TypeInv, NEW t \in Threads, Append_(t) PROVE TypeInv'
  BY <1>7 DEF Append_
<1>8. ASSUME TypeInv, NEW t \in Threads, Arm(t) PROVE TypeInv'
  BY <1>8 DEF Arm, Armable
<1>9. ASSUME TypeInv, NEW t \in Threads, TestCanCancel(t) PROVE TypeInv'
  <2>1. CASE canCancel
    BY <1>9, <2>1 DEF TestCanCancel
  <2>2. CASE ~canCancel
    BY <1>9, <2>2 DEF TestCanCancel
  <2> QED BY <2>1, <2>2
<1>10. ASSUME TypeInv, NEW t \in Threads, Wake(t) PROVE TypeInv'
  BY <1>10 DEF Wake
<1>11. ASSUME TypeInv, NEW j \in Jobs, Complete(j) PROVE TypeInv'
  BY <1>11 DEF Complete
<1>12. ASSUME TypeInv, NEW w \in Wsi, FlushTruncated(w) PROVE TypeInv'
  <2>1. /\ conn' \in [Wsi -> ConnStates] /\ pollout' \in SUBSET Wsi
        /\ trunc' \in SUBSET Wsi /\ choked' \in SUBSET Wsi
    BY <1>12 DEF FlushTruncated
  <2>2. revOut' \in SUBSET Wsi /\ revIn' \in SUBSET Wsi
    BY <1>12 DEF FlushTruncated, Retried
  <2> QED BY <1>12, <2>1, <2>2 DEF FlushTruncated
<1>13. ASSUME TypeInv, NEW w \in Wsi, FlushFails(w) PROVE TypeInv'
  BY <1>13 DEF FlushFails, Servicing, Kill, ListChanges
<1>14. ASSUME TypeInv, NEW w \in Wsi, ReplyToClose(w) PROVE TypeInv'
  <2>1. /\ conn' \in [Wsi -> ConnStates] /\ pollout' \in SUBSET Wsi
        /\ trunc' \in SUBSET Wsi /\ choked' \in SUBSET Wsi
    BY <1>14, ZenonT(60) DEF ReplyToClose, CloseFreeWsi
  <2>2. revOut' \in SUBSET Wsi /\ revIn' \in SUBSET Wsi
    BY <1>14 DEF ReplyToClose, Retried
  <2> QED BY <1>14, <2>1, <2>2 DEF ReplyToClose
<1>15. ASSUME TypeInv, NEW w \in Wsi, Writable(w) PROVE TypeInv'
  BY <1>15 DEF Writable, Servicing
<1>16. ASSUME TypeInv, NEW w \in Wsi, Establish(w) PROVE TypeInv'
  BY <1>16 DEF Establish, Servicing, ListChanges, ArrayChanges
<1>17. ASSUME TypeInv, NEW w \in Wsi, Receive(w) PROVE TypeInv'
  <2>1. svc \in Threads
    BY DEF Threads
  <2>2. CASE UNCHANGED <<phase, script, bpc>>
    BY <1>17, <2>2 DEF Receive
  <2>3. CASE ~UNCHANGED <<phase, script, bpc>>
    <3>1. PICK jobs \in Seq(Jobs), clear \in BOOLEAN :
            jobs # <<>> /\ Start(svc, jobs, clear)
      <4>1. \A s \in StringJobs : <<s>> \in Seq(Jobs) /\ <<s>> # <<>>
        BY DEF Jobs
      <4>2. \A y, uv \in DataJobs, s \in StringJobs :
              <<y, uv, s>> \in Seq(Jobs) /\ <<y, uv, s>> # <<>>
        BY DEF Jobs
      <4>3. \E s \in StringJobs :
              \/ \E c \in BOOLEAN : Start(svc, <<s>>, c)
              \/ \E y, uv \in DataJobs : Start(svc, <<y, uv, s>>, FALSE)
        BY <1>17, <2>3 DEF Receive
      <4> QED BY ONLY <4>1, <4>2, <4>3
    <3>2. ThreadsFine' /\ \A u \in Threads : bpc'[u] = "append" => bpc[u] = "append"
      <4>1. ThreadsFine
        BY <1>17 DEF ThreadsFine
      <4> QED BY ONLY <2>1, <3>1, <4>1, StartType
    <3> QED BY <1>17, <3>2 DEF Receive, ThreadsFine
  <2> QED BY <2>2, <2>3
<1>18. ASSUME TypeInv, NEW w \in Wsi, ReceiveClose(w) PROVE TypeInv'
  BY <1>18 DEF ReceiveClose, Servicing
<1>19. ASSUME TypeInv, NEW w \in Wsi, ReceiveEnd(w) PROVE TypeInv'
  <2>1. conn' \in [Wsi -> ConnStates] /\ pollout' \in SUBSET Wsi
    BY <1>19 DEF ReceiveEnd, CloseFreeWsi
  <2>2. revOut' \in SUBSET Wsi /\ revIn' \in SUBSET Wsi
    BY <1>19 DEF ReceiveEnd, Retried
  <2> QED BY <1>19, <2>1, <2>2 DEF ReceiveEnd
<1>20. ASSUME TypeInv, NEW w \in Wsi, HangUp(w) PROVE TypeInv'
  BY <1>20 DEF HangUp, Servicing, Kill, ListChanges
<1>21. ASSUME TypeInv, NEW w \in Wsi, Drain(w) PROVE TypeInv'
  BY <1>21 DEF Drain
<1>22. ASSUME TypeInv, PollEnter PROVE TypeInv'
  BY <1>22 DEF PollEnter
<1>23. ASSUME TypeInv, PollReturn PROVE TypeInv'
  BY <1>23 DEF PollReturn, BytesLeft
<1>24. ASSUME TypeInv, OnClientWritable PROVE TypeInv'
  <2>1. CASE Waiting(cur)
    BY <1>24, <2>1, ServedType DEF OnClientWritable
  <2>2. CASE ~Waiting(cur)
    BY <1>24, <2>2 DEF OnClientWritable
  <2> QED BY <2>1, <2>2
<1>25. ASSUME TypeInv, OnConnectionClose PROVE TypeInv'
  <2>1. CASE cur \in clients
    <3>1. /\ pending' \in [Wsi -> Seq(Jobs)] /\ group' \in [Jobs -> Int]
      BY <1>25, <2>1, CancelledType DEF OnConnectionClose
    <3> QED BY <1>25, <2>1, <3>1 DEF OnConnectionClose, ArrayChanges
  <2>2. CASE cur \notin clients
    BY <1>25, <2>2 DEF OnConnectionClose
  <2> QED BY <2>1, <2>2
<1>26. ASSUME TypeInv, CountWaiters PROVE TypeInv'
  BY <1>26 DEF CountWaiters, Servicing
<1>27. ASSUME TypeInv, Rearm PROVE TypeInv'
  BY <1>27 DEF Rearm, Armable
<1>28. ASSUME TypeInv, AllowCancel PROVE TypeInv'
  BY <1>28 DEF AllowCancel
<1>29. ASSUME TypeInv, Crashed \/ UNCHANGED vars PROVE TypeInv'
  BY <1>29 DEF Crashed
<1>30. ASSUME TypeInv, NEW w \in Wsi, Ignore(w) PROVE TypeInv'
  BY <1>30 DEF Ignore
<1> QED
  BY <1>1, <1>2, <1>3, <1>4, <1>5, <1>6, <1>7, <1>8, <1>9, <1>10, <1>11, <1>12, <1>13, <1>14, <1>15, <1>16, <1>17, <1>18, <1>19, <1>20, <1>21, <1>22, <1>23, <1>24, <1>25, <1>26, <1>27, <1>28, <1>29, <1>30
     DEF Next, Caller, Service, Loop

\* The server starts with every variable in its type.
LEMMA TypeInit == Init => TypeInv
<1>1. <<>> \in Seq(Jobs)
  OBVIOUS
<1>2. Init => WellFormed
  BY DEF Init, WellFormed, Enumerating
<1>3. Init => pending \in [Wsi -> Seq(Jobs)] /\ script \in [Threads -> Seq(Jobs)]
  BY <1>1 DEF Init
<1>4. Init => canCancel \in BOOLEAN
  BY Zenon DEF Init
<1>5. Init => TypeOK
  BY <1>3, <1>4 DEF Init, TypeOK, ConnStates
<1> QED BY <1>2, <1>5 DEF TypeInv

\* Every variable keeps its type.
THEOREM TypeCorrect == Spec => []TypeOK
<1>1. TypeInv => TypeOK
  BY DEF TypeInv
<1> QED BY TypeInit, TypeStep, <1>1, PTL DEF Spec

-----------------------------------------------------------------------------
(* No wakeup is lost *)

\* The mutex protects what follows the addition of a waiter.
MutexHeld == \A t \in Threads : bpc[t] \in InMutex => mutex = t

\* In any other state, the service thread asks for POLLOUT again before it polls.
WillRearm == spc \in {"fds", "writable", "closed", "rearm"}

\* A waiter of an open client is armed, or will be: by the thread that added it
\* or by the service thread.
Armed ==
    WillRearm \/ \A w \in Wsi :
        Open(w) /\ Waiting(w) => w \in pollout \/ \E t \in Threads : bpc[t] = "walk"

\* A socket that was armed too late for the poll under way: the thread that armed
\* it has still to test canCancel, or somebody has done so since.
ArmedLate ==
    spc = "poll" => \A w \in pollout \ pollset :
        \/ pipe > 0 \/ ~canCancel
        \/ \E t \in Threads : bpc[t] \in {"cancel", "wake"}

\* Where canCancel was tested, and reset, since the service thread last set it, a
\* byte is in the pipe or about to be.  The first poll comes before canCancel is
\* first set, but has no connection to wait for.
CancelledPoll ==
    spc \in {"enter", "poll"} /\ ~canCancel =>
        \/ pipe > 0 \/ \E t \in Threads : bpc[t] = "wake"
        \/ \A w \in Wsi : conn[w] = "none"

WakeInv == MutexHeld /\ Armed /\ ArmedLate /\ CancelledPoll

\* The inductive invariant says that the service thread sleeps on no waiter.
LEMMA WakeEnough == TypeInv /\ WakeInv => NoLostWakeup
BY DEF TypeInv, TypeOK, WakeInv, Armed, ArmedLate, CancelledPoll, WillRearm,
       NoLostWakeup, InMutex, Open

\* Before the first turn of the loop there is no connection to serve.
LEMMA WakeInit == Init => WakeInv
BY DEF Init, WakeInv, MutexHeld, Armed, ArmedLate, CancelledPoll, WillRearm,
       InMutex, Open

\* Outside of the mutex a broadcast disturbs nothing the loop relies on.
LEMMA WakeKept ==
    ASSUME WakeInv,
           UNCHANGED <<conn, pollout, pollset, pipe, pending, mutex, canCancel, spc>>,
           \A u \in Threads : bpc[u] \in InMutex \/ bpc'[u] \in InMutex
                                => bpc'[u] = bpc[u]
    PROVE  WakeInv'
BY DEF WakeInv, MutexHeld, Armed, ArmedLate, CancelledPoll, WillRearm, InMutex,
       Open, Waiting

\* Every step of -waitForWriteable and of the loop keeps the invariant.
LEMMA WakeStep == TypeInv /\ TypeInv' /\ WakeInv /\ [Next]_vars => WakeInv'
<1> DEFINE Inv == TypeInv /\ TypeInv' /\ WakeInv
<1> USE DEF TypeInv, TypeOK, WakeInv, MutexHeld, Armed, ArmedLate, CancelledPoll,
            WillRearm, InMutex, Open, Waiting, Servicing, vars, netVars, pollVars,
            jobVars, threadVars, raceVars, serverVars
<1>1. ASSUME Inv, NEW t \in Writers, Capture(t) PROVE WakeInv'
  BY <1>1, ZenonT(60) DEF Capture, Start, Threads
<1>2. ASSUME Inv, NEW t \in Threads, CancelAllWrites(t) PROVE WakeInv'
  BY <1>2, ZenonT(60) DEF CancelAllWrites, Cancelled, WithoutWaiters
<1>3. ASSUME Inv, NEW t \in Threads, Broadcast(t) PROVE WakeInv'
  <2>1. /\ UNCHANGED <<conn, pollout, pollset, pipe, pending, mutex, canCancel, spc>>
        /\ bpc[t] = "call"
    BY <1>3 DEF Broadcast
  <2>2. \E p \in {"idle", "call", "enum"} : bpc' = [bpc EXCEPT ![t] = p]
    BY <1>3 DEF Broadcast, NextJob
  <2>3. bpc \in [Threads -> {"idle", "clear", "call", "enum", "append", "walk",
                             "cancel", "wake"}]
    BY <1>3
  <2>4. \A u \in Threads : bpc[u] \in InMutex \/ bpc'[u] \in InMutex
                            => bpc'[u] = bpc[u]
    BY ONLY <2>1, <2>2, <2>3 DEF InMutex
  <2> QED BY ONLY <1>3, <2>1, <2>4, WakeKept
<1>4. ASSUME Inv, NEW t \in Threads, Visit(t) PROVE WakeInv'
  BY <1>4, ZenonT(60) DEF Visit
<1>5. ASSUME Inv, NEW t \in Threads, EnumerationMutated(t) PROVE WakeInv'
  BY <1>5 DEF EnumerationMutated
<1>6. ASSUME Inv, NEW t \in Threads, Submit(t) PROVE WakeInv'
  BY <1>6 DEF Submit, NextJob
<1>7. ASSUME Inv, NEW t \in Threads, Append_(t) PROVE WakeInv'
  <2>1. MutexHeld'
    <3>1. \A u \in Threads : bpc[u] \notin InMutex
      BY <1>7, ConstantsAssumption DEF Append_, Threads
    <3> QED BY <1>7, <3>1 DEF Append_
  <2>2. /\ bpc[t] = "append" /\ bpc' = [bpc EXCEPT ![t] = "walk"]
        /\ UNCHANGED <<spc, conn, pollout, pollset, pipe, canCancel>>
    BY <1>7 DEF Append_
  <2>3. bpc'[t] = "walk" /\ \A u \in Threads \ {t} : bpc'[u] = bpc[u]
    BY <1>7, <2>2
  <2>4. Armed'
    BY <2>3
  <2>5. ArmedLate'
    BY <1>7, <2>2, <2>3
  <2>6. CancelledPoll'
    BY <1>7, <2>2, <2>3
  <2> QED BY <2>1, <2>4, <2>5, <2>6
<1>8. ASSUME Inv, NEW t \in Threads, Arm(t) PROVE WakeInv'
  BY <1>8 DEF Arm, Armable
<1>9. ASSUME Inv, NEW t \in Threads, TestCanCancel(t) PROVE WakeInv'
  BY <1>9 DEF TestCanCancel
<1>10. ASSUME Inv, NEW t \in Threads, Wake(t) PROVE WakeInv'
  BY <1>10 DEF Wake
<1>11. ASSUME Inv, NEW j \in Jobs, Complete(j) PROVE WakeInv'
  BY <1>11 DEF Complete
<1>12. ASSUME Inv, NEW w \in Wsi, FlushTruncated(w) PROVE WakeInv'
  BY <1>12 DEF FlushTruncated
<1>13. ASSUME Inv, NEW w \in Wsi, FlushFails(w) PROVE WakeInv'
  BY <1>13 DEF FlushFails, Kill
<1>14. ASSUME Inv, NEW w \in Wsi, ReplyToClose(w) PROVE WakeInv'
  BY <1>14 DEF ReplyToClose, CloseFreeWsi
<1>15. ASSUME Inv, NEW w \in Wsi, Writable(w) PROVE WakeInv'
  BY <1>15 DEF Writable
<1>16. ASSUME Inv, NEW w \in Wsi, Establish(w) PROVE WakeInv'
  BY <1>16 DEF Establish
<1>17. ASSUME Inv, NEW w \in Wsi, Receive(w) PROVE WakeInv'
  BY <1>17, ZenonT(60) DEF Receive, Start, Threads
<1>18. ASSUME Inv, NEW w \in Wsi, ReceiveClose(w) PROVE WakeInv'
  BY <1>18 DEF ReceiveClose
<1>19. ASSUME Inv, NEW w \in Wsi, ReceiveEnd(w) PROVE WakeInv'
  BY <1>19 DEF ReceiveEnd, CloseFreeWsi
<1>20. ASSUME Inv, NEW w \in Wsi, HangUp(w) PROVE WakeInv'
  BY <1>20 DEF HangUp, Kill
<1>21. ASSUME Inv, NEW w \in Wsi, Drain(w) PROVE WakeInv'
  BY <1>21 DEF Drain
<1>22. ASSUME Inv, PollEnter PROVE WakeInv'
  BY <1>22 DEF PollEnter
<1>23. ASSUME Inv, PollReturn PROVE WakeInv'
  BY <1>23 DEF PollReturn
<1>24. ASSUME Inv, OnClientWritable PROVE WakeInv'
  BY <1>24 DEF OnClientWritable
<1>25. ASSUME Inv, OnConnectionClose PROVE WakeInv'
  BY <1>25 DEF OnConnectionClose
<1>26. ASSUME Inv, CountWaiters PROVE WakeInv'
  BY <1>26 DEF CountWaiters, AnyWaiting
<1>27. ASSUME Inv, Rearm PROVE WakeInv'
  BY <1>27 DEF Rearm, Armable
<1>28. ASSUME Inv, AllowCancel PROVE WakeInv'
  BY <1>28 DEF AllowCancel
<1>29. ASSUME Inv, Crashed \/ UNCHANGED vars PROVE WakeInv'
  BY <1>29 DEF Crashed
<1>30. ASSUME Inv, NEW w \in Wsi, Ignore(w) PROVE WakeInv'
  BY <1>30 DEF Ignore
<1> QED
  BY <1>1, <1>2, <1>3, <1>4, <1>5, <1>6, <1>7, <1>8, <1>9, <1>10, <1>11, <1>12, <1>13, <1>14, <1>15, <1>16, <1>17, <1>18, <1>19, <1>20, <1>21, <1>22, <1>23, <1>24, <1>25, <1>26, <1>27, <1>28, <1>29, <1>30
     DEF Next, Caller, Service, Loop

\* The service thread never sleeps on a waiter it could serve.
THEOREM NeverLosesWakeup == Spec => []NoLostWakeup
<1>1. Init => TypeInv /\ WakeInv
  BY TypeInit, WakeInit
<1>2. TypeInv /\ WakeInv /\ [Next]_vars => (TypeInv /\ WakeInv)'
  BY TypeStep, WakeStep
<1> QED BY <1>1, <1>2, WakeEnough, PTL DEF Spec

-----------------------------------------------------------------------------
(* The pipe is bounded *)

BytesToCome == (IF \E t \in Threads : bpc[t] = "wake" THEN 1 ELSE 0)
               + (IF canCancel THEN 1 ELSE 0)

\* The bytes in the pipe and those that can still be written before the service
\* thread sets canCancel again: it does so once per turn, after one byte was read
\* unless there was none.
PipeInv ==
    pipe + BytesToCome <= (IF spc \in {"enter", "poll"} THEN 3 ELSE 2)

\* Every byte written was allowed by canCancel; every turn reads one.
LEMMA PipeStep == TypeInv /\ TypeInv' /\ MutexHeld /\ PipeInv /\ [Next]_vars => PipeInv'
<1> DEFINE Inv == TypeInv /\ TypeInv' /\ MutexHeld /\ PipeInv
<1> USE DEF TypeInv, TypeOK, PipeInv, BytesToCome, Servicing, vars, netVars,
            pollVars, jobVars, threadVars, raceVars, serverVars
<1>1. ASSUME Inv, NEW t \in Writers, Capture(t) PROVE PipeInv'
  <2>1. \A u \in Threads : bpc'[u] = "wake" <=> bpc[u] = "wake"
    BY <1>1 DEF Capture, Start, Threads
  <2>2. UNCHANGED <<pipe, canCancel, spc>>
    BY <1>1 DEF Capture
  <2> QED BY <1>1, <2>1, <2>2
<1>2. ASSUME Inv, NEW t \in Threads, CancelAllWrites(t) PROVE PipeInv'
  BY <1>2 DEF CancelAllWrites
<1>3. ASSUME Inv, NEW t \in Threads, Broadcast(t) PROVE PipeInv'
  BY <1>3 DEF Broadcast, NextJob
<1>4. ASSUME Inv, NEW t \in Threads, Visit(t) PROVE PipeInv'
  BY <1>4 DEF Visit
<1>5. ASSUME Inv, NEW t \in Threads, EnumerationMutated(t) PROVE PipeInv'
  BY <1>5 DEF EnumerationMutated
<1>6. ASSUME Inv, NEW t \in Threads, Submit(t) PROVE PipeInv'
  BY <1>6 DEF Submit, NextJob
<1>7. ASSUME Inv, NEW t \in Threads, Append_(t) PROVE PipeInv'
  BY <1>7 DEF Append_
<1>8. ASSUME Inv, NEW t \in Threads, Arm(t) PROVE PipeInv'
  BY <1>8 DEF Arm
<1>9. ASSUME Inv, NEW t \in Threads, TestCanCancel(t) PROVE PipeInv'
  BY <1>9 DEF TestCanCancel
<1>10. ASSUME Inv, NEW t \in Threads, Wake(t) PROVE PipeInv'
  <2>1. bpc[t] = "wake" /\ \A u \in Threads : bpc'[u] # "wake"
    BY <1>10 DEF Wake, MutexHeld, InMutex
  <2>2. pipe' = pipe + 1 /\ UNCHANGED <<canCancel, spc>>
    BY <1>10 DEF Wake
  <2> QED BY <1>10, <2>1, <2>2
<1>11. ASSUME Inv, NEW j \in Jobs, Complete(j) PROVE PipeInv'
  BY <1>11 DEF Complete
<1>12. ASSUME Inv, NEW w \in Wsi, FlushTruncated(w) PROVE PipeInv'
  BY <1>12 DEF FlushTruncated
<1>13. ASSUME Inv, NEW w \in Wsi, FlushFails(w) PROVE PipeInv'
  BY <1>13 DEF FlushFails, Kill
<1>14. ASSUME Inv, NEW w \in Wsi, ReplyToClose(w) PROVE PipeInv'
  BY <1>14 DEF ReplyToClose
<1>15. ASSUME Inv, NEW w \in Wsi, Writable(w) PROVE PipeInv'
  BY <1>15 DEF Writable
<1>16. ASSUME Inv, NEW w \in Wsi, Establish(w) PROVE PipeInv'
  BY <1>16 DEF Establish
<1>17. ASSUME Inv, NEW w \in Wsi, Receive(w) PROVE PipeInv'
  <2>1. \A u \in Threads : bpc'[u] = "wake" <=> bpc[u] = "wake"
    <3>1. CASE UNCHANGED bpc
      BY <3>1
    <3>2. CASE ~UNCHANGED bpc
      <4>1. bpc[svc] = "idle"
        BY <1>17 DEF Receive
      <4>2. bpc' \in {[bpc EXCEPT ![svc] = "clear"], [bpc EXCEPT ![svc] = "call"]}
        BY <1>17, <3>2 DEF Receive, Start
      <4> QED BY <1>17, <4>1, <4>2
    <3> QED BY <3>1, <3>2
  <2>2. UNCHANGED <<pipe, canCancel, spc>>
    BY <1>17 DEF Receive
  <2> QED BY <1>17, <2>1, <2>2
<1>18. ASSUME Inv, NEW w \in Wsi, ReceiveClose(w) PROVE PipeInv'
  BY <1>18 DEF ReceiveClose
<1>19. ASSUME Inv, NEW w \in Wsi, ReceiveEnd(w) PROVE PipeInv'
  BY <1>19 DEF ReceiveEnd
<1>20. ASSUME Inv, NEW w \in Wsi, HangUp(w) PROVE PipeInv'
  BY <1>20 DEF HangUp, Kill
<1>21. ASSUME Inv, NEW w \in Wsi, Drain(w) PROVE PipeInv'
  BY <1>21 DEF Drain
<1>22. ASSUME Inv, PollEnter PROVE PipeInv'
  BY <1>22 DEF PollEnter
<1>23. ASSUME Inv, PollReturn PROVE PipeInv'
  BY <1>23 DEF PollReturn, BytesLeft
<1>24. ASSUME Inv, OnClientWritable PROVE PipeInv'
  BY <1>24 DEF OnClientWritable
<1>25. ASSUME Inv, OnConnectionClose PROVE PipeInv'
  BY <1>25 DEF OnConnectionClose
<1>26. ASSUME Inv, CountWaiters PROVE PipeInv'
  BY <1>26 DEF CountWaiters
<1>27. ASSUME Inv, Rearm PROVE PipeInv'
  BY <1>27 DEF Rearm
<1>28. ASSUME Inv, AllowCancel PROVE PipeInv'
  BY <1>28 DEF AllowCancel
<1>29. ASSUME Inv, Crashed \/ UNCHANGED vars PROVE PipeInv'
  BY <1>29 DEF Crashed
<1>30. ASSUME Inv, NEW w \in Wsi, Ignore(w) PROVE PipeInv'
  BY <1>30 DEF Ignore
<1> QED
  BY <1>1, <1>2, <1>3, <1>4, <1>5, <1>6, <1>7, <1>8, <1>9, <1>10, <1>11, <1>12, <1>13, <1>14, <1>15, <1>16, <1>17, <1>18, <1>19, <1>20, <1>21, <1>22, <1>23, <1>24, <1>25, <1>26, <1>27, <1>28, <1>29, <1>30
     DEF Next, Caller, Service, Loop

\* Initially the pipe is empty and nobody may write to it.
LEMMA PipeInit == Init => PipeInv
BY DEF Init, PipeInv, BytesToCome

\* The pipe never holds more than three bytes, whatever the number of capture
\* threads: canCancel, tested and reset under the mutex, lets one byte in per
\* turn of the loop, and lws_plat_service_tsi takes one out.
THEOREM PipeStaysBounded == Spec => []PipeBounded
<1>1. Init => TypeInv /\ WakeInv /\ PipeInv
  BY TypeInit, WakeInit, PipeInit
<1>2. TypeInv /\ WakeInv /\ PipeInv /\ [Next]_vars
        => (TypeInv /\ WakeInv /\ PipeInv)'
  BY TypeStep, WakeStep, PipeStep DEF WakeInv
<1>3. TypeInv /\ PipeInv => PipeBounded
  BY DEF TypeInv, TypeOK, PipeInv, BytesToCome, PipeBounded
<1> QED BY <1>1, <1>2, <1>3, PTL DEF Spec

-----------------------------------------------------------------------------
(* lws_write stays legal *)

\* lws_handle_POLLOUT_event asks the user only when no send is stored, and the
\* callback writes once.
WriteInv == (spc = "writable" => cur \notin trunc) /\ fault # "illegalWrite"

\* Every step keeps it: the threads of broadcasts do not write, and the service
\* thread enters the writable callback past the flush of what is stored.
LEMMA WriteStep == WriteInv /\ [Next]_vars => WriteInv'
<1> USE DEF WriteInv, Servicing, vars, netVars, pollVars, jobVars, threadVars,
            raceVars, serverVars
<1>1. ASSUME WriteInv, NEW t \in Writers, Capture(t) PROVE WriteInv'
  BY <1>1 DEF Capture
<1>2. ASSUME WriteInv, NEW t \in Threads, Caller(t) PROVE WriteInv'
  <2>1. UNCHANGED <<spc, cur, trunc>>
    BY <1>2 DEF Caller, CancelAllWrites, Broadcast, Visit, EnumerationMutated,
                Submit, Append_, Arm, TestCanCancel, Wake
  <2>2. fault' \in {fault, "enumeration", "listWalk"}
    BY <1>2 DEF Caller, CancelAllWrites, Broadcast, Visit, EnumerationMutated,
                Submit, Append_, Arm, TestCanCancel, Wake
  <2> QED BY <1>2, <2>1, <2>2
<1>3. ASSUME WriteInv, NEW j \in Jobs, Complete(j) PROVE WriteInv'
  BY <1>3 DEF Complete
<1>4. ASSUME WriteInv, NEW w \in Wsi, Service(w) PROVE WriteInv'
  <2>1. CASE Writable(w)
    BY <1>4, <2>1 DEF Writable, UserTurn
  <2>2. CASE FlushFails(w) \/ HangUp(w)
    BY <1>4, <2>2 DEF FlushFails, HangUp, Kill
  <2>3. CASE \/ FlushTruncated(w) \/ ReplyToClose(w) \/ Establish(w)
             \/ Receive(w) \/ Ignore(w) \/ ReceiveClose(w) \/ ReceiveEnd(w)
    <3>1. spc' = "fds" /\ UNCHANGED fault
      BY <2>3 DEF FlushTruncated, ReplyToClose, Establish, Receive, Ignore,
                  ReceiveClose, ReceiveEnd
    <3> QED BY <1>4, <3>1
  <2> QED BY <1>4, <2>1, <2>2, <2>3 DEF Service
<1>5. ASSUME WriteInv, NEW w \in Wsi, Drain(w) PROVE WriteInv'
  BY <1>5 DEF Drain
<1>6. ASSUME WriteInv, Loop PROVE WriteInv'
  <2>1. CASE OnClientWritable
    <3>1. spc' = "fds"
      BY <2>1 DEF OnClientWritable
    <3>2. fault' = fault
      BY <1>6, <2>1 DEF OnClientWritable, Served, LwsWrite
    <3> QED BY <1>6, <3>1, <3>2
  <2>2. CASE ~OnClientWritable
    <3>1. spc' # "writable" /\ UNCHANGED fault
      BY <1>6, <2>2 DEF Loop, PollEnter, PollReturn, OnConnectionClose,
                        CountWaiters, Rearm, AllowCancel
    <3> QED BY <1>6, <3>1
  <2> QED BY <2>1, <2>2
<1>7. ASSUME WriteInv, Crashed \/ UNCHANGED vars PROVE WriteInv'
  BY <1>7 DEF Crashed
<1> QED BY <1>1, <1>2, <1>3, <1>4, <1>5, <1>6, <1>7 DEF Next

\* No writable callback runs lws_write into assert(0): onClientWritable serves
\* one waiter, and is not called while an earlier send is stored.
THEOREM WritesAreLegal == Spec => []LegalWrite
<1>1. Init => WriteInv
  BY DEF Init, WriteInv
<1>2. WriteInv => LegalWrite
  BY DEF WriteInv, LegalWrite
<1> QED BY <1>1, <1>2, WriteStep, PTL DEF Spec

-----------------------------------------------------------------------------
(* The service thread is not overtaken *)

\* The service thread broadcasts inside of a message handler, and the handler
\* returns before a connection joins or leaves.
HandlerInv ==
    /\ spc # "fds" => bpc[svc] = "idle"
    /\ svc \notin mutated \cup raced

\* Every step keeps it: the array of clients and the list of connections only
\* change by steps of the service thread outside of its message handlers.
LEMMA HandlerStep == TypeInv /\ HandlerInv /\ [Next]_vars => HandlerInv'
<1> DEFINE Inv == TypeInv /\ HandlerInv
<1> USE DEF TypeInv, TypeOK, HandlerInv, Servicing, vars, netVars, pollVars,
            jobVars, threadVars, raceVars, serverVars
<1>0. svc \in Threads
  BY DEF Threads
<1>1. ASSUME Inv, NEW t \in Writers, Capture(t) PROVE HandlerInv'
  <2>1. t # svc
    BY ConstantsAssumption
  <2>2. bpc'[svc] = bpc[svc]
    BY <1>0, <1>1, <2>1 DEF Capture, Start
  <2>3. UNCHANGED <<spc, mutated, raced>>
    BY <1>1 DEF Capture
  <2> QED BY <1>1, <2>2, <2>3
<1>2. ASSUME Inv, NEW t \in Threads, Caller(t) PROVE HandlerInv'
  <2>1. /\ UNCHANGED spc
        /\ mutated' \subseteq mutated /\ raced' \subseteq raced
    BY <1>2 DEF Caller, CancelAllWrites, Broadcast, Visit, EnumerationMutated,
                Submit, Append_, Arm, TestCanCancel, Wake
  <2>2. bpc[t] # "idle"
    BY <1>2 DEF Caller, CancelAllWrites, Broadcast, Visit, EnumerationMutated,
                Submit, Append_, Arm, TestCanCancel, Wake
  <2>3. bpc' = bpc \/ \E p \in {"idle", "clear", "call", "enum", "append", "walk",
                                "cancel", "wake"} : bpc' = [bpc EXCEPT ![t] = p]
    BY <1>2 DEF Caller, CancelAllWrites, Broadcast, Visit, EnumerationMutated,
                Submit, Append_, Arm, TestCanCancel, Wake, NextJob
  <2>4. spc # "fds" => bpc'[svc] = "idle"
    BY <1>0, <1>2, <2>2, <2>3
  <2> QED BY <1>2, <2>1, <2>4
<1>3. ASSUME Inv, NEW j \in Jobs, Complete(j) PROVE HandlerInv'
  BY <1>3 DEF Complete
<1>4. ASSUME Inv, NEW w \in Wsi, Service(w) PROVE HandlerInv'
  <2>1. CASE Receive(w)
    BY <1>4, <2>1 DEF Receive
  <2>2. CASE Writable(w)
    BY <1>4, <2>2 DEF Writable
  <2>3. CASE FlushFails(w) \/ HangUp(w)
    BY <1>4, <2>3 DEF FlushFails, HangUp, Kill, ListChanges
  <2>4. CASE Establish(w)
    BY <1>4, <2>4 DEF Establish, ListChanges, ArrayChanges, Enumerating
  <2>5. CASE \/ FlushTruncated(w) \/ ReplyToClose(w) \/ ReceiveClose(w)
             \/ ReceiveEnd(w) \/ Ignore(w)
    <3>1. UNCHANGED <<spc, bpc, mutated, raced>>
      BY <2>5 DEF FlushTruncated, ReplyToClose, ReceiveClose, ReceiveEnd, Ignore
    <3> QED BY <1>4, <3>1
  <2> QED BY <1>4, <2>1, <2>2, <2>3, <2>4, <2>5 DEF Service
<1>5. ASSUME Inv, NEW w \in Wsi, Drain(w) PROVE HandlerInv'
  BY <1>5 DEF Drain
<1>6. ASSUME Inv, Loop PROVE HandlerInv'
  <2>1. bpc[svc] = "idle" \/ spc' = "fds"
    BY <1>6 DEF Loop, PollEnter, PollReturn, OnClientWritable, OnConnectionClose,
                CountWaiters, Rearm, AllowCancel
  <2>2. UNCHANGED <<bpc, raced>>
    BY <1>6 DEF Loop, PollEnter, PollReturn, OnClientWritable, OnConnectionClose,
                CountWaiters, Rearm, AllowCancel
  <2>3. svc \notin mutated'
    <3>1. CASE OnConnectionClose
      BY <1>6, <3>1 DEF OnConnectionClose, ArrayChanges, Enumerating
    <3>2. CASE ~OnConnectionClose
      BY <1>6, <3>2 DEF Loop, PollEnter, PollReturn, OnClientWritable,
                        CountWaiters, Rearm, AllowCancel
    <3> QED BY <3>1, <3>2
  <2> QED BY <1>6, <2>1, <2>2, <2>3
<1>7. ASSUME Inv, Crashed \/ UNCHANGED vars PROVE HandlerInv'
  BY <1>7 DEF Crashed
<1> QED BY <1>1, <1>2, <1>3, <1>4, <1>5, <1>6, <1>7 DEF Next

\* -eachClient and lws_callback_on_writable_all_protocol take no lock, and need
\* none on the service thread: a broadcast it makes in a message handler never
\* sees the clients or the connections change.
THEOREM ServiceIsNotOvertaken == Spec => []ServiceNotOvertaken
<1>1. Init => TypeInv /\ HandlerInv
  <2>1. Init => HandlerInv
    BY DEF Init, HandlerInv, Threads
  <2> QED BY <2>1, TypeInit
<1>2. TypeInv /\ HandlerInv => ServiceNotOvertaken
  BY DEF HandlerInv, ServiceNotOvertaken
<1> QED BY <1>1, <1>2, TypeStep, HandlerStep, PTL DEF Spec

-----------------------------------------------------------------------------
(* Counting the waiters of a job *)

\* EntriesOf, of queues p.
EntriesIn(p, j, ws) ==
    {e \in UNION {{w} \X DOMAIN p[w] : w \in ws} : p[e[1]][e[2]] = j}

\* The entries of a job are places in the queues.
EntryAt(p, j, ws, e) ==
    \E w \in ws : \E i \in 1..Len(p[w]) : e = <<w, i>> /\ p[w][i] = j

LEMMA EntriesAre ==
    ASSUME NEW p \in [Wsi -> Seq(Jobs)], NEW j, NEW ws, ws \subseteq Wsi
    PROVE  \A e : e \in EntriesIn(p, j, ws) <=> EntryAt(p, j, ws, e)
<1> TAKE e
<1>1. \A w \in ws : DOMAIN p[w] = 1..Len(p[w])
  OBVIOUS
<1>2. ASSUME e \in EntriesIn(p, j, ws)
      PROVE  EntryAt(p, j, ws, e)
  <2>1. PICK w \in ws : e \in {w} \X DOMAIN p[w]
    BY <1>2 DEF EntriesIn
  <2>2. e = <<w, e[2]>> /\ e[1] = w /\ e[2] \in 1..Len(p[w])
    BY <1>1, <2>1
  <2>3. p[e[1]][e[2]] = j
    BY <1>2 DEF EntriesIn
  <2> QED BY <2>2, <2>3 DEF EntryAt
<1>3. ASSUME NEW w \in ws, NEW i \in 1..Len(p[w]), e = <<w, i>>, p[w][i] = j
      PROVE  e \in EntriesIn(p, j, ws)
  <2>1. e \in {w} \X DOMAIN p[w] /\ e[1] = w /\ e[2] = i
    BY <1>1, <1>3
  <2> QED BY <1>3, <2>1 DEF EntriesIn
<1> QED BY <1>2, <1>3 DEF EntryAt

Added(p, w, k) == [p EXCEPT ![w] = Append(@, k)]

\* Queues q have the entries of j that p have, and another if more says so.
OneMore(p, q, j, more) ==
    \E e : /\ e \notin EntriesIn(p, j, Wsi)
           /\ EntriesIn(q, j, Wsi) = EntriesIn(p, j, Wsi) \cup (IF more THEN {e} ELSE {})

\* A waiter that is added is one more entry of its job, and none of another.
LEMMA EntryAdded ==
    ASSUME NEW p \in [Wsi -> Seq(Jobs)], NEW w \in Wsi, NEW k \in Jobs, NEW j
    PROVE  OneMore(p, Added(p, w, k), j, k = j)
<1> DEFINE n == Len(p[w]) + 1
           q == Added(p, w, k)
<1>1. /\ q \in [Wsi -> Seq(Jobs)] /\ Len(p[w]) \in Nat
      /\ Len(q[w]) = n /\ q[w][n] = k
      /\ \A i \in 1..Len(p[w]) : q[w][i] = p[w][i]
      /\ \A v \in Wsi \ {w} : q[v] = p[v]
  <2>1. p[w] \in Seq(Jobs) /\ q[w] = Append(p[w], k)
    BY DEF Added
  <2>2. /\ Append(p[w], k) \in Seq(Jobs) /\ Len(Append(p[w], k)) = n
        /\ \A i \in 1..Len(p[w]) : Append(p[w], k)[i] = p[w][i]
        /\ Append(p[w], k)[n] = k /\ Len(p[w]) \in Nat
    BY <2>1, AppendProperties
  <2> QED BY <2>1, <2>2 DEF Added
<1> HIDE DEF q
<1>2. ASSUME NEW e
      PROVE  EntryAt(q, j, Wsi, e) <=> EntryAt(p, j, Wsi, e) \/ (j = k /\ e = <<w, n>>)
  <2>1. 1..n = 1..Len(p[w]) \cup {n}
    BY <1>1
  <2>2. ASSUME EntryAt(q, j, Wsi, e)
        PROVE  EntryAt(p, j, Wsi, e) \/ (j = k /\ e = <<w, n>>)
    <3>1. PICK v \in Wsi, i \in Nat : i \in 1..Len(q[v]) /\ e = <<v, i>> /\ q[v][i] = j
      BY <2>2 DEF EntryAt
    <3>2. CASE v = w /\ i = n
      BY <1>1, <3>1, <3>2
    <3>3. CASE v # w \/ i # n
      <4>1. i \in 1..Len(p[v]) /\ p[v][i] = j
        <5>1. CASE v = w
          <6>1. i \in 1..n /\ i # n /\ q[w][i] = j
            BY <1>1, <3>1, <3>3, <5>1
          <6>2. i \in 1..Len(p[w])
            BY <2>1, <6>1
          <6> QED BY <1>1, <5>1, <6>1, <6>2
        <5>2. CASE v # w
          BY <1>1, <3>1, <5>2
        <5> QED BY <5>1, <5>2
      <4> QED BY <3>1, <4>1 DEF EntryAt
    <3> QED BY <3>2, <3>3
  <2>3. ASSUME EntryAt(p, j, Wsi, e) PROVE EntryAt(q, j, Wsi, e)
    <3>1. PICK v \in Wsi, i \in Nat : i \in 1..Len(p[v]) /\ e = <<v, i>> /\ p[v][i] = j
      BY <2>3 DEF EntryAt
    <3>2. i \in 1..Len(q[v]) /\ q[v][i] = j
      BY <1>1, <2>1, <3>1
    <3> QED BY <3>1, <3>2 DEF EntryAt
  <2>4. ASSUME j = k, e = <<w, n>> PROVE EntryAt(q, j, Wsi, e)
    BY <1>1, <2>1, <2>4 DEF EntryAt
  <2> QED BY <2>2, <2>3, <2>4
<1>3. ~EntryAt(p, j, Wsi, <<w, n>>)
  <2>1. ASSUME NEW v \in Wsi, NEW i \in 1..Len(p[v]), <<w, n>> = <<v, i>> PROVE FALSE
    <3>1. v = w /\ i = n
      BY <2>1
    <3> QED BY <1>1, <3>1
  <2> QED BY <2>1 DEF EntryAt
<1>4. /\ \A e : e \in EntriesIn(p, j, Wsi) <=> EntryAt(p, j, Wsi, e)
      /\ \A e : e \in EntriesIn(q, j, Wsi) <=> EntryAt(q, j, Wsi, e)
  BY <1>1, EntriesAre
<1>5. EntriesIn(q, j, Wsi) = EntriesIn(p, j, Wsi) \cup (IF j = k THEN {<<w, n>>} ELSE {})
  BY <1>2, <1>4
<1>6. <<w, n>> \notin EntriesIn(p, j, Wsi)
  BY <1>3, <1>4
<1> QED BY <1>5, <1>6 DEF q, OneMore

\* Of cancelled waiters no entry is left.
LEMMA EntriesForgotten ==
    ASSUME NEW p \in [Wsi -> Seq(Jobs)], NEW ws, ws \subseteq Wsi, NEW j
    PROVE  LET q == [w \in Wsi |-> IF w \in ws THEN <<>> ELSE p[w]]
           IN  /\ EntriesIn(q, j, Wsi) = EntriesIn(p, j, Wsi) \ EntriesIn(p, j, ws)
               /\ EntriesIn(p, j, ws) \subseteq EntriesIn(p, j, Wsi)
<1> DEFINE q == [w \in Wsi |-> IF w \in ws THEN <<>> ELSE p[w]]
<1>1. /\ q \in [Wsi -> Seq(Jobs)] /\ \A w \in ws : 1..Len(q[w]) = {}
      /\ \A w \in Wsi \ ws : q[w] = p[w]
  <2>1. <<>> \in Seq(Jobs) /\ Len(<<>>) = 0 /\ 1..0 = {}
    OBVIOUS
  <2> QED BY <2>1
<1> HIDE DEF q
<1>2. ASSUME NEW e
      PROVE  EntryAt(q, j, Wsi, e) <=> EntryAt(p, j, Wsi, e) /\ ~EntryAt(p, j, ws, e)
  <2>1. ASSUME EntryAt(q, j, Wsi, e)
        PROVE  EntryAt(p, j, Wsi, e) /\ ~EntryAt(p, j, ws, e)
    <3>1. PICK v \in Wsi, i \in Nat : i \in 1..Len(q[v]) /\ e = <<v, i>> /\ q[v][i] = j
      BY <2>1 DEF EntryAt
    <3>2. v \notin ws /\ q[v] = p[v]
      BY <1>1, <3>1
    <3>3. ASSUME NEW u \in ws, NEW n, e = <<u, n>> PROVE FALSE
      BY <3>1, <3>2, <3>3
    <3> QED BY <3>1, <3>2, <3>3 DEF EntryAt
  <2>2. ASSUME EntryAt(p, j, Wsi, e), ~EntryAt(p, j, ws, e)
        PROVE  EntryAt(q, j, Wsi, e)
    <3>1. PICK v \in Wsi, i \in Nat : i \in 1..Len(p[v]) /\ e = <<v, i>> /\ p[v][i] = j
      BY <2>2 DEF EntryAt
    <3>2. v \notin ws
      BY <2>2, <3>1 DEF EntryAt
    <3> QED BY <1>1, <3>1, <3>2 DEF EntryAt
  <2> QED BY <2>1, <2>2
<1>3. /\ \A e : e \in EntriesIn(p, j, Wsi) <=> EntryAt(p, j, Wsi, e)
      /\ \A e : e \in EntriesIn(q, j, Wsi) <=> EntryAt(q, j, Wsi, e)
      /\ \A e : e \in EntriesIn(p, j, ws) <=> EntryAt(p, j, ws, e)
  BY <1>1, EntriesAre
<1>4. \A e : EntryAt(p, j, ws, e) => EntryAt(p, j, Wsi, e)
  BY DEF EntryAt
<1>5. EntriesIn(q, j, Wsi) = EntriesIn(p, j, Wsi) \ EntriesIn(p, j, ws)
  BY <1>2, <1>3
<1> QED BY <1>3, <1>4, <1>5 DEF q

\* Of the waiters of w the first is gone, the others move up.
LEMMA EntryServed ==
    ASSUME NEW p \in [Wsi -> Seq(Jobs)], NEW w \in Wsi, p[w] # <<>>, NEW j,
           IsFiniteSet(EntriesIn(p, j, Wsi))
    PROVE  LET q == [p EXCEPT ![w] = Tail(@)]
           IN  /\ IsFiniteSet(EntriesIn(q, j, Wsi))
               /\ Cardinality(EntriesIn(q, j, Wsi)) =
                    Cardinality(EntriesIn(p, j, Wsi)) - (IF Head(p[w]) = j THEN 1 ELSE 0)
<1> DEFINE q == [p EXCEPT ![w] = Tail(@)]
           S == EntriesIn(p, j, Wsi) \ {<<w, 1>>}
           T == EntriesIn(q, j, Wsi)
           f == [e \in S |-> IF e[1] = w THEN <<w, e[2] - 1>> ELSE e]
<1>1. /\ q \in [Wsi -> Seq(Jobs)] /\ Len(p[w]) \in Nat /\ Len(p[w]) # 0
      /\ Len(q[w]) = Len(p[w]) - 1 /\ Head(p[w]) = p[w][1]
      /\ \A i \in 1..Len(q[w]) : q[w][i] = p[w][i + 1]
      /\ \A v \in Wsi \ {w} : q[v] = p[v]
  <2>1. p[w] \in Seq(Jobs) /\ q[w] = Tail(p[w]) /\ Len(p[w]) \in Nat
    OBVIOUS
  <2>2. Len(p[w]) # 0
    BY <2>1, EmptySeq
  <2>3. /\ Tail(p[w]) \in Seq(Jobs) /\ Len(Tail(p[w])) = Len(p[w]) - 1
        /\ \A i \in 1..Len(Tail(p[w])) : Tail(p[w])[i] = p[w][i + 1]
        /\ Head(p[w]) = p[w][1]
    BY <2>1, HeadTailProperties
  <2> QED BY <2>1, <2>2, <2>3
<1> HIDE DEF q
<1>2. /\ \A e : e \in EntriesIn(p, j, Wsi) <=> EntryAt(p, j, Wsi, e)
      /\ \A e : e \in EntriesIn(q, j, Wsi) <=> EntryAt(q, j, Wsi, e)
  BY <1>1, EntriesAre
<1>3. ASSUME NEW e \in S
      PROVE  \E v \in Wsi, i \in Nat : /\ e = <<v, i>> /\ i \in 1..Len(p[v])
                                       /\ p[v][i] = j /\ (v = w => i # 1)
  <2>1. PICK v \in Wsi, i \in Nat : i \in 1..Len(p[v]) /\ e = <<v, i>> /\ p[v][i] = j
    BY <1>2 DEF EntryAt
  <2> QED BY <2>1
<1>4. f \in [S -> T]
  <2>1. ASSUME NEW e \in S PROVE f[e] \in T
    <3>1. PICK v \in Wsi, i \in Nat : /\ e = <<v, i>> /\ i \in 1..Len(p[v])
                                      /\ p[v][i] = j /\ (v = w => i # 1)
      BY <1>3
    <3>2. CASE v = w
      <4>1. f[e] = <<w, i - 1>>
        BY <3>1, <3>2
      <4>2. i - 1 \in 1..Len(q[w]) /\ q[w][i - 1] = j
        BY <1>1, <3>1, <3>2
      <4>3. EntryAt(q, j, Wsi, f[e])
        BY <4>1, <4>2 DEF EntryAt
      <4> QED BY <1>2, <4>3
    <3>3. CASE v # w
      <4>1. f[e] = e /\ i \in 1..Len(q[v]) /\ q[v][i] = j
        BY <1>1, <3>1, <3>3
      <4>2. EntryAt(q, j, Wsi, f[e])
        BY <3>1, <4>1 DEF EntryAt
      <4> QED BY <1>2, <4>2
    <3> QED BY <3>2, <3>3
  <2> QED BY <2>1
<1>5. ASSUME NEW e \in T PROVE \E d \in S : f[d] = e
  <2>1. PICK v \in Wsi, i \in Nat : i \in 1..Len(q[v]) /\ e = <<v, i>> /\ q[v][i] = j
    BY <1>2 DEF EntryAt
  <2>2. CASE v = w
    <3> DEFINE d == <<w, i + 1>>
    <3>1. i + 1 \in 1..Len(p[w]) /\ p[w][i + 1] = j
      BY <1>1, <2>1, <2>2
    <3>2. EntryAt(p, j, Wsi, d)
      BY <3>1 DEF EntryAt
    <3>3. d # <<w, 1>>
      BY <2>1
    <3>4. d \in S
      BY <1>2, <3>2, <3>3
    <3>5. f[d] = <<w, (i + 1) - 1>>
      BY <3>4
    <3>6. (i + 1) - 1 = i
      BY <2>1
    <3> QED BY <2>1, <2>2, <3>4, <3>5, <3>6
  <2>3. CASE v # w
    <3>1. i \in 1..Len(p[v]) /\ p[v][i] = j
      BY <1>1, <2>1, <2>3
    <3>2. EntryAt(p, j, Wsi, e) /\ e # <<w, 1>> /\ e[1] # w
      BY <2>1, <2>3, <3>1 DEF EntryAt
    <3>3. e \in S
      BY <1>2, <3>2
    <3> QED BY <3>2, <3>3
  <2> QED BY <2>2, <2>3
<1>6. ASSUME NEW d \in S, NEW e \in S, f[d] = f[e] PROVE d = e
  <2>1. PICK v \in Wsi, i \in Nat : d = <<v, i>>
    BY <1>3
  <2>2. PICK u \in Wsi, k \in Nat : e = <<u, k>>
    BY <1>3
  <2>3. f[d] = (IF v = w THEN <<w, i - 1>> ELSE <<v, i>>)
    BY <2>1
  <2>4. f[e] = (IF u = w THEN <<w, k - 1>> ELSE <<u, k>>)
    BY <2>2
  <2>5. v = u
    BY <1>6, <2>3, <2>4
  <2>6. i = k
    BY <1>6, <2>1, <2>2, <2>3, <2>4, <2>5
  <2> QED BY <2>1, <2>2, <2>5, <2>6
<1>7. f \in Bijection(S, T)
  <2>1. f \in Injection(S, T)
    BY <1>4, <1>6 DEF Injection, IsInjective
  <2>2. f \in Surjection(S, T)
    BY <1>4, <1>5 DEF Surjection
  <2> QED BY <2>1, <2>2 DEF Bijection
<1>8. /\ IsFiniteSet(S)
      /\ Cardinality(S) = Cardinality(EntriesIn(p, j, Wsi)) - (IF Head(p[w]) = j THEN 1 ELSE 0)
  <2>1. <<w, 1>> \in EntriesIn(p, j, Wsi) <=> Head(p[w]) = j
    <3>1. EntryAt(p, j, Wsi, <<w, 1>>) <=> p[w][1] = j
      <4>1. 1 \in 1..Len(p[w])
        BY <1>1
      <4> QED BY <4>1 DEF EntryAt
    <3> QED BY <1>1, <1>2, <3>1
  <2>2. Cardinality(EntriesIn(p, j, Wsi)) \in Nat
    BY FS_CardinalityType
  <2>3. /\ IsFiniteSet(S)
        /\ Cardinality(S) = IF <<w, 1>> \in EntriesIn(p, j, Wsi)
                            THEN Cardinality(EntriesIn(p, j, Wsi)) - 1
                            ELSE Cardinality(EntriesIn(p, j, Wsi))
    BY FS_RemoveElement
  <2> QED BY <2>1, <2>2, <2>3
<1>9. IsFiniteSet(T) /\ Cardinality(T) = Cardinality(S)
  BY <1>7, <1>8, FS_Bijection DEF ExistsBijection
<1> QED BY <1>8, <1>9 DEF q

-----------------------------------------------------------------------------
(* What a step does to the broadcasts *)

broadcastVars == <<pending, group, phase, script, bpc, todo, at>>

Moves(t, from, to) == bpc[t] \in from /\ \E p \in to : bpc' = [bpc EXCEPT ![t] = p]

\* Thread t is given its jobs, each of them once.
Begins(t) ==
    /\ Moves(t, {"idle"}, {"clear", "call"})
    /\ \E jobs \in Seq(Jobs) :
         /\ jobs # <<>> /\ IsInjective(jobs)
         /\ \A i \in DOMAIN jobs : phase[jobs[i]] = "free"
         /\ phase' = [j \in Jobs |-> IF \E i \in DOMAIN jobs : jobs[i] = j
                                     THEN "called" ELSE phase[j]]
         /\ script' = [script EXCEPT ![t] = jobs]
    /\ UNCHANGED <<pending, group, todo, at>>

Forgets(ws) ==
    /\ Cancelled(ws)
    /\ UNCHANGED bpc \/ \E t \in Threads : Moves(t, {"clear"}, {"call"})
    /\ UNCHANGED <<phase, script, todo, at>>

Opens(t) ==
    /\ Moves(t, {"call"}, {"enum"})
    /\ todo' = [todo EXCEPT ![t] = clients]
    /\ UNCHANGED <<pending, group, phase, script, at>>

\* It is done with its job, having visited no client (from "call") or all.
Leaves(t, from, p) ==
    /\ <<from, p>> \in {<<"call", "free">>, <<"enum", "waiting">>}
    /\ Moves(t, {from}, {"idle", "call"}) /\ NextJob(t, p)
    /\ UNCHANGED <<pending, group, todo, at>>

Holds_(t) ==
    /\ Moves(t, InMutex, InMutex \cup {"enum"})
    /\ UNCHANGED <<pending, group, phase, script, todo, at>>

Serves(w) ==
    /\ Waiting(w)
    /\ group' = [group EXCEPT ![Head(pending[w])] = @ - 1]
    /\ pending' = [pending EXCEPT ![w] = Tail(@)]
    /\ UNCHANGED <<phase, script, bpc, todo, at>>

BroadcastStep ==
    \/ UNCHANGED broadcastVars
    \/ \E t \in Threads :
         \/ Begins(t) \/ Opens(t) \/ Visit(t) \/ Append_(t) \/ Holds_(t)
         \/ \E from, p \in {"call", "enum", "free", "waiting"} : Leaves(t, from, p)
    \/ \E ws \in SUBSET Wsi : Forgets(ws)
    \/ \E w \in Wsi : Serves(w)
    \/ \E j \in Jobs : Complete(j)

\* Two planes and an answer are three different jobs.
LEMMA JobsDiffer ==
    ASSUME NEW y \in DataJobs, NEW uv \in DataJobs, y # uv, NEW s \in StringJobs
    PROVE  /\ <<y, uv>> \in Seq(Jobs) /\ <<y, uv>> # <<>> /\ IsInjective(<<y, uv>>)
           /\ <<s>> \in Seq(Jobs) /\ <<s>> # <<>> /\ IsInjective(<<s>>)
           /\ <<y, uv, s>> \in Seq(Jobs) /\ <<y, uv, s>> # <<>>
           /\ IsInjective(<<y, uv, s>>)
<1>1. y # s /\ uv # s
  BY ConstantsAssumption
<1>2. y \in Jobs /\ uv \in Jobs /\ s \in Jobs
  BY DEF Jobs
<1> QED BY <1>1, <1>2 DEF IsInjective

\* Nothing else happens to broadcasts.
LEMMA Kinds == TypeInv /\ [Next]_vars => BroadcastStep
<1> USE DEF BroadcastStep, broadcastVars, Moves, vars, netVars, pollVars, jobVars,
            threadVars, raceVars, serverVars
<1>1. ASSUME TypeInv, NEW t \in Threads, NEW jobs \in Seq(Jobs), jobs # <<>>,
             IsInjective(jobs), bpc[t] = "idle", NEW clear \in BOOLEAN,
             Start(t, jobs, clear), UNCHANGED <<pending, group, todo, at>>
      PROVE  BroadcastStep
  BY <1>1 DEF Begins, Start
<1>2. ASSUME TypeInv, NEW t \in Writers, Capture(t) PROVE BroadcastStep
  <2>1. t \in Threads /\ bpc[t] = "idle" /\ UNCHANGED <<pending, group, todo, at>>
    BY <1>2 DEF Capture, Threads
  <2>2. CASE \E y, uv \in DataJobs : y # uv /\ Start(t, <<y, uv>>, FALSE)
    <3>1. PICK y \in DataJobs, uv \in DataJobs : y # uv /\ Start(t, <<y, uv>>, FALSE)
      BY <2>2
    <3>2. <<y, uv>> \in Seq(Jobs) /\ <<y, uv>> # <<>> /\ IsInjective(<<y, uv>>)
      BY <3>1 DEF Jobs, IsInjective
    <3> QED BY <1>1, <1>2, <2>1, <3>1, <3>2
  <2>3. CASE \E s \in StringJobs : Start(t, <<s>>, FALSE)
    <3>1. PICK s \in StringJobs : Start(t, <<s>>, FALSE)
      BY <2>3
    <3>2. <<s>> \in Seq(Jobs) /\ <<s>> # <<>> /\ IsInjective(<<s>>)
      BY DEF Jobs, IsInjective
    <3> QED BY <1>1, <1>2, <2>1, <3>1, <3>2
  <2> QED BY <1>2, <2>2, <2>3 DEF Capture
<1>3. ASSUME TypeInv, NEW w \in Wsi, Receive(w) PROVE BroadcastStep
  <2>1. svc \in Threads /\ bpc[svc] = "idle" /\ UNCHANGED <<pending, group, todo, at>>
    BY <1>3 DEF Receive, Servicing, Threads
  <2>2. CASE UNCHANGED <<phase, script, bpc>>
    BY <2>1, <2>2
  <2>3. ASSUME NEW s \in StringJobs, NEW clear \in BOOLEAN, Start(svc, <<s>>, clear)
        PROVE  BroadcastStep
    <3>1. <<s>> \in Seq(Jobs) /\ <<s>> # <<>> /\ IsInjective(<<s>>)
      BY DEF Jobs, IsInjective
    <3> QED BY <1>1, <1>3, <2>1, <2>3, <3>1
  <2>4. ASSUME NEW s \in StringJobs, NEW y \in DataJobs, NEW uv \in DataJobs, y # uv,
               Start(svc, <<y, uv, s>>, FALSE)
        PROVE  BroadcastStep
    BY <1>1, <1>3, <2>1, <2>4, JobsDiffer
  <2> QED BY <1>3, <2>2, <2>3, <2>4 DEF Receive
<1>4. ASSUME TypeInv, NEW t \in Threads, Caller(t) PROVE BroadcastStep
  <2>1. CASE CancelAllWrites(t)
    BY <2>1 DEF CancelAllWrites, Forgets
  <2>2. CASE Broadcast(t)
    <3>1. CASE clients = {}
      <4>1. Leaves(t, "call", "free")
        BY <2>2, <3>1 DEF Broadcast, Leaves, NextJob
      <4> QED BY <4>1
    <3>2. CASE clients # {}
      BY <2>2, <3>2 DEF Broadcast, Opens
    <3> QED BY <3>1, <3>2
  <2>3. CASE Visit(t) \/ Append_(t)
    BY <2>3
  <2>4. CASE EnumerationMutated(t)
    BY <2>4 DEF EnumerationMutated
  <2>5. CASE Submit(t)
    <3>1. Leaves(t, "enum", "waiting")
      BY <2>5 DEF Submit, Leaves, NextJob
    <3> QED BY <3>1
  <2>6. CASE Arm(t)
    BY <2>6 DEF Arm, Holds_, InMutex
  <2>7. CASE TestCanCancel(t)
    BY <2>7 DEF TestCanCancel, Holds_, InMutex
  <2>8. CASE Wake(t)
    BY <2>8 DEF Wake, Holds_, InMutex
  <2> QED BY <1>4, <2>1, <2>2, <2>3, <2>4, <2>5, <2>6, <2>7, <2>8 DEF Caller
<1>5. ASSUME NEW w \in Wsi, Service(w), ~Receive(w) PROVE BroadcastStep
  BY <1>5 DEF Service, FlushTruncated, FlushFails, ReplyToClose, Writable, Establish,
              Ignore, ReceiveClose, ReceiveEnd, HangUp, Kill
<1>6. ASSUME TypeInv, Loop PROVE BroadcastStep
  <2>1. CASE OnClientWritable
    <3>1. CASE Waiting(cur)
      <4>1. cur \in Wsi
        BY <1>6, <2>1 DEF OnClientWritable, TypeInv, WellFormed
      <4>2. Serves(cur)
        BY <2>1, <3>1 DEF OnClientWritable, Served, Serves
      <4> QED BY <4>1, <4>2
    <3>2. CASE ~Waiting(cur)
      BY <2>1, <3>2 DEF OnClientWritable
    <3> QED BY <3>1, <3>2
  <2>2. CASE OnConnectionClose
    <3>1. CASE cur \in clients
      <4>1. {cur} \in SUBSET Wsi
        BY <1>6, <3>1 DEF TypeInv, TypeOK
      <4>2. Forgets({cur})
        BY <2>2, <3>1 DEF OnConnectionClose, Forgets
      <4> QED BY <4>1, <4>2
    <3>2. CASE cur \notin clients
      BY <2>2, <3>2 DEF OnConnectionClose
    <3> QED BY <3>1, <3>2
  <2>3. CASE PollEnter \/ PollReturn \/ CountWaiters \/ Rearm \/ AllowCancel
    BY <2>3 DEF PollEnter, PollReturn, CountWaiters, Rearm, AllowCancel
  <2> QED BY <1>6, <2>1, <2>2, <2>3 DEF Loop
<1>7. ASSUME NEW w \in Wsi, Drain(w) PROVE BroadcastStep
  BY <1>7 DEF Drain
<1>8. ASSUME Crashed \/ UNCHANGED vars PROVE BroadcastStep
  BY <1>8 DEF Crashed
<1> QED BY <1>2, <1>3, <1>4, <1>5, <1>6, <1>7, <1>8 DEF Next

-----------------------------------------------------------------------------
(* Every job is broadcast by one thread *)

\* A job that is on the list of a thread is called, and on no list twice: Start
\* takes jobs that are free.
JobInv ==
    /\ \A t \in Threads : \A i \in DOMAIN script[t] : phase[script[t][i]] = "called"
    /\ \A t, u \in Threads : \A i \in DOMAIN script[t], k \in DOMAIN script[u] :
         script[t][i] = script[u][k] => t = u /\ i = k

\* The list of a thread that is done with its first job.
LEMMA Rest ==
    ASSUME TypeInv, NEW t \in Threads, script[t] # <<>>
    PROVE  /\ Head(script[t]) = script[t][1] /\ 1 \in DOMAIN script[t]
           /\ Head(script[t]) \in Jobs
           /\ \A i \in DOMAIN Tail(script[t]) :
                /\ i + 1 \in DOMAIN script[t] /\ Tail(script[t])[i] = script[t][i + 1]
                /\ i + 1 # 1 /\ i \in Nat
<1>1. script[t] \in Seq(Jobs) /\ Len(script[t]) \in Nat /\ Len(script[t]) # 0
  <2>1. script[t] \in Seq(Jobs)
    BY DEF TypeInv, TypeOK
  <2> QED BY <2>1, EmptySeq
<1>2. /\ Tail(script[t]) \in Seq(Jobs) /\ Len(Tail(script[t])) = Len(script[t]) - 1
      /\ \A i \in 1..Len(Tail(script[t])) : Tail(script[t])[i] = script[t][i + 1]
      /\ Head(script[t]) = script[t][1] /\ Head(script[t]) \in Jobs
  BY <1>1, HeadTailProperties
<1>3. DOMAIN script[t] = 1..Len(script[t]) /\ DOMAIN Tail(script[t]) = 1..Len(Tail(script[t]))
  BY <1>1, <1>2
<1> QED BY <1>1, <1>2, <1>3

LEMMA JobStep == TypeInv /\ JobInv /\ BroadcastStep => JobInv'
<1> SUFFICES ASSUME TypeInv, JobInv, BroadcastStep PROVE JobInv'
  OBVIOUS
<1> USE DEF JobInv
<1>0. /\ script \in [Threads -> Seq(Jobs)]
      /\ phase \in [Jobs -> {"free", "called", "waiting"}]
      /\ \A t \in Threads : \A i \in DOMAIN script[t] : script[t][i] \in Jobs
  BY DEF TypeInv, TypeOK
<1>1. CASE UNCHANGED <<phase, script>>
  BY <1>1
<1>2. ASSUME NEW t \in Threads, Begins(t) PROVE JobInv'
  <2>1. PICK jobs \in Seq(Jobs) :
          /\ IsInjective(jobs) /\ \A i \in DOMAIN jobs : phase[jobs[i]] = "free"
          /\ phase' = [j \in Jobs |-> IF \E i \in DOMAIN jobs : jobs[i] = j
                                      THEN "called" ELSE phase[j]]
          /\ script' = [script EXCEPT ![t] = jobs]
    BY <1>2 DEF Begins
  <2>2. script'[t] = jobs /\ \A u \in Threads \ {t} : script'[u] = script[u]
    BY <1>0, <2>1
  <2>3. \A i \in DOMAIN jobs : jobs[i] \in Jobs
    BY <2>1
  <2>4. \A u \in Threads : \A i \in DOMAIN script'[u] : phase'[script'[u][i]] = "called"
    BY <1>0, <2>1, <2>2, <2>3
  <2>5. ASSUME NEW u \in Threads, NEW v \in Threads, NEW i \in DOMAIN script'[u],
               NEW k \in DOMAIN script'[v], script'[u][i] = script'[v][k]
        PROVE  u = v /\ i = k
    <3>1. CASE u = t /\ v = t
      BY <2>1, <2>2, <2>5, <3>1 DEF IsInjective
    <3>2. CASE u # t /\ v # t
      BY <2>2, <2>5, <3>2
    <3>3. CASE u = t /\ v # t
      BY <2>1, <2>2, <2>5, <3>3
    <3>4. CASE u # t /\ v = t
      BY <2>1, <2>2, <2>5, <3>4
    <3> QED BY <3>1, <3>2, <3>3, <3>4
  <2> QED BY <2>4, <2>5
<1>3. ASSUME NEW t \in Threads, NEW from, NEW p, Leaves(t, from, p) PROVE JobInv'
  <2>1. script[t] # <<>>
    BY <1>3 DEF Leaves, Moves, TypeInv, WellFormed, Enumerating
  <2>2. /\ script'[t] = Tail(script[t]) /\ \A u \in Threads \ {t} : script'[u] = script[u]
        /\ phase' = [phase EXCEPT ![script[t][1]] = p]
    BY <1>0, <1>3, <2>1, Rest DEF Leaves, NextJob
  <2>3. ASSUME NEW u \in Threads, NEW i \in DOMAIN script'[u]
        PROVE  \E k \in DOMAIN script[u] : /\ script'[u][i] = script[u][k]
                                           /\ u = t => k = i + 1 /\ k # 1 /\ i \in Nat
                                           /\ u # t => k = i
    <3>1. CASE u = t
      <4>1. /\ i + 1 \in DOMAIN script[t] /\ script'[t][i] = script[t][i + 1]
            /\ i + 1 # 1 /\ i \in Nat
        <5>1. \A k \in DOMAIN Tail(script[t]) :
                /\ k + 1 \in DOMAIN script[t] /\ Tail(script[t])[k] = script[t][k + 1]
                /\ k + 1 # 1 /\ k \in Nat
          BY <2>1, Rest
        <5>2. script'[t] = Tail(script[t]) /\ i \in DOMAIN Tail(script[t])
          BY <2>2, <3>1
        <5> QED BY ONLY <5>1, <5>2
      <4> QED BY <3>1, <4>1
    <3>2. CASE u # t
      BY <2>2, <3>2
    <3> QED BY <3>1, <3>2
  <2>4. ASSUME NEW u \in Threads, NEW i \in DOMAIN script'[u]
        PROVE  phase'[script'[u][i]] = "called"
    <3>1. PICK k \in DOMAIN script[u] : script'[u][i] = script[u][k] /\ (u = t => k # 1)
      BY <2>3
    <3>2. script[u][k] # script[t][1]
      BY <2>1, <3>1, Rest
    <3>3. script[u][k] \in Jobs
      BY <1>0
    <3> QED BY <1>0, <2>2, <3>1, <3>2, <3>3
  <2>5. ASSUME NEW u \in Threads, NEW v \in Threads, NEW i \in DOMAIN script'[u],
               NEW k \in DOMAIN script'[v], script'[u][i] = script'[v][k]
        PROVE  u = v /\ i = k
    <3>1. PICK a \in DOMAIN script[u] : /\ script'[u][i] = script[u][a]
                                        /\ u = t => a = i + 1 /\ i \in Nat
                                        /\ u # t => a = i
      BY <2>3
    <3>2. PICK b \in DOMAIN script[v] : /\ script'[v][k] = script[v][b]
                                        /\ v = t => b = k + 1 /\ k \in Nat
                                        /\ v # t => b = k
      BY <2>3
    <3>3. script[u][a] = script[v][b]
      BY <2>5, <3>1, <3>2
    <3>4. u = v /\ a = b
      BY <3>3
    <3> QED BY <3>1, <3>2, <3>4
  <2> QED BY <2>4, <2>5
<1>4. ASSUME NEW j \in Jobs, Complete(j) PROVE JobInv'
  <2>1. phase[j] = "waiting" /\ phase' = [phase EXCEPT ![j] = "free"] /\ script' = script
    BY <1>4 DEF Complete, threadVars
  <2> QED BY <1>0, <2>1
<1>5. ASSUME NEW t \in Threads, Opens(t) \/ Visit(t) \/ Append_(t) \/ Holds_(t)
      PROVE  UNCHANGED <<phase, script>>
  BY <1>5 DEF Opens, Visit, Append_, Holds_, jobVars
<1>6. ASSUME NEW ws, Forgets(ws) PROVE UNCHANGED <<phase, script>>
  BY <1>6 DEF Forgets
<1>7. ASSUME NEW w, Serves(w) PROVE UNCHANGED <<phase, script>>
  BY <1>7 DEF Serves
<1> QED BY <1>1, <1>2, <1>3, <1>4, <1>5, <1>6, <1>7 DEF BroadcastStep, broadcastVars

\* The jobs at hand of two threads differ.
LEMMA JobAtHand ==
    ASSUME TypeInv, JobInv, NEW t \in Threads, bpc[t] \in {"clear", "call"} \cup Enumerating
    PROVE  /\ Head(script[t]) \in Jobs /\ phase[Head(script[t])] = "called"
           /\ \A u \in Threads : /\ bpc[u] \in {"clear", "call"} \cup Enumerating
                                 /\ Head(script[u]) = Head(script[t])
                                 => u = t
<1>1. \A u \in Threads : bpc[u] \in {"clear", "call"} \cup Enumerating =>
                            script[u] # <<>>
  BY DEF TypeInv, WellFormed
<1>2. \A u \in Threads : script[u] # <<>> =>
        /\ Head(script[u]) = script[u][1] /\ 1 \in DOMAIN script[u]
        /\ Head(script[u]) \in Jobs
  BY Rest
<1> QED BY <1>1, <1>2 DEF JobInv

-----------------------------------------------------------------------------
(* What a job owes *)

\* Steps that leave the queues and the threads that add to them alone.
Calm ==
    /\ UNCHANGED <<pending, group, at>>
    /\ \A u \in Threads : bpc[u] = "append" \/ bpc'[u] = "append" =>
         bpc'[u] = bpc[u] /\ script'[u] = script[u]

\* Steps that begin and end no enumeration.
Steady ==
    \A u \in Threads :
        /\ bpc'[u] \in Enumerating <=> bpc[u] \in Enumerating
        /\ bpc[u] \in Enumerating => script'[u] = script[u]

LEMMA CalmKeeps ==
    ASSUME Calm, NEW j
    PROVE  /\ Adding(j)' = Adding(j) /\ Owed(j)' = Owed(j)
           /\ EntriesOf(j, Wsi)' = EntriesOf(j, Wsi) /\ group' = group
<1>1. Adding(j)' = Adding(j)
  BY DEF Calm, Adding
<1> QED BY <1>1 DEF Calm, Owed, Queued, EntriesOf

LEMMA SteadyKeeps ==
    ASSUME Steady, NEW j
    PROVE  Visiting(j)' <=> Visiting(j)
BY DEF Steady, Visiting

\* Most steps are both.
LEMMA CalmKinds ==
    ASSUME TypeInv, NEW t \in Threads,
           \/ UNCHANGED broadcastVars \/ Begins(t) \/ Opens(t) \/ Holds_(t)
           \/ \E from, p \in {"call", "enum", "free", "waiting"} : Leaves(t, from, p)
           \/ \E j \in Jobs : Complete(j)
    PROVE  Calm
<1>1. /\ bpc \in [Threads -> {"idle", "clear", "call", "enum", "append", "walk",
                              "cancel", "wake"}]
      /\ script \in [Threads -> Seq(Jobs)]
  BY DEF TypeInv, TypeOK
<1>2. CASE UNCHANGED broadcastVars
  BY <1>2 DEF broadcastVars, Calm
<1>3. CASE Begins(t)
  <2>1. /\ bpc[t] = "idle" /\ bpc'[t] # "append"
        /\ \A u \in Threads \ {t} : bpc'[u] = bpc[u] /\ script'[u] = script[u]
    BY <1>1, <1>3 DEF Begins, Moves
  <2> QED BY <1>3, <2>1 DEF Begins, Calm
<1>4. CASE Opens(t) \/ Holds_(t)
  <2>1. /\ bpc[t] # "append" /\ bpc'[t] # "append"
        /\ \A u \in Threads \ {t} : bpc'[u] = bpc[u] /\ script'[u] = script[u]
    BY <1>1, <1>4 DEF Opens, Holds_, Moves, InMutex
  <2> QED BY <1>4, <2>1 DEF Opens, Holds_, Calm
<1>5. ASSUME NEW from, NEW p, Leaves(t, from, p) PROVE Calm
  <2>1. /\ bpc[t] # "append" /\ bpc'[t] # "append"
        /\ \A u \in Threads \ {t} : bpc'[u] = bpc[u] /\ script'[u] = script[u]
    BY <1>1, <1>5 DEF Leaves, NextJob, Moves
  <2> QED BY <1>5, <2>1 DEF Leaves, Calm
<1>6. ASSUME NEW j, Complete(j) PROVE Calm
  BY <1>6 DEF Complete, Calm, threadVars
<1> QED BY <1>2, <1>3, <1>4, <1>5, <1>6

LEMMA SteadyKinds ==
    ASSUME TypeInv, NEW t \in Threads,
           \/ UNCHANGED broadcastVars \/ Begins(t) \/ Holds_(t) \/ Visit(t) \/ Append_(t)
           \/ \E ws \in SUBSET Wsi : Forgets(ws)
           \/ \E w \in Wsi : Serves(w)
           \/ \E j \in Jobs : Complete(j)
    PROVE  Steady
<1>1. /\ bpc \in [Threads -> {"idle", "clear", "call", "enum", "append", "walk",
                              "cancel", "wake"}]
      /\ script \in [Threads -> Seq(Jobs)]
  BY DEF TypeInv, TypeOK
<1> USE DEF Steady, Enumerating
<1>2. CASE UNCHANGED broadcastVars
  BY <1>2 DEF broadcastVars
<1>3. CASE Begins(t)
  <2>1. /\ bpc[t] = "idle" /\ bpc'[t] \in {"clear", "call"}
        /\ \A u \in Threads \ {t} : bpc'[u] = bpc[u] /\ script'[u] = script[u]
    BY <1>1, <1>3 DEF Begins, Moves
  <2> QED BY <2>1
<1>4. CASE Holds_(t)
  BY <1>1, <1>4 DEF Holds_, Moves, InMutex
<1>5. CASE Visit(t) \/ Append_(t)
  BY <1>1, <1>5 DEF Visit, Append_
<1>6. ASSUME NEW ws, Forgets(ws) PROVE Steady
  BY <1>1, <1>6 DEF Forgets, Moves
<1>7. ASSUME NEW w, Serves(w) PROVE Steady
  BY <1>7 DEF Serves
<1>8. ASSUME NEW j, Complete(j) PROVE Steady
  BY <1>8 DEF Complete, threadVars
<1> QED BY <1>2, <1>3, <1>4, <1>5, <1>6, <1>7, <1>8

\* The visit of a client and the addition of its waiter: between them the thread
\* is the one that adds for its job.
LEMMA Visited ==
    ASSUME TypeInv, JobInv, NEW t \in Threads, Visit(t), NEW j \in Jobs
    PROVE  LET k == Head(script[t]) IN
           /\ k \in Jobs
           /\ j # k => Adding(j)' = Adding(j) /\ Owed(j)' = Owed(j)
           /\ j = k => /\ Adding(j) = {} /\ Adding(j)' = {t}
                       /\ \E w \in todo[t] : /\ todo' = [todo EXCEPT ![t] = @ \ {w}]
                                             /\ Owed(j)' = Owed(j) \cup {w}
<1> DEFINE k == Head(script[t])
<1>1. /\ bpc \in [Threads -> {"idle", "clear", "call", "enum", "append", "walk",
                              "cancel", "wake"}]
      /\ at \in [Threads -> Wsi \cup {NoWsi}] /\ todo \in [Threads -> SUBSET Wsi]
  BY DEF TypeInv, TypeOK
<1>2. /\ bpc[t] = "enum" /\ bpc' = [bpc EXCEPT ![t] = "append"]
      /\ script' = script /\ pending' = pending
  BY DEF Visit
<1>3. PICK w \in todo[t] : /\ at' = [at EXCEPT ![t] = w]
                           /\ todo' = [todo EXCEPT ![t] = @ \ {w}]
  BY DEF Visit
<1>4. /\ k \in Jobs
      /\ \A u \in Threads : /\ bpc[u] \in {"clear", "call"} \cup Enumerating
                            /\ Head(script[u]) = k
                            => u = t
  <2>1. bpc[t] \in {"clear", "call"} \cup Enumerating
    BY <1>2 DEF Enumerating
  <2> QED BY <2>1, JobAtHand
<1>5. \A u \in Threads \ {t} : bpc'[u] = bpc[u] /\ at'[u] = at[u]
  BY <1>1, <1>2, <1>3
<1>6. bpc'[t] = "append" /\ at'[t] = w
  BY <1>1, <1>2, <1>3
<1>7. ASSUME j # k PROVE Adding(j)' = Adding(j) /\ Owed(j)' = Owed(j)
  <2>1. Adding(j)' = Adding(j) /\ t \notin Adding(j)
    BY <1>2, <1>5, <1>6, <1>7 DEF Adding
  <2>2. \A u \in Adding(j) : at'[u] = at[u]
    BY <1>5, <2>1 DEF Adding
  <2> QED BY <1>2, <2>1, <2>2 DEF Owed, Queued
<1>8. ASSUME j = k
      PROVE  Adding(j) = {} /\ Adding(j)' = {t} /\ Owed(j)' = Owed(j) \cup {w}
  <2>1. Adding(j) = {}
    BY <1>2, <1>4, <1>8 DEF Adding, Enumerating
  <2>2. Adding(j)' = {t}
    BY <1>2, <1>5, <1>6, <1>8, <2>1 DEF Adding
  <2> QED BY <1>2, <1>6, <2>1, <2>2 DEF Owed, Queued
<1> QED BY <1>3, <1>4, <1>7, <1>8

LEMMA Appended ==
    ASSUME TypeInv, JobInv, NEW t \in Threads, Append_(t), NEW j \in Jobs
    PROVE  LET k == Head(script[t]) IN
           /\ k \in Jobs /\ at[t] \in Wsi
           /\ Owed(j)' = Owed(j)
           /\ j # k => Adding(j)' = Adding(j)
           /\ j = k => Adding(j) = {t} /\ Adding(j)' = {}
<1> DEFINE k == Head(script[t])
           w == at[t]
<1>1. /\ bpc \in [Threads -> {"idle", "clear", "call", "enum", "append", "walk",
                              "cancel", "wake"}]
      /\ pending \in [Wsi -> Seq(Jobs)]
  BY DEF TypeInv, TypeOK
<1>2. /\ bpc[t] = "append" /\ bpc' = [bpc EXCEPT ![t] = "walk"]
      /\ script' = script /\ at' = at
      /\ pending' = [pending EXCEPT ![w] = Append(@, k)]
  BY DEF Append_
<1>3. w \in Wsi
  BY <1>2 DEF TypeInv, WellFormed
<1>4. /\ k \in Jobs
      /\ \A u \in Threads : /\ bpc[u] \in {"clear", "call"} \cup Enumerating
                            /\ Head(script[u]) = k
                            => u = t
  <2>1. bpc[t] \in {"clear", "call"} \cup Enumerating
    BY <1>2 DEF Enumerating
  <2> QED BY <2>1, JobAtHand
<1>5. bpc'[t] = "walk" /\ \A u \in Threads \ {t} : bpc'[u] = bpc[u]
  BY <1>1, <1>2
<1>6. /\ j # k => Adding(j)' = Adding(j)
      /\ j = k => Adding(j) = {t} /\ Adding(j)' = {}
  <2>1. ASSUME j # k PROVE Adding(j)' = Adding(j)
    BY <1>2, <1>5, <2>1 DEF Adding
  <2>2. ASSUME j = k PROVE Adding(j) = {t}
    BY <1>2, <1>4, <2>2 DEF Adding, Enumerating
  <2>3. ASSUME j = k PROVE Adding(j)' = {}
    BY <1>2, <1>5, <2>2, <2>3 DEF Adding
  <2> QED BY <2>1, <2>2, <2>3
<1>7. ASSUME NEW v \in Wsi
      PROVE  Queued(v, j)' <=> Queued(v, j) \/ (v = w /\ j = k)
  <2>1. CASE v = w
    <3>1. pending[w] \in Seq(Jobs) /\ pending'[w] = Append(pending[w], k)
      BY <1>1, <1>2, <1>3
    <3>2. /\ Append(pending[w], k) \in Seq(Jobs) /\ Len(pending[w]) \in Nat
          /\ Len(Append(pending[w], k)) = Len(pending[w]) + 1
          /\ \A i \in 1..Len(pending[w]) : Append(pending[w], k)[i] = pending[w][i]
          /\ Append(pending[w], k)[Len(pending[w]) + 1] = k
      BY <1>4, <3>1, AppendProperties
    <3>3. /\ DOMAIN pending[w] = 1..Len(pending[w])
          /\ DOMAIN pending'[w] = 1..(Len(pending[w]) + 1)
      BY <3>1, <3>2
    <3>4. 1..(Len(pending[w]) + 1) = 1..Len(pending[w]) \cup {Len(pending[w]) + 1}
      BY <3>2
    <3> QED BY <2>1, <3>1, <3>2, <3>3, <3>4 DEF Queued
  <2>2. CASE v # w
    BY <1>1, <1>2, <2>2 DEF Queued
  <2> QED BY <2>1, <2>2
<1>8. Owed(j)' = Owed(j)
  <2>1. CASE j = k
    <3>1. {at[u] : u \in Adding(j)} = {w} /\ {at'[u] : u \in Adding(j)'} = {}
      BY <1>6, <2>1
    <3>2. {v \in Wsi : Queued(v, j)'} = {v \in Wsi : Queued(v, j)} \cup {w}
      BY <1>3, <1>7, <2>1
    <3> QED BY <3>1, <3>2 DEF Owed
  <2>2. CASE j # k
    BY <1>2, <1>6, <1>7, <2>2 DEF Owed
  <2> QED BY <2>1, <2>2
<1> QED BY <1>3, <1>4, <1>6, <1>8

\* Waiters that are cancelled or called are owed no more.
LEMMA Settled ==
    ASSUME TypeInv, NEW j \in Jobs,
           \/ \E ws \in SUBSET Wsi : Forgets(ws)
           \/ \E w \in Wsi : Serves(w)
    PROVE  Owed(j)' \subseteq Owed(j) /\ Adding(j)' = Adding(j)
<1>1. /\ bpc \in [Threads -> {"idle", "clear", "call", "enum", "append", "walk",
                              "cancel", "wake"}]
      /\ pending \in [Wsi -> Seq(Jobs)]
  BY DEF TypeInv, TypeOK
<1>2. /\ Adding(j)' = Adding(j) /\ at' = at
  <2>1. script' = script /\ at' = at /\ \A u \in Threads : bpc'[u] = "append" <=> bpc[u] = "append"
    BY <1>1 DEF Forgets, Serves, Moves
  <2> QED BY <2>1 DEF Adding
<1>3. ASSUME NEW v \in Wsi, Queued(v, j)' PROVE Queued(v, j)
  <2>1. ASSUME NEW ws \in SUBSET Wsi, Forgets(ws) PROVE Queued(v, j)
    <3>1. pending'[v] = pending[v] \/ pending'[v] = <<>>
      BY <2>1 DEF Forgets, Cancelled, WithoutWaiters
    <3>2. DOMAIN <<>> = {}
      OBVIOUS
    <3> QED BY <1>3, <3>1, <3>2 DEF Queued
  <2>2. ASSUME NEW w \in Wsi, Serves(w) PROVE Queued(v, j)
    <3>1. CASE v = w
      <4>1. pending[w] \in Seq(Jobs) /\ pending[w] # <<>> /\ pending'[w] = Tail(pending[w])
        BY <1>1, <2>2 DEF Serves, Waiting
      <4>2. /\ Tail(pending[w]) \in Seq(Jobs)
            /\ Len(Tail(pending[w])) = Len(pending[w]) - 1 /\ Len(pending[w]) \in Nat
            /\ \A i \in 1..Len(Tail(pending[w])) : Tail(pending[w])[i] = pending[w][i + 1]
        BY <4>1, HeadTailProperties
      <4>3. PICK i \in DOMAIN pending'[w] : pending'[w][i] = j
        BY <1>3, <3>1 DEF Queued
      <4>4. i \in 1..(Len(pending[w]) - 1) /\ i + 1 \in DOMAIN pending[w]
        BY <4>1, <4>2, <4>3
      <4>5. pending[w][i + 1] = j
        BY <4>1, <4>2, <4>3, <4>4
      <4> QED BY <3>1, <4>4, <4>5 DEF Queued
    <3>2. CASE v # w
      <4>1. pending'[v] = pending[v]
        BY <1>1, <2>2, <3>2 DEF Serves
      <4> QED BY <1>3, <4>1 DEF Queued
    <3> QED BY <3>1, <3>2
  <2> QED BY <2>1, <2>2
<1> QED BY <1>2, <1>3 DEF Owed

-----------------------------------------------------------------------------
(* The group of a job counts its waiters *)

\* The group of a -writeString counts the waiters that were cancelled as well:
\* they return before they leave it.
GroupInv == GroupCounts /\ \A j \in StringJobs : group[j] >= Outstanding(j)

LEMMA OutstandingType ==
    ASSUME TypeInv, JobInv, NEW j \in Jobs
    PROVE  /\ IsFiniteSet(EntriesOf(j, Wsi)) /\ Cardinality(EntriesOf(j, Wsi)) \in Nat
           /\ Adding(j) = {} \/ \E t \in Threads : Adding(j) = {t}
           /\ Cardinality(Adding(j)) \in {0, 1}
           /\ Outstanding(j) = 0 => EntriesOf(j, Wsi) = {} /\ Adding(j) = {}
           /\ EntriesOf(j, Wsi) = {} /\ Adding(j) = {} => Outstanding(j) = 0
<1>1. IsFiniteSet(EntriesOf(j, Wsi)) /\ Cardinality(EntriesOf(j, Wsi)) \in Nat
  BY EntriesFinite DEF TypeInv
<1>2. Adding(j) = {} \/ \E t \in Threads : Adding(j) = {t}
  <2>1. ASSUME NEW t \in Adding(j) PROVE Adding(j) = {t} /\ t \in Threads
    <3>1. t \in Threads /\ bpc[t] \in {"clear", "call"} \cup Enumerating /\ Head(script[t]) = j
      BY DEF Adding, Enumerating
    <3>2. \A u \in Threads : /\ bpc[u] \in {"clear", "call"} \cup Enumerating
                             /\ Head(script[u]) = j
                             => u = t
      BY <3>1, JobAtHand
    <3> QED BY <3>1, <3>2 DEF Adding, Enumerating
  <2> QED BY <2>1
<1>3. /\ Cardinality(Adding(j)) \in {0, 1} /\ IsFiniteSet(Adding(j))
      /\ Cardinality(Adding(j)) = 0 <=> Adding(j) = {}
  BY <1>2, FS_Singleton, FS_EmptySet
<1>4. Cardinality(EntriesOf(j, Wsi)) = 0 <=> EntriesOf(j, Wsi) = {}
  BY <1>1, FS_EmptySet
<1> QED BY <1>1, <1>2, <1>3, <1>4 DEF Outstanding

\* What a step adds to the group of a job is what it adds to its waiters; of a
\* -writeString it may take less from the group.
LEMMA GroupStep ==
    TypeInv /\ JobInv /\ GroupInv /\ TypeInv' /\ BroadcastStep => GroupInv'
<1> SUFFICES ASSUME TypeInv, JobInv, GroupInv, TypeInv', BroadcastStep, NEW j \in Jobs
             PROVE  /\ j \in DataJobs => group'[j] = Outstanding(j)'
                    /\ j \in StringJobs => group'[j] >= Outstanding(j)'
  BY DEF GroupInv, GroupCounts, Jobs
<1> DEFINE Goal == /\ j \in DataJobs => group'[j] = Outstanding(j)'
                   /\ j \in StringJobs => group'[j] >= Outstanding(j)'
           c == Cardinality(EntriesOf(j, Wsi))
           a == Cardinality(Adding(j))
<1>0. /\ group \in [Jobs -> Int] /\ pending \in [Wsi -> Seq(Jobs)]
      /\ j \in DataJobs => group[j] = c + a
      /\ j \in StringJobs => group[j] >= c + a
      /\ c \in Nat /\ a \in {0, 1} /\ Outstanding(j)' = c' + a'
      /\ IsFiniteSet(EntriesOf(j, Wsi))
  BY OutstandingType DEF TypeInv, TypeOK, GroupInv, GroupCounts, Outstanding
<1>e. /\ EntriesOf(j, Wsi) = EntriesIn(pending, j, Wsi)
      /\ EntriesOf(j, Wsi)' = EntriesIn(pending', j, Wsi)
      /\ \A ws : EntriesOf(j, ws) = EntriesIn(pending, j, ws)
  BY DEF EntriesOf, EntriesIn
<1> HIDE DEF c, a
<1>1. CASE Calm
  <2>1. c' = c /\ a' = a /\ group' = group
    BY <1>1, CalmKeeps DEF c, a
  <2> QED BY <1>0, <2>1
<1>2. ASSUME NEW t \in Threads, Visit(t) PROVE Goal
  <2> DEFINE k == Head(script[t])
  <2>1. /\ k \in Jobs /\ group' = [group EXCEPT ![k] = @ + 1] /\ pending' = pending
    BY <1>2, Visited DEF Visit
  <2>2. c' = c
    BY <2>1 DEF c, EntriesOf
  <2>3. a' = a + (IF j = k THEN 1 ELSE 0)
    <3>1. CASE j = k
      <4>1. Adding(j) = {} /\ Adding(j)' = {t}
        BY <1>2, <3>1, Visited
      <4>2. a = 0 /\ a' = 1
        BY <4>1, FS_EmptySet, FS_Singleton DEF a
      <4> QED BY <3>1, <4>2
    <3>2. CASE j # k
      <4>1. a' = a
        BY <1>2, <3>2, Visited DEF a
      <4> QED BY <1>0, <3>2, <4>1
    <3> QED BY <3>1, <3>2
  <2>4. group'[j] = group[j] + (IF j = k THEN 1 ELSE 0)
    BY <1>0, <2>1
  <2> QED BY <1>0, <2>2, <2>3, <2>4
<1>3. ASSUME NEW t \in Threads, Append_(t) PROVE Goal
  <2> DEFINE k == Head(script[t])
             w == at[t]
  <2>1. /\ k \in Jobs /\ w \in Wsi /\ group' = group
        /\ pending' = [pending EXCEPT ![w] = Append(@, k)]
    BY <1>3, Appended DEF Append_, jobVars
  <2>2. c' = c + (IF j = k THEN 1 ELSE 0)
    <3>1. IsFiniteSet(EntriesIn(pending, j, Wsi))
      BY <1>0, <1>e, Zenon
    <3>2. pending' = Added(pending, w, k)
      BY <2>1 DEF Added
    <3>3. PICK e : /\ e \notin EntriesIn(pending, j, Wsi)
                   /\ EntriesIn(pending', j, Wsi) =
                        EntriesIn(pending, j, Wsi) \cup (IF k = j THEN {e} ELSE {})
      <4>1. OneMore(pending, Added(pending, w, k), j, k = j)
        BY <1>0, <2>1, EntryAdded
      <4> QED BY <3>2, <4>1 DEF OneMore
    <3>4. /\ c = Cardinality(EntriesIn(pending, j, Wsi))
          /\ c' = Cardinality(EntriesIn(pending', j, Wsi))
      BY <1>e DEF c
    <3>5. CASE j = k
      <4>1. EntriesIn(pending', j, Wsi) = EntriesIn(pending, j, Wsi) \cup {e}
        BY <3>3, <3>5
      <4>2. Cardinality(EntriesIn(pending, j, Wsi) \cup {e})
              = Cardinality(EntriesIn(pending, j, Wsi)) + 1
        BY <3>1, <3>3, FS_AddElement
      <4> QED BY <3>4, <3>5, <4>1, <4>2
    <3>6. CASE j # k
      <4>1. EntriesIn(pending', j, Wsi) = EntriesIn(pending, j, Wsi)
        BY <3>3, <3>6
      <4> QED BY <1>0, <3>4, <3>6, <4>1
    <3> QED BY <3>5, <3>6
  <2>3. a' = a - (IF j = k THEN 1 ELSE 0)
    <3>1. CASE j = k
      <4>1. Adding(j) = {t} /\ Adding(j)' = {}
        BY <1>3, <3>1, Appended
      <4>2. a = 1 /\ a' = 0
        BY <4>1, FS_EmptySet, FS_Singleton DEF a
      <4> QED BY <3>1, <4>2
    <3>2. CASE j # k
      <4>1. a' = a
        BY <1>3, <3>2, Appended DEF a
      <4> QED BY <1>0, <3>2, <4>1
    <3> QED BY <3>1, <3>2
  <2> QED BY <1>0, <2>1, <2>2, <2>3
<1>4. ASSUME NEW ws \in SUBSET Wsi, Forgets(ws) PROVE Goal
  <2> DEFINE n == Cardinality(EntriesOf(j, ws))
  <2>1. n \in Nat
    BY EntriesFinite DEF TypeInv
  <2>2. a' = a
    BY <1>4, Settled DEF a
  <2>3. c' = c - n
    <3>1. /\ EntriesOf(j, Wsi)' = EntriesOf(j, Wsi) \ EntriesOf(j, ws)
          /\ EntriesOf(j, ws) \subseteq EntriesOf(j, Wsi)
      <4>1. pending' = [w \in Wsi |-> IF w \in ws THEN <<>> ELSE pending[w]]
        BY <1>4 DEF Forgets, Cancelled, WithoutWaiters
      <4>2. /\ EntriesIn([w \in Wsi |-> IF w \in ws THEN <<>> ELSE pending[w]], j, Wsi)
                 = EntriesIn(pending, j, Wsi) \ EntriesIn(pending, j, ws)
            /\ EntriesIn(pending, j, ws) \subseteq EntriesIn(pending, j, Wsi)
        <5>1. ws \subseteq Wsi
          OBVIOUS
        <5> QED BY <1>0, <5>1, EntriesForgotten, Zenon
      <4> QED BY <1>e, <4>1, <4>2, Zenon
    <3>2. EntriesOf(j, Wsi) \cap EntriesOf(j, ws) = EntriesOf(j, ws)
      BY <3>1
    <3>3. Cardinality(EntriesOf(j, Wsi) \ EntriesOf(j, ws))
            = Cardinality(EntriesOf(j, Wsi)) - Cardinality(EntriesOf(j, Wsi) \cap EntriesOf(j, ws))
      BY <1>0, FS_Difference
    <3> QED BY <3>1, <3>2, <3>3 DEF c
  <2>4. group'[j] = IF j \in DataJobs THEN group[j] - n ELSE group[j]
    BY <1>4 DEF Forgets, Cancelled, LeftBy
  <2>5. j \in StringJobs => j \notin DataJobs
    BY ConstantsAssumption
  <2> HIDE DEF n
  <2> QED BY <1>0, <2>1, <2>2, <2>3, <2>4, <2>5
<1>5. ASSUME NEW w \in Wsi, Serves(w) PROVE Goal
  <2> DEFINE k == Head(pending[w])
  <2>1. /\ pending[w] # <<>> /\ pending' = [pending EXCEPT ![w] = Tail(@)]
        /\ group' = [group EXCEPT ![k] = @ - 1]
    BY <1>5 DEF Serves, Waiting
  <2>2. a' = a
    BY <1>5, Settled DEF a
  <2>3. c' = c - (IF k = j THEN 1 ELSE 0)
    <3>1. IsFiniteSet(EntriesIn(pending, j, Wsi))
      BY <1>0, <1>e, Zenon
    <3>2. Cardinality(EntriesIn([pending EXCEPT ![w] = Tail(@)], j, Wsi))
            = Cardinality(EntriesIn(pending, j, Wsi)) - (IF k = j THEN 1 ELSE 0)
      BY <1>0, <2>1, <3>1, EntryServed, Zenon
    <3> QED BY <1>e, <2>1, <3>2, Zenon DEF c
  <2>4. group'[j] = group[j] - (IF k = j THEN 1 ELSE 0)
    BY <1>0, <2>1
  <2> QED BY <1>0, <2>2, <2>3, <2>4
<1>6. svc \in Threads
  BY DEF Threads
<1> QED BY <1>1, <1>2, <1>3, <1>4, <1>5, <1>6, CalmKinds DEF BroadcastStep

-----------------------------------------------------------------------------
(* What a job owes it owes while it is broadcast or waited for *)

\* The completion block is not before the last waiter, and no client is visited
\* twice by an enumeration.
OwedInv ==
    /\ \A j \in Jobs : Owed(j) # {} => phase[j] = "waiting" \/ Visiting(j)
    /\ \A t \in Threads, j \in Jobs :
         bpc[t] \in Enumerating /\ Head(script[t]) = j => Owed(j) \cap todo[t] = {}

LEMMA OwedIsOutstanding ==
    ASSUME TypeInv, JobInv, NEW j \in Jobs
    PROVE  Owed(j) = {} <=> Outstanding(j) = 0
<1>1. pending \in [Wsi -> Seq(Jobs)]
  BY DEF TypeInv, TypeOK
<1>2. \A e : e \in EntriesOf(j, Wsi) <=> EntryAt(pending, j, Wsi, e)
  <2>1. EntriesOf(j, Wsi) = EntriesIn(pending, j, Wsi)
    BY DEF EntriesOf, EntriesIn
  <2> QED BY <1>1, <2>1, EntriesAre
<1>3. ASSUME NEW w \in Wsi, Queued(w, j) PROVE EntriesOf(j, Wsi) # {}
  <2>1. PICK i \in DOMAIN pending[w] : pending[w][i] = j
    BY <1>3 DEF Queued
  <2>2. EntryAt(pending, j, Wsi, <<w, i>>)
    BY <1>1, <2>1 DEF EntryAt
  <2> QED BY <1>2, <2>2
<1>4. ASSUME NEW e \in EntriesOf(j, Wsi) PROVE Owed(j) # {}
  <2>1. PICK w \in Wsi, i \in Nat : i \in 1..Len(pending[w]) /\ pending[w][i] = j
    BY <1>2 DEF EntryAt
  <2>2. Queued(w, j)
    BY <1>1, <2>1 DEF Queued
  <2> QED BY <2>2 DEF Owed
<1>5. Owed(j) = {} <=> EntriesOf(j, Wsi) = {} /\ Adding(j) = {}
  BY <1>3, <1>4 DEF Owed
<1> QED BY <1>5, OutstandingType

\* The job at hand of a thread that has not begun to enumerate owes nothing.
LEMMA NotYetOwed ==
    ASSUME TypeInv, JobInv, OwedInv, NEW t \in Threads, bpc[t] = "call"
    PROVE  Owed(Head(script[t])) = {} /\ ~Visiting(Head(script[t]))
<1>1. /\ Head(script[t]) \in Jobs /\ phase[Head(script[t])] = "called"
      /\ \A u \in Threads : /\ bpc[u] \in {"clear", "call"} \cup Enumerating
                            /\ Head(script[u]) = Head(script[t])
                            => u = t
  BY JobAtHand
<1>2. ~Visiting(Head(script[t]))
  BY <1>1 DEF Visiting, Enumerating
<1> QED BY <1>1, <1>2 DEF OwedInv

\* The wait for a group is over when nothing is owed.
LEMMA CompleteOwesNothing ==
    ASSUME TypeInv, JobInv, GroupInv, NEW k \in Jobs, Complete(k)
    PROVE  Owed(k) = {}
<1>1. /\ k \in DataJobs => group[k] = Outstanding(k)
      /\ k \in StringJobs => group[k] >= Outstanding(k)
      /\ Outstanding(k) \in Nat
  BY OutstandingType DEF GroupInv, GroupCounts, Outstanding
<1>2. Outstanding(k) = 0
  BY <1>1 DEF Complete, GroupEmpty, Jobs
<1> QED BY <1>2, OwedIsOutstanding

LEMMA OwedStep == TypeInv /\ JobInv /\ GroupInv /\ OwedInv /\ BroadcastStep => OwedInv'
<1> SUFFICES ASSUME TypeInv, JobInv, GroupInv, OwedInv, BroadcastStep PROVE OwedInv'
  OBVIOUS
<1>0. /\ bpc \in [Threads -> {"idle", "clear", "call", "enum", "append", "walk",
                              "cancel", "wake"}]
      /\ script \in [Threads -> Seq(Jobs)] /\ todo \in [Threads -> SUBSET Wsi]
      /\ phase \in [Jobs -> {"free", "called", "waiting"}]
      /\ svc \in Threads
  BY DEF TypeInv, TypeOK, Threads
<1>j. \A t \in Threads : bpc[t] \in {"clear", "call"} \cup Enumerating =>
        /\ Head(script[t]) \in Jobs /\ phase[Head(script[t])] = "called"
        /\ \A u \in Threads : /\ bpc[u] \in {"clear", "call"} \cup Enumerating
                              /\ Head(script[u]) = Head(script[t])
                              => u = t
  BY JobAtHand
\* Most steps begin and end no enumeration, and owe nothing more.
<1>1. ASSUME Steady, UNCHANGED todo, \A j \in Jobs : Owed(j)' \subseteq Owed(j),
             \A j \in Jobs : Owed(j)' # {} /\ phase[j] = "waiting" => phase'[j] = "waiting"
      PROVE  OwedInv'
  <2>1. ASSUME NEW j \in Jobs, Owed(j)' # {} PROVE phase'[j] = "waiting" \/ Visiting(j)'
    BY <1>1, <2>1, SteadyKeeps DEF OwedInv
  <2>2. ASSUME NEW t \in Threads, NEW j \in Jobs, bpc'[t] \in Enumerating,
               Head(script'[t]) = j
        PROVE  Owed(j)' \cap todo'[t] = {}
    <3>1. bpc[t] \in Enumerating /\ script'[t] = script[t] /\ todo'[t] = todo[t]
      BY <1>1, <2>2 DEF Steady
    <3>2. Owed(j) \cap todo[t] = {}
      BY <2>2, <3>1 DEF OwedInv
    <3> QED BY <1>1, <3>1, <3>2
  <2> QED BY <2>1, <2>2 DEF OwedInv, Enumerating
<1>2. ASSUME NEW t \in Threads, UNCHANGED broadcastVars \/ Begins(t) \/ Holds_(t) \/ Append_(t)
      PROVE  OwedInv'
  <2>1. Steady /\ UNCHANGED todo
    BY <1>2, SteadyKinds DEF broadcastVars, Begins, Holds_, Append_
  <2>2. \A j \in Jobs : Owed(j)' \subseteq Owed(j)
    BY <1>2, CalmKinds, CalmKeeps, Appended
  <2>3. \A j \in Jobs : phase[j] = "waiting" => phase'[j] = "waiting"
    <3>1. CASE Begins(t)
      <4>1. PICK jobs \in Seq(Jobs) :
              /\ \A i \in DOMAIN jobs : phase[jobs[i]] = "free"
              /\ phase' = [j \in Jobs |-> IF \E i \in DOMAIN jobs : jobs[i] = j
                                          THEN "called" ELSE phase[j]]
        BY <3>1 DEF Begins
      <4> QED BY <4>1
    <3>2. CASE UNCHANGED phase
      BY <3>2
    <3> QED BY <1>2, <3>1, <3>2 DEF broadcastVars, Holds_, Append_, jobVars
  <2> QED BY <1>1, <2>1, <2>2, <2>3
<1>3. ASSUME (\E ws \in SUBSET Wsi : Forgets(ws)) \/ (\E w \in Wsi : Serves(w))
      PROVE  OwedInv'
  <2>1. Steady /\ UNCHANGED <<todo, phase>>
    BY <1>0, <1>3, SteadyKinds DEF Forgets, Serves
  <2>2. \A j \in Jobs : Owed(j)' \subseteq Owed(j)
    BY <1>3, Settled
  <2> QED BY <1>1, <2>1, <2>2
<1>4. ASSUME NEW k \in Jobs, Complete(k) PROVE OwedInv'
  <2>1. /\ Steady /\ UNCHANGED todo /\ group[k] = 0
        /\ phase' = [phase EXCEPT ![k] = "free"]
    BY <1>0, <1>4, SteadyKinds DEF Complete, GroupEmpty, threadVars
  <2>2. \A j \in Jobs : Owed(j)' = Owed(j)
    BY <1>0, <1>4, CalmKinds, CalmKeeps
  <2>3. Owed(k) = {}
    BY <1>4, CompleteOwesNothing
  <2>4. \A j \in Jobs : Owed(j)' # {} /\ phase[j] = "waiting" => phase'[j] = "waiting"
    BY <1>0, <2>1, <2>2, <2>3
  <2> QED BY <1>1, <2>1, <2>2, <2>4
<1>5. ASSUME NEW t \in Threads, Opens(t) PROVE OwedInv'
  <2>1. PICK k \in Jobs : k = Head(script[t]) /\ bpc[t] = "call"
    BY <1>5, <1>j DEF Opens, Moves
  <2>2. \A j \in Jobs : Owed(j)' = Owed(j)
    BY <1>5, CalmKinds, CalmKeeps
  <2>3. /\ bpc'[t] = "enum" /\ UNCHANGED <<phase, script>>
        /\ \A u \in Threads \ {t} : bpc'[u] = bpc[u] /\ todo'[u] = todo[u]
    BY <1>0, <1>5 DEF Opens, Moves
  <2>4. Owed(k) = {}
    BY <2>1, NotYetOwed
  <2>5. \A j \in Jobs : Visiting(j) => Visiting(j)'
    BY <2>3 DEF Visiting, Enumerating
  <2>6. \A j \in Jobs : Owed(j)' # {} => phase'[j] = "waiting" \/ Visiting(j)'
    BY <2>2, <2>3, <2>5 DEF OwedInv
  <2>7. ASSUME NEW u \in Threads, NEW j \in Jobs, bpc'[u] \in Enumerating,
               Head(script'[u]) = j
        PROVE  Owed(j)' \cap todo'[u] = {}
    <3>1. CASE u = t
      BY <2>1, <2>2, <2>3, <2>4, <2>7, <3>1
    <3>2. CASE u # t
      BY <2>2, <2>3, <2>7, <3>2 DEF OwedInv
    <3> QED BY <3>1, <3>2
  <2> QED BY <2>6, <2>7 DEF OwedInv, Enumerating
<1>6. ASSUME NEW t \in Threads, NEW from, NEW p, Leaves(t, from, p) PROVE OwedInv'
  <2>1. PICK k \in Jobs : k = Head(script[t])
    BY <1>6, <1>j DEF Leaves, Moves, Enumerating
  <2>2. \A j \in Jobs : Owed(j)' = Owed(j)
    BY <1>6, CalmKinds, CalmKeeps DEF Leaves
  <2>3. /\ bpc'[t] \in {"idle", "call"} /\ todo' = todo /\ phase' = [phase EXCEPT ![k] = p]
        /\ \A u \in Threads \ {t} : bpc'[u] = bpc[u] /\ script'[u] = script[u]
    BY <1>0, <1>6, <2>1 DEF Leaves, NextJob, Moves
  <2>4. Owed(k) = {} \/ p = "waiting"
    BY <1>6, <2>1, NotYetOwed DEF Leaves, Moves
  <2>5. \A j \in Jobs \ {k} : Visiting(j) => Visiting(j)'
    BY <2>1, <2>3 DEF Visiting
  <2>6. \A j \in Jobs : Owed(j)' # {} => phase'[j] = "waiting" \/ Visiting(j)'
    BY <1>0, <2>2, <2>3, <2>4, <2>5 DEF OwedInv
  <2>7. ASSUME NEW u \in Threads, NEW j \in Jobs, bpc'[u] \in Enumerating,
               Head(script'[u]) = j
        PROVE  Owed(j)' \cap todo'[u] = {}
    <3>1. u # t
      BY <2>3, <2>7 DEF Enumerating
    <3> QED BY <2>2, <2>3, <2>7, <3>1 DEF OwedInv
  <2> QED BY <2>6, <2>7 DEF OwedInv, Enumerating
<1>7. ASSUME NEW t \in Threads, Visit(t) PROVE OwedInv'
  <2>1. PICK k \in Jobs : k = Head(script[t]) /\ bpc[t] \in Enumerating
    BY <1>7, <1>j DEF Visit, Enumerating
  <2>2. /\ UNCHANGED <<phase, script>> /\ bpc'[t] = "append"
        /\ \A u \in Threads \ {t} : bpc'[u] = bpc[u] /\ todo'[u] = todo[u]
    BY <1>0, <1>7 DEF Visit
  <2>3. \A j \in Jobs : j # k => Owed(j)' = Owed(j)
    BY <1>7, <2>1, Visited
  <2>4. PICK w \in todo[t] : todo'[t] = todo[t] \ {w} /\ Owed(k)' = Owed(k) \cup {w}
    <3>1. \E w \in todo[t] : /\ todo' = [todo EXCEPT ![t] = @ \ {w}]
                             /\ Owed(k)' = Owed(k) \cup {w}
      BY <1>7, <2>1, Visited
    <3> QED BY <1>0, <3>1
  <2>5. \A j \in Jobs : Visiting(j)' <=> Visiting(j)
    BY <1>7, SteadyKinds, SteadyKeeps
  <2>6. Visiting(k)
    BY <2>1 DEF Visiting
  <2>7. \A j \in Jobs : Owed(j)' # {} => phase'[j] = "waiting" \/ Visiting(j)'
    BY <2>2, <2>3, <2>5, <2>6 DEF OwedInv
  <2>8. ASSUME NEW u \in Threads, NEW j \in Jobs, bpc'[u] \in Enumerating,
               Head(script'[u]) = j
        PROVE  Owed(j)' \cap todo'[u] = {}
    <3>1. CASE u = t
      <4>1. j = k /\ Owed(k) \cap todo[t] = {}
        BY <2>1, <2>2, <2>8, <3>1 DEF OwedInv
      <4> QED BY <2>4, <3>1, <4>1
    <3>2. CASE u # t
      <4>1. j # k
        BY <1>j, <2>1, <2>2, <2>8, <3>2
      <4> QED BY <2>2, <2>3, <2>8, <3>2, <4>1 DEF OwedInv
    <3> QED BY <3>1, <3>2
  <2> QED BY <2>7, <2>8 DEF OwedInv, Enumerating
<1> QED BY <1>0, <1>2, <1>3, <1>4, <1>5, <1>6, <1>7 DEF BroadcastStep

-----------------------------------------------------------------------------
(* The group, and what is gone when a job is done *)

CountInv == TypeInv /\ JobInv /\ GroupInv /\ OwedInv

LEMMA CountInit == Init => CountInv
<1> SUFFICES ASSUME Init PROVE CountInv
  OBVIOUS
<1>1. TypeInv
  BY TypeInit
<1>2. /\ \A w \in Wsi : DOMAIN pending[w] = {}
      /\ \A t \in Threads : DOMAIN script[t] = {} /\ bpc[t] = "idle"
  BY DEF Init
<1>3. JobInv
  BY <1>2 DEF JobInv
<1>4. \A j \in Jobs : EntriesOf(j, Wsi) = {} /\ Adding(j) = {}
  BY <1>2 DEF EntriesOf, Adding
<1>5. \A j \in Jobs : Outstanding(j) = 0 /\ group[j] = 0
  BY <1>1, <1>3, <1>4, OutstandingType DEF Init
<1>6. GroupInv
  BY <1>5 DEF GroupInv, GroupCounts, Jobs
<1>7. OwedInv
  BY <1>1, <1>2, <1>3, <1>5, OwedIsOutstanding DEF OwedInv, Enumerating
<1> QED BY <1>1, <1>3, <1>6, <1>7 DEF CountInv

LEMMA CountStep == CountInv /\ [Next]_vars => CountInv'
<1>1. CountInv /\ [Next]_vars => TypeInv' /\ BroadcastStep
  BY TypeStep, Kinds DEF CountInv
<1> QED BY <1>1, JobStep, GroupStep, OwedStep DEF CountInv

\* The dispatch group of a -writeDatas counts exactly the waiters that are still
\* to be called: whichever of the writable callback, cancelAllWrites and the
\* close of a client takes a waiter, it leaves the group once, for any number of
\* clients, threads and calls.
THEOREM GroupIsExact == Spec => []GroupCounts
<1>1. CountInv => GroupCounts
  BY DEF CountInv, GroupInv
<1> QED BY <1>1, CountInit, CountStep, PTL DEF Spec

\* When the completion block of -writeDatas or -writeString has run no waiter of
\* the call is queued or about to be, so nobody reads its buffers any more.
THEOREM DoneIsGone == Spec => []DoneMeansGone
<1>1. CountInv => DoneMeansGone
  <2> SUFFICES ASSUME CountInv, NEW j \in Jobs, phase[j] = "free"
               PROVE  Outstanding(j) = 0
    BY DEF DoneMeansGone
  <2>1. ~Visiting(j)
    <3> SUFFICES ASSUME NEW t \in Threads, bpc[t] \in Enumerating, Head(script[t]) = j
                 PROVE  FALSE
      BY DEF Visiting
    <3> QED BY JobAtHand DEF CountInv
  <2> QED BY <2>1, OwedIsOutstanding DEF CountInv, OwedInv
<1> QED BY <1>1, CountInit, CountStep, PTL DEF Spec

-----------------------------------------------------------------------------
(* -writeDatas keeps the promise of Broadcast *)

LEMMA OwedType ==
    ASSUME TypeInv, NEW j
    PROVE  Owed(j) \subseteq Wsi
<1>1. \A t \in Threads : bpc[t] = "append" => at[t] \in Wsi
  BY DEF TypeInv, WellFormed
<1> QED BY <1>1 DEF Owed, Adding

\* A step of no stage that owes nothing more settles.
LEMMA PromiseSettled ==
    ASSUME TypeInv, TypeInv',
           \A j \in DataJobs : Stage(j)' = Stage(j) /\ Owed(j)' \subseteq Owed(j)
    PROVE  B!Next
<1> DEFINE S == [j \in DataJobs |-> Stage(j)]
           O == [j \in DataJobs |-> Owed(j)]
<1>1. S' = S
  OBVIOUS
<1>2. O' \in [DataJobs -> SUBSET Wsi] /\ \A j \in DataJobs : O'[j] \subseteq O[j]
  BY OwedType
<1> QED BY <1>1, <1>2 DEF B!Next, B!Settle

\* The stage and the debt of a job determine the other steps of Broadcast.
LEMMA PromiseStep ==
    ASSUME TypeInv, TypeInv', NEW k \in Jobs,
           \/ /\ Stage(k) = "idle" /\ Owed(k) = {} /\ Stage(k)' = "visiting"
              /\ \A j \in DataJobs \ {k} : Stage(j)' = Stage(j)
              /\ \A j \in DataJobs : Owed(j)' = Owed(j)
           \/ /\ Stage(k) = "visiting" /\ Stage(k)' = "visited"
              /\ \A j \in DataJobs \ {k} : Stage(j)' = Stage(j)
              /\ \A j \in DataJobs : Owed(j)' = Owed(j)
           \/ /\ Stage(k) = "visited" /\ Owed(k) = {} /\ Stage(k)' = "idle"
              /\ \A j \in DataJobs \ {k} : Stage(j)' = Stage(j)
              /\ \A j \in DataJobs : Owed(j)' = Owed(j)
           \/ /\ Stage(k) = "visiting"
              /\ \A j \in DataJobs : Stage(j)' = Stage(j)
              /\ \E w \in Wsi \ Owed(k) : Owed(k)' = Owed(k) \cup {w}
              /\ \A j \in DataJobs \ {k} : Owed(j)' = Owed(j)
    PROVE  B!Next
<1> DEFINE S == [j \in DataJobs |-> Stage(j)]
           O == [j \in DataJobs |-> Owed(j)]
<1>1. CASE k \notin DataJobs
  BY <1>1, PromiseSettled
<1>2. CASE k \in DataJobs
  <2>2. ASSUME \A j \in DataJobs : Owed(j)' = Owed(j) PROVE O' = O
    BY <2>2
  <2>3. ASSUME NEW s, Stage(k)' = s, \A j \in DataJobs \ {k} : Stage(j)' = Stage(j)
        PROVE  S' = [S EXCEPT ![k] = s]
    BY <1>2, <2>3
  <2>4. S[k] = Stage(k) /\ O[k] = Owed(k)
    BY <1>2
  <2>5. CASE /\ Stage(k) = "idle" /\ Owed(k) = {} /\ Stage(k)' = "visiting"
             /\ \A j \in DataJobs \ {k} : Stage(j)' = Stage(j)
             /\ \A j \in DataJobs : Owed(j)' = Owed(j)
    <3>1. B!Begin(k)
      BY <2>2, <2>3, <2>4, <2>5 DEF B!Begin
    <3> QED BY <1>2, <3>1 DEF B!Next
  <2>6. CASE /\ Stage(k) = "visiting" /\ Stage(k)' = "visited"
             /\ \A j \in DataJobs \ {k} : Stage(j)' = Stage(j)
             /\ \A j \in DataJobs : Owed(j)' = Owed(j)
    <3>1. B!End(k)
      BY <2>2, <2>3, <2>4, <2>6 DEF B!End
    <3> QED BY <1>2, <3>1 DEF B!Next
  <2>7. CASE /\ Stage(k) = "visited" /\ Owed(k) = {} /\ Stage(k)' = "idle"
             /\ \A j \in DataJobs \ {k} : Stage(j)' = Stage(j)
             /\ \A j \in DataJobs : Owed(j)' = Owed(j)
    <3>1. B!Complete(k)
      BY <2>2, <2>3, <2>4, <2>7 DEF B!Complete
    <3> QED BY <1>2, <3>1 DEF B!Next
  <2>8. CASE /\ Stage(k) = "visiting"
             /\ \A j \in DataJobs : Stage(j)' = Stage(j)
             /\ \E w \in Wsi \ Owed(k) : Owed(k)' = Owed(k) \cup {w}
             /\ \A j \in DataJobs \ {k} : Owed(j)' = Owed(j)
    <3>1. PICK w \in Wsi \ Owed(k) : Owed(k)' = Owed(k) \cup {w}
      BY <2>8
    <3>2. S' = S
      BY <2>8
    <3>3. O' = [O EXCEPT ![k] = @ \cup {w}]
      BY <1>2, <2>8, <3>1
    <3>4. B!Owe(k, w)
      BY <2>4, <2>8, <3>1, <3>2, <3>3 DEF B!Owe
    <3> QED BY <1>2, <3>4 DEF B!Next
  <2> QED BY <2>5, <2>6, <2>7, <2>8
<1> QED BY <1>1, <1>2


\* A job that is visited is called and not yet waited for.
StageFact ==
    \A j \in Jobs : /\ Visiting(j) => phase[j] = "called"
                    /\ Stage(j) = "visiting" <=> Visiting(j)
                    /\ Stage(j) = "visited" <=> phase[j] = "waiting"
                    /\ Stage(j) \in {"idle", "visiting", "visited"}

LEMMA StagesAtHand == CountInv => StageFact
<1> SUFFICES ASSUME CountInv PROVE StageFact
  OBVIOUS
<1>1. ASSUME NEW j \in Jobs, NEW t \in Threads, bpc[t] \in Enumerating, Head(script[t]) = j
      PROVE  phase[j] = "called"
  BY <1>1, JobAtHand DEF CountInv
<1>2. \A j \in Jobs : Visiting(j) => phase[j] = "called"
  BY <1>1 DEF Visiting
<1> QED BY <1>2 DEF Stage, StageFact

LEMMA StagesKeep ==
    ASSUME Steady, NEW j \in Jobs, phase[j] = "waiting" <=> phase'[j] = "waiting"
    PROVE  Stage(j)' = Stage(j)
BY SteadyKeeps DEF Stage

LEMMA PromiseKept ==
    CountInv /\ CountInv' /\ BroadcastStep => B!Next \/ UNCHANGED B!vars
<1> SUFFICES ASSUME CountInv, CountInv', BroadcastStep
             PROVE  B!Next \/ UNCHANGED B!vars
  OBVIOUS
<1>s. StageFact /\ StageFact'
  BY StagesAtHand, PTL
<1> USE DEF CountInv, StageFact
<1>0. /\ bpc \in [Threads -> {"idle", "clear", "call", "enum", "append", "walk",
                              "cancel", "wake"}]
      /\ phase \in [Jobs -> {"free", "called", "waiting"}]
      /\ svc \in Threads /\ DataJobs \subseteq Jobs /\ TypeInv /\ TypeInv'
      /\ todo \in [Threads -> SUBSET Wsi]
  BY DEF TypeInv, TypeOK, Threads, Jobs
<1>j. \A t \in Threads : bpc[t] \in {"clear", "call"} \cup Enumerating =>
        /\ Head(script[t]) \in Jobs /\ phase[Head(script[t])] = "called"
        /\ \A u \in Threads : /\ bpc[u] \in {"clear", "call"} \cup Enumerating
                              /\ Head(script[u]) = Head(script[t])
                              => u = t
  BY JobAtHand
<1>1. CASE UNCHANGED broadcastVars
  <2>1. Steady /\ Calm
    BY <1>0, <1>1, SteadyKinds, CalmKinds
  <2>2. \A j \in DataJobs : Stage(j)' = Stage(j) /\ Owed(j)' \subseteq Owed(j)
    BY <1>0, <1>1, <2>1, StagesKeep, CalmKeeps DEF broadcastVars
  <2> QED BY <1>0, <2>2, PromiseSettled
<1>2. ASSUME NEW t \in Threads, Begins(t) \/ Holds_(t) \/ Append_(t)
      PROVE  B!Next
  <2>1. Steady /\ \A j \in Jobs : Owed(j)' \subseteq Owed(j)
    BY <1>0, <1>2, SteadyKinds, CalmKinds, CalmKeeps, Appended
  <2>2. \A j \in Jobs : phase[j] = "waiting" <=> phase'[j] = "waiting"
    <3>1. CASE Begins(t)
      <4>1. PICK jobs \in Seq(Jobs) :
              /\ \A i \in DOMAIN jobs : phase[jobs[i]] = "free"
              /\ phase' = [j \in Jobs |-> IF \E i \in DOMAIN jobs : jobs[i] = j
                                          THEN "called" ELSE phase[j]]
        BY <3>1 DEF Begins
      <4> QED BY <4>1
    <3> QED BY <1>2, <3>1 DEF Holds_, Append_, jobVars
  <2> QED BY <1>0, <2>1, <2>2, StagesKeep, PromiseSettled
<1>3. ASSUME (\E ws \in SUBSET Wsi : Forgets(ws)) \/ (\E w \in Wsi : Serves(w))
      PROVE  B!Next
  <2>1. Steady /\ phase' = phase
    BY <1>0, <1>3, SteadyKinds DEF Forgets, Serves
  <2>2. \A j \in Jobs : Owed(j)' \subseteq Owed(j)
    BY <1>0, <1>3, Settled
  <2> QED BY <1>0, <2>1, <2>2, StagesKeep, PromiseSettled
<1>4. ASSUME NEW k \in Jobs, Complete(k) PROVE B!Next
  <2>1. /\ Steady /\ phase[k] = "waiting" /\ group[k] = 0
        /\ phase' = [phase EXCEPT ![k] = "free"]
    BY <1>0, <1>4, SteadyKinds DEF Complete, GroupEmpty
  <2>2. \A j \in Jobs : Owed(j)' = Owed(j)
    BY <1>0, <1>4, CalmKinds, CalmKeeps
  <2>3. Owed(k) = {}
    BY <1>4, CompleteOwesNothing
  <2>4. Stage(k) = "visited" /\ Stage(k)' = "idle"
    BY <1>0, <1>s, <2>1, SteadyKeeps
  <2>5. \A j \in Jobs \ {k} : Stage(j)' = Stage(j)
    BY <1>0, <2>1, StagesKeep
  <2> QED BY <1>0, <2>2, <2>3, <2>4, <2>5, PromiseStep
<1>5. ASSUME NEW t \in Threads, Opens(t) PROVE B!Next
  <2>1. PICK k \in Jobs : k = Head(script[t]) /\ bpc[t] = "call"
    BY <1>5, <1>j DEF Opens, Moves
  <2>2. \A j \in Jobs : Owed(j)' = Owed(j)
    BY <1>0, <1>5, CalmKinds, CalmKeeps
  <2>3. /\ bpc'[t] = "enum" /\ UNCHANGED <<phase, script>>
        /\ \A u \in Threads \ {t} : bpc'[u] = bpc[u]
    BY <1>0, <1>5 DEF Opens, Moves
  <2>4. Owed(k) = {} /\ ~Visiting(k) /\ phase[k] = "called"
    BY <1>j, <2>1, NotYetOwed
  <2>5. Stage(k) = "idle" /\ Stage(k)' = "visiting"
    <3>1. Visiting(k)'
      BY <2>1, <2>3 DEF Visiting, Enumerating
    <3> QED BY <1>s, <2>4, <3>1
  <2>6. \A j \in Jobs \ {k} : Stage(j)' = Stage(j)
    <3>1. ASSUME NEW j \in Jobs \ {k} PROVE Visiting(j)' <=> Visiting(j)
      BY <2>1, <2>3 DEF Visiting, Enumerating
    <3> QED BY <2>3, <3>1 DEF Stage
  <2> QED BY <1>0, <2>2, <2>4, <2>5, <2>6, PromiseStep
<1>6. ASSUME NEW t \in Threads, NEW from, NEW p, Leaves(t, from, p) PROVE B!Next
  <2>1. PICK k \in Jobs : k = Head(script[t])
    BY <1>6, <1>j DEF Leaves, Moves, Enumerating
  <2>2. \A j \in Jobs : Owed(j)' = Owed(j)
    BY <1>0, <1>6, CalmKinds, CalmKeeps DEF Leaves
  <2>3. /\ bpc'[t] \in {"idle", "call"} /\ phase' = [phase EXCEPT ![k] = p]
        /\ \A u \in Threads \ {t} : bpc'[u] = bpc[u] /\ script'[u] = script[u]
        /\ bpc[t] = from /\ <<from, p>> \in {<<"call", "free">>, <<"enum", "waiting">>}
    BY <1>0, <1>6, <2>1 DEF Leaves, NextJob, Moves
  <2>4. phase[k] = "called"
    BY <1>j, <2>1, <2>3 DEF Enumerating
  <2>5. \A j \in Jobs \ {k} : Stage(j)' = Stage(j)
    <3>1. ASSUME NEW j \in Jobs \ {k} PROVE Visiting(j)' <=> Visiting(j)
      BY <2>1, <2>3 DEF Visiting, Enumerating
    <3> QED BY <1>0, <2>3, <3>1 DEF Stage
  <2>6. CASE from = "call"
    <3>1. ~Visiting(k) /\ p = "free"
      BY <2>1, <2>3, <2>6, NotYetOwed
    <3>2. Stage(k) = "idle" /\ Stage(k)' = "idle"
      BY <1>0, <1>s, <2>3, <2>4, <3>1
    <3> QED BY <1>0, <2>2, <2>5, <3>2, PromiseSettled
  <2>7. CASE from = "enum"
    <3>1. Visiting(k) /\ p = "waiting"
      BY <2>1, <2>3, <2>7 DEF Visiting, Enumerating
    <3>2. Stage(k) = "visiting" /\ Stage(k)' = "visited"
      BY <1>0, <1>s, <2>3, <2>4, <3>1
    <3> QED BY <1>0, <2>2, <2>5, <3>2, PromiseStep
  <2> QED BY <2>3, <2>6, <2>7
<1>7. ASSUME NEW t \in Threads, Visit(t) PROVE B!Next
  <2>1. PICK k \in Jobs : k = Head(script[t]) /\ bpc[t] \in Enumerating
    BY <1>7, <1>j DEF Visit, Enumerating
  <2>2. Steady /\ phase' = phase
    BY <1>0, <1>7, SteadyKinds DEF Visit
  <2>3. \A j \in Jobs \ {k} : Owed(j)' = Owed(j)
    BY <1>7, <2>1, Visited
  <2>4. \E w \in todo[t] : Owed(k)' = Owed(k) \cup {w}
    BY <1>7, <2>1, Visited
  <2>5. Owed(k) \cap todo[t] = {}
    BY <2>1 DEF OwedInv
  <2>6. \E w \in Wsi \ Owed(k) : Owed(k)' = Owed(k) \cup {w}
    BY <1>0, <2>4, <2>5
  <2>7. Stage(k) = "visiting"
    BY <1>s, <2>1 DEF Visiting
  <2>8. \A j \in Jobs : Stage(j)' = Stage(j)
    BY <2>2, StagesKeep
  <2> QED BY <1>0, <2>3, <2>6, <2>7, <2>8, PromiseStep
<1> QED BY <1>0, <1>1, <1>2, <1>3, <1>4, <1>5, <1>6, <1>7
         DEF BroadcastStep

\* -writeDatas implements Broadcast: each call owes its data to every client it
\* has visited exactly until that waiter was called, and its completion block
\* runs once, after the last visit and when it owes nothing.
THEOREM PromiseIsKept == Spec => KeepsPromise
<1>1. Init => B!Init
  <2> SUFFICES ASSUME Init PROVE B!Init
    OBVIOUS
  <2>1. CountInv
    BY CountInit
  <2>2. \A j \in DataJobs : Stage(j) = "idle"
    BY DEF Init, Stage, Visiting, Enumerating, Jobs
  <2>3. \A j \in DataJobs : Owed(j) = {}
    BY <2>1, <2>2 DEF CountInv, OwedInv, Stage, Jobs
  <2> QED BY <2>2, <2>3 DEF B!Init
<1>2. CountInv /\ CountInv' /\ [Next]_vars => [B!Next]_(B!vars)
  BY Kinds, PromiseKept DEF CountInv
<1> QED BY <1>1, <1>2, CountInit, CountStep, PTL DEF Spec, KeepsPromise, B!Spec

-----------------------------------------------------------------------------
(* No waiter of a client that has gone *)

\* The service thread only visits clients that are still there: none goes while
\* it is in a message handler.
OrphanInv ==
    /\ NoOrphans
    /\ bpc[svc] \in Enumerating => todo[svc] \subseteq clients
    /\ bpc[svc] = "append" => at[svc] \in clients

Quiet == \A t \in Writers : bpc[t] = "idle"

LEMMA OrphanStep ==
    TypeInv /\ HandlerInv /\ Quiet /\ OrphanInv /\ [Next]_vars => OrphanInv'
<1> SUFFICES ASSUME TypeInv, HandlerInv, Quiet, OrphanInv, [Next]_vars PROVE OrphanInv'
  OBVIOUS
<1> USE DEF vars, netVars, pollVars, jobVars, threadVars, raceVars, serverVars
<1>0. /\ bpc \in [Threads -> {"idle", "clear", "call", "enum", "append", "walk",
                              "cancel", "wake"}]
      /\ todo \in [Threads -> SUBSET Wsi] /\ at \in [Threads -> Wsi \cup {NoWsi}]
      /\ pending \in [Wsi -> Seq(Jobs)] /\ clients \subseteq Wsi
      /\ svc \in Threads /\ svc \notin Writers
  BY ConstantsAssumption DEF TypeInv, TypeOK, Threads
\* A step that adds no waiter and lets no client go.
<1>1. ASSUME clients \subseteq clients', \A w \in Wsi : Waiting(w)' => Waiting(w),
             UNCHANGED <<todo, at>>,
             bpc'[svc] \in Enumerating => bpc[svc] \in Enumerating,
             bpc'[svc] = "append" => bpc[svc] = "append"
      PROVE  OrphanInv'
  <2>1. NoOrphans'
    BY <1>1 DEF OrphanInv, NoOrphans
  <2> QED BY <1>1, <2>1 DEF OrphanInv
<1>2. ASSUME NEW ws \in SUBSET Wsi, NEW w \in Wsi, Cancelled(ws)
      PROVE  Waiting(w)' => Waiting(w) /\ w \notin ws
  BY <1>2 DEF Cancelled, WithoutWaiters, Waiting
<1>3. ASSUME NEW t \in Writers, Capture(t) PROVE OrphanInv'
  <2>1. UNCHANGED <<clients, pending, todo, at>> /\ bpc'[svc] = bpc[svc]
    BY <1>0, <1>3 DEF Capture, Start
  <2> QED BY <1>1, <2>1 DEF Waiting
<1>4. ASSUME NEW t \in Threads, Caller(t) PROVE OrphanInv'
  <2>0. t = svc
    <3>1. bpc[t] # "idle"
      BY <1>4 DEF Caller, CancelAllWrites, Broadcast, Visit, EnumerationMutated, Submit,
                  Append_, Arm, TestCanCancel, Wake
    <3> QED BY <3>1 DEF Quiet, Threads
  <2>1. CASE CancelAllWrites(t)
    <3>1. /\ Cancelled(Wsi) /\ UNCHANGED <<clients, todo, at>> /\ bpc'[svc] = "call"
      BY <1>0, <2>0, <2>1 DEF CancelAllWrites
    <3> QED BY <1>1, <1>2, <3>1 DEF Enumerating
  <2>2. CASE Broadcast(t)
    <3>1. CASE clients = {}
      <4>1. /\ UNCHANGED <<clients, pending, todo, at>> /\ bpc'[svc] \in {"idle", "call"}
        BY <1>0, <2>0, <2>2, <3>1 DEF Broadcast, NextJob
      <4> QED BY <1>1, <4>1 DEF Enumerating, Waiting
    <3>2. CASE clients # {}
      <4>1. /\ UNCHANGED <<clients, pending>> /\ bpc'[svc] = "enum" /\ todo'[svc] = clients
        BY <1>0, <2>0, <2>2, <3>2 DEF Broadcast
      <4> QED BY <4>1 DEF OrphanInv, NoOrphans, Waiting
    <3> QED BY <3>1, <3>2
  <2>3. CASE Visit(t)
    <3>1. PICK w \in todo[svc] : at'[svc] = w /\ todo'[svc] = todo[svc] \ {w}
      BY <1>0, <2>0, <2>3 DEF Visit
    <3>2. UNCHANGED <<clients, pending>> /\ bpc[svc] = "enum"
      BY <2>0, <2>3 DEF Visit
    <3>3. todo[svc] \subseteq clients
      BY <3>2 DEF OrphanInv, Enumerating
    <3> QED BY <3>1, <3>2, <3>3 DEF OrphanInv, NoOrphans, Waiting
  <2>4. CASE EnumerationMutated(t)
    BY <1>1, <2>4 DEF EnumerationMutated, Waiting
  <2>5. CASE Submit(t)
    <3>1. /\ UNCHANGED <<clients, pending, todo, at>> /\ bpc'[svc] \in {"idle", "call"}
      BY <1>0, <2>0, <2>5 DEF Submit, NextJob
    <3> QED BY <1>1, <3>1 DEF Enumerating, Waiting
  <2>6. CASE Append_(t)
    <3>1. /\ bpc[svc] = "append" /\ bpc'[svc] = "walk" /\ UNCHANGED <<clients, todo, at>>
          /\ \A w \in Wsi \ {at[svc]} : pending'[w] = pending[w]
      BY <1>0, <2>0, <2>6 DEF Append_
    <3>2. at[svc] \in clients /\ todo[svc] \subseteq clients
      BY <3>1 DEF OrphanInv, Enumerating
    <3>3. NoOrphans'
      BY <3>1, <3>2 DEF OrphanInv, NoOrphans, Waiting
    <3> QED BY <3>1, <3>2, <3>3 DEF OrphanInv
  <2>7. CASE Arm(t) \/ TestCanCancel(t) \/ Wake(t)
    <3>1. /\ UNCHANGED <<clients, pending, todo, at>> /\ bpc[svc] \in Enumerating
          /\ bpc'[svc] # "append" \/ bpc' = bpc
      BY <1>0, <2>0, <2>7 DEF Arm, TestCanCancel, Wake, Enumerating
    <3> QED BY <1>1, <3>1 DEF Waiting
  <2> QED BY <1>4, <2>1, <2>2, <2>3, <2>4, <2>5, <2>6, <2>7 DEF Caller
<1>5. ASSUME NEW j \in Jobs, Complete(j) PROVE OrphanInv'
  BY <1>1, <1>5 DEF Complete, Waiting
<1>6. ASSUME NEW w \in Wsi, Service(w) PROVE OrphanInv'
  <2>1. CASE Receive(w)
    <3>1. /\ UNCHANGED <<clients, pending, todo, at>>
          /\ bpc' = bpc \/ bpc'[svc] \in {"clear", "call"}
      BY <1>0, <2>1 DEF Receive, Start
    <3> QED BY <1>1, <3>1 DEF Enumerating, Waiting
  <2>2. CASE Establish(w)
    <3>1. clients' = clients \cup {w} /\ UNCHANGED <<pending, todo, at, bpc>>
      BY <2>2 DEF Establish
    <3> QED BY <1>1, <3>1 DEF Waiting
  <2>3. CASE ~Receive(w) /\ ~Establish(w)
    <3>1. UNCHANGED <<clients, pending, todo, at, bpc>>
      BY <1>6, <2>3 DEF Service, FlushTruncated, FlushFails, ReplyToClose, Writable, Ignore,
                        ReceiveClose, ReceiveEnd, HangUp, Kill
    <3> QED BY <1>1, <3>1 DEF Waiting
  <2> QED BY <2>1, <2>2, <2>3
<1>7. ASSUME Loop PROVE OrphanInv'
  <2>1. CASE OnClientWritable
    <3>1. UNCHANGED <<clients, todo, at, bpc>>
      BY <2>1 DEF OnClientWritable
    <3>2. ASSUME NEW w \in Wsi, Waiting(w)' PROVE Waiting(w)
      <4>1. pending' = pending \/ (Waiting(cur) /\ pending' = [pending EXCEPT ![cur] = Tail(@)])
        BY <2>1 DEF OnClientWritable, Served
      <4> QED BY <1>0, <3>2, <4>1 DEF Waiting
    <3> QED BY <1>1, <3>1, <3>2
  <2>2. CASE OnConnectionClose
    <3>1. UNCHANGED <<todo, at, bpc>> /\ bpc[svc] = "idle"
      BY <2>2 DEF OnConnectionClose, HandlerInv
    <3>2. CASE cur \in clients
      <4>1. clients' = clients \ {cur} /\ Cancelled({cur}) /\ {cur} \in SUBSET Wsi
        BY <1>0, <2>2, <3>2 DEF OnConnectionClose
      <4>2. NoOrphans'
        BY <1>2, <4>1 DEF OrphanInv, NoOrphans
      <4> QED BY <3>1, <4>2 DEF OrphanInv, Enumerating
    <3>3. CASE cur \notin clients
      BY <1>1, <2>2, <3>3 DEF OnConnectionClose, Waiting
    <3> QED BY <3>2, <3>3
  <2>3. CASE PollEnter \/ PollReturn \/ CountWaiters \/ Rearm \/ AllowCancel
    BY <1>1, <2>3 DEF PollEnter, PollReturn, CountWaiters, Rearm, AllowCancel, Waiting
  <2> QED BY <1>7, <2>1, <2>2, <2>3 DEF Loop
<1>8. ASSUME NEW w \in Wsi, Drain(w) PROVE OrphanInv'
  BY <1>1, <1>8 DEF Drain, Waiting
<1>9. ASSUME Crashed \/ UNCHANGED vars PROVE OrphanInv'
  BY <1>1, <1>9 DEF Crashed, Waiting
<1> QED BY <1>3, <1>4, <1>5, <1>6, <1>7, <1>8, <1>9 DEF Next

\* A service thread that broadcasts alone leaves no waiter behind for a client
\* that has gone: its CLOSED callback cancels them all, and no broadcast is under
\* way then.  With capture threads this fails (see NoOrphans).
THEOREM AloneLeavesNoOrphans == MCSpec => []NoOrphansAlone
<1> DEFINE Inv == TypeInv /\ HandlerInv /\ (Alone => Quiet /\ OrphanInv)
<1>1. MCInit => Inv
  <2> SUFFICES ASSUME MCInit PROVE Inv
    OBVIOUS
  <2>1. Init /\ TypeInv
    BY TypeInit DEF MCInit
  <2>2. \A t \in Threads : bpc[t] = "idle"
    BY <2>1 DEF Init
  <2>3. HandlerInv /\ Quiet /\ OrphanInv
    BY <2>1, <2>2 DEF Init, HandlerInv, Quiet, OrphanInv, NoOrphans, Waiting, Enumerating,
                      Threads
  <2> QED BY <2>1, <2>3
<1>2. Inv /\ [MCNext]_<<vars, instance>> => Inv'
  <2> SUFFICES ASSUME Inv, [MCNext]_<<vars, instance>> PROVE Inv'
    OBVIOUS
  <2>1. [Next]_vars /\ instance' = instance
    BY DEF MCNext
  <2>2. TypeInv' /\ HandlerInv'
    BY <2>1, TypeStep, HandlerStep
  <2>3. ASSUME Alone PROVE Quiet' /\ OrphanInv'
    <3>1. OrphanInv'
      BY <2>1, <2>3, OrphanStep
    <3>2. CASE MCNext
      <4>1. \A t \in Writers \ Instances[instance].writers : bpc'[t] = "idle"
        BY <2>1, <3>2 DEF MCNext, Within, Instances
      <4> QED BY <2>3, <3>1, <4>1 DEF Alone, Quiet
    <3>3. CASE UNCHANGED <<vars, instance>>
      BY <2>3, <3>1, <3>3 DEF Quiet, vars, threadVars
    <3> QED BY <3>2, <3>3
  <2>4. Alone' <=> Alone
    BY <2>1 DEF Alone, Instances
  <2> QED BY <2>2, <2>3, <2>4
<1>3. Inv => NoOrphansAlone
  BY DEF OrphanInv, NoOrphansAlone
<1> QED BY <1>1, <1>2, <1>3, PTL DEF MCSpec
=============================================================================
