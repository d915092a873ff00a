--------------------------- MODULE MCWebSocketServer ---------------------------
(***************************************************************************)
(* Instances of WebSocketServer for TLC.  One run checks several of them:  *)
(* which one is chosen in the initial state.                               *)
(***************************************************************************)
EXTENDS WebSocketServer, TLC

CONSTANTS
    Run,                    \* the instances of this run
    w0, w1, w2,             \* elements of Wsi
    cam, cam1, cam2,        \* of Writers
    y1, uv1,                \* of DataJobs
    s0, s1, s2              \* of StringJobs

VARIABLE instance

Instances == [
    one_client   |-> [wsi |-> {w0},     writers |-> {cam},        jobs |-> {y1, uv1, s0}],
    service_only |-> [wsi |-> {w1, w2}, writers |-> {},           jobs |-> {y1, uv1, s0}],
    two_writers  |-> [wsi |-> {w0},     writers |-> {cam1, cam2}, jobs |-> {s1, s2}],
    live         |-> [wsi |-> {w0},     writers |-> {cam},        jobs |-> {y1, uv1}],
    live_service |-> [wsi |-> {w0},     writers |-> {},           jobs |-> {y1, uv1, s0}]]

\* What is not of the instance is never in use.
Within ==
    LET i == Instances[instance]
    IN  /\ \A w \in Wsi \ i.wsi : conn[w] = "none" /\ w \notin revIn
        /\ \A t \in Writers \ i.writers : bpc[t] = "idle"
        /\ \A j \in Jobs \ i.jobs : phase[j] = "free"

MCInit == Init /\ instance \in Run
MCNext == Next /\ UNCHANGED instance /\ Within'
MCSpec == MCInit /\ [][MCNext]_<<vars, instance>>

\* What may be exchanged in every instance.
Symmetry == Permutations({w1, w2}) \cup Permutations({cam1, cam2}) \cup
            Permutations({y1, uv1}) \cup Permutations({s1, s2})

MCFairSpec == MCSpec /\ Fairness

-----------------------------------------------------------------------------
(* Properties of instances where only the service thread broadcasts *)

Alone == Instances[instance].writers = {}

\* No waiter is left behind for a client that has gone (see NoOrphans).
NoOrphansAlone == Alone => NoOrphans

\* The completion block of every -writeDatas runs (see DataCompletes).
DataCompletesAlone ==
    \A j \in DataJobs : Alone /\ phase[j] = "waiting" ~> phase[j] = "free"
=============================================================================
