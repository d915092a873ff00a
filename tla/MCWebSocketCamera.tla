--------------------------- MODULE MCWebSocketCamera ---------------------------
(***************************************************************************)
(* Two instances of WebSocketCamera for TLC, one of which is chosen in the *)
(* initial state: one with two names of frames and one frame in flight at  *)
(* a time, and one with two frames in flight that have the same name.      *)
(***************************************************************************)
EXTENDS WebSocketCamera, TLC

CONSTANTS
    g, f1, f2,      \* elements of Frames
    s0, s1, s2      \* of Sends

VARIABLE instance

Instances == [
    frames    |-> [frames |-> {f1, f2}, sends |-> {s0}],
    in_flight |-> [frames |-> {g},      sends |-> {s1, s2}]]

\* What is not of the instance is never in use.
Within ==
    \A t \in Threads :
        /\ shot[t] \in Instances[instance].frames \cup {None}
        /\ slot[t] \in Instances[instance].sends \cup {None}

MCInit == Init /\ instance \in DOMAIN Instances
MCNext == Next /\ UNCHANGED instance /\ Within'
MCSpec == MCInit /\ [][MCNext]_<<vars, instance>>

\* What may be exchanged in both instances.
Symmetry == Permutations(Pages) \cup Permutations(Captures) \cup
            Permutations({f1, f2}) \cup Permutations({s1, s2})
=============================================================================
