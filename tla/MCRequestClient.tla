----------------------------- MODULE MCRequestClient -----------------------------
(***************************************************************************)
(* Two instances of RequestClient for TLC, one of which is chosen in the   *)
(* initial state: a page that is alone, and two pages with a request each. *)
(***************************************************************************)
EXTENDS RequestClient

CONSTANT p0     \* the page that is alone

VARIABLE instance

Within ==
    \A p \in Pages :
        CASE instance = "alone" -> p # p0 => webSocket[p] = "unloaded"
          [] instance = "two"   -> made[p] \in {<<>>} \cup
                                    {<<r>> : r \in Requests \ (Unhandled \cup ClearRequests)}

MCInit == Init /\ instance \in {"alone", "two"}
MCNext == Next /\ UNCHANGED instance /\ Within'
MCSpec == MCInit /\ [][MCNext]_<<vars, instance>>

MCFairSpec == MCSpec /\ Fairness
=============================================================================
