------------------------------- MODULE Broadcast -------------------------------
(***************************************************************************)
(* What -writeDatas:withCompletionBlock: of WebSockerServer.m promises to  *)
(* its caller.  A broadcast owes its data to the clients it has visited so *)
(* far.  Owed data is settled, by being sent or by being cancelled, in any *)
(* order and several at a time.  The completion block runs once, after the *)
(* last client was visited and when nothing is owed any more.              *)
(***************************************************************************)
CONSTANTS Job, Client

VARIABLES stage,  \* of each broadcast
          owed    \* clients each broadcast still owes its data to

vars == <<stage, owed>>

TypeOK == /\ stage \in [Job -> {"idle", "visiting", "visited"}]
          /\ owed \in [Job -> SUBSET Client]

Init == /\ stage = [j \in Job |-> "idle"]
        /\ owed = [j \in Job |-> {}]

Begin(j) == /\ stage[j] = "idle" /\ owed[j] = {}
            /\ stage' = [stage EXCEPT ![j] = "visiting"]
            /\ UNCHANGED owed

Owe(j, c) == /\ stage[j] = "visiting" /\ c \notin owed[j]
             /\ owed' = [owed EXCEPT ![j] = @ \cup {c}]
             /\ UNCHANGED stage

End(j) == /\ stage[j] = "visiting"
          /\ stage' = [stage EXCEPT ![j] = "visited"]
          /\ UNCHANGED owed

Settle == /\ \A j \in Job : owed'[j] \subseteq owed[j]
          /\ owed' \in [Job -> SUBSET Client]
          /\ UNCHANGED stage

\* The completion block.
Complete(j) == /\ stage[j] = "visited" /\ owed[j] = {}
               /\ stage' = [stage EXCEPT ![j] = "idle"]
               /\ UNCHANGED owed

Next == \/ Settle
        \/ \E j \in Job : Begin(j) \/ End(j) \/ Complete(j)
                          \/ \E c \in Client : Owe(j, c)

Spec == Init /\ [][Next]_vars
=============================================================================
