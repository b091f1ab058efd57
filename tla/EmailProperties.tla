-------------------------- MODULE EmailProperties --------------------------
(***************************************************************************)
(* What the e-mail queue must keep true although mails are lost and their  *)
(* answers too, processes die, and locks are lost while a handler runs.    *)
(***************************************************************************)
EXTENDS EmailQueue

(* Every variable stays in its type: no job is ever attempted more often   *)
(* than queue.config.ts allows.                                            *)
TypeOK ==
    /\ state \in [Jobs -> JobStates]
    /\ wait \in Seq(Jobs)
    /\ lock \in [Jobs -> Workers \cup {None}]
    /\ attempts \in [Jobs -> 0..Attempts]
    /\ stalls \in [Jobs -> 0..MaxStalled + 1]
    /\ worker \in [Workers -> [pc : WorkerStates, job : Jobs \cup {None}]]
    /\ sent \in [Jobs -> Nat]

(* A job counts as completed only when Resend has accepted its mail: the   *)
(* handlers turn the error the SDK returns into a failed attempt.          *)
CompletedWasSent == \A j \in Jobs : state[j] = "completed" => sent[j] > 0

(* Copies of a mail: one per run of its handler at most, and a run is      *)
(* accounted for by a failed attempt, by a stall, or by the one outcome    *)
(* that counts.                                                            *)
CopiesAccountedFor ==
    \A j \in Jobs :
        sent[j] <= attempts[j] + stalls[j]
                     + (IF state[j] \in {"active", "completed"} THEN 1 ELSE 0)

(* A completed or failed job stays that: a worker that lost its lock and   *)
(* finishes late does not change the outcome.                              *)
OutcomeStands ==
    [][\A j \in Jobs : state[j] \in {"completed", "failed"}
                         => state'[j] = state[j]]_queueVars

(* The history of adds: order[j] is the number of jobs added before j.     *)
VARIABLE order
TrackOrder ==
    order' = [j \in Jobs |->
                IF state[j] = "absent" /\ state'[j] # "absent"
                THEN Cardinality({k \in Jobs : state[k] # "absent"})
                ELSE order[j]]
TrackedInit == Init /\ order = [j \in Jobs |-> 0]
TrackedNext == Next /\ TrackOrder
TrackedSpec == TrackedInit /\ [][TrackedNext]_<<queueVars, order>>
                           /\ QueueFairness

(* A mail reaches Resend before an earlier one only when the earlier one   *)
(* is in a worker's hands, has failed an attempt, or has stalled: of two   *)
(* codes for one address the older arrives last only after such trouble.   *)
OvertakenOnlyInTrouble ==
    [][\A j, k \in Jobs :
         /\ state[j] # "absent" /\ state[k] # "absent" /\ order[j] < order[k]
         /\ sent[j] = 0 /\ sent[k] = 0 /\ sent'[k] > 0
         => attempts[j] > 0 \/ stalls[j] > 0 \/ state[j] = "active"]_<<queueVars, order>>

(* Every job added is completed or kept as failed in the end, whatever     *)
(* crashes and stalls it meets.                                            *)
EveryJobSettles ==
    \A j \in Jobs : state[j] = "waiting" ~> state[j] \in {"completed", "failed"}

============================================================================
