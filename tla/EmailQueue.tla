----------------------------- MODULE EmailQueue -----------------------------
(***************************************************************************)
(* The e-mail queue: EmailService adds a job, EmailProcessor takes it,     *)
(* renders its template and hands the mail to Resend.  BullMQ, which is    *)
(* not part of the repository, is modelled from how it is configured and   *)
(* used: a first-in-first-out list, a lock per active job that a stalled   *)
(* worker loses, attempts with backoff.  A worker is one process of the    *)
(* application; each handles one job at a time (BullMQ's default).         *)
(***************************************************************************)
EXTENDS Naturals, Sequences, FiniteSets

CONSTANTS
    Jobs,        \* jobs that may be queued; j.kind is the name of job j
    Workers,     \* processes that run EmailProcessor
    Attempts,    \* attempts per job (3 in the code)
    MaxStalled,  \* stalls per job before it fails (1 in BullMQ)
    None         \* no job, no lock

Templated == {"welcome", "passwordReset", "verify", "passwordUpdate", "linkExpire"}
Kinds == Templated \cup {"contactUs"}

ASSUME KindAssumption == \A j \in Jobs : j.kind \in Kinds
ASSUME AttemptsAssumption == Attempts \in Nat \ {0} /\ MaxStalled \in Nat
ASSUME WorkersAssumption == IsFiniteSet(Workers)
ASSUME NoneAssumption == None \notin Jobs \cup Workers

VARIABLES
    state,      \* state[j]: where BullMQ keeps job j
    wait,       \* the waiting jobs, next one first
    lock,       \* lock[j]: the worker that holds the lock of job j
    attempts,   \* attemptsMade of each job
    stalls,     \* stalledCounter of each job
    worker,     \* worker[w]: what process w is doing, and with which job
    sent        \* sent[j]: mails Resend has accepted for job j

queueVars == <<state, wait, lock, attempts, stalls, worker, sent>>

JobStates == {"absent", "waiting", "active", "delayed", "completed", "failed"}
WorkerStates == {"idle", "handling", "resolved", "rejected", "dead"}

Free == [pc |-> "idle", job |-> None]
In(w, pc) == worker[w].pc = pc
JobOf(w) == worker[w].job
WorkerGoes(w, pc) == worker' = [worker EXCEPT ![w].pc = pc]
Release(w) == worker' = [worker EXCEPT ![w] = Free]
Move(j, to) == state' = [state EXCEPT ![j] = to]

----------------------------------------------------------------------------
(* The producer: EmailService.send..., one add each *)

\* Slip: the job is added in front of the others (lifo).
QueuedFirst(j) == <<j>> \o wait
Queued(j) == Append(wait, j)

Add(j) ==
    /\ state[j] = "absent"
    /\ Move(j, "waiting")
    /\ wait' = Queued(j)
    /\ UNCHANGED <<lock, attempts, stalls, worker, sent>>

----------------------------------------------------------------------------
(* The processor *)

Take(w) ==
    /\ In(w, "idle")
    /\ wait # <<>>
    /\ LET j == Head(wait)
       IN /\ Move(j, "active")
          /\ lock' = [lock EXCEPT ![j] = w]
          /\ worker' = [worker EXCEPT ![w] = [pc |-> "handling", job |-> j]]
    /\ wait' = Tail(wait)
    /\ UNCHANGED <<attempts, stalls, sent>>

(* Resend accepts the mail; it refuses it, or cannot be reached; or it     *)
(* accepts and its answer is lost.  The SDK does not throw but returns an  *)
(* error in the last two cases, and the handler throws it.                 *)
\* Slips: the error returned is not looked at; the handler sends again on
\* an error.
SendIgnoringErrors(w) ==
    /\ \/ sent' = [sent EXCEPT ![JobOf(w)] = @ + 1]
       \/ UNCHANGED sent
    /\ WorkerGoes(w, "resolved")
SendAgain(w) ==
    /\ \E copies \in 0..2 : sent' = [sent EXCEPT ![JobOf(w)] = @ + copies]
    /\ WorkerGoes(w, "resolved") \/ WorkerGoes(w, "rejected")
Send(w) ==
    \/ /\ sent' = [sent EXCEPT ![JobOf(w)] = @ + 1]
       /\ \/ WorkerGoes(w, "resolved")
          \/ WorkerGoes(w, "rejected")
    \/ /\ WorkerGoes(w, "rejected")
       /\ UNCHANGED sent

(* renderTemplate reads the file when the cache has not got it, compiles   *)
(* and expands it; each of these may throw.                                *)
RenderFails(w) == WorkerGoes(w, "rejected") /\ UNCHANGED sent

(* The handlers of the five kinds of mail with a template.                 *)
HandleTemplated(w) ==
    /\ In(w, "handling")
    /\ JobOf(w).kind \in Templated
    /\ RenderFails(w) \/ Send(w)
    /\ UNCHANGED <<state, wait, lock, attempts, stalls>>

(* The mail to the support inbox has no template.                          *)
\* Slip: the promise of the handler is never settled.
HandleContactUsHangs(w) == In(w, "handling") /\ FALSE /\ UNCHANGED queueVars
HandleContactUs(w) ==
    /\ In(w, "handling")
    /\ JobOf(w).kind = "contactUs"
    /\ Send(w)
    /\ UNCHANGED <<state, wait, lock, attempts, stalls>>

----------------------------------------------------------------------------
(* BullMQ: what becomes of a job whose handler has settled.  A worker that *)
(* has lost the lock can neither complete nor fail the job.                *)

\* Slip: the lock is not asked for.
HoldsLockAlways(w) == TRUE
HoldsLock(w) == lock[JobOf(w)] = w

Complete(w) ==
    /\ In(w, "resolved")
    /\ IF HoldsLock(w)
       THEN /\ Move(JobOf(w), "completed")
            /\ lock' = [lock EXCEPT ![JobOf(w)] = None]
       ELSE UNCHANGED <<state, lock>>
    /\ Release(w)
    /\ UNCHANGED <<wait, attempts, stalls, sent>>

\* Slip: one attempt too many.
AttemptsLeftLate(n) == n <= Attempts
AttemptsLeft(n) == n < Attempts

(* A failed attempt: the job waits for its backoff, or stays failed        *)
(* (removeOnFail: false).                                                  *)
Retry(w) ==
    /\ In(w, "rejected")
    /\ IF HoldsLock(w)
       THEN /\ attempts' = [attempts EXCEPT ![JobOf(w)] = @ + 1]
            /\ Move(JobOf(w), IF AttemptsLeft(attempts[JobOf(w)] + 1)
                              THEN "delayed" ELSE "failed")
            /\ lock' = [lock EXCEPT ![JobOf(w)] = None]
       ELSE UNCHANGED <<state, lock, attempts>>
    /\ Release(w)
    /\ UNCHANGED <<wait, stalls, sent>>

(* The backoff of a job is over: it goes to the end of the list.           *)
Promote(j) ==
    /\ state[j] = "delayed"
    /\ Move(j, "waiting")
    /\ wait' = Queued(j)
    /\ UNCHANGED <<lock, attempts, stalls, worker, sent>>

(* The lock of an active job has not been renewed in time: its process is  *)
(* dead or its event loop was blocked.  The job is next in the list.       *)
Stall(j) ==
    /\ state[j] = "active"
    /\ stalls' = [stalls EXCEPT ![j] = @ + 1]
    /\ lock' = [lock EXCEPT ![j] = None]
    /\ IF stalls[j] < MaxStalled
       THEN Move(j, "waiting") /\ wait' = <<j>> \o wait
       ELSE Move(j, "failed") /\ UNCHANGED wait
    /\ UNCHANGED <<attempts, worker, sent>>

(* The process dies with a job in hand, and is started again.              *)
Crash(w) ==
    /\ worker[w].pc \in {"handling", "resolved", "rejected"}
    /\ worker' = [worker EXCEPT ![w] = [pc |-> "dead", job |-> None]]
    /\ UNCHANGED <<state, wait, lock, attempts, stalls, sent>>

Restart(w) ==
    /\ In(w, "dead")
    /\ Release(w)
    /\ UNCHANGED <<state, wait, lock, attempts, stalls, sent>>

----------------------------------------------------------------------------
QueueInit ==
    /\ state = [j \in Jobs |-> "absent"]
    /\ wait = <<>>
    /\ lock = [j \in Jobs |-> None]
    /\ attempts = [j \in Jobs |-> 0]
    /\ stalls = [j \in Jobs |-> 0]
    /\ worker = [w \in Workers |-> Free]
    /\ sent = [j \in Jobs |-> 0]

Work(w) ==
    \/ Take(w) \/ HandleTemplated(w) \/ HandleContactUs(w)
    \/ Complete(w) \/ Retry(w) \/ Restart(w)

(* No process is at work on an active job.                                 *)
Abandoned(j) == \A w \in Workers : JobOf(w) # j

Deliver == \/ \E w \in Workers : Work(w) \/ Crash(w)
           \/ \E j \in Jobs : Promote(j) \/ Stall(j)

Init == QueueInit
Next == (\E j \in Jobs : Add(j)) \/ Deliver
Spec == Init /\ [][Next]_queueVars

(* A living process goes on, a dead one is restarted, a backoff ends, and  *)
(* the stalled check of BullMQ finds a job nobody works on.                *)
QueueFairness ==
    /\ \A w \in Workers : WF_queueVars(Work(w))
    /\ \A j \in Jobs : /\ WF_queueVars(Promote(j))
                       /\ WF_queueVars(Stall(j) /\ Abandoned(j))

FairSpec == Spec /\ QueueFairness

============================================================================
