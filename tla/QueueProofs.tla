----------------------------- MODULE QueueProofs -----------------------------
(***************************************************************************)
(* Invariants of the e-mail queue for every set of jobs and workers and    *)
(* every number of attempts and stalls.                                    *)
(***************************************************************************)
EXTENDS EmailProperties, FiniteSetTheorems, TLAPS

USE KindAssumption, AttemptsAssumption, WorkersAssumption, NoneAssumption

Busy == {"handling", "resolved", "rejected"}
Open == {"absent", "waiting", "active", "delayed"}

(* A busy worker has a job, and a job that may still run has attempts and  *)
(* stalls left.                                                            *)
WorkersBusy == \A w \in Workers : worker[w].pc \in Busy => worker[w].job \in Jobs
Limited == \A j \in Jobs : state[j] \in Open => /\ attempts[j] < Attempts
                                                /\ stalls[j] <= MaxStalled

(* The active jobs are those with a lock.                                  *)
Locked == \A j \in Jobs : state[j] = "active" <=> lock[j] # None

(* The list has each job once, and only waiting ones.                      *)
Listed == /\ \A i \in 1..Len(wait) : state[wait[i]] = "waiting"
          /\ \A i, k \in 1..Len(wait) : wait[i] = wait[k] => i = k

(* A handler that has resolved has sent its mail.                          *)
Delivered == \A w \in Workers : worker[w].pc = "resolved" => sent[worker[w].job] > 0

(* Every run of a handler is in progress or accounted for.                 *)
Handling(j) == {w \in Workers : worker[w].pc = "handling" /\ worker[w].job = j}
Runs(j) == attempts[j] + stalls[j]
             + (IF state[j] \in {"active", "completed"} THEN 1 ELSE 0)
Accounted == \A j \in Jobs : sent[j] + Cardinality(Handling(j)) <= Runs(j)

Typed == TypeOK /\ WorkersBusy /\ Limited /\ Locked /\ Listed
Counted == CompletedWasSent /\ Delivered /\ Accounted

----------------------------------------------------------------------------
(* Types *)

LEMMA InitTyped == QueueInit => Typed
  <1> SUFFICES ASSUME QueueInit PROVE Typed
    OBVIOUS
  <1>1. state \in [Jobs -> JobStates] /\ wait \in Seq(Jobs)
    BY DEF QueueInit, JobStates
  <1>2. /\ lock \in [Jobs -> Workers \cup {None}]
        /\ attempts \in [Jobs -> 0..Attempts]
        /\ stalls \in [Jobs -> 0..MaxStalled + 1]
        /\ sent \in [Jobs -> Nat]
    BY DEF QueueInit
  <1>3. worker \in [Workers -> [pc : WorkerStates, job : Jobs \cup {None}]]
    BY DEF QueueInit, Free, WorkerStates
  <1>4. WorkersBusy
    BY DEF QueueInit, WorkersBusy, Busy, Free
  <1>5. Limited /\ Locked
    BY DEF QueueInit, Limited, Locked
  <1>6. Listed
    BY DEF QueueInit, Listed
  <1> QED
    BY <1>1, <1>2, <1>3, <1>4, <1>5, <1>6 DEF Typed, TypeOK

(* A job that is not waiting may be listed last or first. *)
LEMMA AppendListed ==
    ASSUME Typed, NEW j \in Jobs, state[j] # "waiting",
           state' = [state EXCEPT ![j] = "waiting"], wait' = Append(wait, j)
    PROVE  wait' \in Seq(Jobs) /\ Listed'
  <1>0. wait \in Seq(Jobs) /\ state \in [Jobs -> JobStates]
    BY DEF Typed, TypeOK
  <1>1. /\ wait' \in Seq(Jobs) /\ Len(wait') = Len(wait) + 1
        /\ \A i \in 1..Len(wait) : wait'[i] = wait[i]
        /\ wait'[Len(wait) + 1] = j
    BY <1>0
  <1>2. \A i \in 1..Len(wait) : wait[i] \in Jobs /\ wait[i] # j
    BY <1>0 DEF Typed, Listed
  <1>3. \A i \in 1..Len(wait) : state'[wait[i]] = "waiting"
    BY <1>0, <1>2 DEF Typed, Listed
  <1> QED
    BY <1>0, <1>1, <1>2, <1>3 DEF Typed, Listed

LEMMA PrependListed ==
    ASSUME Typed, NEW j \in Jobs, state[j] # "waiting",
           state' = [state EXCEPT ![j] = "waiting"], wait' = <<j>> \o wait
    PROVE  wait' \in Seq(Jobs) /\ Listed'
  <1>0. wait \in Seq(Jobs) /\ state \in [Jobs -> JobStates]
    BY DEF Typed, TypeOK
  <1>1. /\ wait' \in Seq(Jobs) /\ Len(wait') = Len(wait) + 1
        /\ wait'[1] = j
        /\ \A i \in 2..Len(wait) + 1 : wait'[i] = wait[i - 1]
    BY <1>0
  <1>2. \A i \in 1..Len(wait) : wait[i] \in Jobs /\ wait[i] # j
    BY <1>0 DEF Typed, Listed
  <1>3. \A i \in 1..Len(wait) : state'[wait[i]] = "waiting"
    BY <1>0, <1>2 DEF Typed, Listed
  <1>4. \A i \in 2..Len(wait) + 1 : i - 1 \in 1..Len(wait)
    BY <1>0
  <1> QED
    BY <1>0, <1>1, <1>2, <1>3, <1>4 DEF Typed, Listed

(* A step that changes no waiting job and not the list. *)
LEMMA ListKept ==
    ASSUME Typed, UNCHANGED wait,
           \A j \in Jobs : state[j] = "waiting" => state'[j] = "waiting"
    PROVE  Listed'
  <1>1. \A i \in 1..Len(wait) : wait[i] \in Jobs
    BY DEF Typed, TypeOK
  <1> QED
    BY <1>1 DEF Typed, Listed

WorkerCell == [pc : WorkerStates, job : Jobs \cup {None}]

TypedParts ==
    /\ state \in [Jobs -> JobStates] /\ wait \in Seq(Jobs)
    /\ lock \in [Jobs -> Workers \cup {None}]
    /\ attempts \in [Jobs -> 0..Attempts]
    /\ stalls \in [Jobs -> 0..MaxStalled + 1]
    /\ worker \in [Workers -> WorkerCell]
    /\ sent \in [Jobs -> Nat]

LEMMA Parts == Typed => TypedParts
  BY DEF Typed, TypeOK, TypedParts, WorkerCell

LEMMA PartsNext ==
    ASSUME TypedParts', WorkersBusy', Limited', Locked', Listed'
    PROVE  Typed'
  BY DEF Typed, TypeOK, TypedParts, WorkerCell

(* What a worker may turn into keeps the workers typed. *)
LEMMA WorkerMoves ==
    ASSUME Typed, NEW w \in Workers, NEW cell \in WorkerCell,
           cell.pc \in Busy => cell.job \in Jobs,
           worker' = [worker EXCEPT ![w] = cell]
    PROVE  worker' \in [Workers -> WorkerCell] /\ WorkersBusy'
  BY Parts DEF TypedParts, Typed, WorkersBusy

LEMMA WorkerReleased ==
    ASSUME Typed, NEW w \in Workers, Release(w)
    PROVE  worker' \in [Workers -> WorkerCell] /\ WorkersBusy'
  <1>1. Free \in WorkerCell /\ Free.pc \notin Busy
    BY DEF Free, WorkerCell, WorkerStates, Busy
  <1> QED
    BY <1>1, WorkerMoves DEF Release

LEMMA WorkerGoesOn ==
    ASSUME Typed, NEW w \in Workers, worker[w].pc \in Busy,
           NEW pc \in {"resolved", "rejected"}, WorkerGoes(w, pc)
    PROVE  /\ worker' \in [Workers -> WorkerCell] /\ WorkersBusy'
           /\ worker'[w] = [pc |-> pc, job |-> worker[w].job]
  <1> DEFINE cell == [pc |-> pc, job |-> worker[w].job]
  <1>1. worker[w] \in WorkerCell /\ worker[w].job \in Jobs
    BY Parts DEF TypedParts, Typed, WorkersBusy
  <1>2. cell \in WorkerCell /\ cell.job \in Jobs
    BY <1>1 DEF WorkerCell, WorkerStates
  <1>3. worker' = [worker EXCEPT ![w] = cell]
    <2>1. [worker[w] EXCEPT !.pc = pc] = cell
      BY <1>1 DEF WorkerCell
    <2>2. worker' = [worker EXCEPT ![w] = [worker[w] EXCEPT !.pc = pc]]
      BY DEF WorkerGoes
    <2> QED
      BY <2>1, <2>2
  <1>4. worker'[w] = cell
    BY <1>3, Parts DEF TypedParts
  <1> QED
    BY <1>2, <1>3, <1>4, WorkerMoves

(* The job whose lock a worker holds is active. *)
LEMMA HeldIsActive ==
    ASSUME Typed, NEW w \in Workers, worker[w].pc \in Busy, HoldsLock(w)
    PROVE  JobOf(w) \in Jobs /\ state[JobOf(w)] = "active"
  BY DEF Typed, WorkersBusy, Locked, HoldsLock, JobOf

LEMMA AddTyped ==
    ASSUME Typed, NEW j \in Jobs, Add(j) \/ Promote(j)
    PROVE  Typed'
  <1>1. TypedParts
    BY Parts
  <1>2. state' = [state EXCEPT ![j] = "waiting"] /\ wait' = Append(wait, j)
    BY DEF Add, Promote, Move, Queued
  <1>3. UNCHANGED <<lock, attempts, stalls, worker, sent>>
    BY DEF Add, Promote
  <1>4. state[j] \in {"absent", "delayed"}
    BY DEF Add, Promote
  <1>5. wait' \in Seq(Jobs) /\ Listed'
    BY <1>2, <1>4, AppendListed
  <1>6. TypedParts'
    BY <1>1, <1>2, <1>3, <1>5 DEF TypedParts, JobStates
  <1>7. Limited' /\ Locked' /\ WorkersBusy'
    BY <1>1, <1>2, <1>3, <1>4
       DEF Typed, TypedParts, Limited, Locked, WorkersBusy, Open
  <1> QED
    BY <1>5, <1>6, <1>7, PartsNext

LEMMA TakeTyped ==
    ASSUME Typed, NEW w \in Workers, Take(w)
    PROVE  /\ Typed'
           /\ \E j \in Jobs :
                /\ state[j] = "waiting"
                /\ state' = [state EXCEPT ![j] = "active"]
                /\ worker' = [worker EXCEPT ![w] = [pc |-> "handling", job |-> j]]
  <1>1. TypedParts /\ wait # <<>>
    BY Parts DEF Take
  <1>2. PICK j \in Jobs : j = Head(wait) /\ j = wait[1] /\ 1 \in 1..Len(wait)
    BY <1>1 DEF TypedParts
  <1>3. state[j] = "waiting"
    BY <1>2 DEF Typed, Listed
  <1>4. /\ state' = [state EXCEPT ![j] = "active"]
        /\ lock' = [lock EXCEPT ![j] = w]
        /\ worker' = [worker EXCEPT ![w] = [pc |-> "handling", job |-> j]]
        /\ wait' = Tail(wait) /\ UNCHANGED <<attempts, stalls, sent>>
    BY <1>2 DEF Take, Move
  <1>5. /\ wait' \in Seq(Jobs) /\ Len(wait') = Len(wait) - 1
        /\ \A i \in 1..Len(wait') : wait'[i] = wait[i + 1] /\ i + 1 \in 1..Len(wait)
    BY <1>1, <1>4 DEF TypedParts
  <1>6. Listed'
    <2>1. ASSUME NEW i \in 1..Len(wait')
          PROVE  /\ wait'[i] = wait[i + 1] /\ i + 1 \in 1..Len(wait)
                 /\ wait[i + 1] \in Jobs /\ wait[i + 1] # j
                 /\ state[wait[i + 1]] = "waiting"
      <3>1. wait'[i] = wait[i + 1] /\ i + 1 \in 1..Len(wait) /\ i + 1 # 1
        <4>1. i \in Nat /\ i # 0
          BY <1>5
        <4> QED
          BY <1>5, <4>1
      <3>2. wait[i + 1] \in Jobs
        BY <1>1, <3>1 DEF TypedParts
      <3>3. wait[i + 1] # j /\ state[wait[i + 1]] = "waiting"
        BY <1>2, <3>1 DEF Typed, Listed
      <3> QED
        BY <3>1, <3>2, <3>3
    <2>2. \A i \in 1..Len(wait') : state'[wait'[i]] = "waiting"
      BY <1>1, <1>4, <2>1 DEF TypedParts
    <2>3. ASSUME NEW i \in 1..Len(wait'), NEW k \in 1..Len(wait'),
                 wait'[i] = wait'[k]
          PROVE  i = k
      <3>1. i + 1 = k + 1
        BY <2>1, <2>3 DEF Typed, Listed
      <3> QED
        BY <3>1
    <2> QED
      BY <2>2, <2>3 DEF Listed
  <1>7. worker' \in [Workers -> WorkerCell] /\ WorkersBusy'
    <2>1. [pc |-> "handling", job |-> j] \in WorkerCell
      BY DEF WorkerCell, WorkerStates
    <2> QED
      BY <1>4, <2>1, WorkerMoves
  <1>8. TypedParts'
    BY <1>1, <1>4, <1>5, <1>7 DEF TypedParts, JobStates
  <1>9. Limited' /\ Locked'
    BY <1>1, <1>3, <1>4 DEF Typed, TypedParts, Limited, Locked, Open
  <1> QED
    BY <1>3, <1>4, <1>6, <1>7, <1>8, <1>9, PartsNext

Handle(w) == HandleTemplated(w) \/ HandleContactUs(w)

(* What a handler does: it settles, having sent a mail or not; one that    *)
(* resolves has sent it.                                                   *)
LEMMA HandleEffect ==
    ASSUME Typed, NEW w \in Workers, Handle(w)
    PROVE  /\ worker[w].pc = "handling" /\ worker[w].job \in Jobs
           /\ UNCHANGED <<state, wait, lock, attempts, stalls>>
           /\ \E pc \in {"resolved", "rejected"} :
                /\ WorkerGoes(w, pc)
                /\ \/ sent' = [sent EXCEPT ![worker[w].job] = @ + 1]
                   \/ sent' = sent /\ pc = "rejected"
  <1>1. worker[w].pc = "handling" /\ worker[w].job \in Jobs
    BY DEF Handle, HandleTemplated, HandleContactUs, In, Typed, WorkersBusy, Busy
  <1> QED
    BY <1>1 DEF Handle, HandleTemplated, HandleContactUs, RenderFails, Send, JobOf

LEMMA HandleTyped ==
    ASSUME Typed, NEW w \in Workers, Handle(w)
    PROVE  Typed'
  <1>1. TypedParts
    BY Parts
  <1>2. PICK pc \in {"resolved", "rejected"} :
          /\ WorkerGoes(w, pc)
          /\ \/ sent' = [sent EXCEPT ![worker[w].job] = @ + 1]
             \/ sent' = sent
    BY HandleEffect
  <1>3. worker' \in [Workers -> WorkerCell] /\ WorkersBusy'
    BY <1>2, HandleEffect, WorkerGoesOn DEF Busy
  <1>4. UNCHANGED <<state, wait, lock, attempts, stalls>>
    BY HandleEffect
  <1>5. sent' \in [Jobs -> Nat]
    <2>1. PICK j \in Jobs : j = worker[w].job
      BY HandleEffect
    <2>2. sent' = [sent EXCEPT ![j] = sent[j] + 1] \/ sent' = sent
      BY <1>2, <2>1
    <2>3. sent \in [Jobs -> Nat] /\ sent[j] + 1 \in Nat
      BY <1>1 DEF TypedParts
    <2> QED
      BY <2>2, <2>3
  <1>6. TypedParts' /\ Limited' /\ Locked' /\ Listed'
    BY <1>1, <1>3, <1>4, <1>5 DEF Typed, TypedParts, Limited, Locked, Listed
  <1> QED
    BY <1>3, <1>6, PartsNext

LEMMA CompleteTyped ==
    ASSUME Typed, NEW w \in Workers, Complete(w)
    PROVE  Typed'
  <1>1. TypedParts /\ worker[w].pc \in Busy
    BY Parts DEF Complete, In, Busy
  <1>2. worker' \in [Workers -> WorkerCell] /\ WorkersBusy'
    BY WorkerReleased DEF Complete
  <1>3. UNCHANGED <<wait, attempts, stalls, sent>>
    BY DEF Complete
  <1>4. CASE ~HoldsLock(w)
    <2>1. UNCHANGED <<state, lock>>
      BY <1>4 DEF Complete
    <2>2. TypedParts' /\ Limited' /\ Locked' /\ Listed'
      BY <1>1, <1>2, <1>3, <2>1 DEF Typed, TypedParts, Limited, Locked, Listed
    <2> QED
      BY <1>2, <2>2, PartsNext
  <1>5. CASE HoldsLock(w)
    <2>1. PICK j \in Jobs : j = JobOf(w) /\ state[j] = "active"
      BY <1>1, <1>5, HeldIsActive
    <2>2. /\ state' = [state EXCEPT ![j] = "completed"]
          /\ lock' = [lock EXCEPT ![j] = None]
      BY <1>5, <2>1 DEF Complete, Move
    <2>3. Listed'
      BY <1>1, <1>3, <2>1, <2>2, ListKept DEF TypedParts
    <2>4. TypedParts' /\ Limited' /\ Locked'
      BY <1>1, <1>2, <1>3, <2>1, <2>2
         DEF Typed, TypedParts, Limited, Locked, Open, JobStates
    <2> QED
      BY <1>2, <2>3, <2>4, PartsNext
  <1> QED
    BY <1>4, <1>5

LEMMA RetryTyped ==
    ASSUME Typed, NEW w \in Workers, Retry(w)
    PROVE  Typed'
  <1>1. TypedParts /\ worker[w].pc \in Busy
    BY Parts DEF Retry, In, Busy
  <1>2. worker' \in [Workers -> WorkerCell] /\ WorkersBusy'
    BY WorkerReleased DEF Retry
  <1>3. UNCHANGED <<wait, stalls, sent>>
    BY DEF Retry
  <1>4. CASE ~HoldsLock(w)
    <2>1. UNCHANGED <<state, lock, attempts>>
      BY <1>4 DEF Retry
    <2>2. TypedParts' /\ Limited' /\ Locked' /\ Listed'
      BY <1>1, <1>2, <1>3, <2>1 DEF Typed, TypedParts, Limited, Locked, Listed
    <2> QED
      BY <1>2, <2>2, PartsNext
  <1>5. CASE HoldsLock(w)
    <2>1. PICK j \in Jobs : j = JobOf(w) /\ state[j] = "active"
      BY <1>1, <1>5, HeldIsActive
    <2>2. PICK to \in {"delayed", "failed"} :
            /\ state' = [state EXCEPT ![j] = to]
            /\ to = "delayed" => attempts[j] + 1 < Attempts
      BY <1>5, <2>1 DEF Retry, Move, AttemptsLeft
    <2>3. /\ attempts' = [attempts EXCEPT ![j] = attempts[j] + 1]
          /\ lock' = [lock EXCEPT ![j] = None]
      BY <1>5, <2>1 DEF Retry
    <2>4. Listed'
      BY <1>1, <1>3, <2>1, <2>2, ListKept DEF TypedParts
    <2>5. attempts[j] < Attempts /\ stalls[j] <= MaxStalled
      BY <2>1 DEF Typed, Limited, Open
    <2>6. TypedParts'
      BY <1>1, <1>2, <1>3, <2>2, <2>3, <2>5 DEF TypedParts, JobStates
    <2>7. Limited'
      BY <1>1, <1>3, <2>2, <2>3, <2>5 DEF Typed, TypedParts, Limited, Open
    <2>8. Locked'
      BY <1>1, <2>1, <2>2, <2>3 DEF Typed, TypedParts, Locked
    <2> QED
      BY <1>2, <2>4, <2>6, <2>7, <2>8, PartsNext
  <1> QED
    BY <1>4, <1>5

LEMMA StallTyped ==
    ASSUME Typed, NEW j \in Jobs, Stall(j)
    PROVE  Typed'
  <1>1. TypedParts /\ state[j] = "active"
    BY Parts DEF Stall
  <1>2. /\ stalls' = [stalls EXCEPT ![j] = stalls[j] + 1]
        /\ lock' = [lock EXCEPT ![j] = None]
        /\ UNCHANGED <<attempts, worker, sent>>
    BY DEF Stall
  <1>3. stalls[j] <= MaxStalled /\ attempts[j] < Attempts
    BY <1>1 DEF Typed, Limited, Open
  <1>4. WorkersBusy'
    BY <1>2 DEF Typed, WorkersBusy
  <1>5. CASE stalls[j] < MaxStalled
    <2>1. state' = [state EXCEPT ![j] = "waiting"] /\ wait' = <<j>> \o wait
      BY <1>5 DEF Stall, Move
    <2>2. wait' \in Seq(Jobs) /\ Listed'
      BY <1>1, <2>1, PrependListed
    <2>3. TypedParts'
      BY SMTT(60), <1>1, <1>2, <1>3, <2>1, <2>2 DEF TypedParts, JobStates
    <2>4. Limited'
      BY <1>1, <1>2, <1>3, <1>5, <2>1 DEF Typed, TypedParts, Limited, Open
    <2>5. Locked'
      BY <1>1, <1>2, <2>1 DEF Typed, TypedParts, Locked
    <2> QED
      BY <1>4, <2>2, <2>3, <2>4, <2>5, PartsNext
  <1>6. CASE ~(stalls[j] < MaxStalled)
    <2>1. state' = [state EXCEPT ![j] = "failed"] /\ UNCHANGED wait
      BY <1>6 DEF Stall, Move
    <2>2. Listed'
      BY <1>1, <2>1, ListKept DEF TypedParts
    <2>3. TypedParts'
      BY <1>1, <1>2, <1>3, <2>1 DEF TypedParts, JobStates
    <2>4. Limited'
      BY <1>1, <1>2, <1>3, <2>1 DEF Typed, TypedParts, Limited, Open
    <2>5. Locked'
      BY <1>1, <1>2, <2>1 DEF Typed, TypedParts, Locked
    <2> QED
      BY <1>4, <2>2, <2>3, <2>4, <2>5, PartsNext
  <1> QED
    BY <1>5, <1>6

LEMMA CrashTyped ==
    ASSUME Typed, NEW w \in Workers, Crash(w) \/ Restart(w)
    PROVE  Typed'
  <1>1. TypedParts
    BY Parts
  <1>2. UNCHANGED <<state, wait, lock, attempts, stalls, sent>>
    BY DEF Crash, Restart
  <1>3. worker' \in [Workers -> WorkerCell] /\ WorkersBusy'
    <2>1. CASE Restart(w)
      BY <2>1, WorkerReleased DEF Restart
    <2>2. CASE Crash(w)
      <3>1. [pc |-> "dead", job |-> None] \in WorkerCell /\ "dead" \notin Busy
        BY DEF WorkerCell, WorkerStates, Busy
      <3> QED
        BY <2>2, <3>1, WorkerMoves DEF Crash
    <2> QED
      BY <2>1, <2>2
  <1>4. TypedParts' /\ Limited' /\ Locked' /\ Listed'
    BY <1>1, <1>2, <1>3 DEF Typed, TypedParts, Limited, Locked, Listed
  <1> QED
    BY <1>3, <1>4, PartsNext

LEMMA StepTyped == Typed /\ [Next]_queueVars => Typed'
  <1> SUFFICES ASSUME Typed, [Next]_queueVars PROVE Typed'
    OBVIOUS
  <1>1. CASE UNCHANGED queueVars
    BY <1>1 DEF queueVars, Typed, TypeOK, WorkersBusy, Limited, Locked, Listed
  <1> QED
    BY <1>1, AddTyped, TakeTyped, HandleTyped, CompleteTyped, RetryTyped,
       StallTyped, CrashTyped DEF Next, Deliver, Work, Handle

(* Every reachable state of the queue is well typed; in particular no job  *)
(* is attempted more often than configured, nor stalls more than once      *)
(* beyond what BullMQ forgives.                                            *)
THEOREM QueueTyped == Spec => []TypeOK
  <1>1. Typed => TypeOK
    BY DEF Typed
  <1> QED
    BY <1>1, InitTyped, StepTyped, PTL DEF Spec, Init

----------------------------------------------------------------------------
(* Counting copies *)

LEMMA HandlingFinite ==
    ASSUME NEW j
    PROVE  /\ IsFiniteSet(Handling(j)) /\ Cardinality(Handling(j)) \in Nat
           /\ IsFiniteSet(Handling(j))' /\ Cardinality(Handling(j))' \in Nat
  <1>1. Handling(j) \in SUBSET Workers /\ Handling(j)' \in SUBSET Workers
    BY DEF Handling
  <1>2. IsFiniteSet(Handling(j)) /\ IsFiniteSet(Handling(j)')
    BY <1>1, FS_Subset
  <1> QED
    BY <1>2, FS_CardinalityType

(* A worker that is not handling any more. *)
LEMMA HandlingLess ==
    ASSUME Typed, NEW w \in Workers, NEW cell, cell.pc # "handling",
           worker' = [worker EXCEPT ![w] = cell], NEW j
    PROVE  /\ Cardinality(Handling(j))' <= Cardinality(Handling(j))
           /\ w \in Handling(j) =>
                Cardinality(Handling(j))' = Cardinality(Handling(j)) - 1
  <1>1. worker \in [Workers -> WorkerCell]
    BY Parts DEF TypedParts
  <1>2. Handling(j)' = Handling(j) \ {w}
    BY <1>1 DEF Handling
  <1>3. Cardinality(Handling(j) \ {w}) =
          IF w \in Handling(j) THEN Cardinality(Handling(j)) - 1
                               ELSE Cardinality(Handling(j))
    BY HandlingFinite, FS_RemoveElement
  <1>4. Cardinality(Handling(j)) \in Nat
    BY HandlingFinite
  <1> QED
    BY <1>2, <1>3, <1>4

(* A worker that takes a job. *)
LEMMA HandlingMore ==
    ASSUME Typed, NEW w \in Workers, NEW k \in Jobs, worker[w].pc # "handling",
           worker' = [worker EXCEPT ![w] = [pc |-> "handling", job |-> k]], NEW j
    PROVE  Cardinality(Handling(j))' =
             IF j = k THEN Cardinality(Handling(j)) + 1 ELSE Cardinality(Handling(j))
  <1>1. worker \in [Workers -> WorkerCell]
    BY Parts DEF TypedParts
  <1>2. CASE j = k
    <2>1. Handling(j)' = Handling(j) \cup {w} /\ w \notin Handling(j)
      BY <1>1, <1>2 DEF Handling
    <2>2. Cardinality(Handling(j) \cup {w}) = Cardinality(Handling(j)) + 1
      BY <2>1, HandlingFinite, FS_AddElement
    <2> QED
      BY <1>2, <2>1, <2>2
  <1>3. CASE j # k
    <2>1. Handling(j)' = Handling(j)
      BY <1>1, <1>3 DEF Handling
    <2> QED
      BY <1>3, <2>1
  <1> QED
    BY <1>2, <1>3

LEMMA HandlingSame ==
    ASSUME UNCHANGED worker, NEW j
    PROVE  Cardinality(Handling(j))' <= Cardinality(Handling(j))
  <1>1. Handling(j)' = Handling(j)
    BY DEF Handling
  <1> QED
    BY <1>1, HandlingFinite

(* The step sends nothing and loses no run. *)
LEMMA AccountedKept ==
    ASSUME Typed, Typed', Accounted, UNCHANGED sent,
           \A j \in Jobs : Cardinality(Handling(j))' <= Cardinality(Handling(j)),
           \A j \in Jobs : Runs(j) <= Runs(j)'
    PROVE  Accounted'
  <1> SUFFICES ASSUME NEW j \in Jobs
               PROVE  sent'[j] + Cardinality(Handling(j))' <= Runs(j)'
    BY DEF Accounted
  <1>1. /\ sent[j] + Cardinality(Handling(j)) <= Runs(j) /\ sent'[j] = sent[j]
        /\ Cardinality(Handling(j))' <= Cardinality(Handling(j))
        /\ Runs(j) <= Runs(j)'
    BY DEF Accounted
  <1>2. sent[j] \in Nat /\ Runs(j) \in Int /\ Runs(j)' \in Int
    BY DEF Typed, TypeOK, Runs
  <1>3. Cardinality(Handling(j)) \in Nat /\ Cardinality(Handling(j))' \in Nat
    BY HandlingFinite
  <1> HIDE DEF Runs
  <1> QED
    BY <1>1, <1>2, <1>3

(* No job becomes completed and no mail is taken back. *)
LEMMA SentKept ==
    ASSUME Typed, Typed', CompletedWasSent,
           \A j \in Jobs : sent[j] <= sent'[j],
           \A j \in Jobs : state'[j] = "completed" => state[j] = "completed"
    PROVE  CompletedWasSent'
  <1> SUFFICES ASSUME NEW j \in Jobs, state'[j] = "completed" PROVE sent'[j] > 0
    BY DEF CompletedWasSent
  <1>1. sent[j] > 0 /\ sent[j] <= sent'[j]
    BY DEF CompletedWasSent
  <1>2. sent[j] \in Nat /\ sent'[j] \in Nat
    BY DEF Typed, TypeOK
  <1> QED
    BY <1>1, <1>2

LEMMA InitCounted == QueueInit => Counted
  <1> SUFFICES ASSUME QueueInit PROVE Counted
    OBVIOUS
  <1>1. CompletedWasSent /\ Delivered
    BY DEF QueueInit, CompletedWasSent, Delivered, Free
  <1>2. \A j \in Jobs : Handling(j) = {} /\ Runs(j) = 0 /\ sent[j] = 0
    BY DEF QueueInit, Handling, Free, Runs
  <1>3. Accounted
    BY <1>2, FS_EmptySet DEF Accounted
  <1> QED
    BY <1>1, <1>3 DEF Counted

(* A job that becomes waiting was not active. *)
LEMMA AddCounted ==
    ASSUME Typed, Counted, NEW j \in Jobs, Add(j) \/ Promote(j)
    PROVE  Counted'
  <1>1. TypedParts /\ Typed'
    BY Parts, AddTyped
  <1>2. /\ state' = [state EXCEPT ![j] = "waiting"]
        /\ UNCHANGED <<attempts, stalls, worker, sent>>
        /\ state[j] \in {"absent", "delayed"}
    BY DEF Add, Promote, Move
  <1>3. \A k \in Jobs : state'[k] \in {"active", "completed"} <=>
                        state[k] \in {"active", "completed"}
    BY <1>1, <1>2 DEF TypedParts
  <1>4. \A k \in Jobs : Runs(k) <= Runs(k)'
    <2>1. \A k \in Jobs : Runs(k)' = Runs(k) /\ Runs(k) \in Int
      BY <1>1, <1>2, <1>3 DEF Runs, TypedParts
    <2> HIDE DEF Runs
    <2> QED
      BY <2>1
  <1>5. Accounted'
    BY <1>1, <1>2, <1>4, HandlingSame, AccountedKept DEF Counted
  <1>6. CompletedWasSent'
    <2>1. \A k \in Jobs : state'[k] = "completed" => state[k] = "completed"
      BY <1>1, <1>2 DEF TypedParts
    <2>2. \A k \in Jobs : sent[k] <= sent'[k]
      BY <1>1, <1>2 DEF TypedParts
    <2> QED
      BY <1>1, <2>1, <2>2, SentKept DEF Counted
  <1>7. Delivered'
    BY <1>2 DEF Counted, Delivered
  <1> QED
    BY <1>5, <1>6, <1>7 DEF Counted

(* The run of the handler that begins is the active one. *)
LEMMA TakeCounted ==
    ASSUME Typed, Counted, NEW w \in Workers, Take(w)
    PROVE  Counted'
  <1>1. TypedParts /\ Typed'
    BY Parts, TakeTyped
  <1>2. PICK j \in Jobs :
          /\ state[j] = "waiting" /\ state' = [state EXCEPT ![j] = "active"]
          /\ worker' = [worker EXCEPT ![w] = [pc |-> "handling", job |-> j]]
    BY TakeTyped
  <1>3. UNCHANGED <<attempts, stalls, sent>> /\ worker[w].pc # "handling"
    BY DEF Take, In
  <1>4. Accounted'
    <2> SUFFICES ASSUME NEW k \in Jobs
                 PROVE  sent'[k] + Cardinality(Handling(k))' <= Runs(k)'
      BY DEF Accounted
    <2>1. Runs(k)' = (IF k = j THEN Runs(k) + 1 ELSE Runs(k)) /\ Runs(k) \in Int
      BY <1>1, <1>2, <1>3 DEF Runs, TypedParts
    <2>2. Cardinality(Handling(k))' =
            IF k = j THEN Cardinality(Handling(k)) + 1 ELSE Cardinality(Handling(k))
      BY <1>2, <1>3, HandlingMore
    <2>3. /\ sent[k] + Cardinality(Handling(k)) <= Runs(k) /\ sent'[k] = sent[k]
          /\ sent[k] \in Nat /\ Cardinality(Handling(k)) \in Nat
      BY <1>1, <1>3, HandlingFinite DEF Counted, Accounted, TypedParts
    <2> HIDE DEF Runs
    <2> QED
      BY <2>1, <2>2, <2>3
  <1>5. CompletedWasSent'
    <2>1. \A k \in Jobs : state'[k] = "completed" => state[k] = "completed"
      BY <1>1, <1>2 DEF TypedParts
    <2>2. \A k \in Jobs : sent[k] <= sent'[k]
      BY <1>1, <1>3 DEF TypedParts
    <2> QED
      BY <1>1, <2>1, <2>2, SentKept DEF Counted
  <1>6. Delivered'
    <2>1. \A v \in Workers : worker'[v].pc = "resolved" => worker'[v] = worker[v]
      BY <1>1, <1>2 DEF TypedParts
    <2> QED
      BY <1>3, <2>1 DEF Counted, Delivered
  <1> QED
    BY <1>4, <1>5, <1>6 DEF Counted

(* The run that ends may have sent one mail. *)
LEMMA HandleCounted ==
    ASSUME Typed, Counted, NEW w \in Workers, Handle(w)
    PROVE  Counted'
  <1>1. TypedParts /\ Typed'
    BY Parts, HandleTyped
  <1>2. PICK j \in Jobs, pc \in {"resolved", "rejected"} :
          /\ j = worker[w].job /\ worker[w].pc = "handling"
          /\ WorkerGoes(w, pc)
          /\ \/ sent' = [sent EXCEPT ![j] = sent[j] + 1]
             \/ sent' = sent /\ pc = "rejected"
    BY HandleEffect
  <1>3. UNCHANGED <<state, attempts, stalls>>
    BY HandleEffect
  <1>4. /\ worker' = [worker EXCEPT ![w] = [pc |-> pc, job |-> j]]
        /\ worker'[w] = [pc |-> pc, job |-> j]
    <2>1. worker[w] = [pc |-> worker[w].pc, job |-> j]
      BY <1>1, <1>2 DEF TypedParts, WorkerCell
    <2>2. [worker[w] EXCEPT !.pc = pc] = [pc |-> pc, job |-> j]
      BY <2>1
    <2>3. worker' = [worker EXCEPT ![w] = [worker[w] EXCEPT !.pc = pc]]
      BY <1>2 DEF WorkerGoes
    <2> QED
      BY <1>1, <2>2, <2>3 DEF TypedParts
  <1>5. \A k \in Jobs : /\ sent[k] \in Nat /\ sent'[k] \in Nat
                        /\ sent[k] <= sent'[k]
                        /\ sent'[k] <= IF k = j THEN sent[k] + 1 ELSE sent[k]
    BY <1>1, <1>2 DEF TypedParts
  <1>6. Accounted'
    <2> SUFFICES ASSUME NEW k \in Jobs
                 PROVE  sent'[k] + Cardinality(Handling(k))' <= Runs(k)'
      BY DEF Accounted
    <2>1. Runs(k)' = Runs(k) /\ Runs(k) \in Int
      BY <1>1, <1>3 DEF Runs, TypedParts
    <2>2. /\ Cardinality(Handling(k))' <= Cardinality(Handling(k))
          /\ k = j => Cardinality(Handling(k))' = Cardinality(Handling(k)) - 1
      <3>1. k = j => w \in Handling(k)
        BY <1>2 DEF Handling
      <3>2. [pc |-> pc, job |-> j].pc # "handling"
        OBVIOUS
      <3> QED
        BY <1>4, <3>1, <3>2, HandlingLess
    <2>3. /\ sent[k] + Cardinality(Handling(k)) <= Runs(k)
          /\ Cardinality(Handling(k)) \in Nat /\ Cardinality(Handling(k))' \in Nat
      BY HandlingFinite DEF Counted, Accounted
    <2> HIDE DEF Runs
    <2> QED
      BY <1>5, <2>1, <2>2, <2>3
  <1>7. CompletedWasSent'
    BY <1>1, <1>3, <1>5, SentKept DEF Counted
  <1>8. Delivered'
    <2> SUFFICES ASSUME NEW v \in Workers, worker'[v].pc = "resolved"
                 PROVE  sent'[worker'[v].job] > 0
      BY DEF Delivered
    <2>1. CASE v = w
      <3>1. pc = "resolved" /\ worker'[v].job = j
        BY <1>4, <2>1
      <3>2. sent'[j] = sent[j] + 1
        BY <1>1, <1>2, <3>1 DEF TypedParts
      <3> QED
        BY <1>5, <3>1, <3>2
    <2>2. CASE v # w
      <3>1. worker'[v] = worker[v]
        BY <1>1, <1>4, <2>2 DEF TypedParts
      <3>2. worker[v].job \in Jobs /\ sent[worker[v].job] > 0
        BY <3>1 DEF Typed, WorkersBusy, Busy, Counted, Delivered
      <3> QED
        BY <1>5, <3>1, <3>2
    <2> QED
      BY <2>1, <2>2
  <1> QED
    BY <1>6, <1>7, <1>8 DEF Counted

(* A worker that is let go, and the run of its job if it held the lock.    *)
LEMMA ReleaseCounted ==
    ASSUME Typed, Counted, NEW w \in Workers,
           Complete(w) \/ Retry(w) \/ Restart(w) \/ Crash(w)
    PROVE  Counted'
  <1>1. TypedParts /\ Typed'
    BY Parts, CompleteTyped, RetryTyped, CrashTyped
  <1>2. UNCHANGED <<stalls, sent>>
    BY DEF Complete, Retry, Restart, Crash
  <1>3. PICK cell : /\ worker' = [worker EXCEPT ![w] = cell]
                    /\ cell.pc \in {"idle", "dead"}
    <2>1. CASE Crash(w)
      <3>1. [pc |-> "dead", job |-> None].pc = "dead"
        OBVIOUS
      <3> QED
        BY <2>1, <3>1 DEF Crash
    <2>2. CASE Complete(w) \/ Retry(w) \/ Restart(w)
      <3>1. Release(w)
        BY <2>2 DEF Complete, Retry, Restart
      <3>2. Free.pc = "idle"
        BY DEF Free
      <3> QED
        BY <3>1, <3>2 DEF Release
    <2> QED
      BY <2>1, <2>2
  <1>4. \A k \in Jobs : Runs(k) <= Runs(k)'
    <2>1. CASE UNCHANGED <<state, attempts>>
      <3>1. \A k \in Jobs : Runs(k)' = Runs(k) /\ Runs(k) \in Int
        BY <1>1, <1>2, <2>1 DEF Runs, TypedParts
      <3> HIDE DEF Runs
      <3> QED
        BY <3>1
    <2>2. CASE Complete(w) /\ HoldsLock(w)
      <3>1. PICK j \in Jobs : state[j] = "active" /\ j = JobOf(w)
        BY <2>2, HeldIsActive DEF Complete, In, Busy
      <3>2. state' = [state EXCEPT ![j] = "completed"] /\ UNCHANGED attempts
        BY <2>2, <3>1 DEF Complete, Move
      <3>3. \A k \in Jobs : Runs(k)' = Runs(k) /\ Runs(k) \in Int
        BY <1>1, <1>2, <3>1, <3>2 DEF Runs, TypedParts
      <3> HIDE DEF Runs
      <3> QED
        BY <3>3
    <2>3. CASE Retry(w) /\ HoldsLock(w)
      <3>1. PICK j \in Jobs : state[j] = "active" /\ j = JobOf(w)
        BY <2>3, HeldIsActive DEF Retry, In, Busy
      <3>2. PICK to \in {"delayed", "failed"} : state' = [state EXCEPT ![j] = to]
        BY <2>3, <3>1 DEF Retry, Move
      <3>3. attempts' = [attempts EXCEPT ![j] = attempts[j] + 1]
        BY <2>3, <3>1 DEF Retry
      <3>4. \A k \in Jobs : Runs(k)' = Runs(k) /\ Runs(k) \in Int
        BY <1>1, <1>2, <3>1, <3>2, <3>3 DEF Runs, TypedParts
      <3> HIDE DEF Runs
      <3> QED
        BY <3>4
    <2> QED
      BY <2>1, <2>2, <2>3 DEF Complete, Retry, Restart, Crash
  <1>5. Accounted'
    <2>1. \A k \in Jobs : Cardinality(Handling(k))' <= Cardinality(Handling(k))
      BY <1>3, HandlingLess
    <2> QED
      BY <1>1, <1>2, <1>4, <2>1, AccountedKept DEF Counted
  <1>6. CompletedWasSent'
    <2> SUFFICES ASSUME NEW j \in Jobs, state'[j] = "completed" PROVE sent[j] > 0
      BY <1>2 DEF CompletedWasSent
    <2>1. CASE state[j] = "completed"
      BY <2>1 DEF Counted, CompletedWasSent
    <2>2. CASE state[j] # "completed"
      <3>1. Complete(w) /\ HoldsLock(w) /\ j = JobOf(w)
        BY <1>1, <2>2 DEF Complete, Retry, Restart, Crash, Move, TypedParts
      <3> QED
        BY <3>1 DEF Complete, In, JobOf, Counted, Delivered
    <2> QED
      BY <2>1, <2>2
  <1>7. Delivered'
    <2>1. \A v \in Workers : worker'[v].pc = "resolved" => worker'[v] = worker[v]
      BY <1>1, <1>3 DEF TypedParts
    <2> QED
      BY <1>2, <2>1 DEF Counted, Delivered
  <1> QED
    BY <1>5, <1>6, <1>7 DEF Counted

(* The run that is given up is a stall. *)
LEMMA StallCounted ==
    ASSUME Typed, Counted, NEW j \in Jobs, Stall(j)
    PROVE  Counted'
  <1>1. TypedParts /\ Typed'
    BY Parts, StallTyped
  <1>2. PICK to \in {"waiting", "failed"} : state' = [state EXCEPT ![j] = to]
    BY DEF Stall, Move
  <1>3. /\ stalls' = [stalls EXCEPT ![j] = stalls[j] + 1]
        /\ UNCHANGED <<attempts, worker, sent>> /\ state[j] = "active"
    BY DEF Stall
  <1>4. \A k \in Jobs : Runs(k) <= Runs(k)'
    <2>1. \A k \in Jobs : Runs(k)' = Runs(k) /\ Runs(k) \in Int
      BY <1>1, <1>2, <1>3 DEF Runs, TypedParts
    <2> HIDE DEF Runs
    <2> QED
      BY <2>1
  <1>5. Accounted'
    BY <1>1, <1>3, <1>4, HandlingSame, AccountedKept DEF Counted
  <1>6. CompletedWasSent'
    <2>1. \A k \in Jobs : state'[k] = "completed" => state[k] = "completed"
      BY <1>1, <1>2 DEF TypedParts
    <2>2. \A k \in Jobs : sent[k] <= sent'[k]
      BY <1>1, <1>3 DEF TypedParts
    <2> QED
      BY <1>1, <2>1, <2>2, SentKept DEF Counted
  <1>7. Delivered'
    BY <1>3 DEF Counted, Delivered
  <1> QED
    BY <1>5, <1>6, <1>7 DEF Counted

LEMMA StepCounted == Typed /\ Counted /\ [Next]_queueVars => Counted'
  <1> SUFFICES ASSUME Typed, Counted, [Next]_queueVars PROVE Counted'
    OBVIOUS
  <1>1. CASE UNCHANGED queueVars
    BY <1>1 DEF queueVars, Counted, CompletedWasSent, Delivered, Accounted, Runs,
                Handling
  <1> QED
    BY <1>1, AddCounted, TakeCounted, HandleCounted, ReleaseCounted, StallCounted
       DEF Next, Deliver, Work, Handle

LEMMA AlwaysCounted == Spec => [](Typed /\ Counted)
  BY InitTyped, InitCounted, StepTyped, StepCounted, PTL DEF Spec, Init

(* No job is reported as completed whose mail Resend has not accepted.     *)
THEOREM CompletedMailsSent == Spec => []CompletedWasSent
  BY AlwaysCounted, PTL DEF Counted

(* There are never more copies of a mail than failed attempts and stalls,  *)
(* and one more: a handler sends once per run, and each run ends as one of *)
(* them, crashes and lost locks included.                                  *)
THEOREM CopiesBounded == Spec => []CopiesAccountedFor
  <1>1. Typed /\ Counted => CopiesAccountedFor
    <2> SUFFICES ASSUME Typed, Counted, NEW j \in Jobs PROVE sent[j] <= Runs(j)
      BY DEF CopiesAccountedFor, Runs
    <2>1. /\ sent[j] + Cardinality(Handling(j)) <= Runs(j)
          /\ sent[j] \in Nat /\ Runs(j) \in Int /\ Cardinality(Handling(j)) \in Nat
      BY HandlingFinite DEF Counted, Accounted, Typed, TypeOK, Runs
    <2> HIDE DEF Runs
    <2> QED
      BY <2>1
  <1> QED
    BY <1>1, AlwaysCounted, PTL

----------------------------------------------------------------------------
(* Outcomes *)

Standing == \A j \in Jobs : state[j] \in {"completed", "failed"} => state'[j] = state[j]

(* A job that has completed or failed is never touched again, not even by  *)
(* a worker that lost its lock and finishes late.                          *)
THEOREM OutcomesStand == Spec => OutcomeStands
  <1>1. ASSUME Typed, [Next]_queueVars PROVE Standing
    <2>0. TypedParts
      BY <1>1, Parts
    <2>1. CASE UNCHANGED queueVars
      BY <2>1 DEF queueVars, Standing
    <2>2. ASSUME NEW j \in Jobs, Add(j) \/ Promote(j) \/ Stall(j) PROVE Standing
      BY <2>0, <2>2 DEF Add, Promote, Stall, Move, Standing, TypedParts
    <2>3. ASSUME NEW w \in Workers, Take(w) PROVE Standing
      <3>1. PICK j \in Jobs : state[j] = "waiting" /\ state' = [state EXCEPT ![j] = "active"]
        BY <1>1, <2>3, TakeTyped
      <3> QED
        BY <2>0, <3>1 DEF Standing, TypedParts
    <2>4. ASSUME NEW w \in Workers, Complete(w) \/ Retry(w) PROVE Standing
      <3>1. CASE ~HoldsLock(w)
        BY <2>4, <3>1 DEF Complete, Retry, Standing
      <3>2. CASE HoldsLock(w)
        <4>1. PICK j \in Jobs : state[j] = "active" /\ j = JobOf(w)
          BY <1>1, <2>4, <3>2, HeldIsActive DEF Complete, Retry, In, Busy
        <4>2. \A k \in Jobs \ {j} : state'[k] = state[k]
          BY <2>0, <2>4, <3>2, <4>1 DEF Complete, Retry, Move, TypedParts
        <4> QED
          BY <4>1, <4>2 DEF Standing
      <3> QED
        BY <3>1, <3>2
    <2>5. ASSUME NEW w \in Workers, Handle(w) \/ Crash(w) \/ Restart(w) PROVE Standing
      BY <2>5 DEF Handle, HandleTemplated, HandleContactUs, Crash, Restart, Standing
    <2> QED
      BY <1>1, <2>1, <2>2, <2>3, <2>4, <2>5 DEF Next, Deliver, Work, Handle
  <1>2. Typed /\ [Next]_queueVars => [Standing]_queueVars
    BY <1>1
  <1> QED
    BY <1>2, AlwaysCounted, PTL DEF Spec, OutcomeStands, Standing

----------------------------------------------------------------------------
(* The order of the mails *)

Added == {j \in Jobs : state[j] # "absent"}
Untroubled(j) == attempts[j] = 0 /\ stalls[j] = 0
Fresh(j) == state[j] = "waiting" /\ Untroubled(j)
Ahead(j, k) == \E p, q \in 1..Len(wait) : p < q /\ wait[p] = j /\ wait[q] = k

(* Jobs are numbered as they are added, from 0 on.                         *)
Numbered == /\ order \in [Jobs -> Nat] /\ IsFiniteSet(Added)
            /\ \A j \in Added : order[j] < Cardinality(Added)

(* A waiting job is in the list; a job not yet added has neither failed    *)
(* nor stalled, one that was put off or given up has; a busy worker holds  *)
(* the lock of its job, or the job has stalled.                            *)
Enlisted == \A j \in Jobs : state[j] = "waiting" => \E i \in 1..Len(wait) : wait[i] = j
Troubled == \A j \in Jobs :
              /\ state[j] = "absent" => Untroubled(j)
              /\ state[j] \in {"delayed", "failed"} => ~Untroubled(j)
Owned == \A w \in Workers : worker[w].pc \in Busy =>
            \/ HoldsLock(w)
            \/ stalls[JobOf(w)] > 0

(* Behind a job that waits for its first attempt are all that were added   *)
(* later, none of them tried yet.                                          *)
InOrder == \A j, k \in Added :
             order[j] < order[k] /\ Fresh(j) => Fresh(k) /\ Ahead(j, k)

Queue == Enlisted /\ Troubled /\ Owned
Lined == Numbered /\ InOrder

LEMMA InitLined == TrackedInit => Queue /\ Lined
  <1> SUFFICES ASSUME TrackedInit PROVE Queue /\ Lined
    OBVIOUS
  <1>1. Added = {} /\ order = [j \in Jobs |-> 0]
    BY DEF TrackedInit, Init, QueueInit, Added
  <1>2. Queue
    BY DEF TrackedInit, Init, QueueInit, Queue, Enlisted, Troubled, Owned, Untroubled, Free, Busy
  <1>3. Numbered /\ InOrder
    BY <1>1, FS_EmptySet DEF Numbered, InOrder
  <1> QED
    BY <1>2, <1>3 DEF Lined

(* A list that grows at one end keeps its jobs and their order.            *)
LEMMA AppendAhead ==
    ASSUME wait \in Seq(Jobs), NEW j \in Jobs, wait' = Append(wait, j)
    PROVE  /\ \A k \in Jobs : (\E i \in 1..Len(wait) : wait[i] = k)
                                => \E i \in 1..Len(wait') : wait'[i] = k
           /\ \E i \in 1..Len(wait') : wait'[i] = j
           /\ \A k, l \in Jobs : Ahead(k, l) => Ahead(k, l)'
           /\ \A k \in Jobs : (\E i \in 1..Len(wait) : wait[i] = k) => Ahead(k, j)'
  <1>1. /\ Len(wait) \in Nat /\ Len(wait') = Len(wait) + 1
        /\ \A i \in 1..Len(wait) : wait'[i] = wait[i]
        /\ wait'[Len(wait) + 1] = j
    OBVIOUS
  <1>2. \A i \in 1..Len(wait) : i \in 1..Len(wait') /\ i < Len(wait) + 1
    BY <1>1
  <1>3. Len(wait) + 1 \in 1..Len(wait')
    BY <1>1
  <1> QED
    BY <1>1, <1>2, <1>3 DEF Ahead

LEMMA PrependAhead ==
    ASSUME wait \in Seq(Jobs), NEW j \in Jobs, wait' = <<j>> \o wait
    PROVE  /\ \A k \in Jobs : (\E i \in 1..Len(wait) : wait[i] = k)
                                => \E i \in 1..Len(wait') : wait'[i] = k
           /\ \E i \in 1..Len(wait') : wait'[i] = j
           /\ \A k, l \in Jobs : Ahead(k, l) => Ahead(k, l)'
  <1>1. /\ Len(wait) \in Nat /\ Len(wait') = Len(wait) + 1
        /\ \A i \in 1..Len(wait) : wait'[i + 1] = wait[i]
        /\ wait'[1] = j
    OBVIOUS
  <1>2. /\ \A i \in 1..Len(wait) : i + 1 \in 1..Len(wait')
        /\ 1 \in 1..Len(wait')
        /\ \A p, q \in 1..Len(wait) : p < q => p + 1 < q + 1
    BY <1>1
  <1>3. ASSUME NEW k \in Jobs, NEW l \in Jobs, Ahead(k, l) PROVE Ahead(k, l)'
    <2>1. PICK p, q \in 1..Len(wait) : p < q /\ wait[p] = k /\ wait[q] = l
      BY <1>3 DEF Ahead
    <2>2. wait'[p + 1] = k /\ wait'[q + 1] = l
      BY <1>1, <2>1
    <2> QED
      BY <1>2, <2>1, <2>2 DEF Ahead
  <1>4. \A i \in 1..Len(wait) : \E h \in 1..Len(wait') : wait'[h] = wait[i]
    BY <1>1, <1>2
  <1> QED
    BY <1>1, <1>2, <1>3, <1>4

(* Without its head the list keeps the order of the others.                *)
LEMMA TailAhead ==
    ASSUME wait \in Seq(Jobs), wait # <<>>, wait' = Tail(wait)
    PROVE  /\ \A k \in Jobs : (\E i \in 1..Len(wait) : wait[i] = k) /\ k # Head(wait)
                                => \E i \in 1..Len(wait') : wait'[i] = k
           /\ \A k, l \in Jobs : Ahead(k, l) /\ k # Head(wait) => Ahead(k, l)'
  <1>1. /\ Len(wait) \in Nat /\ Len(wait') = Len(wait) - 1
        /\ \A i \in 1..Len(wait') : wait'[i] = wait[i + 1]
        /\ Head(wait) = wait[1]
    OBVIOUS
  <1>2. \A i \in 1..Len(wait) : i # 1 => i - 1 \in 1..Len(wait') /\ wait'[i - 1] = wait[i]
    BY <1>1
  <1>3. \A p, q \in 1..Len(wait) : p < q => q # 1 /\ p - 1 < q - 1
    BY <1>1
  <1>4. ASSUME NEW k \in Jobs, NEW l \in Jobs, Ahead(k, l), k # Head(wait)
        PROVE  Ahead(k, l)'
    <2>1. PICK p, q \in 1..Len(wait) : p < q /\ wait[p] = k /\ wait[q] = l
      BY <1>4 DEF Ahead
    <2>2. p # 1
      BY <1>1, <1>4, <2>1
    <2>3. wait'[p - 1] = k /\ wait'[q - 1] = l
      BY <1>2, <1>3, <2>1, <2>2
    <2> QED
      BY <1>2, <1>3, <2>1, <2>2, <2>3 DEF Ahead
  <1>5. ASSUME NEW k \in Jobs, k # Head(wait), NEW i \in 1..Len(wait), wait[i] = k
        PROVE  \E h \in 1..Len(wait') : wait'[h] = k
    BY <1>1, <1>2, <1>5
  <1> QED
    BY <1>4, <1>5

LEMMA AddQueue ==
    ASSUME Typed, Queue, NEW j \in Jobs, Add(j) \/ Promote(j)
    PROVE  Queue'
  <1>1. TypedParts
    BY Parts
  <1>2. state' = [state EXCEPT ![j] = "waiting"] /\ wait' = Append(wait, j)
    BY DEF Add, Promote, Move, Queued
  <1>3. UNCHANGED <<lock, attempts, stalls, worker, sent>>
    BY DEF Add, Promote
  <1>4. Enlisted'
    <2>1. wait \in Seq(Jobs)
      BY <1>1 DEF TypedParts
    <2> QED
      BY <1>1, <1>2, <2>1, AppendAhead DEF Queue, Enlisted, TypedParts
  <1>5. Troubled' /\ Owned'
    BY <1>1, <1>2, <1>3
       DEF Add, Promote, Queue, Troubled, Untroubled, Owned, HoldsLock, JobOf, TypedParts
  <1> QED
    BY <1>4, <1>5 DEF Queue

LEMMA TakeQueue ==
    ASSUME Typed, Queue, NEW w \in Workers, Take(w)
    PROVE  Queue'
  <1>1. TypedParts /\ wait # <<>>
    BY Parts DEF Take
  <1>2. PICK j \in Jobs : j = Head(wait) /\ j = wait[1] /\ 1 \in 1..Len(wait)
    BY <1>1 DEF TypedParts
  <1>3. state[j] = "waiting"
    BY <1>2 DEF Typed, Listed
  <1>4. /\ state' = [state EXCEPT ![j] = "active"]
        /\ lock' = [lock EXCEPT ![j] = w]
        /\ worker' = [worker EXCEPT ![w] = [pc |-> "handling", job |-> j]]
        /\ wait' = Tail(wait) /\ UNCHANGED <<attempts, stalls, sent>>
    BY <1>2 DEF Take, Move
  <1>5. Enlisted'
    <2>1. wait \in Seq(Jobs)
      BY <1>1 DEF TypedParts
    <2>2. \A k \in Jobs : state'[k] = "waiting" => state[k] = "waiting" /\ k # Head(wait)
      BY <1>1, <1>2, <1>4 DEF TypedParts
    <2> QED
      BY <1>1, <1>4, <2>1, <2>2, TailAhead DEF Queue, Enlisted
  <1>6. Troubled'
    BY <1>1, <1>4 DEF Queue, Troubled, Untroubled, TypedParts
  <1>7. Owned'
    <2> SUFFICES ASSUME NEW v \in Workers, worker'[v].pc \in Busy
                 PROVE  HoldsLock(v)' \/ stalls'[JobOf(v)'] > 0
      BY DEF Owned
    <2>1. CASE v = w
      BY <1>1, <1>4, <2>1 DEF HoldsLock, JobOf, TypedParts
    <2>2. CASE v # w
      <3>1. worker'[v] = worker[v] /\ worker[v].job \in Jobs
        BY <1>1, <1>4, <2>2 DEF TypedParts, Typed, WorkersBusy
      <3>2. lock[j] = None
        BY <1>3 DEF Typed, Locked
      <3> QED
        BY <1>1, <1>4, <2>2, <3>1, <3>2 DEF Queue, Owned, HoldsLock, JobOf, TypedParts
    <2> QED
      BY <2>1, <2>2
  <1> QED
    BY <1>5, <1>6, <1>7 DEF Queue

LEMMA HandleQueue ==
    ASSUME Typed, Queue, NEW w \in Workers, Handle(w) \/ Crash(w) \/ Restart(w)
    PROVE  Queue'
  <1>1. TypedParts
    BY Parts
  <1>2. UNCHANGED <<state, wait, lock, attempts, stalls>>
    BY HandleEffect DEF Crash, Restart
  <1>3. \A v \in Workers : worker'[v].pc \in Busy =>
          worker[v].pc \in Busy /\ worker'[v].job = worker[v].job
    <2>1. CASE Handle(w)
      <3>1. PICK pc \in {"resolved", "rejected"} : WorkerGoes(w, pc)
        BY <2>1, HandleEffect
      <3>2. worker[w].pc \in Busy
        BY <2>1, HandleEffect DEF Busy
      <3>3. worker'[w] = [pc |-> pc, job |-> worker[w].job]
        BY <3>1, <3>2, WorkerGoesOn
      <3>4. \A v \in Workers \ {w} : worker'[v] = worker[v]
        BY <1>1, <3>1 DEF WorkerGoes, TypedParts
      <3> QED
        BY <3>2, <3>3, <3>4
    <2>2. CASE Crash(w) \/ Restart(w)
      <3>1. PICK pc \in {"dead", "idle"} :
              worker' = [worker EXCEPT ![w] = [pc |-> pc, job |-> None]]
        BY <2>2 DEF Crash, Restart, Release, Free
      <3> QED
        BY <1>1, <3>1 DEF Busy, TypedParts
    <2> QED
      BY <2>1, <2>2
  <1> QED
    BY <1>2, <1>3
       DEF Queue, Enlisted, Troubled, Untroubled, Owned, HoldsLock, JobOf

LEMMA ReleaseQueue ==
    ASSUME Typed, Queue, NEW w \in Workers, Complete(w) \/ Retry(w)
    PROVE  Queue'
  <1>1. TypedParts /\ worker[w].pc \in Busy
    BY Parts DEF Complete, Retry, In, Busy
  <1>2. /\ UNCHANGED <<wait, stalls>> /\ worker' = [worker EXCEPT ![w] = Free]
        /\ Free.pc \notin Busy
    BY DEF Complete, Retry, Release, Free, Busy
  <1>3. CASE ~HoldsLock(w)
    <2>1. UNCHANGED <<state, lock, attempts>>
      BY <1>3 DEF Complete, Retry
    <2> QED
      BY <1>1, <1>2, <2>1
         DEF Queue, Enlisted, Troubled, Untroubled, Owned, HoldsLock, JobOf, TypedParts
  <1>4. CASE HoldsLock(w)
    <2>1. PICK j \in Jobs : j = JobOf(w) /\ state[j] = "active"
      BY <1>1, <1>4, HeldIsActive
    <2>2. /\ lock[j] = w /\ lock' = [lock EXCEPT ![j] = None]
          /\ \/ state' = [state EXCEPT ![j] = "completed"] /\ UNCHANGED attempts
             \/ /\ attempts' = [attempts EXCEPT ![j] = @ + 1]
                /\ \E to \in {"delayed", "failed"} : state' = [state EXCEPT ![j] = to]
      BY <1>4, <2>1 DEF Complete, Retry, Move, HoldsLock
    <2>3. Enlisted'
      BY <1>1, <1>2, <2>2 DEF Queue, Enlisted, TypedParts
    <2>4. Troubled'
      BY <1>1, <1>2, <2>2 DEF Queue, Troubled, Untroubled, TypedParts
    <2>5. ASSUME NEW v \in Workers, worker'[v].pc \in Busy
          PROVE  HoldsLock(v)' \/ stalls'[JobOf(v)'] > 0
      <3>1. v # w /\ worker'[v] = worker[v] /\ worker[v].pc \in Busy
        BY <1>1, <1>2, <2>5 DEF TypedParts
      <3>2. JobOf(v)' = JobOf(v)
        BY <3>1 DEF JobOf
      <3>3. HoldsLock(v) => lock'[JobOf(v)] = v
        BY <1>1, <2>2, <3>1 DEF HoldsLock, TypedParts
      <3> QED
        BY <1>2, <3>1, <3>2, <3>3 DEF Queue, Owned, HoldsLock
    <2> QED
      BY <2>3, <2>4, <2>5 DEF Queue, Owned
  <1> QED
    BY <1>3, <1>4

LEMMA StallQueue ==
    ASSUME Typed, Queue, NEW j \in Jobs, Stall(j)
    PROVE  Queue'
  <1>1. TypedParts
    BY Parts
  <1>2. /\ stalls' = [stalls EXCEPT ![j] = @ + 1] /\ stalls'[j] > 0
        /\ lock' = [lock EXCEPT ![j] = None]
        /\ UNCHANGED <<attempts, worker, sent>>
    BY <1>1 DEF Stall, TypedParts
  <1>3. \/ state' = [state EXCEPT ![j] = "waiting"] /\ wait' = <<j>> \o wait
        \/ state' = [state EXCEPT ![j] = "failed"] /\ UNCHANGED wait
    BY DEF Stall, Move
  <1>4. Enlisted'
    <2>1. wait \in Seq(Jobs)
      BY <1>1 DEF TypedParts
    <2> QED
      BY <1>1, <1>3, <2>1, PrependAhead DEF Queue, Enlisted, TypedParts
  <1>5. Troubled'
    BY <1>1, <1>2, <1>3 DEF Queue, Troubled, Untroubled, TypedParts
  <1>6. Owned'
    <2>1. \A v \in Workers : worker[v].pc \in Busy => JobOf(v) \in Jobs
      BY DEF Typed, WorkersBusy, JobOf
    <2> QED
      BY <1>1, <1>2, <2>1 DEF Queue, Owned, HoldsLock, JobOf, TypedParts
  <1> QED
    BY <1>4, <1>5, <1>6 DEF Queue

LEMMA StepQueue == Typed /\ Queue /\ [Next]_queueVars => Queue'
  <1> SUFFICES ASSUME Typed, Queue, [Next]_queueVars PROVE Queue'
    OBVIOUS
  <1>1. CASE UNCHANGED queueVars
    BY <1>1 DEF queueVars, Queue, Enlisted, Troubled, Untroubled, Owned, HoldsLock, JobOf
  <1> QED
    BY <1>1, AddQueue, TakeQueue, HandleQueue, ReleaseQueue, StallQueue
       DEF Next, Deliver, Work, Handle

(* A step that adds no job, makes no job fresh, and leaves the fresh ones   *)
(* behind a job that stays fresh where they are.                           *)
LEMMA LinedKept ==
    ASSUME Typed, Lined, TrackOrder,
           \A j \in Jobs : state[j] = "absent" <=> state'[j] = "absent",
           \A j \in Jobs : Fresh(j)' => Fresh(j),
           \A j, k \in Jobs : Fresh(j)' /\ Fresh(k) /\ Ahead(j, k)
                                => Fresh(k)' /\ Ahead(j, k)'
    PROVE  Lined'
  <1>1. order \in [Jobs -> Nat] /\ Added' = Added
    BY DEF Lined, Numbered, Added
  <1>2. order' = order
    BY <1>1 DEF TrackOrder
  <1>3. Numbered'
    BY <1>1, <1>2 DEF Lined, Numbered
  <1>4. InOrder'
    <2> SUFFICES ASSUME NEW j \in Added, NEW k \in Added,
                        order[j] < order[k], Fresh(j)'
                 PROVE  Fresh(k)' /\ Ahead(j, k)'
      BY <1>1, <1>2 DEF InOrder
    <2>1. j \in Jobs /\ k \in Jobs
      BY DEF Added
    <2>2. Fresh(k) /\ Ahead(j, k)
      BY <2>1 DEF Lined, InOrder
    <2> QED
      BY <2>1, <2>2
  <1> QED
    BY <1>3, <1>4 DEF Lined

LEMMA AddLined ==
    ASSUME Typed, Queue, Lined, TrackOrder, NEW n \in Jobs, Add(n)
    PROVE  Lined'
  <1>1. TypedParts /\ order \in [Jobs -> Nat] /\ IsFiniteSet(Added)
    BY Parts DEF Lined, Numbered
  <1>2. /\ state[n] = "absent" /\ state' = [state EXCEPT ![n] = "waiting"]
        /\ wait' = Append(wait, n)
        /\ UNCHANGED <<lock, attempts, stalls, worker, sent>>
    BY DEF Add, Move, Queued
  <1>3. Added' = Added \cup {n} /\ n \notin Added
    BY <1>1, <1>2 DEF Added, TypedParts
  <1>4. /\ IsFiniteSet(Added') /\ Cardinality(Added') = Cardinality(Added) + 1
        /\ Cardinality(Added) \in Nat
    BY <1>1, <1>3, FS_AddElement, FS_CardinalityType
  <1>5. /\ order' \in [Jobs -> Nat] /\ order'[n] = Cardinality(Added)
        /\ \A j \in Jobs \ {n} : order'[j] = order[j]
    <2> DEFINE number(j) == IF state[j] = "absent" /\ state'[j] # "absent"
                            THEN Cardinality(Added) ELSE order[j]
    <2>1. order' = [j \in Jobs |-> number(j)]
      BY DEF TrackOrder, Added
    <2>2. \A j \in Jobs : number(j) \in Nat
      BY <1>1, <1>4
    <2>3. number(n) = Cardinality(Added) /\ \A j \in Jobs \ {n} : number(j) = order[j]
      BY <1>1, <1>2 DEF TypedParts
    <2> HIDE DEF number
    <2> QED
      BY <2>1, <2>2, <2>3
  <1>6. \A j \in Added : j # n /\ order'[j] = order[j] /\ order[j] < Cardinality(Added)
    BY <1>3, <1>5 DEF Lined, Numbered, Added
  <1>7. Numbered'
    <2>1. \A j \in Added : order[j] \in Nat
      BY <1>1 DEF Added
    <2>2. \A j \in Added' : order'[j] < Cardinality(Added')
      BY <1>3, <1>4, <1>5, <1>6, <2>1
    <2> QED
      BY <1>4, <1>5, <2>2 DEF Numbered
  <1>8. /\ wait \in Seq(Jobs) /\ Fresh(n)'
        /\ \A j \in Jobs \ {n} : Fresh(j)' <=> Fresh(j)
    <2>1. Untroubled(n)
      BY <1>2 DEF Queue, Troubled
    <2>2. state'[n] = "waiting" /\ \A j \in Jobs \ {n} : state'[j] = state[j]
      BY <1>1, <1>2 DEF TypedParts
    <2>3. \A j \in Jobs : Untroubled(j)' <=> Untroubled(j)
      BY <1>2 DEF Untroubled
    <2>4. wait \in Seq(Jobs)
      BY <1>1 DEF TypedParts
    <2> QED
      BY <2>1, <2>2, <2>3, <2>4 DEF Fresh
  <1>9. InOrder'
    <2> SUFFICES ASSUME NEW j \in Added', NEW k \in Added',
                        order'[j] < order'[k], Fresh(j)'
                 PROVE  Fresh(k)' /\ Ahead(j, k)'
      BY DEF InOrder
    <2>1. j \in Jobs /\ k \in Jobs
      BY DEF Added
    <2>2. CASE k = n
      <3>1. j \in Added
        BY <1>1, <1>3, <1>4, <1>5, <2>2
      <3>2. \E i \in 1..Len(wait) : wait[i] = j
        BY <1>3, <1>8, <2>1, <3>1 DEF Queue, Enlisted, Fresh
      <3> QED
        BY <1>2, <1>8, <2>1, <2>2, <3>2, AppendAhead
    <2>3. CASE k # n
      <3>1. k \in Added /\ j \in Added
        BY <1>1, <1>3, <1>4, <1>5, <1>6, <2>1, <2>3
      <3>2. Fresh(k) /\ Ahead(j, k)
        BY <1>6, <1>8, <2>1, <3>1 DEF Lined, InOrder
      <3> QED
        BY <1>2, <1>6, <1>8, <2>1, <3>1, <3>2, AppendAhead
    <2> QED
      BY <2>2, <2>3
  <1> QED
    BY <1>7, <1>9 DEF Lined

LEMMA StepLined ==
    ASSUME Typed, Queue, Lined, [TrackedNext]_<<queueVars, order>>
    PROVE  Lined'
  <1>1. TypedParts
    BY Parts
  <1> DEFINE Steady == \A j \in Jobs : state[j] = "absent" <=> state'[j] = "absent"
             NoneFresher == \A j \in Jobs : Fresh(j)' => Fresh(j)
             Kept == \A j, k \in Jobs : Fresh(j)' /\ Fresh(k) /\ Ahead(j, k)
                                          => Fresh(k)' /\ Ahead(j, k)'
  <1>2. ASSUME Steady, NoneFresher, Kept, TrackOrder PROVE Lined'
    BY <1>2, LinedKept
  <1>3. CASE UNCHANGED <<queueVars, order>>
    BY <1>3 DEF queueVars, Lined, Numbered, InOrder, Added, Fresh, Untroubled, Ahead
  <1>4. ASSUME TrackOrder, UNCHANGED <<state, wait, attempts, stalls>> PROVE Lined'
    <2>1. Steady /\ NoneFresher /\ Kept
      BY <1>4 DEF Fresh, Untroubled, Ahead
    <2> QED
      BY <1>2, <1>4, <2>1
  <1>5. ASSUME TrackOrder, NEW j \in Jobs, Promote(j) PROVE Lined'
    <2>1. /\ state[j] = "delayed" /\ state' = [state EXCEPT ![j] = "waiting"]
          /\ wait' = Append(wait, j) /\ UNCHANGED <<attempts, stalls>>
      BY <1>5 DEF Promote, Move, Queued
    <2>2. ~Untroubled(j) /\ wait \in Seq(Jobs)
      BY <1>1, <2>1 DEF Queue, Troubled, TypedParts
    <2>3. Steady /\ \A k \in Jobs : Fresh(k)' <=> Fresh(k)
      BY <1>1, <2>1, <2>2 DEF Fresh, Untroubled, TypedParts
    <2>4. Kept
      BY <2>1, <2>2, <2>3, AppendAhead
    <2> QED
      BY <1>2, <1>5, <2>3, <2>4
  <1>6. ASSUME TrackOrder, NEW w \in Workers, Take(w) PROVE Lined'
    <2>1. /\ wait # <<>> /\ wait \in Seq(Jobs) /\ Len(wait) \in Nat
          /\ wait' = Tail(wait) /\ UNCHANGED <<attempts, stalls>>
          /\ state' = [state EXCEPT ![Head(wait)] = "active"]
      BY <1>1, <1>6 DEF Take, Move, TypedParts
    <2>2. PICK h \in Jobs : h = Head(wait) /\ h = wait[1] /\ 1 \in 1..Len(wait)
      BY <2>1
    <2>3. /\ state[h] = "waiting" /\ state'[h] = "active"
          /\ \A k \in Jobs \ {h} : state'[k] = state[k]
      BY <1>1, <2>1, <2>2 DEF Typed, Listed, TypedParts
    <2>4. /\ Steady /\ NoneFresher /\ ~Fresh(h)'
          /\ \A k \in Jobs \ {h} : Fresh(k)' <=> Fresh(k)
      <3>1. \A k \in Jobs : Untroubled(k)' <=> Untroubled(k)
        BY <2>1 DEF Untroubled
      <3> QED
        BY <2>3, <3>1 DEF Fresh
    <2>5. ASSUME NEW j \in Jobs, NEW k \in Jobs, Fresh(j)', Fresh(k), Ahead(j, k)
          PROVE  Fresh(k)' /\ Ahead(j, k)'
      <3>1. j # h
        BY <2>4, <2>5
      <3>2. k # h
        <4>1. PICK p, q \in 1..Len(wait) : p < q /\ wait[q] = k
          BY <2>5 DEF Ahead
        <4>2. q # 1
          BY <2>1, <4>1
        <4> QED
          BY <2>2, <4>1, <4>2 DEF Typed, Listed
      <3> QED
        BY <2>1, <2>2, <2>4, <2>5, <3>1, <3>2, TailAhead
    <2> QED
      BY <1>2, <1>6, <2>4, <2>5
  <1>7. ASSUME TrackOrder, NEW w \in Workers, Complete(w) \/ Retry(w) PROVE Lined'
    <2>1. CASE ~HoldsLock(w)
      BY <1>4, <1>7, <2>1 DEF Complete, Retry
    <2>2. CASE HoldsLock(w)
      <3>1. PICK j \in Jobs : j = JobOf(w) /\ state[j] = "active"
        BY <1>7, <2>2, HeldIsActive DEF Complete, Retry, In, Busy
      <3>2. /\ UNCHANGED <<wait, stalls>>
            /\ \E to \in {"completed", "delayed", "failed"} :
                 state' = [state EXCEPT ![j] = to]
            /\ attempts' = attempts \/ attempts' = [attempts EXCEPT ![j] = @ + 1]
        BY <1>7, <2>2, <3>1 DEF Complete, Retry, Move
      <3>3. Steady /\ \A k \in Jobs : Fresh(k)' <=> Fresh(k)
        BY <1>1, <3>1, <3>2 DEF Fresh, Untroubled, TypedParts
      <3>4. Kept
        BY <3>2, <3>3 DEF Ahead
      <3> QED
        BY <1>2, <1>7, <3>3, <3>4
    <2> QED
      BY <2>1, <2>2
  <1>8. ASSUME TrackOrder, NEW j \in Jobs, Stall(j) PROVE Lined'
    <2>1. /\ state[j] = "active" /\ UNCHANGED attempts /\ stalls' = [stalls EXCEPT ![j] = @ + 1]
          /\ \/ state' = [state EXCEPT ![j] = "waiting"] /\ wait' = <<j>> \o wait
             \/ state' = [state EXCEPT ![j] = "failed"] /\ UNCHANGED wait
      BY <1>8 DEF Stall, Move
    <2>2. stalls'[j] # 0 /\ wait \in Seq(Jobs)
      BY <1>1, <2>1 DEF TypedParts
    <2>3. Steady /\ \A k \in Jobs : Fresh(k)' <=> Fresh(k)
      BY <1>1, <2>1, <2>2 DEF Fresh, Untroubled, TypedParts
    <2>4. \A k, l \in Jobs : Ahead(k, l) => Ahead(k, l)'
      <3>1. CASE UNCHANGED wait
        BY <3>1 DEF Ahead
      <3> QED
        BY <2>1, <2>2, <3>1, PrependAhead
    <2> QED
      BY <1>2, <1>8, <2>3, <2>4
  <1>9. ASSUME TrackOrder, NEW w \in Workers, Handle(w) \/ Crash(w) \/ Restart(w)
        PROVE  Lined'
    BY <1>4, <1>9, HandleEffect DEF Crash, Restart
  <1> HIDE DEF Steady, NoneFresher, Kept
  <1> QED
    BY <1>3, <1>5, <1>6, <1>7, <1>8, <1>9, AddLined
       DEF TrackedNext, Next, Deliver, Work, Handle

LEMMA AlwaysLined == TrackedSpec => [](Typed /\ Counted /\ Queue /\ Lined)
  <1>1. TrackedInit => Typed /\ Counted /\ Queue /\ Lined
    BY InitTyped, InitCounted, InitLined DEF TrackedInit, Init
  <1>2. [TrackedNext]_<<queueVars, order>> => [Next]_queueVars
    BY DEF TrackedNext, queueVars
  <1>3. Typed /\ Counted /\ Queue /\ Lined /\ [TrackedNext]_<<queueVars, order>>
          => (Typed /\ Counted /\ Queue /\ Lined)'
    BY <1>2, StepTyped, StepCounted, StepQueue, StepLined
  <1> QED
    BY <1>1, <1>3, PTL DEF TrackedSpec

PatientOrder ==
    \A j, k \in Jobs :
      /\ state[j] # "absent" /\ state[k] # "absent" /\ order[j] < order[k]
      /\ sent[j] = 0 /\ sent[k] = 0 /\ sent'[k] > 0
      => attempts[j] > 0 \/ stalls[j] > 0 \/ state[j] = "active"

(* A mail added later overtakes an earlier one only when the earlier is in *)
(* a worker's hands, has failed an attempt or has stalled.                 *)
THEOREM MailsKeepTheirOrder == TrackedSpec => OvertakenOnlyInTrouble
  <1>1. ASSUME Typed, Counted, Queue, Lined, [TrackedNext]_<<queueVars, order>>
        PROVE  [PatientOrder]_<<queueVars, order>>
    <2> SUFFICES ASSUME TrackedNext,
                        NEW j \in Jobs, NEW k \in Jobs,
                        state[j] # "absent", state[k] # "absent", order[j] < order[k],
                        sent[j] = 0, sent[k] = 0, sent'[k] > 0,
                        ~(attempts[j] > 0 \/ stalls[j] > 0 \/ state[j] = "active")
                 PROVE  FALSE
      BY <1>1 DEF PatientOrder
    <2>1. TypedParts
      BY <1>1, Parts
    <2>2. Fresh(j)
      <3>1. Untroubled(j)
        BY <2>1 DEF TypedParts, Untroubled
      <3>2. state[j] \notin {"delayed", "failed", "completed"}
        BY <1>1, <2>1, <3>1 DEF Queue, Troubled, Counted, CompletedWasSent
      <3> QED
        BY <2>1, <3>1, <3>2 DEF TypedParts, JobStates, Fresh
    <2>3. Fresh(k)
      BY <1>1, <2>2 DEF Lined, InOrder, Added
    <2>4. PICK w \in Workers : Handle(w)
      <3>1. sent' # sent
        OBVIOUS
      <3> QED
        BY <3>1 DEF TrackedNext, Next, Deliver, Work, Handle, Add, Promote, Stall, Take,
                    Complete, Retry, Crash, Restart
    <2>5. worker[w].pc = "handling" /\ worker[w].job = k
      BY SMTT(60), <1>1, <2>1, <2>4, HandleEffect DEF TypedParts
    <2>6. lock[k] = w \/ stalls[k] > 0
      BY <1>1, <2>5 DEF Queue, Owned, HoldsLock, JobOf, Busy
    <2>7. stalls[k] = 0 /\ lock[k] = None
      BY <1>1, <2>3 DEF Fresh, Untroubled, Typed, Locked
    <2> QED
      BY <2>6, <2>7
  <1>2. Typed /\ Counted /\ Queue /\ Lined /\ [TrackedNext]_<<queueVars, order>>
          => [PatientOrder]_<<queueVars, order>>
    BY <1>1
  <1> QED
    BY <1>2, AlwaysLined, PTL DEF TrackedSpec, OvertakenOnlyInTrouble, PatientOrder

============================================================================
