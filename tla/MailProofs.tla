----------------------------- MODULE MailProofs -----------------------------
(***************************************************************************)
(* AuthService and the e-mail queue together: what the proofs about either *)
(* part say holds of the whole, and how many codes resends send.           *)
(***************************************************************************)
EXTENDS AuthMail, FewSlotsProofs, SecretProofs

\* The proofs about the queue, with the mails as its jobs.
Queue == INSTANCE QueueProofs WITH Jobs <- Mails, order <- sent

----------------------------------------------------------------------------
(* The parts                                                               *)

(* Every mail the handlers queue is one the queue knows.                   *)
Known == outbox \subseteq Mails

LEMMA ContinueKnown ==
    ASSUME Typed, Known, NEW s \in Slots, Continue(s)
    PROVE  Known'
  <1>0. LocalsOK(req[s])
    BY DEF Typed
  <1>1. ASSUME NEW m \in Mails, Enqueue(m) PROVE Known'
    BY <1>1 DEF Enqueue, Known
  <1>2. CASE MailOtp(s)
    <2>1. req[s].email \in Emails /\ req[s].made \in Codes
      BY <1>0, <1>2 DEF MailOtp, At, LocalsOK
    <2>2. Mail("verify", req[s].email, req[s].made) \in Mails
      BY <2>1 DEF Mails
    <2> QED
      BY <1>1, <1>2, <2>2 DEF MailOtp
  <1>3. CASE MailResetLink(s)
    <2>1. req[s].email \in Emails /\ req[s].made \in ResetTokens
      BY <1>0, <1>3 DEF MailResetLink, At, LocalsOK
    <2>2. Mail("passwordReset", req[s].email, req[s].made) \in Mails
      BY <2>1 DEF Mails
    <2> QED
      BY <1>1, <1>3, <2>2 DEF MailResetLink
  <1>4. CASE MailWelcome(s) \/ MailPasswordUpdate(s)
    <2>1. req[s].email \in Emails
      BY <1>0, <1>4 DEF MailWelcome, MailPasswordUpdate, At, LocalsOK
    <2>2. /\ Mail("welcome", req[s].email, None) \in Mails
          /\ Mail("passwordUpdate", req[s].email, None) \in Mails
      BY <2>1 DEF Mails
    <2> QED
      BY <1>1, <1>4, <2>2 DEF MailWelcome, MailPasswordUpdate
  <1>5. CASE \/ RegisterInsert(s) \/ StoreOtp(s) \/ StoreSession(s) \/ ReadAttempts(s)
             \/ CompareOtp(s) \/ CountMiss(s) \/ MarkVerified(s) \/ DropCode(s)
             \/ DropCount(s) \/ ReadResends(s) \/ BumpResends(s) \/ StoreResetToken(s)
             \/ ResetFindUser(s) \/ ResetFindOne(s) \/ ResetUpdate(s)
             \/ DropResetToken(s) \/ GoogleFindByEmail(s) \/ GoogleUpsert(s)
             \/ GoogleLoad(s) \/ RemoveDelete(s)
    <2>1. UNCHANGED outbox
      BY <1>5 DEF RegisterInsert, StoreOtp, StoreSession, ReadAttempts, CompareOtp,
                  CountMiss, MarkVerified, DropCode, DropCount, ReadResends,
                  BumpResends, StoreResetToken, ResetFindUser, ResetFindOne,
                  ResetUpdate, DropResetToken, GoogleFindByEmail, GoogleUpsert,
                  GoogleLoad, RemoveDelete, store
    <2> QED
      BY <2>1 DEF Known
  <1> QED
    BY <1>2, <1>3, <1>4, <1>5 DEF Continue

LEMMA StepKnown ==
    ASSUME Typed, Known, [Next]_vars
    PROVE  Known'
  <1>1. ASSUME NEW s \in Slots, Arrive(s) \/ Fail(s) PROVE Known'
    <2>1. UNCHANGED outbox
      BY <1>1 DEF Arrive, Register, Login, VerifyEmail, Resend, Forgot, Reset, Refresh,
                  Google, Remove, Fail, store
    <2> QED
      BY <2>1 DEF Known
  <1>2. CASE \/ \E id \in Ids : Logout(id)
             \/ \E e \in Emails : Expire(e)
             \/ Tick \/ UNCHANGED vars
    <2>1. UNCHANGED outbox
      BY <1>2 DEF Logout, Expire, ExpireCode, ExpireAttempts, ExpireResends,
                  ExpireResetToken, Tick, vars, store
    <2> QED
      BY <2>1 DEF Known
  <1> QED
    BY <1>1, <1>2, ContinueKnown DEF Next

(* The service does not notice the queue: every behaviour of the whole is  *)
(* one of AuthService, so that each invariant proved of AuthService holds  *)
(* with the mails being delivered next to it.                              *)
THEOREM SystemRunsService == SystemSpec => Spec
  <1>1. SystemInit => Init
    BY DEF SystemInit
  <1>2. [SystemNext]_<<vars, queueVars, resends>> => [Next]_vars
    BY DEF SystemNext
  <1> QED
    BY <1>1, <1>2, PTL DEF SystemSpec, Spec

(* The queue sees nothing but adds: the handlers put at most one mail into *)
(* the outbox per step, each is added as a job once, and no handler step   *)
(* touches a job otherwise.                                                *)
THEOREM SystemRunsQueue == SystemSpec => Mailer!Spec
  <1>1. SystemInit => Mailer!Init
    BY DEF SystemInit, Mailer!Init
  <1>2. Typed /\ Known /\ [SystemNext]_<<vars, queueVars, resends>>
          => Known' /\ [Mailer!Next]_(Mailer!queueVars)
    <2> SUFFICES ASSUME Typed, Known, [SystemNext]_<<vars, queueVars, resends>>
                 PROVE  Known' /\ [Mailer!Next]_queueVars
      BY DEF Mailer!queueVars, queueVars
    <2>1. Known'
      BY StepKnown DEF SystemNext
    <2>2. CASE HandOver
      BY <2>1, <2>2 DEF HandOver, Known, Mailer!Next
    <2>3. CASE Mailer!Deliver
      BY <2>1, <2>3 DEF Mailer!Next
    <2> QED
      BY <2>1, <2>2, <2>3 DEF SystemNext
  <1>3. SystemInit => Known
    BY DEF SystemInit, Init, StoreInit, Known
  <1> QED
    BY <1>1, <1>2, <1>3, SystemRunsService, AlwaysSecured, PTL
       DEF SystemSpec, Mailer!Spec

----------------------------------------------------------------------------
(* Resends: the counter of resendVerificationEmail                         *)

Resenders(e) == {s \in Slots : req[s].pc = "resend.bump" /\ req[s].email = e}

(* A resend counts when it writes the counter, so nothing is outstanding.  *)
ResendsLeft(e) == Tries(0) - resends[e]
ResendFits(e) == Fits(ResendsLeft(e), otpResendAttempts[e], Resenders(e), req)
ResendsWithin == resends \in [Emails -> Nat] /\ \A e \in Emails : ResendFits(e)

(* A step that neither writes the counter of e, nor reads it below the     *)
(* limit, nor lets a resend through.                                       *)
Idles(e) ==
    /\ otpResendAttempts'[e] = otpResendAttempts[e]
    /\ LetThrough(e) = {}
    /\ \A q \in Resenders(e)' : q \in Resenders(e) /\ req'[q].count = req[q].count

LEMMA ResendersCount ==
    ASSUME Typed, NEW e \in Emails
    PROVE  /\ Counting(Resenders(e), req) /\ otpResendAttempts[e] \in 0..OtpLimit
           /\ Tries(0) \in Nat
  <1>1. ASSUME NEW s \in Resenders(e)
        PROVE  req[s].count \in 0..OtpLimit /\ req[s].count < OtpLimit
    BY DEF Resenders, Typed, TypeOK, LocalsOK, Request
  <1>2. Tries(0) \in Nat
    BY OtpLimitAssumption, TriesFacts
  <1> QED
    BY <1>1, <1>2 DEF Counting, Resenders, Typed, TypeOK, StoreTypeOK

(* One request moves from an await that is not the write of the resend     *)
(* counter to another such.                                                *)
LEMMA MoveIdles ==
    ASSUME NEW s \in Slots, \A q \in Slots \ {s} : req'[q] = req[q],
           req'[s].pc \notin {"resend.bump", "otp.store"}, NEW e,
           otpResendAttempts'[e] = otpResendAttempts[e]
    PROVE  Idles(e)
  <1>1. LetThrough(e) = {}
    <2> SUFFICES ASSUME NEW q \in LetThrough(e) PROVE FALSE
      OBVIOUS
    <2>1. req[q].pc = "resend.bump" /\ req'[q].pc = "otp.store" /\ q \in Slots
      BY DEF LetThrough, At
    <2> QED
      BY <2>1
  <1> QED
    BY <1>1 DEF Idles, Resenders

LEMMA CounterIdles ==
    ASSUME Typed, NEW s \in Slots, NEW e \in Emails,
           \/ ReadAttempts(s) \/ CompareOtp(s) \/ CountMiss(s) \/ DropCount(s) \/ Fail(s)
           \/ ReadResends(s) /\ Finish(s)
    PROVE  Idles(e)
  <1>1. UNCHANGED otpResendAttempts
    BY DEF ReadAttempts, CompareOtp, CountMiss, DropCount, Fail, ReadResends, store
  <1>2. /\ req'[s].pc \notin {"resend.bump", "otp.store"}
        /\ \A q \in Slots \ {s} : req'[q] = req[q]
    <2>1. CASE Finish(s)
      BY <2>1, Moved DEF Finish, Idle
    <2>2. ASSUME NEW n, NEW pc, pc \notin {"resend.bump", "otp.store"},
                 \/ Become(s, [req[s] EXCEPT !.pc = pc, !.count = n])
                 \/ Goto(s, pc)
          PROVE  /\ req'[s].pc \notin {"resend.bump", "otp.store"}
                 /\ \A q \in Slots \ {s} : req'[q] = req[q]
      BY <2>2, CountedTo, GoneTo
    <2>3. CASE ReadAttempts(s) /\ ~Finish(s)
      <3>1. \E n : Become(s, [req[s] EXCEPT !.pc = "verify.code", !.count = n])
        BY <2>3 DEF ReadAttempts
      <3> QED
        BY ZenonT(60), <2>2, <3>1
    <2>4. CASE CompareOtp(s)
      <3>1. \/ Become(s, [req[s] EXCEPT !.pc = "verify.mark", !.count = 0])
            \/ Goto(s, "verify.miss")
        BY <2>4 DEF CompareOtp
      <3> QED
        BY ZenonT(60), <2>2, <3>1
    <2>5. CASE DropCount(s)
      BY <2>2, <2>5 DEF DropCount
    <2> QED
      BY <2>1, <2>3, <2>4, <2>5 DEF CountMiss, Fail
  <1> QED
    BY <1>1, <1>2, MoveIdles

(* A resend below the limit goes on to write the counter.                  *)
LEMMA LetIn ==
    ASSUME Typed, NEW s \in Slots, ReadResends(s), ~Finish(s)
    PROVE  /\ req'[s].pc = "resend.bump" /\ req'[s].email = req[s].email
           /\ req'[s].count = otpResendAttempts[req[s].email]
           /\ otpResendAttempts[req[s].email] < OtpLimit
           /\ \A q \in Slots \ {s} : req'[q] = req[q]
  <1>1. ~AttemptsExceeded(otpResendAttempts[req[s].email])
    BY DEF ReadResends
  <1>2. PICK n : n = otpResendAttempts[req[s].email]
    OBVIOUS
  <1>3. Become(s, [req[s] EXCEPT !.pc = "resend.bump", !.count = n])
    BY <1>1, <1>2 DEF ReadResends
  <1>4. /\ req'[s].pc = "resend.bump" /\ req'[s].email = req[s].email
        /\ req'[s].count = n /\ \A q \in Slots \ {s} : req'[q] = req[q]
    BY ZenonT(60), <1>3, CountedTo
  <1>5. n < OtpLimit
    <2>1. req[s].email \in Emails
      BY DEF ReadResends, At, Typed, LocalsOK
    <2>2. n \in 0..OtpLimit
      BY <1>2, <2>1 DEF Typed, TypeOK, StoreTypeOK
    <2>3. ~(n >= OtpLimit)
      BY <1>1, <1>2 DEF AttemptsExceeded
    <2> QED
      BY <2>2, <2>3, OtpLimitAssumption
  <1> QED
    BY <1>2, <1>4, <1>5

(* What a step is to the resends for one address.                          *)
LEMMA ResendKinds ==
    ASSUME Typed, [Next]_vars, NEW e \in Emails
    PROVE  \/ otpResendAttempts'[e] = 0
           \/ Idles(e)
           \/ \E s \in Slots : /\ req[s].email = e
                               /\ BumpResends(s) \/ (ReadResends(s) /\ ~Finish(s))
  <1>1. CASE QuietStep
    <2>1. otpResendAttempts'[e] = otpResendAttempts[e]
      BY <1>1 DEF QuietStep
    <2>2. LetThrough(e) = {}
      BY <1>1 DEF QuietStep, LetThrough, At, HoldPcs
    <2>3. \A q \in Resenders(e)' : q \in Resenders(e) /\ req'[q] = req[q]
      BY <1>1 DEF QuietStep, Resenders, HoldPcs
    <2> QED
      BY <2>1, <2>2, <2>3 DEF Idles
  <1>2. ASSUME NEW s \in Slots, ReadResends(s), ~Finish(s), req[s].email # e
        PROVE  Idles(e)
    <2>1. /\ req'[s].pc = "resend.bump" /\ req'[s].email # e
          /\ \A q \in Slots \ {s} : req'[q] = req[q]
      BY <1>2, LetIn
    <2>2. UNCHANGED otpResendAttempts
      BY <1>2 DEF ReadResends, store
    <2>3. LetThrough(e) = {}
      BY <1>2, <2>1 DEF LetThrough, At
    <2> QED
      BY <2>1, <2>2, <2>3 DEF Idles, Resenders
  <1>3. ASSUME NEW s \in Slots, BumpResends(s), req[s].email # e
        PROVE  Idles(e)
    <2>1. /\ req'[s] = SendOtp(req[s].email) /\ \A q \in Slots \ {s} : req'[q] = req[q]
      BY <1>3, Moved DEF BumpResends
    <2>2. req'[s].pc = "otp.store"
      BY <2>1 DEF SendOtp, Idle
    <2>3. otpResendAttempts'[e] = otpResendAttempts[e]
      BY <1>3 DEF BumpResends, Typed, TypeOK, StoreTypeOK
    <2>4. LetThrough(e) = {}
      BY <1>3, <2>1 DEF LetThrough, At
    <2> QED
      BY <2>1, <2>2, <2>3, <2>4 DEF Idles, Resenders
  <1>4. ASSUME NEW f \in Emails, ExpireAttempts(f) \/ ExpireResends(f)
        PROVE  otpResendAttempts'[e] = 0 \/ Idles(e)
    <2>1. UNCHANGED req
      BY <1>4 DEF ExpireAttempts, ExpireResends
    <2>2. LetThrough(e) = {}
      BY <2>1 DEF LetThrough, At
    <2>3. otpResendAttempts'[e] \in {0, otpResendAttempts[e]}
      BY <1>4 DEF ExpireAttempts, ExpireResends, Typed, TypeOK, StoreTypeOK
    <2> QED
      BY <2>1, <2>2, <2>3 DEF Idles, Resenders
  <1>5. ASSUME NEW s \in Slots, CounterStep(s), ~Idles(e)
        PROVE  /\ req[s].email = e
               /\ BumpResends(s) \/ (ReadResends(s) /\ ~Finish(s))
    <2>1. CASE \/ ReadAttempts(s) \/ CompareOtp(s) \/ CountMiss(s) \/ DropCount(s)
               \/ Fail(s)
      BY <1>5, <2>1, CounterIdles
    <2>2. CASE ReadResends(s)
      <3>1. ~Finish(s)
        BY <1>5, <2>2, CounterIdles
      <3> QED
        BY <1>2, <1>5, <2>2, <3>1
    <2>3. CASE BumpResends(s)
      BY <1>3, <1>5, <2>3
    <2> QED
      BY <1>5, <2>1, <2>2, <2>3 DEF CounterStep
  <1> QED
    BY <1>1, <1>4, <1>5, StepKinds

(* The resends for an address while the counter is left alone.             *)
LEMMA IdlesFits ==
    ASSUME Typed, ResendsWithin, NEW e \in Emails, Idles(e),
           resends'[e] \in {resends[e], 0}
    PROVE  ResendFits(e)'
  <1>1. /\ Counting(Resenders(e), req) /\ otpResendAttempts[e] \in 0..OtpLimit
        /\ ResendsLeft(e) \in Int /\ ResendsLeft(e)' \in Int
        /\ ResendsLeft(e) <= ResendsLeft(e)'
    BY ResendersCount DEF ResendsLeft, ResendsWithin
  <1>2. Resenders(e)' \subseteq Resenders(e)
    BY DEF Idles
  <1>3. \A s \in Resenders(e)' : req'[s].count = req[s].count
    BY DEF Idles
  <1>4. Fits(ResendsLeft(e)', otpResendAttempts[e], Resenders(e)', req')
    BY <1>1, <1>2, <1>3, FitsLess DEF ResendsWithin, ResendFits
  <1> QED
    BY <1>4 DEF ResendFits, Idles

LEMMA ClearedFits ==
    ASSUME Typed', FewSlots, NEW e \in Emails, otpResendAttempts'[e] = 0, resends'[e] = 0
    PROVE  ResendFits(e)'
  <1>1. Counting(Resenders(e)', req')
    BY DEF Counting, Resenders, Typed, TypeOK, LocalsOK, Request
  <1>2. Fits(Tries(0), 0, Resenders(e)', req')
    BY <1>1, FitsClear
  <1>3. ResendsLeft(e)' = Tries(0)
    <2>1. Tries(0) \in Nat
      BY OtpLimitAssumption, TriesFacts
    <2> QED
      BY <2>1 DEF ResendsLeft
  <1> QED
    BY <1>2, <1>3 DEF ResendFits

LEMMA ReadFits ==
    ASSUME Typed, FewSlots, ResendsWithin, NEW s \in Slots, NEW e \in Emails,
           ReadResends(s), ~Finish(s), req[s].email = e, resends'[e] = resends[e]
    PROVE  ResendFits(e)'
  <1>0. PICK n \in 0..OtpLimit : n = otpResendAttempts[e] /\ OtpLimit \in Nat
    BY OtpLimitAssumption DEF Typed, TypeOK, StoreTypeOK
  <1>1. req[s].pc = "resend.attempts" /\ UNCHANGED otpResendAttempts
    BY DEF ReadResends, At, store
  <1>2. /\ req'[s].pc = "resend.bump" /\ req'[s].email = e /\ req'[s].count = n
        /\ n < OtpLimit /\ \A q \in Slots \ {s} : req'[q] = req[q]
    BY <1>0, LetIn
  <1>3. Resenders(e)' = Resenders(e) \cup {s} /\ s \notin Resenders(e)
    BY <1>1, <1>2 DEF Resenders
  <1>4. /\ Fits(ResendsLeft(e), n, Resenders(e), req) /\ Counting(Resenders(e), req)
        /\ ResendsLeft(e) \in Int /\ ResendsLeft(e)' = ResendsLeft(e)
        /\ \A t \in Resenders(e) : req'[t].count = req[t].count
    <2>1. ResendsLeft(e) \in Int /\ ResendsLeft(e)' = ResendsLeft(e)
      BY ResendersCount DEF ResendsWithin, ResendsLeft
    <2>2. \A t \in Resenders(e) : req'[t].count = req[t].count
      BY <1>2, <1>3 DEF Resenders
    <2> QED
      BY <1>0, <2>1, <2>2, ResendersCount DEF ResendsWithin, ResendFits
  <1>5. Fits(ResendsLeft(e), n, Resenders(e) \cup {s}, req')
    BY <1>2, <1>3, <1>4, FitsRead
  <1> QED
    BY <1>0, <1>1, <1>3, <1>4, <1>5 DEF ResendFits

LEMMA BumpFits ==
    ASSUME Typed, FewSlots, ResendsWithin, NEW s \in Slots, NEW e \in Emails,
           BumpResends(s), req[s].email = e, resends'[e] = resends[e] + 1
    PROVE  ResendFits(e)'
  <1>0. PICK n \in 0..OtpLimit : n = otpResendAttempts[e]
    BY DEF Typed, TypeOK, StoreTypeOK
  <1>1. /\ req[s].pc = "resend.bump" /\ otpResendAttempts'[e] = req[s].count + 1
        /\ req'[s] = SendOtp(e) /\ \A q \in Slots \ {s} : req'[q] = req[q]
    BY Moved DEF BumpResends, At, Typed, TypeOK, StoreTypeOK
  <1>2. req'[s].pc = "otp.store"
    BY <1>1 DEF SendOtp, Idle
  <1>3. Resenders(e)' = Resenders(e) \ {s} /\ s \in Resenders(e)
    BY <1>1, <1>2 DEF Resenders
  <1>4. /\ Fits(ResendsLeft(e), n, Resenders(e), req) /\ Counting(Resenders(e), req)
        /\ ResendsLeft(e) \in Int /\ ResendsLeft(e)' = ResendsLeft(e) - 1
        /\ \A t \in Resenders(e) \ {s} : req'[t].count = req[t].count
    <2>1. ResendsLeft(e) \in Int /\ ResendsLeft(e)' = ResendsLeft(e) - 1
      BY ResendersCount DEF ResendsWithin, ResendsLeft
    <2>2. \A t \in Resenders(e) \ {s} : req'[t].count = req[t].count
      BY <1>1 DEF Resenders
    <2> QED
      BY <1>0, <2>1, <2>2, ResendersCount DEF ResendsWithin, ResendFits
  <1>5. Fits(ResendsLeft(e) - 1, req[s].count + 1, Resenders(e) \ {s}, req')
    BY <1>3, <1>4, FitsWrite
  <1> QED
    BY <1>1, <1>3, <1>4, <1>5 DEF ResendFits

LEMMA StepResends ==
    ASSUME Typed, Typed', FewSlots, ResendsWithin, [Next]_vars, CountResends
    PROVE  ResendsWithin'
  <1>1. ASSUME NEW e \in Emails, otpResendAttempts'[e] = 0
        PROVE  resends'[e] \in Nat /\ ResendFits(e)'
    <2>1. resends'[e] = 0
      BY <1>1 DEF CountResends
    <2> QED
      BY <1>1, <2>1, ClearedFits
  <1>2. ASSUME NEW e \in Emails, otpResendAttempts'[e] # 0, Idles(e)
        PROVE  resends'[e] \in Nat /\ ResendFits(e)'
    <2>1. resends'[e] = resends[e] /\ resends[e] \in Nat
      <3>1. Cardinality(LetThrough(e)) = 0 /\ resends[e] \in Nat
        BY <1>2, FS_EmptySet DEF Idles, ResendsWithin
      <3> QED
        BY <1>2, <3>1 DEF CountResends
    <2> QED
      BY <1>2, <2>1, IdlesFits
  <1>3. ASSUME NEW e \in Emails, otpResendAttempts'[e] # 0, NEW s \in Slots,
               req[s].email = e, ReadResends(s), ~Finish(s)
        PROVE  resends'[e] \in Nat /\ ResendFits(e)'
    <2>1. req'[s].pc = "resend.bump" /\ \A q \in Slots \ {s} : req'[q] = req[q]
      BY <1>3, LetIn
    <2>2. LetThrough(e) = {}
      BY <2>1 DEF LetThrough, At
    <2>3. resends'[e] = resends[e] /\ resends[e] \in Nat
      BY <1>3, <2>2, FS_EmptySet DEF CountResends, ResendsWithin
    <2> QED
      BY <1>3, <2>3, ReadFits
  <1>4. ASSUME NEW e \in Emails, otpResendAttempts'[e] # 0, NEW s \in Slots,
               req[s].email = e, BumpResends(s)
        PROVE  resends'[e] \in Nat /\ ResendFits(e)'
    <2>1. req'[s] = SendOtp(e) /\ \A q \in Slots \ {s} : req'[q] = req[q]
      BY <1>4, Moved DEF BumpResends
    <2>2. req'[s].pc = "otp.store" /\ req[s].pc = "resend.bump"
      BY <1>4, <2>1 DEF SendOtp, Idle, BumpResends, At
    <2>3. LetThrough(e) = {s}
      BY <1>4, <2>1, <2>2 DEF LetThrough, At
    <2>4. resends'[e] = resends[e] + 1 /\ resends[e] \in Nat
      BY <1>4, <2>3, FS_Singleton DEF CountResends, ResendsWithin
    <2> QED
      BY <1>4, <2>4, BumpFits
  <1>5. \A e \in Emails : resends'[e] \in Nat /\ ResendFits(e)'
    BY <1>1, <1>2, <1>3, <1>4, ResendKinds
  <1> QED
    BY <1>5 DEF ResendsWithin, CountResends

LEMMA AlwaysResends ==
    ASSUME FewSlots
    PROVE  SystemSpec => [](Typed /\ ResendsWithin)
  <1>1. SystemInit => ResendsWithin
    <2> SUFFICES ASSUME SystemInit, NEW e \in Emails PROVE ResendFits(e)
      BY DEF ResendsWithin, SystemInit
    <2>1. Resenders(e) = {}
      BY DEF SystemInit, Init, Resenders, Idle
    <2>2. otpResendAttempts[e] = 0 /\ resends[e] = 0
      BY DEF SystemInit, Init, StoreInit
    <2>3. Tries(0) \in Nat
      BY OtpLimitAssumption, TriesFacts
    <2> QED
      BY <2>1, <2>2, <2>3 DEF ResendFits, Fits, ResendsLeft
  <1>2. /\ Typed /\ Secured /\ (Typed /\ Secured)' /\ ResendsWithin
        /\ [SystemNext]_<<vars, queueVars, resends>>
        => ResendsWithin'
    <2> SUFFICES ASSUME Typed, Typed', ResendsWithin,
                        [SystemNext]_<<vars, queueVars, resends>>
                 PROVE  ResendsWithin'
      OBVIOUS
    <2>1. CASE Next /\ CountResends
      BY <2>1, StepResends
    <2>2. CASE UNCHANGED <<vars, resends>>
      BY <2>2 DEF vars, store, ResendsWithin, ResendFits, ResendsLeft, Resenders, Fits
    <2> QED
      BY <2>1, <2>2 DEF SystemNext
  <1> QED
    BY <1>1, <1>2, SystemRunsService, AlwaysSecured, PTL DEF SystemSpec

(* How many codes resendVerificationEmail sends to an address before its   *)
(* counter expires, in instances of one or two slots: with one request in  *)
(* flight as many as the limit, with two at most limit * (limit + 3) / 2,  *)
(* whatever the limit is.                                                  *)
THEOREM ResendsAreBounded == FewSlots => (SystemSpec => []ResendsBounded)
  <1> SUFFICES ASSUME FewSlots PROVE SystemSpec => []ResendsBounded
    OBVIOUS
  <1>1. Typed /\ ResendsWithin => ResendsBounded
    <2> SUFFICES ASSUME Typed, ResendsWithin, NEW e \in Emails
                 PROVE  resends[e] <= ResendBound
      BY DEF ResendsBounded
    <2>1. /\ otpResendAttempts[e] \in 0..OtpLimit /\ Tries(0) \in Nat
          /\ resends[e] \in Nat
      BY ResendersCount DEF ResendsWithin
    <2>2. Tries(otpResendAttempts[e]) \in Nat
      BY <2>1, TriesFacts
    <2>3. Tries(otpResendAttempts[e]) <= Tries(0) - resends[e]
      BY DEF ResendsWithin, ResendFits, ResendsLeft, Fits
    <2>4. ResendBound = Tries(0)
      <3>1. OtpLimit - 0 = OtpLimit
        BY OtpLimitAssumption
      <3> QED
        BY <3>1 DEF ResendBound, Tries, Triangle, OneSlot
    <2> HIDE DEF Tries, ResendBound
    <2> QED
      BY <2>1, <2>2, <2>3, <2>4
  <1> QED
    BY <1>1, AlwaysResends, PTL

----------------------------------------------------------------------------
(* Codes: from the key in Redis to Resend                                  *)

LEMMA SameQueue == Mailer!Spec => Queue!Spec
  <1>1. Mailer!Init <=> Queue!Init
    BY DEF Mailer!Init, Queue!Init, Mailer!QueueInit, Queue!QueueInit,
           Mailer!Free, Queue!Free
  <1>2. ASSUME NEW j \in Mails
        PROVE  /\ Mailer!Add(j) <=> Queue!Add(j)
               /\ Mailer!Promote(j) <=> Queue!Promote(j)
               /\ Mailer!Stall(j) <=> Queue!Stall(j)
    BY DEF Mailer!Add, Queue!Add, Mailer!Promote, Queue!Promote, Mailer!Stall,
           Queue!Stall, Mailer!Move, Queue!Move, Mailer!Queued, Queue!Queued
  <1>3. ASSUME NEW w \in Workers
        PROVE  /\ Mailer!Take(w) <=> Queue!Take(w)
               /\ Mailer!Crash(w) <=> Queue!Crash(w)
               /\ Mailer!Restart(w) <=> Queue!Restart(w)
    BY DEF Mailer!Take, Queue!Take, Mailer!Crash, Queue!Crash, Mailer!Restart,
           Queue!Restart, Mailer!Move, Queue!Move, Mailer!In, Queue!In,
           Mailer!Release, Queue!Release, Mailer!Free, Queue!Free
  <1>4. ASSUME NEW w \in Workers
        PROVE  /\ Mailer!HandleTemplated(w) <=> Queue!HandleTemplated(w)
               /\ Mailer!HandleContactUs(w) <=> Queue!HandleContactUs(w)
    <2>1. /\ Mailer!Send(w) <=> Queue!Send(w)
          /\ Mailer!RenderFails(w) <=> Queue!RenderFails(w)
      BY DEF Mailer!Send, Queue!Send, Mailer!RenderFails, Queue!RenderFails,
             Mailer!WorkerGoes, Queue!WorkerGoes, Mailer!JobOf, Queue!JobOf
    <2> QED
      BY <2>1 DEF Mailer!HandleTemplated, Queue!HandleTemplated,
                  Mailer!HandleContactUs, Queue!HandleContactUs, Mailer!In, Queue!In,
                  Mailer!JobOf, Queue!JobOf, Mailer!Templated, Queue!Templated
  <1>5. ASSUME NEW w \in Workers
        PROVE  /\ Mailer!Complete(w) <=> Queue!Complete(w)
               /\ Mailer!Retry(w) <=> Queue!Retry(w)
    BY DEF Mailer!Complete, Queue!Complete, Mailer!Retry, Queue!Retry,
           Mailer!HoldsLock, Queue!HoldsLock, Mailer!JobOf, Queue!JobOf,
           Mailer!Move, Queue!Move, Mailer!Release, Queue!Release, Mailer!Free,
           Queue!Free, Mailer!In, Queue!In, Mailer!AttemptsLeft, Queue!AttemptsLeft
  <1>6. Mailer!Next <=> Queue!Next
    BY <1>2, <1>3, <1>4, <1>5 DEF Mailer!Next, Queue!Next, Mailer!Deliver,
       Queue!Deliver, Mailer!Work, Queue!Work
  <1>7. Mailer!queueVars = Queue!queueVars /\ Mailer!queueVars' = Queue!queueVars'
    BY DEF Mailer!queueVars, Queue!queueVars
  <1>8. [Mailer!Next]_(Mailer!queueVars) => [Queue!Next]_(Queue!queueVars)
    BY <1>6, <1>7
  <1> QED
    BY <1>1, <1>8, PTL DEF Mailer!Spec, Queue!Spec

(* The theorems about the queue hold of it in the whole.                   *)
LEMMA QueueInside ==
    SystemSpec => [](Queue!TypeOK /\ Queue!CompletedWasSent)
  <1>1. /\ Queue!KindAssumption /\ Queue!AttemptsAssumption
        /\ Queue!WorkersAssumption /\ Queue!NoneAssumption
    <2>1. Queue!KindAssumption
      BY QueueAssumption DEF Mailer!KindAssumption, Queue!KindAssumption, Mailer!Kinds,
                             Queue!Kinds, Mailer!Templated, Queue!Templated
    <2>2. Queue!AttemptsAssumption
      BY QueueAssumption DEF Mailer!AttemptsAssumption, Queue!AttemptsAssumption
    <2>3. Queue!WorkersAssumption
      BY QueueAssumption DEF Mailer!WorkersAssumption, Queue!WorkersAssumption,
                             Mailer!IsFiniteSet, Queue!IsFiniteSet
    <2>4. Queue!NoneAssumption
      BY QueueAssumption DEF Mailer!NoneAssumption, Queue!NoneAssumption
    <2> QED
      BY <2>1, <2>2, <2>3, <2>4
  <1>2. Queue!Spec => []Queue!TypeOK
    BY <1>1, Queue!QueueTyped
  <1>3. Queue!Spec => []Queue!CompletedWasSent
    BY <1>1, Queue!CompletedMailsSent
  <1> QED
    BY <1>2, <1>3, SameQueue, SystemRunsQueue, PTL

(* A step of the service queues at most one mail.                          *)
LEMMA OneMail ==
    ASSUME [Next]_vars
    PROVE  \E m : outbox' \subseteq outbox \cup {m}
  <1>1. SUFFICES ASSUME ~(outbox' \subseteq outbox) 
                 PROVE  \E m : outbox' \subseteq outbox \cup {m}
    OBVIOUS
  <1>2. ASSUME NEW m, Enqueue(m) PROVE \E n : outbox' \subseteq outbox \cup {n}
    BY <1>2 DEF Enqueue
  <1>3. ASSUME NEW s \in Slots, Continue(s)
        PROVE  \E m : outbox' \subseteq outbox \cup {m}
    <2>1. CASE MailOtp(s) \/ MailResetLink(s) \/ MailWelcome(s) \/ MailPasswordUpdate(s)
      BY <1>2, <2>1 DEF MailOtp, MailResetLink, MailWelcome, MailPasswordUpdate
    <2>2. CASE \/ RegisterInsert(s) \/ StoreOtp(s) \/ StoreSession(s) \/ ReadAttempts(s)
               \/ CompareOtp(s) \/ CountMiss(s) \/ MarkVerified(s) \/ DropCode(s)
               \/ DropCount(s) \/ ReadResends(s) \/ BumpResends(s) \/ StoreResetToken(s)
               \/ ResetFindUser(s) \/ ResetFindOne(s) \/ ResetUpdate(s)
               \/ DropResetToken(s) \/ GoogleFindByEmail(s) \/ GoogleUpsert(s)
               \/ GoogleLoad(s) \/ RemoveDelete(s)
      <3>1. UNCHANGED outbox
        BY <2>2 DEF RegisterInsert, StoreOtp, StoreSession, ReadAttempts, CompareOtp,
                    CountMiss, MarkVerified, DropCode, DropCount, ReadResends,
                    BumpResends, StoreResetToken, ResetFindUser, ResetFindOne,
                    ResetUpdate, DropResetToken, GoogleFindByEmail, GoogleUpsert,
                    GoogleLoad, RemoveDelete, store
      <3> QED
        BY <1>1, <3>1
    <2> QED
      BY <1>3, <2>1, <2>2 DEF Continue
  <1>4. CASE \/ \E s \in Slots : Arrive(s) \/ Fail(s)
             \/ \E id \in Ids : Logout(id)
             \/ \E e \in Emails : Expire(e)
             \/ Tick \/ UNCHANGED vars
    <2>1. UNCHANGED outbox
      BY <1>4 DEF Arrive, Register, Login, VerifyEmail, Resend, Forgot, Reset, Refresh,
                  Google, Remove, Fail, Logout, Expire, ExpireCode, ExpireAttempts,
                  ExpireResends, ExpireResetToken, Tick, vars, store
    <2> QED
      BY <1>1, <2>1
  <1> QED
    BY <1>3, <1>4 DEF Next

(* The queue does not forget a job.                                        *)
LEMMA NotForgotten ==
    ASSUME Queue!TypeOK, Mailer!Deliver, NEW m \in Mails, state[m] # "absent"
    PROVE  state'[m] # "absent"
  <1>1. state \in [Mails -> Queue!JobStates]
    BY DEF Queue!TypeOK
  <1>2. ASSUME NEW j, NEW to, to # "absent", Mailer!Move(j, to)
        PROVE  state'[m] # "absent"
    BY <1>1, <1>2 DEF Mailer!Move
  <1>3. ASSUME NEW w \in Workers, Mailer!Work(w) PROVE state'[m] # "absent"
    <2>1. CASE Mailer!Take(w)
      BY <1>2, <2>1 DEF Mailer!Take
    <2>2. CASE Mailer!Complete(w) \/ Mailer!Retry(w)
      BY <1>2, <2>2 DEF Mailer!Complete, Mailer!Retry
    <2>3. CASE Mailer!HandleTemplated(w) \/ Mailer!HandleContactUs(w) \/ Mailer!Restart(w)
      BY <2>3 DEF Mailer!HandleTemplated, Mailer!HandleContactUs, Mailer!Restart
    <2> QED
      BY <1>3, <2>1, <2>2, <2>3 DEF Mailer!Work
  <1>4. ASSUME NEW w \in Workers, Mailer!Crash(w) PROVE state'[m] # "absent"
    BY <1>4 DEF Mailer!Crash
  <1>5. ASSUME NEW j \in Mails, Mailer!Promote(j) \/ Mailer!Stall(j)
        PROVE  state'[m] # "absent"
    BY <1>2, <1>5 DEF Mailer!Promote, Mailer!Stall
  <1> QED
    BY <1>3, <1>4, <1>5 DEF Mailer!Deliver

(* Every mail of the outbox has become a job.                              *)
Handed == \A m \in outbox : state[m] # "absent"

LEMMA StepHanded ==
    ASSUME Queue!TypeOK, Known, Known', Handed,
           [SystemNext]_<<vars, queueVars, resends>>
    PROVE  Handed'
  <1>1. CASE Next /\ HandOver
    <2> DEFINE new == outbox' \ outbox
    <2>1. PICK m : outbox' \subseteq outbox \cup {m}
      BY <1>1, OneMail
    <2>2. CASE new = {} /\ UNCHANGED queueVars
      BY <2>2 DEF Handed, queueVars
    <2>3. ASSUME NEW n \in new, Mailer!Add(n) PROVE Handed'
      <3>1. outbox' \subseteq outbox \cup {n}
        BY <2>1
      <3>2. state' = [state EXCEPT ![n] = "waiting"] /\ state[n] = "absent"
        BY <2>3 DEF Mailer!Add, Mailer!Move
      <3>3. state'[n] = "waiting"
        <4>1. state \in [Mails -> Queue!JobStates] /\ n \in Mails
          BY DEF Queue!TypeOK, Known
        <4> QED
          BY <3>2, <4>1
      <3> QED
        BY <3>1, <3>2, <3>3 DEF Handed, Known
    <2> QED
      BY <1>1, <2>2, <2>3 DEF HandOver
  <1>2. CASE Mailer!Deliver /\ UNCHANGED vars
    BY <1>2, NotForgotten DEF Handed, Known, vars, store
  <1>3. CASE UNCHANGED <<vars, queueVars, resends>>
    BY <1>3 DEF Handed, vars, store, queueVars
  <1> QED
    BY <1>1, <1>2, <1>3 DEF SystemNext

LEMMA AlwaysHanded ==
    SystemSpec => [](Known /\ Handed)
  <1>1. SystemInit => Known /\ Handed
    BY DEF SystemInit, Init, StoreInit, Known, Handed
  <1>2. Typed /\ Queue!TypeOK /\ Known /\ Handed
          /\ [SystemNext]_<<vars, queueVars, resends>> => Known' /\ Handed'
    <2>1. [SystemNext]_<<vars, queueVars, resends>> => [Next]_vars
      BY DEF SystemNext
    <2> QED
      BY <2>1, StepKnown, StepHanded
  <1> QED
    BY <1>1, <1>2, SystemRunsService, AlwaysSecured, QueueInside, PTL
       DEF SystemSpec

(* From the handler to Resend: as long as no request is cut short, the     *)
(* code an address can be verified with is on its way there.  The request  *)
(* that stored it still has to queue its mail, or the mail's job waits,    *)
(* runs, has failed for good, or its mail was accepted.                    *)
THEOREM CodesAreDelivered == SystemSpec => []LiveCodeIsDelivered
  <1>1. /\ LiveCodeReachesOwner /\ Known /\ Handed
        /\ Queue!TypeOK /\ Queue!CompletedWasSent
        => LiveCodeIsDelivered
    <2> DEFINE stored(e) == \E s \in Slots : At(s, "otp.mail") /\ req[s].email = e
                                                             /\ req[s].made = otp[e]
               onItsWay(m) == \/ state[m] \in {"waiting", "active", "delayed"}
                              \/ state[m] = "failed" \/ sent[m] > 0
    <2> SUFFICES ASSUME LiveCodeReachesOwner, Known, Handed,
                        Queue!TypeOK, Queue!CompletedWasSent
                 PROVE  LiveCodeIsDelivered
      OBVIOUS
    <2>1. ASSUME NEW e \in Emails, otp[e] # None, faults = 0, ~stored(e)
          PROVE  onItsWay(Mail("verify", e, otp[e]))
      <3> DEFINE m == Mail("verify", e, otp[e])
      <3>1. m \in outbox
        BY <2>1 DEF LiveCodeReachesOwner
      <3>2. m \in Mails /\ state[m] # "absent"
        BY <3>1 DEF Known, Handed
      <3> HIDE DEF m
      <3>3. state[m] \in Queue!JobStates
        <4>1. state \in [Mails -> Queue!JobStates]
          BY DEF Queue!TypeOK
        <4> QED
          BY <3>2, <4>1
      <3>4. state[m] = "completed" => sent[m] > 0
        BY <3>2 DEF Queue!CompletedWasSent
      <3>5. onItsWay(m)
        BY <3>2, <3>3, <3>4 DEF Queue!JobStates
      <3> QED
        BY <3>5 DEF m
    <2> QED
      BY <2>1 DEF LiveCodeIsDelivered
  <1> QED
    BY <1>1, SystemRunsService, CodesReachOwners, AlwaysHanded, QueueInside, PTL

============================================================================
