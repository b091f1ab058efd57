------------------------------ MODULE AuthMail ------------------------------
(***************************************************************************)
(* AuthService and the e-mail queue together: every mail a handler puts    *)
(* into the outbox is a job of EmailQueue, added in the same step.  A mail *)
(* with the same kind, address and secret as an earlier one (a repeated    *)
(* code) is not represented by a second job.                               *)
(***************************************************************************)
EXTENDS AuthProperties

CONSTANTS Workers,     \* processes that run EmailProcessor
          Attempts,    \* attempts per job
          MaxStalled   \* stalls per job before it fails

VARIABLES state, wait, lock, attempts, stalls, worker, sent,
          resends  \* history: codes sent by resends since the counter began

Mails == {Mail("verify", e, c) : e \in Emails, c \in Codes}
         \cup {Mail("passwordReset", e, t) : e \in Emails, t \in ResetTokens}
         \cup {Mail(kind, e, None) : kind \in {"welcome", "passwordUpdate"},
                                     e \in Emails}

Mailer == INSTANCE EmailQueue WITH Jobs <- Mails

ASSUME QueueAssumption == /\ Mailer!AttemptsAssumption /\ Mailer!WorkersAssumption
                          /\ Mailer!KindAssumption /\ Mailer!NoneAssumption

queueVars == <<state, wait, lock, attempts, stalls, worker, sent>>

(* What the handlers of this step have put into the outbox.                *)
HandOver ==
    LET new == outbox' \ outbox
    IN \/ new = {} /\ UNCHANGED queueVars
       \/ \E m \in new : Mailer!Add(m)

(* The requests for e that the resend counter has let through just now.    *)
LetThrough(e) == {s \in Slots : At(s, "resend.bump") /\ req[s].email = e
                                                    /\ req'[s].pc = "otp.store"}
CountResends ==
    resends' = [e \in Emails |->
                  IF otpResendAttempts'[e] = 0
                  THEN 0 ELSE resends[e] + Cardinality(LetThrough(e))]

SystemInit == Init /\ Mailer!QueueInit /\ resends = [e \in Emails |-> 0]

SystemNext == \/ Next /\ HandOver /\ CountResends
              \/ Mailer!Deliver /\ UNCHANGED <<vars, resends>>

SystemSpec == /\ SystemInit
              /\ [][SystemNext]_<<vars, queueVars, resends>>
              /\ \A s \in Slots : WF_vars(Continue(s))
              /\ Mailer!QueueFairness

----------------------------------------------------------------------------
(* How many codes resendVerificationEmail sends before its counter expires *)
(* is the limit when requests come one at a time.  The counter is written  *)
(* back an await after it is read, so of two requests in flight the slower *)
(* one sets it back, once from each value it passes through.  (For         *)
(* instances of one or two slots.)                                         *)
ResendBound == IF Cardinality(Slots) = 1 THEN OtpLimit
               ELSE (OtpLimit * (OtpLimit + 3)) \div 2
ResendsBounded == \A e \in Emails : resends[e] <= ResendBound

(* A code that counts does not get lost on its way: unless a request was   *)
(* cut short, its mail is about to be queued or in the queue, or Resend    *)
(* has accepted it, or the job is kept as failed.                          *)
LiveCodeIsDelivered ==
    \A e \in Emails : otp[e] # None /\ faults = 0 =>
        LET m == Mail("verify", e, otp[e])
        IN \/ \E s \in Slots : At(s, "otp.mail") /\ req[s].email = e
                                                /\ req[s].made = otp[e]
           \/ state[m] \in {"waiting", "active", "delayed"}
           \/ state[m] = "failed" \/ sent[m] > 0

(* A registered user is reached: once the row exists, unless a request is  *)
(* cut short, Resend accepts a mail with a code for the address, or a job  *)
(* with such a mail has used up its attempts and is kept as failed.        *)
RegisteredUserIsReached ==
    \A e \in Emails :
        (\E id \in WithEmail(e) : ~users[id].verified)
          ~> (faults > 0 \/ \E c \in Codes : LET m == Mail("verify", e, c)
                                             IN sent[m] > 0 \/ state[m] = "failed")

============================================================================
