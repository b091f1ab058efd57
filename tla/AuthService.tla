---------------------------- MODULE AuthService ----------------------------
(***************************************************************************)
(* AuthService and the parts of UsersService it calls, as the handlers run *)
(* on the Node event loop: any number of requests are in flight (one per   *)
(* slot), each is suspended at an await, and between two awaits another    *)
(* request may run.  A request is a record: where it is suspended and the  *)
(* locals the rest of the handler still reads.  The first awaited read of  *)
(* a handler is taken together with the arrival of the request; a request  *)
(* refused by that read changes nothing and is not represented.            *)
(***************************************************************************)
EXTENDS AuthStore

CONSTANTS Slots,      \* requests that may be in flight at the same time
          Endpoints   \* endpoints the clients of this instance call

VARIABLES
    req,      \* req[s]: the request in slot s
    \* History: what the properties need and the program does not keep.
    issued,   \* <<address, secret>>: secrets whose holder owns the address
    spent,    \* reset tokens a completed reset has deleted
    misses,   \* wrong OTPs per address since its counter was last cleared
    revoked,  \* refresh tokens that were current at a logout
    faults    \* requests cut short so far

history == <<issued, spent, misses, revoked>>
vars == <<store, req, history, faults>>

Secrets == Codes \cup ResetTokens \cup GoogleIds

Request == [pc       : {"idle", "register.insert", "otp.store", "otp.mail",
                        "session.store", "verify.attempts", "verify.code",
                        "verify.miss", "verify.mark", "verify.dropCode",
                        "verify.dropCount", "verify.welcome",
                        "resend.attempts", "resend.bump",
                        "forgot.mail", "forgot.store", "reset.findByEmail",
                        "reset.findOne", "reset.update", "reset.mail",
                        "reset.drop", "google.findByEmail", "google.upsert",
                        "google.load", "remove.delete"},
            email    : Emails \cup {None},
            id       : Ids \cup {None},
            given    : Secrets \cup {None},
            password : Passwords \cup {None},
            made     : Codes \cup ResetTokens \cup {None},
            count    : 0..OtpLimit]

Idle == [pc |-> "idle", email |-> None, id |-> None, given |-> None,
         password |-> None, made |-> None, count |-> 0]

At(s, pc) == req[s].pc = pc
Become(s, r) == req' = [req EXCEPT ![s] = r]
Accept(s, endpoint, r) == At(s, "idle") /\ endpoint \in Endpoints /\ Become(s, r)
Goto(s, pc) == Become(s, [req[s] EXCEPT !.pc = pc])
Finish(s) == Become(s, Idle)

----------------------------------------------------------------------------
(* Continuations several handlers share *)

\* Slip: the caller forgets sendVerificationEmail.
SendOtpNever(e) == Idle
SendOtp(e) == [Idle EXCEPT !.pc = "otp.store", !.email = e]
IssueTokens(id) == [Idle EXCEPT !.pc = "session.store", !.id = id]

(* sendVerificationEmail: the code is stored first and mailed second. *)
StoreOtp(s) ==
    /\ At(s, "otp.store")
    /\ \E c \in Codes :
         /\ SetCode(req[s].email, c)
         /\ issued' = issued \cup {<<req[s].email, c>>}
         /\ Become(s, [req[s] EXCEPT !.pc = "otp.mail", !.made = c])
    /\ UNCHANGED <<users, otpAttempts, otpResendAttempts, passwordResetToken,
                   outbox, signed, now, spent, misses, revoked, faults>>

MailOtp(s) ==
    /\ At(s, "otp.mail")
    /\ Enqueue(Mail("verify", req[s].email, req[s].made))
    /\ Finish(s)
    /\ UNCHANGED <<users, otp, otpAttempts, otpResendAttempts,
                   passwordResetToken, signed, now, history, faults>>

(* signTokens and persistRefreshToken; the client gets the token once its  *)
(* hash is stored, or once the UPDATE has matched no row.                  *)
StoreSession(s) ==
    LET token == [sub |-> req[s].id, iat |-> now]
    IN /\ At(s, "session.store")
       /\ UpdateSession(req[s].id, BcryptPrefix(token))
       /\ signed' = signed \cup {token}
       /\ revoked' = revoked \ {token}
       /\ Finish(s)
       /\ UNCHANGED <<otp, otpAttempts, otpResendAttempts, passwordResetToken,
                      outbox, now, issued, spent, misses, faults>>

----------------------------------------------------------------------------
(* register, login *)

Register(s, e, p) ==
    /\ WithEmail(e) = {}
    /\ Accept(s, "register",
              [Idle EXCEPT !.pc = "register.insert", !.email = e, !.password = p])
    /\ UNCHANGED <<store, history, faults>>

(* The row of a concurrent registration makes the INSERT fail. *)
RegisterInsert(s) ==
    /\ At(s, "register.insert")
    /\ \/ /\ AddressFree(req[s].email)
          /\ \E id \in Ids :
               Insert(id, NewRow(req[s].email, req[s].password, None, FALSE, 1))
          /\ Become(s, SendOtp(req[s].email))
       \/ /\ ~AddressFree(req[s].email)
          /\ Finish(s)
          /\ UNCHANGED users
    /\ UNCHANGED <<otp, otpAttempts, otpResendAttempts, passwordResetToken,
                   outbox, signed, now, history, faults>>

\* Slip: the password is all that login checks.
LoginOutcomeUnchecked(id) == IssueTokens(id)
LoginOutcome(id) == IF users[id].verified THEN IssueTokens(id)
                                          ELSE SendOtp(users[id].email)

Login(s, e, p) ==
    /\ \E id \in WithEmail(e) : /\ users[id].password = p
                                /\ Accept(s, "login", LoginOutcome(id))
    /\ UNCHANGED <<store, history, faults>>

----------------------------------------------------------------------------
(* verifyEmail *)

VerifyEmail(s, e, c) ==
    /\ \E id \in WithEmail(e) :
         /\ ~users[id].verified
         /\ Accept(s, "verifyEmail",
                   [Idle EXCEPT !.pc = "verify.attempts", !.email = e,
                                !.id = id, !.given = c])
    /\ UNCHANGED <<store, history, faults>>

\* Slip: one attempt too many.
AttemptsExceededLate(attempts) == attempts > OtpLimit
AttemptsExceeded(attempts) == attempts >= OtpLimit

ReadAttempts(s) ==
    /\ At(s, "verify.attempts")
    /\ LET attempts == otpAttempts[req[s].email]
       IN IF AttemptsExceeded(attempts)
          THEN Finish(s)
          ELSE Become(s, [req[s] EXCEPT !.pc = "verify.code",
                                        !.count = attempts])
    /\ UNCHANGED <<store, history, faults>>

\* Slips: an absent code matches; any code matches while one is active.
OtpMatchesAbsent(s) == otp[req[s].email] \in {req[s].given, None}
OtpMatchesAny(s) == otp[req[s].email] # None
OtpMatches(s) == otp[req[s].email] = req[s].given

CompareOtp(s) ==
    /\ At(s, "verify.code")
    /\ \/ /\ OtpMatches(s)
          /\ Become(s, [req[s] EXCEPT !.pc = "verify.mark", !.count = 0])
          /\ UNCHANGED misses
       \/ /\ ~OtpMatches(s)
          /\ Goto(s, "verify.miss")
          /\ misses' = [misses EXCEPT ![req[s].email] = @ + 1]
    /\ UNCHANGED <<store, issued, spent, revoked, faults>>

\* Slip: the count is written back as it was read.
MissCountSame(s) == req[s].count
MissCount(s) == req[s].count + 1

(* Writes back the count read two awaits earlier. *)
CountMiss(s) ==
    /\ At(s, "verify.miss")
    /\ otpAttempts' = [otpAttempts EXCEPT ![req[s].email] = MissCount(s)]
    /\ Finish(s)
    /\ UNCHANGED <<users, otp, otpResendAttempts, passwordResetToken, outbox,
                   signed, now, history, faults>>

MarkVerified(s) ==
    /\ At(s, "verify.mark")
    /\ UpdateVerified(req[s].id)
    /\ Goto(s, "verify.dropCode")
    /\ UNCHANGED <<otp, otpAttempts, otpResendAttempts, passwordResetToken,
                   outbox, signed, now, history, faults>>

DropCode(s) ==
    /\ At(s, "verify.dropCode")
    /\ SetCode(req[s].email, None)
    /\ Goto(s, "verify.dropCount")
    /\ UNCHANGED <<users, otpAttempts, otpResendAttempts, passwordResetToken,
                   outbox, signed, now, history, faults>>

DropCount(s) ==
    /\ At(s, "verify.dropCount")
    /\ otpAttempts' = [otpAttempts EXCEPT ![req[s].email] = 0]
    /\ misses' = [misses EXCEPT ![req[s].email] = 0]
    /\ Goto(s, "verify.welcome")
    /\ UNCHANGED <<users, otp, otpResendAttempts, passwordResetToken, outbox,
                   signed, now, issued, spent, revoked, faults>>

MailWelcome(s) ==
    /\ At(s, "verify.welcome")
    /\ Enqueue(Mail("welcome", req[s].email, None))
    /\ Become(s, IssueTokens(req[s].id))
    /\ UNCHANGED <<users, otp, otpAttempts, otpResendAttempts,
                   passwordResetToken, signed, now, history, faults>>

----------------------------------------------------------------------------
(* resendVerificationEmail: asks neither whether the address is verified   *)
(* nor whether a code is active.                                           *)

Resend(s, e) ==
    /\ WithEmail(e) # {}
    /\ Accept(s, "resend", [Idle EXCEPT !.pc = "resend.attempts", !.email = e])
    /\ UNCHANGED <<store, history, faults>>

ReadResends(s) ==
    /\ At(s, "resend.attempts")
    /\ LET attempts == otpResendAttempts[req[s].email]
       IN IF AttemptsExceeded(attempts)
          THEN Finish(s)
          ELSE Become(s, [req[s] EXCEPT !.pc = "resend.bump",
                                        !.count = attempts])
    /\ UNCHANGED <<store, history, faults>>

BumpResends(s) ==
    /\ At(s, "resend.bump")
    /\ otpResendAttempts' =
         [otpResendAttempts EXCEPT ![req[s].email] = req[s].count + 1]
    /\ Become(s, SendOtp(req[s].email))
    /\ UNCHANGED <<users, otp, otpAttempts, passwordResetToken, outbox, signed,
                   now, history, faults>>

----------------------------------------------------------------------------
(* forgotPassword: the link is mailed first and its token stored second.   *)

Forgot(s, e) ==
    /\ \E id \in WithEmail(e) : users[id].verified
    /\ \E t \in ResetTokens \ (MailedTokens \cup {req[r].made : r \in Slots}) :
         Accept(s, "forgot",
                [Idle EXCEPT !.pc = "forgot.mail", !.email = e, !.made = t])
    /\ UNCHANGED <<store, history, faults>>

MailResetLink(s) ==
    /\ At(s, "forgot.mail")
    /\ Enqueue(Mail("passwordReset", req[s].email, req[s].made))
    /\ issued' = issued \cup {<<req[s].email, req[s].made>>}
    /\ Goto(s, "forgot.store")
    /\ UNCHANGED <<users, otp, otpAttempts, otpResendAttempts,
                   passwordResetToken, signed, now, spent, misses, revoked,
                   faults>>

StoreResetToken(s) ==
    /\ At(s, "forgot.store")
    /\ SetResetToken(req[s].email, req[s].made)
    /\ Finish(s)
    /\ UNCHANGED <<users, otp, otpAttempts, otpResendAttempts, outbox, signed,
                   now, history, faults>>

----------------------------------------------------------------------------
(* resetPassword *)

\* Slips: no token is asked for when none is stored; the stored one is
\* not compared with the one given.
ResetMatchesAbsent(e, t) == passwordResetToken[e] \in {t, None}
ResetMatchesAny(e, t) == passwordResetToken[e] # None
ResetMatches(e, t) == passwordResetToken[e] = t

Reset(s, e, t, p) ==
    /\ ResetMatches(e, t)
    /\ Accept(s, "reset",
              [Idle EXCEPT !.pc = "reset.findByEmail", !.email = e,
                           !.given = t, !.password = p])
    /\ UNCHANGED <<store, history, faults>>

ResetFindUser(s) ==
    /\ At(s, "reset.findByEmail")
    /\ \/ \E id \in WithEmail(req[s].email) :
            /\ users[id].verified
            /\ Become(s, [req[s] EXCEPT !.pc = "reset.findOne", !.id = id])
       \/ /\ \A id \in WithEmail(req[s].email) : ~users[id].verified
          /\ Finish(s)
    /\ UNCHANGED <<store, history, faults>>

(* UsersService.updatePasswordHash: findOne, then update. *)
ResetFindOne(s) ==
    /\ At(s, "reset.findOne")
    /\ IF Live(users, req[s].id) THEN Goto(s, "reset.update") ELSE Finish(s)
    /\ UNCHANGED <<store, history, faults>>

ResetUpdate(s) ==
    /\ At(s, "reset.update")
    /\ UpdatePassword(req[s].id, req[s].password)
    /\ IF Live(users, req[s].id) THEN Goto(s, "reset.mail") ELSE Finish(s)
    /\ UNCHANGED <<otp, otpAttempts, otpResendAttempts, passwordResetToken,
                   outbox, signed, now, history, faults>>

MailPasswordUpdate(s) ==
    /\ At(s, "reset.mail")
    /\ Enqueue(Mail("passwordUpdate", req[s].email, None))
    /\ Goto(s, "reset.drop")
    /\ UNCHANGED <<users, otp, otpAttempts, otpResendAttempts,
                   passwordResetToken, signed, now, history, faults>>

(* Deletes whatever token the address has by now. *)
DropResetToken(s) ==
    /\ At(s, "reset.drop")
    /\ DeleteResetToken(req[s].email)
    /\ spent' = spent \cup {req[s].given}
    /\ Finish(s)
    /\ UNCHANGED <<users, otp, otpAttempts, otpResendAttempts, outbox, signed,
                   now, issued, misses, revoked, faults>>

----------------------------------------------------------------------------
(* refresh, logout *)

Honoured(token) == /\ Live(users, token.sub)
                   /\ users[token.sub].session = BcryptPrefix(token)

Refresh(s, token) ==
    /\ Honoured(token)
    /\ Accept(s, "refresh", IssueTokens(token.sub))
    /\ UNCHANGED <<store, history, faults>>

(* The token whose hash was stored last for the user. *)
CurrentTokens(id) ==
    {t \in signed : t.sub = id /\ \A u \in signed : u.sub = id => u.iat <= t.iat}

(* One awaited UPDATE, so no slot.  The access token that names the user   *)
(* came with a refresh token and is not revoked by anything.               *)
Logout(id) ==
    /\ "logout" \in Endpoints
    /\ \E t \in signed : t.sub = id
    /\ UpdateSession(id, None)
    /\ revoked' = revoked \cup CurrentTokens(id)
    /\ UNCHANGED <<otp, otpAttempts, otpResendAttempts, passwordResetToken,
                   outbox, signed, now, req, issued, spent, misses, faults>>

----------------------------------------------------------------------------
(* findOrCreateGoogleOAuthUser: Google vouches that account g has verified *)
(* address e.  A row found by its google_id is taken whatever its address. *)

Google(s, g, e) ==
    /\ \/ \E id \in WithGoogleId(g) : Accept(s, "google", IssueTokens(id))
       \/ /\ WithGoogleId(g) = {}
          /\ Accept(s, "google", [Idle EXCEPT !.pc = "google.findByEmail",
                                              !.email = e, !.given = g])
    /\ issued' = issued \cup {<<e, g>>}
    /\ UNCHANGED <<store, spent, misses, revoked, faults>>

\* Slip: the account linked already is not looked at.
ConflictingNever(s) == FALSE
Conflicting(s) == \E id \in WithEmail(req[s].email) :
                     users[id].googleId \notin {None, req[s].given}

GoogleFindByEmail(s) ==
    /\ At(s, "google.findByEmail")
    /\ IF Conflicting(s) THEN Finish(s) ELSE Goto(s, "google.upsert")
    /\ UNCHANGED <<store, history, faults>>

GoogleUpsert(s) ==
    /\ At(s, "google.upsert")
    /\ \E id \in Ids :
         /\ \/ /\ id \in WithEmail(req[s].email)
               /\ UpdateGoogle(id, req[s].given)
            \/ /\ AddressFree(req[s].email)
               /\ Insert(id, NewRow(req[s].email, None, req[s].given, TRUE, 2))
         /\ Become(s, [Idle EXCEPT !.pc = "google.load", !.id = id])
    /\ UNCHANGED <<otp, otpAttempts, otpResendAttempts, passwordResetToken,
                   outbox, signed, now, history, faults>>

GoogleLoad(s) ==
    /\ At(s, "google.load")
    /\ IF Live(users, req[s].id) THEN Become(s, IssueTokens(req[s].id))
                                 ELSE Finish(s)
    /\ UNCHANGED <<store, history, faults>>

----------------------------------------------------------------------------
(* DELETE /users/:id: findOne, then a hard delete. *)

(* Bound: a row is removed only while an id is left for the next one. *)
SpareId == \E id \in Ids : users[id] = Unborn

Remove(s, id) ==
    /\ Live(users, id)
    /\ SpareId
    /\ Accept(s, "remove", [Idle EXCEPT !.pc = "remove.delete", !.id = id])
    /\ UNCHANGED <<store, history, faults>>

RemoveDelete(s) ==
    /\ At(s, "remove.delete")
    /\ Delete(req[s].id)
    /\ Finish(s)
    /\ UNCHANGED <<otp, otpAttempts, otpResendAttempts, passwordResetToken,
                   outbox, signed, now, history, faults>>

----------------------------------------------------------------------------
(* What the program does not decide: an awaited call rejects or the        *)
(* process dies, a Redis key expires, a second passes.                     *)

Fail(s) ==
    /\ ~At(s, "idle")
    /\ faults < MaxFaults
    /\ Finish(s)
    /\ faults' = faults + 1
    /\ UNCHANGED <<store, history>>

ExpireCode(e) ==
    /\ otp[e] # None
    /\ SetCode(e, None)
    /\ UNCHANGED <<users, otpAttempts, otpResendAttempts, passwordResetToken,
                   outbox, signed, now, req, history, faults>>

ExpireAttempts(e) ==
    /\ otpAttempts[e] # 0
    /\ otpAttempts' = [otpAttempts EXCEPT ![e] = 0]
    /\ misses' = [misses EXCEPT ![e] = 0]
    /\ UNCHANGED <<users, otp, otpResendAttempts, passwordResetToken, outbox,
                   signed, now, req, issued, spent, revoked, faults>>

ExpireResends(e) ==
    /\ otpResendAttempts[e] # 0
    /\ otpResendAttempts' = [otpResendAttempts EXCEPT ![e] = 0]
    /\ UNCHANGED <<users, otp, otpAttempts, passwordResetToken, outbox, signed,
                   now, req, history, faults>>

ExpireResetToken(e) ==
    /\ passwordResetToken[e] # None
    /\ DeleteResetToken(e)
    /\ UNCHANGED <<users, otp, otpAttempts, otpResendAttempts, outbox, signed,
                   now, req, history, faults>>

Tick ==
    /\ now < MaxTime
    /\ now' = now + 1
    /\ UNCHANGED <<users, otp, otpAttempts, otpResendAttempts,
                   passwordResetToken, outbox, signed, req, history, faults>>

----------------------------------------------------------------------------
Init ==
    /\ StoreInit
    /\ req = [s \in Slots |-> Idle]
    /\ issued = {}
    /\ spent = {}
    /\ misses = [e \in Emails |-> 0]
    /\ revoked = {}
    /\ faults = 0

(* A request arrives. *)
Arrive(s) ==
    \/ \E e \in Emails, p \in Passwords : Register(s, e, p) \/ Login(s, e, p)
    \/ \E e \in Emails, c \in Codes : VerifyEmail(s, e, c)
    \/ \E e \in Emails : Resend(s, e) \/ Forgot(s, e)
    \/ \E e \in Emails, t \in ResetTokens, p \in Passwords : Reset(s, e, t, p)
    \/ \E token \in signed : Refresh(s, token)
    \/ \E g \in GoogleIds, e \in Emails : Google(s, g, e)
    \/ \E id \in Ids : Remove(s, id)

(* A request in flight runs to its next await. *)
Continue(s) ==
    \/ RegisterInsert(s) \/ StoreOtp(s) \/ MailOtp(s) \/ StoreSession(s)
    \/ ReadAttempts(s) \/ CompareOtp(s) \/ CountMiss(s) \/ MarkVerified(s)
    \/ DropCode(s) \/ DropCount(s) \/ MailWelcome(s)
    \/ ReadResends(s) \/ BumpResends(s)
    \/ MailResetLink(s) \/ StoreResetToken(s)
    \/ ResetFindUser(s) \/ ResetFindOne(s) \/ ResetUpdate(s)
    \/ MailPasswordUpdate(s) \/ DropResetToken(s)
    \/ GoogleFindByEmail(s) \/ GoogleUpsert(s) \/ GoogleLoad(s)
    \/ RemoveDelete(s)

Expire(e) ==
    ExpireCode(e) \/ ExpireAttempts(e) \/ ExpireResends(e) \/ ExpireResetToken(e)

Next ==
    \/ \E s \in Slots : Arrive(s) \/ Continue(s) \/ Fail(s)
    \/ \E id \in Ids : Logout(id)
    \/ \E e \in Emails : Expire(e)
    \/ Tick

Spec == Init /\ [][Next]_vars

(* The event loop resumes every suspended request and every awaited call   *)
(* of the drivers settles, so a request in flight is never left there.     *)
FairSpec == Spec /\ \A s \in Slots : WF_vars(Continue(s))

============================================================================
