----------------------------- MODULE AuthStore -----------------------------
(***************************************************************************)
(* What the authentication endpoints of energy-iq-be share: the users      *)
(* table (PostgreSQL), four families of expiring Redis keys, the e-mail    *)
(* queue and the refresh tokens clients hold.  Each operator below is one  *)
(* awaited call on one of those services, so one atomic step.              *)
(*                                                                         *)
(* An e-mail address stands for its class up to letter case: the column is *)
(* citext and RedisService lower-cases every key.  A password stands for   *)
(* its bcrypt hash, an OTP or a reset token for the hash stored in Redis.  *)
(***************************************************************************)
EXTENDS Naturals, FiniteSets

CONSTANTS
    Emails,      \* addresses that can be typed into a form
    Ids,         \* primary keys (uuids); one is never generated twice
    Passwords,
    Codes,       \* 6-digit OTPs; a generated one may repeat an older one
    ResetTokens, \* 256-bit reset tokens; a generated one is always fresh
    GoogleIds,
    AdminEmail,  \* the address user.seeder.ts inserts, None if it has not run
    MaxTime,     \* bound: how often the clock that dates JWTs may tick
    MaxFaults,   \* bound: how many requests may be cut short
    OtpLimit,    \* wrong OTPs, and resends, allowed per counter (5 in the code)
    None,        \* null, in a column, in Redis or in a local variable
    Unborn,      \* users[id] when id has not been generated
    Gone         \* users[id] when the row has been deleted

ASSUME OtpLimitAssumption == OtpLimit \in Nat \ {0}
ASSUME BoundsAssumption == MaxTime \in Nat /\ MaxFaults \in Nat
ASSUME NoneAssumption ==
    None \notin Emails \cup Ids \cup Passwords \cup Codes \cup ResetTokens
                       \cup GoogleIds
ASSUME AdminAssumption == AdminEmail \in Emails \cup {None}

VARIABLES
    users,              \* the users table, by primary key
    otp,                \* redis otp:<email>
    otpAttempts,        \* redis otp_attempts:<email>, 0 when absent
    otpResendAttempts,  \* redis otp_resend_attempts:<email>, 0 when absent
    passwordResetToken, \* redis password_reset_token:<email>
    outbox,             \* every job EmailService has put on the mail queue
    signed,             \* refresh tokens handed to clients
    now                 \* the clock, as coarse as the iat of a JWT

store == <<users, otp, otpAttempts, otpResendAttempts, passwordResetToken,
           outbox, signed, now>>

----------------------------------------------------------------------------
(* The users table *)

Row == [email      : Emails,
        password   : Passwords \cup {None},
        googleId   : GoogleIds \cup {None},
        verified   : BOOLEAN,
        step       : {None, 1, 2, 3},       \* onboardingStep, nullable
        session    : Ids \cup {None}]       \* refreshTokenHash

ASSUME RowAssumption == Unborn # Gone /\ Unborn \notin Row /\ Gone \notin Row

Live(table, id) == table[id] \notin {Unborn, Gone}

(* Rows a findOne({ email }) or findOne({ googleId }) may return; the      *)
(* email column is unique, the google_id column is not.                    *)
WithEmail(e) == {id \in Ids : Live(users, id) /\ users[id].email = e}
\* Slip: rows are looked up by address only.
WithGoogleIdNone(g) == {}
WithGoogleId(g) == {id \in Ids : Live(users, id) /\ users[id].googleId = g}

\* The unique constraint on email, as INSERT sees it.  Slip: there is none.
AddressFreeAlways(e) == TRUE
AddressFree(e) == WithEmail(e) = {}

NewRow(e, p, g, verified, step) ==
    [email |-> e, password |-> p, googleId |-> g, verified |-> verified,
     step |-> step, session |-> None]

(* INSERT with a generated primary key; the caller has checked uniqueness. *)
Insert(id, row) ==
    /\ users[id] = Unborn
    /\ users' = [users EXCEPT ![id] = row]

(* UPDATE ... WHERE id: not an error when the row is gone. *)
UpdatePassword(id, p) ==
    users' = IF Live(users, id) THEN [users EXCEPT ![id].password = p]
                                ELSE users

UpdateVerified(id) ==
    users' = IF Live(users, id)
             THEN [users EXCEPT ![id].verified = TRUE, ![id].step = 2]
             ELSE users

UpdateSession(id, hash) ==
    users' = IF Live(users, id) THEN [users EXCEPT ![id].session = hash]
                                ELSE users

(* Slip: orUpdate lists google_id only. *)
UpdateGoogleIdOnly(id, g) == users' = [users EXCEPT ![id].googleId = g]

(* ON CONFLICT (email) DO UPDATE SET google_id, email_verified: no other   *)
(* column of the existing row is touched, its onboarding step included.    *)
UpdateGoogle(id, g) ==
    users' = [users EXCEPT ![id].googleId = g, ![id].verified = TRUE]

Delete(id) ==
    users' = IF Live(users, id) THEN [users EXCEPT ![id] = Gone] ELSE users

----------------------------------------------------------------------------
(* Redis, the mail queue, JWTs *)

(* A code or a token set in Redis, or deleted from it (value None). *)
SetCode(e, c) == otp' = [otp EXCEPT ![e] = c]
SetResetToken(e, t) ==
    passwordResetToken' = [passwordResetToken EXCEPT ![e] = t]

\* Slip: DEL names another key.
DeleteResetTokenNot(e) == UNCHANGED passwordResetToken
DeleteResetToken(e) == SetResetToken(e, None)

Mail(kind, e, secret) == [kind |-> kind, to |-> e, secret |-> secret]
\* Slip: a job of one kind is queued once per address.
EnqueueOnce(mail) ==
    outbox' = IF \E m \in outbox : m.kind = mail.kind /\ m.to = mail.to
              THEN outbox ELSE outbox \cup {mail}
Enqueue(mail) == outbox' = outbox \cup {mail}

MailedTokens == {m.secret : m \in {m \in outbox : m.kind = "passwordReset"}}

(* A refresh token: its subject and the second it was signed in.  Two      *)
(* tokens of one user signed in one second are the same string.            *)
RefreshTokens == [sub : Ids, iat : 0..MaxTime]

(* bcrypt hashes the first 72 bytes of its input.  Of a JWT these are the  *)
(* fixed header and the first characters of the uuid in "sub", so every    *)
(* refresh token of a user has the same hash.                              *)
BcryptPrefix(token) == token.sub

----------------------------------------------------------------------------
StoreTypeOK ==
    /\ users \in [Ids -> Row \cup {Unborn, Gone}]
    /\ otp \in [Emails -> Codes \cup {None}]
    /\ otpAttempts \in [Emails -> 0..OtpLimit]
    /\ otpResendAttempts \in [Emails -> 0..OtpLimit]
    /\ passwordResetToken \in [Emails -> ResetTokens \cup {None}]
    /\ outbox \subseteq [kind   : {"verify", "welcome", "passwordReset",
                                   "passwordUpdate"},
                         to     : Emails,
                         secret : Codes \cup ResetTokens \cup {None}]
    /\ signed \subseteq RefreshTokens
    /\ now \in 0..MaxTime

(* An empty database, or one with the row of the seeder: verified, with a  *)
(* password and without an onboarding step.                                *)
StoreInit ==
    /\ \/ /\ AdminEmail = None
          /\ users = [id \in Ids |-> Unborn]
       \/ \E admin \in Ids, p \in Passwords :
            /\ AdminEmail # None
            /\ users = [id \in Ids |->
                          IF id = admin
                          THEN NewRow(AdminEmail, p, None, TRUE, None)
                          ELSE Unborn]
    /\ otp = [e \in Emails |-> None]
    /\ otpAttempts = [e \in Emails |-> 0]
    /\ otpResendAttempts = [e \in Emails |-> 0]
    /\ passwordResetToken = [e \in Emails |-> None]
    /\ outbox = {}
    /\ signed = {}
    /\ now = 0

============================================================================
