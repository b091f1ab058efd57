--------------------------- MODULE AuthProperties ---------------------------
(***************************************************************************)
(* What AuthService must keep true whatever the order in which requests,   *)
(* expiries and failures interleave.                                       *)
(***************************************************************************)
EXTENDS AuthService

(* Every variable, every local of a request included, stays in its type;   *)
(* in particular no attempt counter in Redis passes the limit that the     *)
(* handlers of verifyEmail and resendVerificationEmail compare it with.    *)
TypeOK ==
    /\ StoreTypeOK
    /\ req \in [Slots -> Request]
    /\ issued \subseteq Emails \X Secrets
    /\ spent \subseteq ResetTokens
    /\ misses \in [Emails -> Nat]
    /\ revoked \subseteq RefreshTokens
    /\ faults \in 0..MaxFaults

(* A refresh token hash is only ever stored for a user whose address is    *)
(* verified (docs/API.md: "user must verify email before logging in"),     *)
(* although issueTokens runs several awaits after the check in login,      *)
(* verifyEmail, refresh or the Google callback, and next to removals.      *)
SessionOnlyIfVerified ==
    \A id \in Ids :
        Live(users, id) /\ users[id].session # None => users[id].verified

AccountOf(row) == [email    |-> row.email,
                   password |-> row.password,
                   verified |-> row.verified,
                   session  |-> row.session # None]
AccountsOf(table) ==
    [id \in Ids |-> IF Live(table, id) THEN AccountOf(table[id]) ELSE table[id]]

Contract == INSTANCE AccountLifecycle WITH accounts <- AccountsOf(users),
                                           proofs   <- issued

ASSUME AccountAssumption == Unborn \notin Contract!Account
                            /\ Gone \notin Contract!Account

(* The rows of the users table show what AccountLifecycle promises: ids    *)
(* and addresses are never shared, and a row is verified, gets a new       *)
(* password or a session only by a code, link or Google account issued for *)
(* its own address; a request that outlives its user touches no other row. *)
KeepsContract == Contract!Spec

(* The request that verifies a row or changes its password presented a     *)
(* secret that was issued for the address of that very row: a code stored  *)
(* for it, a link mailed to it or a Google account that vouched for it.    *)
OwnerConsents ==
    [][\A id \in Ids :
         /\ Live(users, id) /\ Live(users', id)
         /\ \/ users'[id].verified # users[id].verified
            \/ users'[id].password # users[id].password
         => \E s \in Slots : /\ req'[s] # req[s]
                             /\ <<users[id].email, req[s].given>> \in issued]_vars

(* As long as no request is cut short, the code Redis holds for an address *)
(* is in a mail already queued for it, or sendVerificationEmail is about   *)
(* to queue that mail: overlapping register, login and resend requests,    *)
(* each overwriting the key, leave no code nobody is told.                 *)
LiveCodeReachesOwner ==
    \A e \in Emails : otp[e] # None /\ faults = 0 =>
        \/ Mail("verify", e, otp[e]) \in outbox
        \/ \E s \in Slots : At(s, "otp.mail") /\ req[s].email = e
                                              /\ req[s].made = otp[e]

(* A reset token is redeemable only after its link was queued for the same *)
(* address, even when forgotPassword dies between the two.                 *)
StoredTokenWasMailed ==
    \A e \in Emails : passwordResetToken[e] # None =>
        Mail("passwordReset", e, passwordResetToken[e]) \in outbox

(* Once a reset has completed, the token of its link is never redeemable   *)
(* again, whatever other forgotPassword and resetPassword requests for the *)
(* address were in flight.                                                 *)
SpentTokenNeverLive == \A e \in Emails : passwordResetToken[e] \notin spent

(* How many wrong codes an address can be tried with before its counter is *)
(* cleared: the limit when requests come one at a time.  verifyEmail reads *)
(* the counter and writes it back two awaits later, so a second request in *)
(* flight can set it back, once from each value it passes through.  (For   *)
(* instances of one or two slots; a request that dies may skip its count.) *)
MissBound ==
    MaxFaults + (IF Cardinality(Slots) = 1 THEN OtpLimit
                 ELSE (OtpLimit * (OtpLimit + 3)) \div 2)
MissesBounded == \A e \in Emails : misses[e] <= MissBound

(* With one request at a time a Google account opens one row only: the     *)
(* column has no unique constraint, findOrCreateByGoogle alone sees to it. *)
GoogleIdNamesOneRow ==
    \A u, v \in Ids :
        Live(users, u) /\ Live(users, v) /\ users[u].googleId # None
          /\ users[u].googleId = users[v].googleId => u = v

(* A row linked to a Google account is never linked to another one         *)
(* (CONFLICTING_GOOGLE_ACCOUNT in sys-msg.ts).                             *)
GoogleLinkStable ==
    [][\A id \in Ids :
         Live(users, id) /\ Live(users', id) /\ users[id].googleId # None
           => users'[id].googleId = users[id].googleId]_vars

(* A resend replaces a code only when none is active (auth.controller.ts:  *)
(* "Resend a verification email if no active code exists").                *)
ResendOnlyWhenNoActiveCode ==
    [][\A s \in Slots : At(s, "resend.bump") /\ req'[s].pc = "otp.store"
         => otp[req[s].email] = None]_vars

(* A refresh token that was current when its user logged out is not        *)
(* honoured afterwards (docs/API.md: logout revokes it).                   *)
RevokedTokenRejected == \A token \in revoked : ~Honoured(token)

(* A registered user is sent a code: once the row exists, unless a request *)
(* is cut short, the mail is queued even if other requests for the same    *)
(* address run in between.                                                 *)
RegisteredUserGetsCode ==
    \A e \in Emails :
        (\E id \in WithEmail(e) : ~users[id].verified)
          ~> (faults > 0 \/ \E c \in Codes : Mail("verify", e, c) \in outbox)

============================================================================
