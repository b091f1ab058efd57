---------------------------- MODULE SecretProofs ----------------------------
(***************************************************************************)
(* Where codes, links and Google accounts count: only for the row of the   *)
(* address they were issued for, and a reset token only once it is mailed; *)
(* and a code in Redis is one its owner is told.                           *)
(***************************************************************************)
EXTENDS AuthProofs

(* The step that verifies a row or changes its password is one of a        *)
(* request that holds a secret issued for the address of the row.          *)
Consent ==
    \A id \in Ids :
      /\ Live(users, id) /\ Live(users', id)
      /\ \/ users'[id].verified # users[id].verified
         \/ users'[id].password # users[id].password
      => \E s \in Slots : /\ req'[s] # req[s]
                          /\ <<users[id].email, req[s].given>> \in issued

LEMMA ConsentQuiet ==
    ASSUME UNCHANGED users
    PROVE  Consent
  BY DEF Consent

(* A request that moves and writes one row speaks for that row. *)
LEMMA ConsentGiven ==
    ASSUME Typed, NEW s \in Slots, NEW id \in Ids, NEW row,
           users' = [users EXCEPT ![id] = row], req'[s] # req[s],
           Live(users, id) => <<users[id].email, req[s].given>> \in issued
    PROVE  Consent
  <1>1. \A i \in Ids \ {id} : users'[i] = users[i]
    BY DEF Typed, TypeOK, StoreTypeOK
  <1> QED
    BY <1>1 DEF Consent

LEMMA ConsentSession ==
    ASSUME Typed, NEW id \in Ids, NEW hash, UpdateSession(id, hash)
    PROVE  Consent
  <1>1. CASE ~Live(users, id)
    BY <1>1, ConsentQuiet DEF UpdateSession
  <1>2. CASE Live(users, id)
    <2>1. users \in [Ids -> Row \cup {Unborn, Gone}] /\ users[id] \in Row
      BY <1>2 DEF Typed, TypeOK, StoreTypeOK, Live
    <2>2. /\ users'[id] = [users[id] EXCEPT !.session = hash]
          /\ \A i \in Ids \ {id} : users'[i] = users[i]
      BY <1>2, <2>1 DEF UpdateSession
    <2>3. /\ users'[id].verified = users[id].verified
          /\ users'[id].password = users[id].password
      BY <2>1, <2>2 DEF Row
    <2> QED
      BY <2>2, <2>3 DEF Consent
  <1> QED
    BY <1>1, <1>2

(* Rows that appear or disappear had nothing to consent to. *)
LEMMA ConsentNew ==
    ASSUME Typed, NEW id \in Ids, NEW row, Insert(id, row)
    PROVE  Consent
  <1>1. /\ ~Live(users, id)
        /\ \A i \in Ids \ {id} : users'[i] = users[i]
    BY DEF Insert, Live, Typed, TypeOK, StoreTypeOK
  <1> QED
    BY <1>1 DEF Consent

LEMMA ConsentDelete ==
    ASSUME Typed, NEW id \in Ids, Delete(id)
    PROVE  Consent
  <1>1. /\ ~Live(users', id)
        /\ \A i \in Ids \ {id} : users'[i] = users[i]
    BY DEF Delete, Live, Typed, TypeOK, StoreTypeOK
  <1> QED
    BY <1>1 DEF Consent

LEMMA ContinueConsent ==
    ASSUME Typed, Secured, NEW s \in Slots, Continue(s)
    PROVE  Consent
  <1>0. /\ req \in [Slots -> Request] /\ req[s] \in Request /\ LocalsOK(req[s])
        /\ Vouched(users, issued, req[s])
    BY DEF Typed, TypeOK, Secured
  <1>1. CASE UNCHANGED users
    BY <1>1, ConsentQuiet
  <1>2. CASE RegisterInsert(s)
    BY <1>1, <1>2, ConsentNew DEF RegisterInsert
  <1>3. CASE StoreSession(s)
    <2>1. req[s].id \in Ids
      BY <1>0, <1>3 DEF StoreSession, At, LocalsOK
    <2> QED
      BY <1>3, <2>1, ConsentSession DEF StoreSession
  <1>4. CASE MarkVerified(s)
    <2> DEFINE id == req[s].id
    <2>1. /\ id \in Ids /\ req[s].email \in Emails
          /\ <<req[s].email, req[s].given>> \in issued
      BY <1>0, <1>4 DEF MarkVerified, At, LocalsOK, Vouched
    <2>2. Live(users, id) => users[id].email = req[s].email
      BY <1>0, <2>1, NoneAssumption DEF Vouched
    <2>3. req'[s] # req[s]
      <3>1. req'[s] = [req[s] EXCEPT !.pc = "verify.dropCode"]
        BY <1>0, <1>4 DEF MarkVerified, Goto, Become
      <3>2. req'[s].pc = "verify.dropCode"
        BY <1>0, <3>1 DEF Request
      <3> QED
        BY <1>4, <3>2 DEF MarkVerified, At
    <2>4. CASE Live(users, id)
      <3>1. users' = [users EXCEPT ![id] =
                        [users[id] EXCEPT !.verified = TRUE, !.step = 2]]
        BY <1>4, <2>1, <2>4 DEF MarkVerified, UpdateVerified, Typed, TypeOK,
                                StoreTypeOK
      <3> QED
        BY <2>1, <2>2, <2>3, <3>1, ConsentGiven
    <2>5. CASE ~Live(users, id)
      BY <1>1, <1>4, <2>5 DEF MarkVerified, UpdateVerified
    <2> QED
      BY <2>4, <2>5
  <1>5. CASE ResetUpdate(s)
    <2> DEFINE id == req[s].id
    <2>1. /\ id \in Ids /\ req[s].email \in Emails
          /\ <<req[s].email, req[s].given>> \in issued
      BY <1>0, <1>5 DEF ResetUpdate, At, LocalsOK, Vouched
    <2>2. Live(users, id) => users[id].email = req[s].email
      BY <1>0, <2>1, NoneAssumption DEF Vouched
    <2>3. CASE Live(users, id)
      <3>1. users' = [users EXCEPT ![id] =
                        [users[id] EXCEPT !.password = req[s].password]]
        BY <1>5, <2>1, <2>3 DEF ResetUpdate, UpdatePassword
      <3>2. req'[s] = [req[s] EXCEPT !.pc = "reset.mail"]
        BY <1>0, <1>5, <2>3 DEF ResetUpdate, Goto, Become
      <3>3. req'[s].pc = "reset.mail"
        BY <1>0, <3>2 DEF Request
      <3>4. req'[s] # req[s]
        BY <1>5, <3>3 DEF ResetUpdate, At
      <3> QED
        BY <2>1, <2>2, <3>1, <3>4, ConsentGiven
    <2>4. CASE ~Live(users, id)
      BY <1>1, <1>5, <2>4 DEF ResetUpdate, UpdatePassword
    <2> QED
      BY <2>3, <2>4
  <1>6. CASE GoogleUpsert(s)
    <2>1. <<req[s].email, req[s].given>> \in issued
      BY <1>0, <1>6 DEF GoogleUpsert, At, Vouched
    <2>2. ASSUME NEW id \in WithEmail(req[s].email),
                 UpdateGoogle(id, req[s].given),
                 Become(s, [Idle EXCEPT !.pc = "google.load", !.id = id])
          PROVE  Consent
      <3>1. id \in Ids /\ Live(users, id) /\ users[id].email = req[s].email
        BY <2>2 DEF WithEmail
      <3>2. users' = [users EXCEPT ![id] = [users[id] EXCEPT
                        !.googleId = req[s].given, !.verified = TRUE]]
        BY <2>2, <3>1 DEF UpdateGoogle, Typed, TypeOK, StoreTypeOK
      <3>3. req'[s] = [Idle EXCEPT !.pc = "google.load", !.id = id]
        BY <1>0, <2>2 DEF Become
      <3>4. req'[s].pc = "google.load"
        BY <3>3 DEF Idle
      <3>5. req'[s] # req[s]
        BY <1>6, <3>4 DEF GoogleUpsert, At
      <3> QED
        BY <2>1, <3>1, <3>2, <3>5, ConsentGiven
    <2>3. ASSUME NEW id \in Ids, NEW row, Insert(id, row)
          PROVE  Consent
      BY <2>3, ConsentNew
    <2> QED
      BY <1>6, <2>2, <2>3 DEF GoogleUpsert
  <1>7. CASE RemoveDelete(s)
    <2>1. req[s].id \in Ids
      BY <1>0, <1>7 DEF RemoveDelete, At, LocalsOK
    <2> QED
      BY <1>7, <2>1, ConsentDelete DEF RemoveDelete
  <1>8. \/ UNCHANGED users \/ RegisterInsert(s) \/ StoreSession(s)
        \/ MarkVerified(s) \/ ResetUpdate(s) \/ GoogleUpsert(s)
        \/ RemoveDelete(s)
    BY DEF Continue, StoreOtp, MailOtp, ReadAttempts, CompareOtp, CountMiss,
           DropCode, DropCount, MailWelcome, ReadResends, BumpResends,
           MailResetLink, StoreResetToken, ResetFindUser, ResetFindOne,
           MailPasswordUpdate, DropResetToken, GoogleFindByEmail, GoogleLoad,
           store
  <1> QED
    BY <1>1, <1>2, <1>3, <1>4, <1>5, <1>6, <1>7, <1>8

LEMMA StepConsent == Typed /\ Secured /\ [Next]_vars => Consent
  <1> SUFFICES ASSUME Typed, Secured, [Next]_vars PROVE Consent
    OBVIOUS
  <1>1. ASSUME NEW s \in Slots, Continue(s)
        PROVE  Consent
    BY <1>1, ContinueConsent
  <1>2. ASSUME NEW id \in Ids, Logout(id)
        PROVE  Consent
    BY <1>2, ConsentSession DEF Logout
  <1>3. \/ UNCHANGED users
        \/ \E s \in Slots : Continue(s)
        \/ \E id \in Ids : Logout(id)
    BY DEF Next, Arrive, Register, Login, VerifyEmail, Resend, Forgot, Reset,
           Refresh, Google, Remove, Fail, Expire, ExpireCode, ExpireAttempts,
           ExpireResends, ExpireResetToken, Tick, vars, store
  <1> QED
    BY <1>1, <1>2, <1>3, ConsentQuiet

(* A row is verified and a password changed only by a request that holds a *)
(* code, link or Google account issued for the address of that row, even   *)
(* if the row changed owner between the check of the secret and the write. *)
THEOREM OwnersConsent == Spec => OwnerConsents
  <1>1. Typed /\ Secured /\ [Next]_vars => [Consent]_vars
    BY StepConsent
  <1> QED
    BY <1>1, AlwaysSecured, PTL DEF Spec, OwnerConsents, Consent

----------------------------------------------------------------------------
(* Reset tokens: from the mail to Redis to the reset that spends them *)

LinkPcs == {"forgot.mail", "forgot.store"}
ResetPcs == {"reset.findByEmail", "reset.findOne", "reset.update", "reset.mail",
             "reset.drop"}

(* The token of a link under way is nobody else's and not yet redeemable.  *)
LinksFresh ==
    /\ \A s \in Slots : At(s, "forgot.mail") => req[s].made \notin MailedTokens
    /\ \A s, q \in Slots :
         s # q /\ req[s].pc \in LinkPcs /\ req[q].pc \in LinkPcs
           => req[s].made # req[q].made
    /\ \A s \in Slots : At(s, "forgot.store") =>
         /\ req[s].made \notin spent
         /\ \A e \in Emails : passwordResetToken[e] # req[s].made
         /\ \A q \in Slots : req[q].pc \in ResetPcs => req[q].given # req[s].made
         /\ Mail("passwordReset", req[s].email, req[s].made) \in outbox

(* A redeemable token was mailed, to the address it is stored for only,    *)
(* and is not spent; the token a reset holds is stored nowhere else.       *)
LinksStored ==
    /\ spent \subseteq MailedTokens
    /\ \A s \in Slots : req[s].pc \in ResetPcs =>
         /\ req[s].given \in MailedTokens
         /\ \A e \in Emails :
              passwordResetToken[e] = req[s].given => e = req[s].email
    /\ \A e \in Emails : passwordResetToken[e] # None =>
         /\ passwordResetToken[e] \notin spent
         /\ Mail("passwordReset", e, passwordResetToken[e]) \in outbox
         /\ \A f \in Emails : passwordResetToken[f] = passwordResetToken[e] => f = e

Linked == LinksFresh /\ LinksStored

(* A request moves without touching the token it carries. *)
Calm(r, n) ==
    \/ n.pc \notin LinkPcs \cup ResetPcs
    \/ /\ n.email = r.email /\ n.given = r.given /\ n.made = r.made
       /\ (n.pc = r.pc \/ {n.pc, r.pc} \subseteq ResetPcs)

LEMMA MoveCalm ==
    ASSUME Typed, NEW s \in Slots, NEW n, Become(s, n), Calm(req[s], n)
    PROVE  \A q \in Slots : Calm(req[q], req'[q])
  <1>1. req' = [req EXCEPT ![s] = n] /\ req \in [Slots -> Request]
    BY DEF Become, Typed, TypeOK
  <1>2. \A r : Calm(r, r)
    BY DEF Calm
  <1> QED
    BY <1>1, <1>2

LEMMA GotoCalm ==
    ASSUME Typed, NEW s \in Slots, NEW pc, Goto(s, pc),
           pc \notin LinkPcs \cup ResetPcs \/ {pc, req[s].pc} \subseteq ResetPcs
    PROVE  \A q \in Slots : Calm(req[q], req'[q])
  <1> DEFINE n == [req[s] EXCEPT !.pc = pc]
  <1>1. req[s] \in Request /\ Become(s, n)
    BY DEF Typed, TypeOK, Goto
  <1>2. /\ n.pc = pc /\ n.email = req[s].email
        /\ n.given = req[s].given /\ n.made = req[s].made
    BY <1>1 DEF Request
  <1>3. Calm(req[s], n)
    BY <1>2 DEF Calm
  <1> QED
    BY <1>1, <1>3, MoveCalm

LEMMA FinishCalm ==
    ASSUME Typed, NEW s \in Slots, Finish(s)
    PROVE  \A q \in Slots : Calm(req[q], req'[q])
  <1>1. Calm(req[s], Idle)
    BY DEF Calm, Idle, LinkPcs, ResetPcs
  <1> QED
    BY <1>1, MoveCalm DEF Finish

(* Only mails of the kind "passwordReset" tell a reset token. *)
LEMMA OtherMail ==
    ASSUME NEW kind, NEW e, NEW secret, kind # "passwordReset",
           Enqueue(Mail(kind, e, secret))
    PROVE  MailedTokens' = MailedTokens /\ outbox \subseteq outbox'
  <1>1. Mail(kind, e, secret).kind # "passwordReset"
    BY DEF Mail
  <1>2. {m \in outbox' : m.kind = "passwordReset"}
          = {m \in outbox : m.kind = "passwordReset"}
    BY <1>1 DEF Enqueue
  <1> QED
    BY <1>2 DEF MailedTokens, Enqueue

LEMMA MailedToken ==
    ASSUME NEW e, NEW t, Mail("passwordReset", e, t) \in outbox
    PROVE  t \in MailedTokens
  BY DEF MailedTokens, Mail

(* Resets that hold the tokens they held leave what is stored in order.    *)
LEMMA StoredKept ==
    ASSUME LinksStored, UNCHANGED <<passwordResetToken, spent>>,
           MailedTokens \subseteq MailedTokens', outbox \subseteq outbox',
           \A q \in Slots : req'[q].pc \in ResetPcs =>
             /\ req[q].pc \in ResetPcs /\ req'[q].given = req[q].given
             /\ req'[q].email = req[q].email
    PROVE  LinksStored'
  BY DEF LinksStored

LEMMA CalmLinked ==
    ASSUME Typed, Linked, \A q \in Slots : Calm(req[q], req'[q]),
           UNCHANGED <<passwordResetToken, spent>>,
           MailedTokens' = MailedTokens, outbox \subseteq outbox'
    PROVE  Linked'
  <1>1. \A q \in Slots : req'[q].pc \in LinkPcs =>
          /\ req'[q].pc = req[q].pc /\ req'[q].made = req[q].made
          /\ req'[q].email = req[q].email
    BY DEF Calm, LinkPcs, ResetPcs
  <1>2. \A q \in Slots : req'[q].pc \in ResetPcs =>
          /\ req[q].pc \in ResetPcs /\ req'[q].given = req[q].given
          /\ req'[q].email = req[q].email
    BY DEF Calm, LinkPcs, ResetPcs
  <1>3. LinksFresh'
    BY <1>1, <1>2 DEF Linked, LinksFresh, At, LinkPcs
  <1>4. LinksStored'
    BY <1>2, StoredKept DEF Linked
  <1> QED
    BY <1>3, <1>4 DEF Linked

(* Keys that vanish, and tokens spent when theirs does, do no harm. *)
LEMMA DropLinked ==
    ASSUME Typed, Linked, \A q \in Slots : Calm(req[q], req'[q]),
           NEW e \in Emails, SetResetToken(e, None), UNCHANGED outbox,
           \/ UNCHANGED spent
           \/ \E s \in Slots : /\ req[s].pc \in ResetPcs /\ req[s].email = e
                              /\ spent' = spent \cup {req[s].given}
    PROVE  Linked'
  <1>1. \A q \in Slots : req'[q].pc \in LinkPcs =>
          /\ req'[q].pc = req[q].pc /\ req'[q].made = req[q].made
          /\ req'[q].email = req[q].email
    BY DEF Calm, LinkPcs, ResetPcs
  <1>2. \A q \in Slots : req'[q].pc \in ResetPcs =>
          /\ req[q].pc \in ResetPcs /\ req'[q].given = req[q].given
          /\ req'[q].email = req[q].email
    BY DEF Calm, LinkPcs, ResetPcs
  <1>3. /\ passwordResetToken'[e] = None
        /\ \A f \in Emails \ {e} : passwordResetToken'[f] = passwordResetToken[f]
        /\ MailedTokens' = MailedTokens
    BY DEF SetResetToken, MailedTokens, Typed, TypeOK, StoreTypeOK
  <1>4. \A q \in Slots : /\ req[q].pc \in LinkPcs => req[q].made # None
                         /\ req[q].pc \in ResetPcs => req[q].given # None
    BY NoneAssumption DEF Typed, LocalsOK, LinkPcs, ResetPcs
  <1>5. \A q \in Slots : At(q, "forgot.store") => req[q].made \notin spent'
    BY DEF Linked, LinksFresh
  <1>6. spent' \subseteq MailedTokens
    BY DEF Linked, LinksStored
  <1>7. \A f \in Emails \ {e} :
          passwordResetToken[f] # None => passwordResetToken[f] \notin spent'
    BY DEF Linked, LinksStored
  <1>8. LinksFresh'
    BY <1>1, <1>2, <1>3, <1>4, <1>5 DEF Linked, LinksFresh, At, LinkPcs
  <1>9. LinksStored'
    BY <1>2, <1>3, <1>4, <1>6, <1>7 DEF Linked, LinksStored
  <1> QED
    BY <1>8, <1>9 DEF Linked

----------------------------------------------------------------------------
LEMMA InitLinked == Init => Linked
  BY NoneAssumption DEF Init, StoreInit, Linked, LinksFresh, LinksStored, At,
                        Idle, LinkPcs, ResetPcs

LEMMA ForgotLinked ==
    ASSUME Typed, Linked, NEW s \in Slots, NEW e \in Emails, Forgot(s, e)
    PROVE  Linked'
  <1>1. PICK t \in ResetTokens \ (MailedTokens \cup {req[r].made : r \in Slots}) :
          Become(s, [Idle EXCEPT !.pc = "forgot.mail", !.email = e, !.made = t])
    BY DEF Forgot, Accept
  <1>2. /\ req'[s] = [Idle EXCEPT !.pc = "forgot.mail", !.email = e, !.made = t]
        /\ \A q \in Slots \ {s} : req'[q] = req[q]
    BY <1>1 DEF Become, Typed, TypeOK
  <1>3. req'[s].pc = "forgot.mail" /\ req'[s].made = t
    BY <1>2 DEF Idle
  <1>4. UNCHANGED <<passwordResetToken, spent, outbox>> /\ MailedTokens' = MailedTokens
    BY DEF Forgot, store, history, MailedTokens
  <1>5. \A q \in Slots : req[q].made # t
    BY <1>1
  <1>6. LinksFresh'
    <2>1. \A q \in Slots : At(q, "forgot.mail")' => req'[q].made \notin MailedTokens'
      BY <1>1, <1>2, <1>3, <1>4 DEF Linked, LinksFresh, At
    <2>2. ASSUME NEW q \in Slots, NEW r \in Slots, q # r,
                 req'[q].pc \in LinkPcs, req'[r].pc \in LinkPcs
          PROVE  req'[q].made # req'[r].made
      <3>1. CASE q # s /\ r # s
        BY <1>2, <2>2, <3>1 DEF Linked, LinksFresh
      <3>2. CASE q = s \/ r = s
        BY <1>2, <1>3, <1>5, <2>2, <3>2
      <3> QED
        BY <3>1, <3>2
    <2>3. ASSUME NEW q \in Slots, At(q, "forgot.store")'
          PROVE  /\ req'[q].made \notin spent'
                 /\ \A f \in Emails : passwordResetToken'[f] # req'[q].made
                 /\ \A r \in Slots :
                      req'[r].pc \in ResetPcs => req'[r].given # req'[q].made
                 /\ Mail("passwordReset", req'[q].email, req'[q].made) \in outbox'
      <3>1. q # s /\ req'[q] = req[q] /\ At(q, "forgot.store")
        BY <1>2, <1>3, <2>3 DEF At
      <3>2. \A r \in Slots : req'[r].pc \in ResetPcs => req'[r] = req[r]
        BY <1>2, <1>3 DEF ResetPcs
      <3> QED
        BY <1>4, <3>1, <3>2 DEF Linked, LinksFresh
    <2> QED
      BY <2>1, <2>2, <2>3 DEF LinksFresh, At
  <1>7. LinksStored'
    <2>1. \A q \in Slots : req'[q].pc \in ResetPcs => req'[q] = req[q]
      BY <1>2, <1>3 DEF ResetPcs
    <2> QED
      BY <1>4, <2>1, StoredKept DEF Linked
  <1> QED
    BY <1>6, <1>7 DEF Linked

LEMMA MailLinkLinked ==
    ASSUME Typed, Linked, NEW s \in Slots, MailResetLink(s)
    PROVE  Linked'
  <1> DEFINE t == req[s].made
             mail == Mail("passwordReset", req[s].email, t)
  <1>1. /\ req[s].pc = "forgot.mail" /\ t \notin MailedTokens /\ t # None
        /\ req[s] \in Request
    BY NoneAssumption DEF MailResetLink, At, Linked, LinksFresh, Typed, TypeOK,
                          LocalsOK
  <1>2. /\ req'[s] = [req[s] EXCEPT !.pc = "forgot.store"]
        /\ \A q \in Slots \ {s} : req'[q] = req[q]
    BY DEF MailResetLink, Goto, Become, Typed, TypeOK
  <1>3. /\ req'[s].pc = "forgot.store" /\ req'[s].made = t
        /\ req'[s].email = req[s].email
    BY <1>1, <1>2 DEF Request
  <1>4. UNCHANGED <<passwordResetToken, spent>> /\ outbox' = outbox \cup {mail}
    BY DEF MailResetLink, Enqueue
  <1>5. MailedTokens' = MailedTokens \cup {t}
    <2>1. {m \in outbox' : m.kind = "passwordReset"}
            = {m \in outbox : m.kind = "passwordReset"} \cup {mail}
      BY <1>4 DEF Mail
    <2>2. mail.secret = t
      BY DEF Mail
    <2> QED
      BY <2>1, <2>2 DEF MailedTokens
  <1>6. t \notin spent
    BY <1>1 DEF Linked, LinksStored
  <1>7. \A e \in Emails : passwordResetToken[e] # t
    BY <1>1, MailedToken DEF Linked, LinksStored
  <1>8. \A q \in Slots : req[q].pc \in ResetPcs => req[q].given # t
    BY <1>1 DEF Linked, LinksStored
  <1>9. \A q \in Slots \ {s} : req[q].pc \in LinkPcs => req[q].made # t
    BY <1>1 DEF Linked, LinksFresh, LinkPcs
  <1> HIDE DEF t, mail
  <1>10. LinksFresh'
    <2>1. \A q \in Slots : At(q, "forgot.mail")' => req'[q].made \notin MailedTokens'
      <3> SUFFICES ASSUME NEW q \in Slots, At(q, "forgot.mail")'
                   PROVE  req'[q].made \notin MailedTokens'
        OBVIOUS
      <3>1. q # s /\ req'[q] = req[q] /\ At(q, "forgot.mail")
        BY <1>2, <1>3 DEF At
      <3>2. req[q].made # t
        BY <1>9, <3>1 DEF At, LinkPcs
      <3> QED
        BY <1>5, <3>1, <3>2 DEF Linked, LinksFresh
    <2>2. ASSUME NEW q \in Slots, NEW r \in Slots, q # r,
                 req'[q].pc \in LinkPcs, req'[r].pc \in LinkPcs
          PROVE  req'[q].made # req'[r].made
      <3>1. CASE q # s /\ r # s
        BY <1>2, <2>2, <3>1 DEF Linked, LinksFresh
      <3>2. CASE q = s \/ r = s
        BY <1>2, <1>3, <1>9, <2>2, <3>2
      <3> QED
        BY <3>1, <3>2
    <2>3. ASSUME NEW q \in Slots, At(q, "forgot.store")'
          PROVE  /\ req'[q].made \notin spent'
                 /\ \A e \in Emails : passwordResetToken'[e] # req'[q].made
                 /\ \A r \in Slots :
                      req'[r].pc \in ResetPcs => req'[r].given # req'[q].made
                 /\ Mail("passwordReset", req'[q].email, req'[q].made) \in outbox'
      <3>1. \A r \in Slots : req'[r].pc \in ResetPcs =>
              req[r].pc \in ResetPcs /\ req'[r].given = req[r].given
        BY <1>2, <1>3 DEF ResetPcs
      <3>2. CASE q = s
        BY <1>3, <1>4, <1>6, <1>7, <1>8, <3>1, <3>2 DEF mail, t
      <3>3. CASE q # s
        BY <1>2, <1>4, <2>3, <3>1, <3>3 DEF Linked, LinksFresh, At
      <3> QED
        BY <3>2, <3>3
    <2> QED
      BY <2>1, <2>2, <2>3 DEF LinksFresh, At
  <1>11. LinksStored'
    <2>1. \A q \in Slots : req'[q].pc \in ResetPcs => req'[q] = req[q]
      BY <1>2, <1>3 DEF ResetPcs
    <2> QED
      BY <1>4, <1>5, <2>1, StoredKept DEF Linked
  <1> QED
    BY <1>10, <1>11 DEF Linked

LEMMA StoreLinkLinked ==
    ASSUME Typed, Linked, NEW s \in Slots, StoreResetToken(s)
    PROVE  Linked'
  <1> DEFINE t == req[s].made
             e == req[s].email
  <1>1. /\ req[s].pc = "forgot.store" /\ e \in Emails /\ t # None
        /\ t \notin spent
        /\ \A f \in Emails : passwordResetToken[f] # t
        /\ \A q \in Slots : req[q].pc \in ResetPcs => req[q].given # t
        /\ Mail("passwordReset", e, t) \in outbox
    BY NoneAssumption DEF StoreResetToken, At, Linked, LinksFresh, Typed, TypeOK,
                          LocalsOK
  <1>2. /\ req'[s].pc = "idle"
        /\ \A q \in Slots \ {s} : req'[q] = req[q]
    BY DEF StoreResetToken, Finish, Become, Typed, TypeOK, Idle
  <1>3. /\ passwordResetToken'[e] = t
        /\ \A f \in Emails \ {e} : passwordResetToken'[f] = passwordResetToken[f]
    BY <1>1 DEF StoreResetToken, SetResetToken, Typed, TypeOK, StoreTypeOK
  <1>4. UNCHANGED <<spent, outbox>> /\ MailedTokens' = MailedTokens
    BY DEF StoreResetToken, history, MailedTokens
  <1>5. t \in MailedTokens
    BY <1>1, MailedToken
  <1>6. \A q \in Slots \ {s} : req[q].pc \in LinkPcs => req[q].made # t
    BY <1>1 DEF Linked, LinksFresh, LinkPcs
  <1> HIDE DEF t, e
  <1>7. LinksFresh'
    BY <1>2, <1>3, <1>4, <1>6 DEF Linked, LinksFresh, At, LinkPcs, ResetPcs
  <1>8. LinksStored'
    BY <1>1, <1>2, <1>3, <1>4 DEF Linked, LinksStored, ResetPcs
  <1> QED
    BY <1>7, <1>8 DEF Linked

LEMMA ResetLinked ==
    ASSUME Typed, Linked, NEW s \in Slots, NEW e \in Emails,
           NEW t \in ResetTokens, NEW p \in Passwords, Reset(s, e, t, p)
    PROVE  Linked'
  <1>1. /\ req'[s] = [Idle EXCEPT !.pc = "reset.findByEmail", !.email = e,
                                  !.given = t, !.password = p]
        /\ \A q \in Slots \ {s} : req'[q] = req[q]
    BY DEF Reset, Accept, Become, Typed, TypeOK
  <1>2. /\ req'[s].pc = "reset.findByEmail" /\ req'[s].given = t
        /\ req'[s].email = e
    BY <1>1 DEF Idle
  <1>3. /\ UNCHANGED <<passwordResetToken, spent, outbox>>
        /\ MailedTokens' = MailedTokens
    BY DEF Reset, store, history, MailedTokens
  <1>4. passwordResetToken[e] = t /\ t # None
    BY NoneAssumption DEF Reset, ResetMatches
  <1>5. t \in MailedTokens
    BY <1>4, MailedToken DEF Linked, LinksStored
  <1>6. LinksFresh'
    <2>1. \A q \in Slots : req'[q].pc \in LinkPcs => req'[q] = req[q]
      BY <1>1, <1>2 DEF LinkPcs
    <2>2. \A q \in Slots : At(q, "forgot.store") => req[q].made # t
      BY <1>4 DEF Linked, LinksFresh
    <2>3. ASSUME NEW q \in Slots, At(q, "forgot.store")'
          PROVE  /\ At(q, "forgot.store") /\ req'[q] = req[q]
                 /\ \A r \in Slots :
                      req'[r].pc \in ResetPcs => req'[r].given # req[q].made
      <3>1. At(q, "forgot.store") /\ req'[q] = req[q]
        BY <2>1, <2>3 DEF At, LinkPcs
      <3>2. req[q].made # t
        BY <2>2, <3>1
      <3>3. ASSUME NEW r \in Slots, req'[r].pc \in ResetPcs
            PROVE  req'[r].given # req[q].made
        <4>1. CASE r = s
          BY <1>2, <3>2, <4>1
        <4>2. CASE r # s
          <5>1. req'[r] = req[r]
            BY <1>1, <4>2
          <5> QED
            BY <3>1, <3>3, <5>1 DEF Linked, LinksFresh
        <4> QED
          BY <4>1, <4>2
      <3> QED
        BY <3>1, <3>3
    <2>4. \A q \in Slots : At(q, "forgot.mail")' => req'[q].made \notin MailedTokens'
      <3> SUFFICES ASSUME NEW q \in Slots, At(q, "forgot.mail")'
                   PROVE  req'[q].made \notin MailedTokens'
        OBVIOUS
      <3>1. At(q, "forgot.mail") /\ req'[q] = req[q]
        BY <2>1 DEF At, LinkPcs
      <3> QED
        BY <1>3, <3>1 DEF Linked, LinksFresh
    <2>5. ASSUME NEW q \in Slots, NEW r \in Slots, q # r,
                 req'[q].pc \in LinkPcs, req'[r].pc \in LinkPcs
          PROVE  req'[q].made # req'[r].made
      BY <2>1, <2>5 DEF Linked, LinksFresh
    <2>6. ASSUME NEW q \in Slots, At(q, "forgot.store")'
          PROVE  /\ req'[q].made \notin spent'
                 /\ \A f \in Emails : passwordResetToken'[f] # req'[q].made
                 /\ Mail("passwordReset", req'[q].email, req'[q].made) \in outbox'
      <3>1. At(q, "forgot.store") /\ req'[q] = req[q]
        BY <2>3, <2>6
      <3> QED
        BY <1>3, <3>1 DEF Linked, LinksFresh
    <2> QED
      BY <2>3, <2>4, <2>5, <2>6 DEF LinksFresh, At
  <1>7. LinksStored'
    <2>1. \A f \in Emails : passwordResetToken[f] = t => f = e
      BY <1>4 DEF Linked, LinksStored
    <2>2. ASSUME NEW q \in Slots, req'[q].pc \in ResetPcs
          PROVE  /\ req'[q].given \in MailedTokens
                 /\ \A f \in Emails :
                      passwordResetToken[f] = req'[q].given => f = req'[q].email
      <3>1. CASE q = s
        BY <1>2, <1>5, <2>1, <3>1
      <3>2. CASE q # s
        <4>1. req'[q] = req[q]
          BY <1>1, <3>2
        <4> QED
          BY <2>2, <4>1 DEF Linked, LinksStored
      <3> QED
        BY <3>1, <3>2
    <2> QED
      BY <1>3, <2>2 DEF Linked, LinksStored
  <1> QED
    BY <1>6, <1>7 DEF Linked

(* All other stretches of a handler. *)
LEMMA ContinueLinked ==
    ASSUME Typed, Linked, NEW s \in Slots, Continue(s)
    PROVE  Linked'
  <1> DEFINE AllCalm == \A q \in Slots : Calm(req[q], req'[q])
             KeysCalm == UNCHANGED <<passwordResetToken, spent>>
  <1>0. req[s] \in Request /\ LocalsOK(req[s])
    BY DEF Typed, TypeOK
  <1>1. ASSUME AllCalm, KeysCalm, UNCHANGED outbox
        PROVE  Linked'
    BY <1>1, CalmLinked DEF MailedTokens
  <1>2. \A e : AllCalm \/ ~Become(s, SendOtp(e))
    <2>1. \A e : Calm(req[s], SendOtp(e))
      BY DEF Calm, SendOtp, Idle, LinkPcs, ResetPcs
    <2> QED
      BY <2>1, MoveCalm
  <1>3. \A id : AllCalm \/ ~Become(s, IssueTokens(id))
    <2>1. \A id : Calm(req[s], IssueTokens(id))
      BY DEF Calm, IssueTokens, Idle, LinkPcs, ResetPcs
    <2> QED
      BY <2>1, MoveCalm
  <1>4. AllCalm \/ ~Finish(s)
    BY FinishCalm
  <1>5. \A pc : \/ AllCalm
               \/ ~Goto(s, pc)
               \/ /\ pc \in LinkPcs \cup ResetPcs
                  /\ ~({pc, req[s].pc} \subseteq ResetPcs)
    BY GotoCalm
  <1>6. ASSUME NEW n, Become(s, n), n.pc \notin LinkPcs \cup ResetPcs
        PROVE  AllCalm
    <2>1. Calm(req[s], n)
      BY <1>6 DEF Calm
    <2> QED
      BY <1>6, <2>1, MoveCalm
  <1> HIDE DEF AllCalm, KeysCalm
  <1>7. CASE RegisterInsert(s)
    BY <1>7, <1>1, <1>2, <1>4 DEF RegisterInsert, history, KeysCalm
  <1>8. CASE StoreOtp(s)
    <2>1. PICK c : Become(s, [req[s] EXCEPT !.pc = "otp.mail", !.made = c])
      BY <1>8 DEF StoreOtp
    <2>2. [req[s] EXCEPT !.pc = "otp.mail", !.made = c].pc = "otp.mail"
      BY <1>0 DEF Request
    <2>3. AllCalm
      BY <1>6, <2>1, <2>2 DEF LinkPcs, ResetPcs
    <2> QED
      BY <1>8, <1>1, <2>3 DEF StoreOtp, KeysCalm
  <1>9. CASE MailOtp(s)
    <2>1. AllCalm /\ KeysCalm
      BY <1>9, <1>4 DEF MailOtp, history, KeysCalm
    <2> QED
      BY <1>9, <2>1, OtherMail, CalmLinked DEF MailOtp, AllCalm, KeysCalm
  <1>10. CASE StoreSession(s)
    BY <1>10, <1>1, <1>4 DEF StoreSession, KeysCalm
  <1>11. CASE ReadAttempts(s)
    <2> DEFINE n == [req[s] EXCEPT !.pc = "verify.code",
                                   !.count = otpAttempts[req[s].email]]
    <2>1. n.pc = "verify.code"
      BY <1>0 DEF Request
    <2> HIDE DEF n
    <2>2. Finish(s) \/ Become(s, n)
      BY <1>11 DEF ReadAttempts, n
    <2>3. AllCalm
      BY <1>4, <1>6, <2>1, <2>2 DEF LinkPcs, ResetPcs
    <2> QED
      BY <1>11, <1>1, <2>3 DEF ReadAttempts, store, history, KeysCalm
  <1>12. CASE CompareOtp(s)
    <2> DEFINE n == [req[s] EXCEPT !.pc = "verify.mark", !.count = 0]
    <2>1. n.pc = "verify.mark"
      BY <1>0 DEF Request
    <2> HIDE DEF n
    <2>2. Goto(s, "verify.miss") \/ Become(s, n)
      BY <1>12 DEF CompareOtp, n
    <2>3. AllCalm
      BY <1>5, <1>6, <2>1, <2>2 DEF LinkPcs, ResetPcs
    <2> QED
      BY <1>12, <1>1, <2>3 DEF CompareOtp, store, KeysCalm
  <1>13. CASE CountMiss(s)
    BY <1>13, <1>1, <1>4 DEF CountMiss, history, KeysCalm
  <1>14. CASE MarkVerified(s)
    BY <1>14, <1>1, <1>5 DEF MarkVerified, history, KeysCalm, LinkPcs, ResetPcs
  <1>15. CASE DropCode(s)
    BY <1>15, <1>1, <1>5 DEF DropCode, history, KeysCalm, LinkPcs, ResetPcs
  <1>16. CASE DropCount(s)
    BY <1>16, <1>1, <1>5 DEF DropCount, KeysCalm, LinkPcs, ResetPcs
  <1>17. CASE MailWelcome(s)
    <2>1. AllCalm /\ KeysCalm
      BY <1>17, <1>3 DEF MailWelcome, history, KeysCalm
    <2> QED
      BY <1>17, <2>1, OtherMail, CalmLinked DEF MailWelcome, AllCalm, KeysCalm
  <1>18. CASE ReadResends(s)
    <2> DEFINE n == [req[s] EXCEPT !.pc = "resend.bump",
                                   !.count = otpResendAttempts[req[s].email]]
    <2>1. n.pc = "resend.bump"
      BY <1>0 DEF Request
    <2> HIDE DEF n
    <2>2. Finish(s) \/ Become(s, n)
      BY <1>18 DEF ReadResends, n
    <2>3. AllCalm
      BY <1>4, <1>6, <2>1, <2>2 DEF LinkPcs, ResetPcs
    <2> QED
      BY <1>18, <1>1, <2>3 DEF ReadResends, store, history, KeysCalm
  <1>19. CASE BumpResends(s)
    BY <1>19, <1>1, <1>2 DEF BumpResends, history, KeysCalm
  <1>20. CASE MailResetLink(s)
    BY <1>20, MailLinkLinked
  <1>21. CASE StoreResetToken(s)
    BY <1>21, StoreLinkLinked
  <1>22. CASE ResetFindUser(s)
    <2>1. ASSUME NEW id, Become(s, [req[s] EXCEPT !.pc = "reset.findOne", !.id = id])
          PROVE  AllCalm
      <3> DEFINE n == [req[s] EXCEPT !.pc = "reset.findOne", !.id = id]
      <3>1. /\ n.pc = "reset.findOne" /\ n.email = req[s].email
            /\ n.given = req[s].given /\ n.made = req[s].made
        BY <1>0 DEF Request
      <3> HIDE DEF n
      <3>2. Calm(req[s], n)
        BY <1>22, <3>1 DEF Calm, ResetFindUser, At, ResetPcs
      <3> QED
        BY <2>1, <3>2, MoveCalm DEF n, AllCalm
    <2>2. AllCalm
      BY <1>22, <1>4, <2>1 DEF ResetFindUser
    <2> QED
      BY <1>22, <1>1, <2>2 DEF ResetFindUser, store, history, KeysCalm
  <1>23. CASE ResetFindOne(s)
    <2>1. AllCalm
      BY <1>23, <1>4, <1>5 DEF ResetFindOne, At, ResetPcs
    <2> QED
      BY <1>23, <1>1, <2>1 DEF ResetFindOne, store, history, KeysCalm
  <1>24. CASE ResetUpdate(s)
    <2>1. AllCalm
      BY <1>24, <1>4, <1>5 DEF ResetUpdate, At, ResetPcs
    <2> QED
      BY <1>24, <1>1, <2>1 DEF ResetUpdate, history, KeysCalm
  <1>25. CASE MailPasswordUpdate(s)
    <2>1. AllCalm /\ KeysCalm
      BY <1>25, <1>5 DEF MailPasswordUpdate, At, ResetPcs, history, KeysCalm
    <2> QED
      BY <1>25, <2>1, OtherMail, CalmLinked DEF MailPasswordUpdate, AllCalm,
                                                KeysCalm
  <1>26. CASE DropResetToken(s)
    <2>1. req[s].email \in Emails /\ req[s].pc \in ResetPcs
      BY <1>26, <1>0 DEF DropResetToken, At, LocalsOK, ResetPcs
    <2>2. AllCalm
      BY <1>26, <1>4 DEF DropResetToken
    <2> QED
      BY <1>26, <2>1, <2>2, DropLinked DEF DropResetToken, DeleteResetToken,
                                           AllCalm
  <1>27. CASE GoogleFindByEmail(s)
    <2>1. AllCalm
      BY <1>27, <1>4, <1>5 DEF GoogleFindByEmail, LinkPcs, ResetPcs
    <2> QED
      BY <1>27, <1>1, <2>1 DEF GoogleFindByEmail, store, history, KeysCalm
  <1>28. CASE GoogleUpsert(s)
    <2>1. PICK id : Become(s, [Idle EXCEPT !.pc = "google.load", !.id = id])
      BY <1>28 DEF GoogleUpsert
    <2>2. [Idle EXCEPT !.pc = "google.load", !.id = id].pc = "google.load"
      BY DEF Idle
    <2>3. AllCalm
      BY <1>6, <2>1, <2>2 DEF LinkPcs, ResetPcs
    <2> QED
      BY <1>28, <1>1, <2>3 DEF GoogleUpsert, history, KeysCalm
  <1>29. CASE GoogleLoad(s)
    <2>1. AllCalm
      BY <1>29, <1>3, <1>4 DEF GoogleLoad
    <2> QED
      BY <1>29, <1>1, <2>1 DEF GoogleLoad, store, history, KeysCalm
  <1>30. CASE RemoveDelete(s)
    BY <1>30, <1>1, <1>4 DEF RemoveDelete, history, KeysCalm
  <1> QED
    BY <1>7, <1>8, <1>9, <1>10, <1>11, <1>12, <1>13, <1>14, <1>15, <1>16, <1>17,
       <1>18, <1>19, <1>20, <1>21, <1>22, <1>23, <1>24, <1>25, <1>26, <1>27, <1>28,
       <1>29, <1>30 DEF Continue

LEMMA ArriveLinked ==
    ASSUME Typed, Linked, NEW s \in Slots, Arrive(s)
    PROVE  Linked'
  <1>1. ASSUME NEW n, Become(s, n), n.pc \notin LinkPcs \cup ResetPcs,
               UNCHANGED <<passwordResetToken, spent, outbox>>
        PROVE  Linked'
    <2>1. Calm(req[s], n)
      BY <1>1 DEF Calm
    <2> QED
      BY <1>1, <2>1, MoveCalm, CalmLinked DEF MailedTokens
  <1>2. /\ \A e : SendOtp(e).pc = "otp.store"
        /\ \A id : IssueTokens(id).pc = "session.store"
    BY DEF SendOtp, IssueTokens, Idle
  <1>3. ASSUME NEW e \in Emails, NEW p \in Passwords, Register(s, e, p)
        PROVE  Linked'
    <2> DEFINE n == [Idle EXCEPT !.pc = "register.insert", !.email = e,
                                 !.password = p]
    <2>1. n.pc = "register.insert"
      BY DEF Idle
    <2> HIDE DEF n
    <2>2. Become(s, n)
      BY <1>3 DEF Register, Accept, n
    <2> QED
      BY <1>1, <1>3, <2>1, <2>2 DEF Register, store, history, LinkPcs, ResetPcs
  <1>4. ASSUME NEW e \in Emails, NEW p \in Passwords, Login(s, e, p)
        PROVE  Linked'
    <2>1. PICK id : Become(s, LoginOutcome(id))
      BY <1>4 DEF Login, Accept
    <2>2. LoginOutcome(id).pc \in {"otp.store", "session.store"}
      BY <1>2 DEF LoginOutcome
    <2> QED
      BY <1>1, <1>4, <2>1, <2>2 DEF Login, store, history, LinkPcs, ResetPcs
  <1>5. ASSUME NEW e \in Emails, NEW c \in Codes, VerifyEmail(s, e, c)
        PROVE  Linked'
    <2>1. PICK id : Become(s, [Idle EXCEPT !.pc = "verify.attempts", !.email = e,
                                           !.id = id, !.given = c])
      BY <1>5 DEF VerifyEmail, Accept
    <2> DEFINE n == [Idle EXCEPT !.pc = "verify.attempts", !.email = e,
                                 !.id = id, !.given = c]
    <2>2. n.pc = "verify.attempts"
      BY DEF Idle
    <2> HIDE DEF n
    <2>3. Become(s, n)
      BY <2>1 DEF n
    <2> QED
      BY <1>1, <1>5, <2>2, <2>3 DEF VerifyEmail, store, history, LinkPcs, ResetPcs
  <1>6. ASSUME NEW e \in Emails, Resend(s, e)
        PROVE  Linked'
    <2> DEFINE n == [Idle EXCEPT !.pc = "resend.attempts", !.email = e]
    <2>1. n.pc = "resend.attempts"
      BY DEF Idle
    <2> HIDE DEF n
    <2>2. Become(s, n)
      BY <1>6 DEF Resend, Accept, n
    <2> QED
      BY <1>1, <1>6, <2>1, <2>2 DEF Resend, store, history, LinkPcs, ResetPcs
  <1>7. ASSUME NEW token, Refresh(s, token)
        PROVE  Linked'
    <2>1. Become(s, IssueTokens(token.sub))
      BY <1>7 DEF Refresh, Accept
    <2> QED
      BY <1>1, <1>2, <1>7, <2>1 DEF Refresh, store, history, LinkPcs, ResetPcs
  <1>8. ASSUME NEW g \in GoogleIds, NEW e \in Emails, Google(s, g, e)
        PROVE  Linked'
    <2> DEFINE n == [Idle EXCEPT !.pc = "google.findByEmail", !.email = e,
                                 !.given = g]
    <2>1. n.pc = "google.findByEmail"
      BY DEF Idle
    <2> HIDE DEF n
    <2>2. Become(s, n) \/ \E id : Become(s, IssueTokens(id))
      BY <1>8 DEF Google, Accept, n
    <2> QED
      BY <1>1, <1>2, <1>8, <2>1, <2>2 DEF Google, store, LinkPcs, ResetPcs
  <1>9. ASSUME NEW id \in Ids, Remove(s, id)
        PROVE  Linked'
    <2> DEFINE n == [Idle EXCEPT !.pc = "remove.delete", !.id = id]
    <2>1. n.pc = "remove.delete"
      BY DEF Idle
    <2> HIDE DEF n
    <2>2. Become(s, n)
      BY <1>9 DEF Remove, Accept, n
    <2> QED
      BY <1>1, <1>9, <2>1, <2>2 DEF Remove, store, history, LinkPcs, ResetPcs
  <1> QED
    BY <1>3, <1>4, <1>5, <1>6, <1>7, <1>8, <1>9, ForgotLinked, ResetLinked
    DEF Arrive

LEMMA StepLinked == Typed /\ Linked /\ [Next]_vars => Linked'
  <1> SUFFICES ASSUME Typed, Linked, [Next]_vars PROVE Linked'
    OBVIOUS
  <1>0. \A r : Calm(r, r)
    BY DEF Calm
  <1>1. ASSUME UNCHANGED <<req, passwordResetToken, spent, outbox>>
        PROVE  Linked'
    BY <1>0, <1>1, CalmLinked DEF MailedTokens
  <1>2. ASSUME NEW s \in Slots, Fail(s)
        PROVE  Linked'
    <2>1. /\ \A q \in Slots : Calm(req[q], req'[q])
          /\ UNCHANGED <<passwordResetToken, spent, outbox>>
      BY <1>2, FinishCalm DEF Fail, store, history
    <2> QED
      BY <2>1, CalmLinked DEF MailedTokens
  <1>3. ASSUME NEW e \in Emails, ExpireResetToken(e)
        PROVE  Linked'
    <2>1. \A q \in Slots : Calm(req[q], req'[q])
      BY <1>0, <1>3 DEF ExpireResetToken
    <2> QED
      BY <1>3, <2>1, DropLinked DEF ExpireResetToken, DeleteResetToken, history
  <1>4. \/ UNCHANGED <<req, passwordResetToken, spent, outbox>>
        \/ \E s \in Slots : Arrive(s) \/ Continue(s) \/ Fail(s)
        \/ \E e \in Emails : ExpireResetToken(e)
    BY DEF Next, Logout, Expire, ExpireCode, ExpireAttempts, ExpireResends, Tick,
           vars, store, history
  <1> QED
    BY <1>1, <1>2, <1>3, <1>4, ArriveLinked, ContinueLinked

LEMMA AlwaysLinked == Spec => []Linked
  <1>1. Init => Typed /\ Linked
    BY InitTyped, InitLinked
  <1>2. Typed /\ Linked /\ [Next]_vars => (Typed /\ Linked)'
    BY StepTyped, StepLinked
  <1> QED
    BY <1>1, <1>2, PTL DEF Spec

(* A reset token can be redeemed only after its link was queued for the    *)
(* address it is stored for.                                               *)
THEOREM TokensWereMailed == Spec => []StoredTokenWasMailed
  <1>1. Linked => StoredTokenWasMailed
    BY DEF Linked, LinksStored, StoredTokenWasMailed
  <1> QED
    BY <1>1, AlwaysLinked, PTL

(* No interleaving of forgotPassword and resetPassword makes a token       *)
(* redeemable again that a completed reset has spent.                      *)
THEOREM SpentStaysSpent == Spec => []SpentTokenNeverLive
  <1>1. Typed /\ Linked => SpentTokenNeverLive
    <2>1. ASSUME Typed PROVE None \notin spent
      BY <2>1, NoneAssumption DEF Typed, TypeOK
    <2> QED
      BY <2>1 DEF Linked, LinksStored, SpentTokenNeverLive
  <1>2. Spec => []Typed
    BY AlwaysSecured, PTL
  <1> QED
    BY <1>1, <1>2, AlwaysLinked, PTL

----------------------------------------------------------------------------
(* Codes: stored by sendVerificationEmail and mailed by the same request *)

Told(e, c) == \/ Mail("verify", e, c) \in outbox
              \/ \E s \in Slots : At(s, "otp.mail") /\ req[s].email = e
                                                    /\ req[s].made = c

(* A step that mails nothing new and stores no code of its own, taken by a *)
(* request that is not about to mail a code, or by none.                   *)
CodeQuiet(s) ==
    /\ ~At(s, "otp.mail")
    /\ \A q \in Slots \ {s} : req'[q] = req[q]
    /\ outbox \subseteq outbox'
    /\ \A e \in Emails : otp'[e] \in {None, otp[e]}

LEMMA MoveOthers ==
    ASSUME Typed, NEW s \in Slots,
           Finish(s) \/ (\E pc : Goto(s, pc)) \/ (\E n : Become(s, n))
    PROVE  \A q \in Slots \ {s} : req'[q] = req[q]
  BY DEF Finish, Goto, Become, Typed, TypeOK

LEMMA QuietTold ==
    ASSUME NEW s, CodeQuiet(s), NEW e \in Emails, NEW c, Told(e, c)
    PROVE  Told(e, c)'
  BY DEF CodeQuiet, Told, At

LEMMA ArriveQuiet ==
    ASSUME Typed, NEW s \in Slots, Arrive(s)
    PROVE  CodeQuiet(s)
  <1>1. At(s, "idle") /\ (\E n : Become(s, n)) /\ UNCHANGED <<otp, outbox>>
    BY DEF Arrive, Register, Login, VerifyEmail, Resend, Forgot, Reset, Refresh,
           Google, Remove, Accept, store
  <1> QED
    BY <1>1, MoveOthers DEF CodeQuiet, At

LEMMA ContinueQuiet ==
    ASSUME Typed, NEW s \in Slots, Continue(s), ~StoreOtp(s), ~MailOtp(s)
    PROVE  CodeQuiet(s)
  <1>1. CASE MailWelcome(s) \/ MailResetLink(s) \/ MailPasswordUpdate(s)
    BY <1>1, MoveOthers DEF MailWelcome, MailResetLink, MailPasswordUpdate,
                            Enqueue, CodeQuiet, At
  <1>2. CASE DropCode(s)
    <2>1. \A e \in Emails : otp'[e] \in {None, otp[e]}
      BY <1>2 DEF DropCode, SetCode, Typed, TypeOK, StoreTypeOK
    <2> QED
      BY <1>2, <2>1, MoveOthers DEF DropCode, CodeQuiet, At
  <1>3. CASE \/ RegisterInsert(s) \/ StoreSession(s) \/ ReadAttempts(s)
             \/ CompareOtp(s) \/ CountMiss(s) \/ MarkVerified(s) \/ DropCount(s)
             \/ ReadResends(s) \/ BumpResends(s)
    BY <1>3, MoveOthers DEF RegisterInsert, StoreSession, ReadAttempts, CompareOtp,
         CountMiss, MarkVerified, DropCount, ReadResends, BumpResends, CodeQuiet,
         At, store
  <1>4. CASE \/ StoreResetToken(s) \/ ResetFindUser(s) \/ ResetFindOne(s)
             \/ ResetUpdate(s) \/ DropResetToken(s) \/ GoogleFindByEmail(s)
             \/ GoogleUpsert(s) \/ GoogleLoad(s) \/ RemoveDelete(s)
    BY <1>4, MoveOthers DEF StoreResetToken, ResetFindUser, ResetFindOne,
         ResetUpdate, DropResetToken, GoogleFindByEmail, GoogleUpsert, GoogleLoad,
         RemoveDelete, CodeQuiet, At, store
  <1> QED
    BY <1>1, <1>2, <1>3, <1>4 DEF Continue

LEMMA StepToldStays ==
    ASSUME Typed, [Next]_vars, faults' = 0, NEW e \in Emails, NEW c, Told(e, c)
    PROVE  Told(e, c)'
  <1>1. ASSUME NEW s \in Slots, StoreOtp(s)
        PROVE  Told(e, c)'
    <2>1. \A q \in Slots : At(q, "otp.mail") => req'[q] = req[q]
      BY <1>1, MoveOthers DEF StoreOtp, At
    <2> QED
      BY <1>1, <2>1 DEF StoreOtp, Told, At
  <1>2. ASSUME NEW s \in Slots, MailOtp(s)
        PROVE  Told(e, c)'
    <2>1. outbox' = outbox \cup {Mail("verify", req[s].email, req[s].made)}
      BY <1>2 DEF MailOtp, Enqueue
    <2>2. \A q \in Slots \ {s} : req'[q] = req[q]
      BY <1>2, MoveOthers DEF MailOtp
    <2> QED
      BY <2>1, <2>2 DEF Told, At
  <1>3. ASSUME NEW s \in Slots, Fail(s)
        PROVE  FALSE
    BY <1>3 DEF Fail, Typed, TypeOK
  <1>4. CASE UNCHANGED <<req, outbox>>
    BY <1>4 DEF Told, At
  <1> QED
    BY <1>1, <1>2, <1>3, <1>4, ArriveQuiet, ContinueQuiet, QuietTold
    DEF Next, Logout, Expire, ExpireCode, ExpireAttempts, ExpireResends,
        ExpireResetToken, Tick, vars, store

(* Once a request has been cut short, that is known for good. *)
LEMMA StepFaults ==
    ASSUME Typed, [Next]_vars, faults' = 0
    PROVE  faults = 0
  <1>1. ASSUME NEW s \in Slots, Arrive(s)
        PROVE  UNCHANGED faults
    BY <1>1 DEF Arrive, Register, Login, VerifyEmail, Resend, Forgot, Reset,
                Refresh, Google, Remove
  <1>2. ASSUME NEW s \in Slots, Continue(s)
        PROVE  UNCHANGED faults
    BY <1>2 DEF Continue, RegisterInsert, StoreOtp, MailOtp, StoreSession,
                ReadAttempts, CompareOtp, CountMiss, MarkVerified, DropCode,
                DropCount, MailWelcome, ReadResends, BumpResends, MailResetLink,
                StoreResetToken, ResetFindUser, ResetFindOne, ResetUpdate,
                MailPasswordUpdate, DropResetToken, GoogleFindByEmail,
                GoogleUpsert, GoogleLoad, RemoveDelete
  <1>3. ASSUME NEW s \in Slots, Fail(s)
        PROVE  FALSE
    BY <1>3 DEF Fail, Typed, TypeOK
  <1> QED
    BY <1>1, <1>2, <1>3 DEF Next, Logout, Expire, ExpireCode, ExpireAttempts,
       ExpireResends, ExpireResetToken, Tick, vars

(* The code an address has after a step is the one it had, or its request  *)
(* is about to mail it.                                                    *)
LEMMA StepTold ==
    Typed /\ LiveCodeReachesOwner /\ [Next]_vars => LiveCodeReachesOwner'
  <1> SUFFICES ASSUME Typed, LiveCodeReachesOwner, [Next]_vars, faults' = 0,
                      NEW e \in Emails, NEW c, otp'[e] = c, c # None
               PROVE  Told(e, c)'
    BY DEF LiveCodeReachesOwner, Told
  <1>1. CASE otp[e] = c
    <2>1. faults = 0
      BY StepFaults
    <2>2. Told(e, c)
      BY <1>1, <2>1 DEF LiveCodeReachesOwner, Told
    <2> QED
      BY <2>2, StepToldStays
  <1>2. ASSUME NEW s \in Slots, StoreOtp(s), otp[e] # c
        PROVE  Told(e, c)'
    <2>1. PICK d \in Codes :
            /\ SetCode(req[s].email, d)
            /\ Become(s, [req[s] EXCEPT !.pc = "otp.mail", !.made = d])
      BY <1>2 DEF StoreOtp
    <2>2. req[s].email = e /\ c = d
      BY <1>2, <2>1 DEF SetCode, Typed, TypeOK, StoreTypeOK
    <2>3. /\ req'[s].pc = "otp.mail" /\ req'[s].email = req[s].email
          /\ req'[s].made = d
      BY <2>1 DEF Become, Typed, TypeOK, Request
    <2> QED
      BY <2>2, <2>3 DEF Told, At
  <1>3. ASSUME otp[e] # c
        PROVE  \E s \in Slots : StoreOtp(s)
    <2>1. \A s \in Slots : ~CodeQuiet(s)
      BY <1>3 DEF CodeQuiet
    <2>2. \A f \in Emails : ExpireCode(f) => otp'[e] \in {None, otp[e]}
      BY DEF ExpireCode, SetCode, Typed, TypeOK, StoreTypeOK
    <2> QED
      BY <1>3, <2>1, <2>2, ArriveQuiet, ContinueQuiet
      DEF Next, MailOtp, Fail, Logout, Expire, ExpireAttempts, ExpireResends,
          ExpireResetToken, Tick, vars, store
  <1> QED
    BY <1>1, <1>2, <1>3

(* As long as no request is cut short, a code in Redis is in a mail queued *)
(* for its address or the request that stored it is about to queue it,     *)
(* however many requests overwrite the key.                                *)
THEOREM CodesReachOwners == Spec => []LiveCodeReachesOwner
  <1>1. Init => LiveCodeReachesOwner
    BY DEF Init, StoreInit, LiveCodeReachesOwner
  <1>2. Spec => []Typed
    BY AlwaysSecured, PTL
  <1> QED
    BY <1>1, <1>2, StepTold, PTL DEF Spec

=============================================================================
