----------------------------- MODULE AuthProofs -----------------------------
(***************************************************************************)
(* Invariants of AuthService for every set of slots, users, addresses and  *)
(* secrets and every bound.                                                *)
(***************************************************************************)
EXTENDS AuthProperties, TLAPS

(* The locals a suspended handler still needs are set, and a counter read  *)
(* from Redis and about to be written back was below the limit.            *)
LocalsOK(r) ==
    /\ r.pc \notin {"idle", "session.store", "google.load", "remove.delete"}
         => r.email \in Emails
    /\ r.pc \in {"session.store", "verify.attempts", "verify.code",
                 "verify.miss", "verify.mark", "verify.dropCode",
                 "verify.dropCount", "verify.welcome", "reset.findOne",
                 "reset.update", "reset.mail", "reset.drop", "google.load",
                 "remove.delete"}
         => r.id \in Ids
    /\ r.pc \in {"register.insert", "reset.findByEmail", "reset.findOne",
                 "reset.update", "reset.mail", "reset.drop"}
         => r.password \in Passwords
    /\ r.pc \in {"verify.attempts", "verify.code", "verify.miss",
                 "verify.mark", "verify.dropCode", "verify.dropCount",
                 "verify.welcome"}
         => r.given \in Codes
    /\ r.pc \in {"reset.findByEmail", "reset.findOne", "reset.update",
                 "reset.mail", "reset.drop"}
         => r.given \in ResetTokens
    /\ r.pc \in {"google.findByEmail", "google.upsert"}
         => r.given \in GoogleIds
    /\ r.pc = "otp.mail" => r.made \in Codes
    /\ r.pc \in {"forgot.mail", "forgot.store"} => r.made \in ResetTokens
    /\ r.pc \in {"verify.code", "verify.miss", "resend.bump"}
         => r.count < OtpLimit

Typed == TypeOK /\ \A s \in Slots : LocalsOK(req[s])

----------------------------------------------------------------------------
(* Records *)

USE OtpLimitAssumption, BoundsAssumption, NoneAssumption, AdminAssumption,
    RowAssumption

(* An empty slot is a well-typed request. *)
LEMMA IdleTyped == Idle \in Request /\ LocalsOK(Idle)
  BY DEF Idle, Request, LocalsOK

(* Replacing the request of one slot by a well-typed one keeps the slots   *)
(* well typed.                                                             *)
LEMMA BecomeTyped ==
    ASSUME Typed, NEW s \in Slots, NEW r \in Request, LocalsOK(r), Become(s, r)
    PROVE  req' \in [Slots -> Request] /\ \A q \in Slots : LocalsOK(req'[q])
  BY DEF Typed, TypeOK, Become

(* A handler that moves on keeps its other locals. *)
LEMMA GotoTyped ==
    ASSUME Typed, NEW s \in Slots, NEW pc, Goto(s, pc),
           [req[s] EXCEPT !.pc = pc] \in Request,
           LocalsOK([req[s] EXCEPT !.pc = pc])
    PROVE  req' \in [Slots -> Request] /\ \A q \in Slots : LocalsOK(req'[q])
  BY BecomeTyped DEF Goto

LEMMA FinishTyped ==
    ASSUME Typed, NEW s \in Slots, Finish(s)
    PROVE  req' \in [Slots -> Request] /\ \A q \in Slots : LocalsOK(req'[q])
  BY BecomeTyped, IdleTyped DEF Finish

(* Updates of one row keep the table well typed. *)
LEMMA UsersTyped ==
    ASSUME users \in [Ids -> Row \cup {Unborn, Gone}], NEW id \in Ids,
           \/ \E p \in Passwords : UpdatePassword(id, p)
           \/ UpdateVerified(id)
           \/ \E h \in Ids \cup {None} : UpdateSession(id, h)
           \/ Live(users, id) /\ \E g \in GoogleIds : UpdateGoogle(id, g)
           \/ Delete(id)
           \/ \E row \in Row : Insert(id, row)
    PROVE  users' \in [Ids -> Row \cup {Unborn, Gone}]
  <1>1. Live(users, id) => users[id] \in Row
    BY DEF Live
  <1>2. CASE \E p \in Passwords : UpdatePassword(id, p)
    BY <1>1, <1>2 DEF UpdatePassword, Row
  <1>3. CASE UpdateVerified(id)
    BY <1>1, <1>3 DEF UpdateVerified, Row
  <1>4. CASE \E h \in Ids \cup {None} : UpdateSession(id, h)
    BY <1>1, <1>4 DEF UpdateSession, Row
  <1>5. CASE Live(users, id) /\ \E g \in GoogleIds : UpdateGoogle(id, g)
    <2>1. PICK g \in GoogleIds : UpdateGoogle(id, g)
      BY <1>5
    <2>2. [users[id] EXCEPT !.googleId = g, !.verified = TRUE] \in Row
      BY <1>1, <1>5 DEF Row
    <2> QED
      BY <2>1, <2>2 DEF UpdateGoogle
  <1>6. CASE Delete(id)
    BY <1>6 DEF Delete
  <1>7. CASE \E row \in Row : Insert(id, row)
    BY <1>7 DEF Insert
  <1> QED
    BY <1>2, <1>3, <1>4, <1>5, <1>6, <1>7

LEMMA InitTyped == Init => Typed
  <1> SUFFICES ASSUME Init PROVE Typed
    OBVIOUS
  <1>1. users \in [Ids -> Row \cup {Unborn, Gone}]
    <2>1. \A p \in Passwords : AdminEmail # None =>
             NewRow(AdminEmail, p, None, TRUE, None) \in Row
      BY DEF NewRow, Row
    <2> QED
      BY <2>1 DEF Init, StoreInit
  <1>2. StoreTypeOK
    BY <1>1 DEF Init, StoreInit, StoreTypeOK
  <1>3. req \in [Slots -> Request] /\ \A s \in Slots : LocalsOK(req[s])
    BY IdleTyped DEF Init
  <1> QED
    BY <1>2, <1>3 DEF Init, Typed, TypeOK

----------------------------------------------------------------------------
(* Steps *)

ReqTyped == req \in [Slots -> Request] /\ \A s \in Slots : LocalsOK(req[s])

(* A step that only reads the store is typed when its slots are. *)
LEMMA ReadTyped ==
    ASSUME Typed, ReqTyped', UNCHANGED <<store, history, faults>>
    PROVE  Typed'
  BY DEF Typed, TypeOK, StoreTypeOK, ReqTyped, store, history

(* The records the handlers start with. *)
LEMMA StartTyped ==
    /\ \A e \in Emails : SendOtp(e) \in Request /\ LocalsOK(SendOtp(e))
    /\ \A id \in Ids : IssueTokens(id) \in Request /\ LocalsOK(IssueTokens(id))
  <1>1. ASSUME NEW e \in Emails
        PROVE  SendOtp(e) \in Request /\ LocalsOK(SendOtp(e))
    <2>1. SendOtp(e) \in Request
      BY IdleTyped DEF SendOtp, Request
    <2>2. LocalsOK(SendOtp(e))
      BY DEF SendOtp, Idle, LocalsOK
    <2> QED
      BY <2>1, <2>2
  <1>2. ASSUME NEW id \in Ids
        PROVE  IssueTokens(id) \in Request /\ LocalsOK(IssueTokens(id))
    <2>1. IssueTokens(id) \in Request
      BY IdleTyped DEF IssueTokens, Request
    <2>2. LocalsOK(IssueTokens(id))
      BY DEF IssueTokens, Idle, LocalsOK
    <2> QED
      BY <2>1, <2>2
  <1> QED
    BY <1>1, <1>2

LEMMA BecomeReqTyped ==
    ASSUME Typed, NEW s \in Slots, NEW r \in Request, LocalsOK(r), Become(s, r)
    PROVE  ReqTyped'
  BY BecomeTyped DEF ReqTyped

LEMMA FinishReqTyped ==
    ASSUME Typed, NEW s \in Slots, Finish(s)
    PROVE  ReqTyped'
  BY FinishTyped DEF ReqTyped

(* A request that arrives is a well-typed one. *)
LEMMA ArriveTyped ==
    ASSUME Typed, NEW s \in Slots, Arrive(s)
    PROVE  Typed'
  <1>0. /\ users \in [Ids -> Row \cup {Unborn, Gone}]
        /\ passwordResetToken \in [Emails -> ResetTokens \cup {None}]
        /\ signed \subseteq RefreshTokens
    BY DEF Typed, TypeOK, StoreTypeOK
  <1>1. ASSUME NEW e \in Emails, NEW p \in Passwords, Register(s, e, p)
        PROVE  Typed'
    <2> DEFINE r == [Idle EXCEPT !.pc = "register.insert", !.email = e,
                                 !.password = p]
    <2>1. r \in Request /\ LocalsOK(r)
      <3>1. r \in Request
        BY IdleTyped DEF Request
      <3>2. LocalsOK(r)
        BY DEF LocalsOK, Idle
      <3> QED
        BY <3>1, <3>2
    <2>2. Become(s, r) /\ UNCHANGED <<store, history, faults>>
      BY <1>1 DEF Register, Accept
    <2> QED
      BY <2>1, <2>2, BecomeReqTyped, ReadTyped
  <1>2. ASSUME NEW e \in Emails, NEW p \in Passwords, Login(s, e, p)
        PROVE  Typed'
    <2>1. PICK id \in WithEmail(e) : Become(s, LoginOutcome(id))
      BY <1>2 DEF Login, Accept
    <2>2. id \in Ids /\ users[id] \in Row
      BY <1>0, <2>1 DEF WithEmail, Live
    <2>3. LoginOutcome(id) \in Request /\ LocalsOK(LoginOutcome(id))
      BY <2>2, StartTyped DEF LoginOutcome, Row
    <2> QED
      BY <1>2, <2>1, <2>3, BecomeReqTyped, ReadTyped DEF Login
  <1>3. ASSUME NEW e \in Emails, NEW c \in Codes, VerifyEmail(s, e, c)
        PROVE  Typed'
    <2>1. PICK id \in WithEmail(e) :
            Become(s, [Idle EXCEPT !.pc = "verify.attempts", !.email = e,
                                   !.id = id, !.given = c])
      BY <1>3 DEF VerifyEmail, Accept
    <2> DEFINE r == [Idle EXCEPT !.pc = "verify.attempts", !.email = e,
                                 !.id = id, !.given = c]
    <2>2. id \in Ids
      BY <2>1 DEF WithEmail
    <2>3. r \in Request /\ LocalsOK(r)
      <3>1. r \in Request
        BY <2>2, IdleTyped DEF Request, Secrets
      <3>2. LocalsOK(r)
        BY <2>2 DEF LocalsOK, Idle
      <3> QED
        BY <3>1, <3>2
    <2> QED
      BY <1>3, <2>1, <2>3, BecomeReqTyped, ReadTyped DEF VerifyEmail
  <1>4. ASSUME NEW e \in Emails, Resend(s, e)
        PROVE  Typed'
    <2> DEFINE r == [Idle EXCEPT !.pc = "resend.attempts", !.email = e]
    <2>1. r \in Request /\ LocalsOK(r)
      <3>1. r \in Request
        BY IdleTyped DEF Request
      <3>2. LocalsOK(r)
        BY DEF LocalsOK, Idle
      <3> QED
        BY <3>1, <3>2
    <2>2. Become(s, r) /\ UNCHANGED <<store, history, faults>>
      BY <1>4 DEF Resend, Accept
    <2> QED
      BY <2>1, <2>2, BecomeReqTyped, ReadTyped
  <1>5. ASSUME NEW e \in Emails, Forgot(s, e)
        PROVE  Typed'
    <2>1. PICK t \in ResetTokens :
            Become(s, [Idle EXCEPT !.pc = "forgot.mail", !.email = e,
                                   !.made = t])
      BY <1>5 DEF Forgot, Accept
    <2> DEFINE r == [Idle EXCEPT !.pc = "forgot.mail", !.email = e, !.made = t]
    <2>2. r \in Request /\ LocalsOK(r)
      <3>1. r \in Request
        BY IdleTyped DEF Request
      <3>2. LocalsOK(r)
        BY DEF LocalsOK, Idle
      <3> QED
        BY <3>1, <3>2
    <2> QED
      BY <1>5, <2>1, <2>2, BecomeReqTyped, ReadTyped DEF Forgot
  <1>6. ASSUME NEW e \in Emails, NEW t \in ResetTokens, NEW p \in Passwords,
               Reset(s, e, t, p)
        PROVE  Typed'
    <2> DEFINE r == [Idle EXCEPT !.pc = "reset.findByEmail", !.email = e,
                                 !.given = t, !.password = p]
    <2>1. r \in Request /\ LocalsOK(r)
      <3>1. r \in Request
        BY IdleTyped DEF Request, Secrets
      <3>2. LocalsOK(r)
        BY DEF LocalsOK, Idle
      <3> QED
        BY <3>1, <3>2
    <2>2. Become(s, r) /\ UNCHANGED <<store, history, faults>>
      BY <1>6 DEF Reset, Accept
    <2> QED
      BY <2>1, <2>2, BecomeReqTyped, ReadTyped
  <1>7. ASSUME NEW token \in signed, Refresh(s, token)
        PROVE  Typed'
    <2>1. token.sub \in Ids
      BY <1>0 DEF RefreshTokens
    <2>2. /\ Become(s, IssueTokens(token.sub))
          /\ UNCHANGED <<store, history, faults>>
      BY <1>7 DEF Refresh, Accept
    <2> QED
      BY <2>1, <2>2, StartTyped, BecomeReqTyped, ReadTyped
  <1>8. ASSUME NEW g \in GoogleIds, NEW e \in Emails, Google(s, g, e)
        PROVE  Typed'
    <2> DEFINE r == [Idle EXCEPT !.pc = "google.findByEmail", !.email = e,
                                 !.given = g]
    <2>1. r \in Request /\ LocalsOK(r)
      <3>1. r \in Request
        BY IdleTyped DEF Request, Secrets
      <3>2. LocalsOK(r)
        BY DEF LocalsOK, Idle
      <3> QED
        BY <3>1, <3>2
    <2>2. ReqTyped'
      <3>1. CASE \E id \in WithGoogleId(g) : Become(s, IssueTokens(id))
        BY <3>1, StartTyped, BecomeReqTyped DEF WithGoogleId
      <3>2. CASE Become(s, r)
        BY <3>2, <2>1, BecomeReqTyped
      <3> QED
        BY <1>8, <3>1, <3>2 DEF Google, Accept
    <2>3. issued' \subseteq Emails \X Secrets
      BY <1>8 DEF Google, Typed, TypeOK, Secrets
    <2> QED
      BY <1>8, <2>2, <2>3
      DEF Google, Typed, TypeOK, StoreTypeOK, ReqTyped, store
  <1>9. ASSUME NEW id \in Ids, Remove(s, id)
        PROVE  Typed'
    <2> DEFINE r == [Idle EXCEPT !.pc = "remove.delete", !.id = id]
    <2>1. r \in Request /\ LocalsOK(r)
      <3>1. r \in Request
        BY IdleTyped DEF Request
      <3>2. LocalsOK(r)
        BY DEF LocalsOK, Idle
      <3> QED
        BY <3>1, <3>2
    <2>2. Become(s, r) /\ UNCHANGED <<store, history, faults>>
      BY <1>9 DEF Remove, Accept
    <2> QED
      BY <2>1, <2>2, BecomeReqTyped, ReadTyped
  <1> QED
    BY <1>1, <1>2, <1>3, <1>4, <1>5, <1>6, <1>7, <1>8, <1>9 DEF Arrive

(* A handler that moves to pc with its locals as they are. *)
LEMMA GotoReqTyped ==
    ASSUME Typed, NEW s \in Slots, NEW pc, Goto(s, pc),
           [req[s] EXCEPT !.pc = pc] \in Request,
           LocalsOK([req[s] EXCEPT !.pc = pc])
    PROVE  ReqTyped'
  BY BecomeReqTyped DEF Goto

(* A request in flight stays well typed and leaves the store so. *)
LEMMA ContinueTyped ==
    ASSUME Typed, NEW s \in Slots, Continue(s)
    PROVE  Typed'
  <1>0. /\ StoreTypeOK
        /\ users \in [Ids -> Row \cup {Unborn, Gone}]
        /\ req[s] \in Request /\ LocalsOK(req[s])
        /\ issued \subseteq Emails \X Secrets
        /\ 0 \in 0..OtpLimit
    BY DEF Typed, TypeOK, StoreTypeOK
  <1>1. CASE RegisterInsert(s)
    <2>1. req[s].email \in Emails /\ req[s].password \in Passwords
      BY <1>1, <1>0 DEF RegisterInsert, At, LocalsOK
    <2>2. NewRow(req[s].email, req[s].password, None, FALSE, 1) \in Row
      BY <2>1 DEF NewRow, Row
    <2>3. users' \in [Ids -> Row \cup {Unborn, Gone}]
      BY <1>1, <1>0, <2>2, UsersTyped DEF RegisterInsert
    <2>4. ReqTyped'
      BY <1>1, <2>1, StartTyped, BecomeReqTyped,
         FinishReqTyped DEF RegisterInsert
    <2> QED
      BY <1>1, <1>0, <2>3, <2>4 DEF RegisterInsert, Typed, TypeOK, StoreTypeOK,
                              ReqTyped, history
  <1>2. CASE StoreOtp(s)
    <2>1. PICK c \in Codes :
            /\ SetCode(req[s].email, c)
            /\ issued' = issued \cup {<<req[s].email, c>>}
            /\ Become(s, [req[s] EXCEPT !.pc = "otp.mail", !.made = c])
      BY <1>2 DEF StoreOtp
    <2>2. req[s].email \in Emails
      BY <1>2, <1>0 DEF StoreOtp, At, LocalsOK
    <2> DEFINE r == [req[s] EXCEPT !.pc = "otp.mail", !.made = c]
    <2>3. r \in Request
      BY <1>0 DEF Request
    <2>4. LocalsOK(r)
      BY <1>0, <2>2 DEF Request, LocalsOK
    <2>5. ReqTyped'
      BY <2>1, <2>3, <2>4, BecomeReqTyped
    <2> QED
      BY <1>2, <1>0, <2>1, <2>2, <2>5
      DEF StoreOtp, SetCode, Typed, TypeOK, StoreTypeOK, ReqTyped, Secrets
  <1>3. CASE MailOtp(s)
    <2>1. req[s].email \in Emails /\ req[s].made \in Codes
      BY <1>3, <1>0 DEF MailOtp, At, LocalsOK
    <2>2. ReqTyped'
      BY <1>3, FinishReqTyped DEF MailOtp
    <2> QED
      BY <1>3, <1>0, <2>1, <2>2 DEF MailOtp, Enqueue, Mail, Typed, TypeOK,
                              StoreTypeOK, ReqTyped, history
  <1>4. CASE StoreSession(s)
    <2>1. req[s].id \in Ids
      BY <1>4, <1>0 DEF StoreSession, At, LocalsOK
    <2> DEFINE token == [sub |-> req[s].id, iat |-> now]
    <2>2. token \in RefreshTokens /\ BcryptPrefix(token) = req[s].id
      BY <1>0, <2>1 DEF RefreshTokens, BcryptPrefix, StoreTypeOK
    <2>3. users' \in [Ids -> Row \cup {Unborn, Gone}]
      BY <1>4, <1>0, <2>1, <2>2, UsersTyped DEF StoreSession
    <2>4. ReqTyped'
      BY <1>4, FinishReqTyped DEF StoreSession
    <2>5. signed' \subseteq RefreshTokens /\ revoked' \subseteq RefreshTokens
      BY <1>4, <2>2 DEF StoreSession, Typed, TypeOK, StoreTypeOK
    <2> QED
      BY <1>4, <1>0, <2>3, <2>4, <2>5 DEF StoreSession, Typed, TypeOK,
         StoreTypeOK,
                                    ReqTyped
  <1>5. CASE ReadAttempts(s)
    <2>1. req[s].email \in Emails /\ otpAttempts[req[s].email] \in 0..OtpLimit
      BY <1>5, <1>0 DEF ReadAttempts, At, LocalsOK, StoreTypeOK
    <2> DEFINE attempts == otpAttempts[req[s].email]
               r == [req[s] EXCEPT !.pc = "verify.code", !.count = attempts]
    <2>2. ASSUME attempts < OtpLimit
          PROVE  r \in Request /\ LocalsOK(r)
      <3>1. r \in Request
        BY <1>0, <2>1 DEF Request
      <3>2. LocalsOK(r)
        BY <1>5, <1>0, <2>1, <2>2 DEF ReadAttempts, At, Request, LocalsOK
      <3> QED
        BY <3>1, <3>2
    <2>3. ReqTyped'
      BY <1>5, <2>1, <2>2, BecomeReqTyped, FinishReqTyped
      DEF ReadAttempts, AttemptsExceeded
    <2> QED
      BY <1>5, <2>3, ReadTyped DEF ReadAttempts
  <1>6. CASE CompareOtp(s)
    <2> DEFINE r == [req[s] EXCEPT !.pc = "verify.mark", !.count = 0]
               q == [req[s] EXCEPT !.pc = "verify.miss"]
    <2>1. r \in Request /\ q \in Request
      <3>1. r \in Request
        BY <1>0 DEF Request
      <3>2. q \in Request
        BY <1>0 DEF Request
      <3> QED
        BY <3>1, <3>2
    <2>2. LocalsOK(r) /\ LocalsOK(q)
      BY <1>6, <1>0 DEF CompareOtp, At, Request, LocalsOK
    <2>3. ReqTyped'
      BY <1>6, <2>1, <2>2, BecomeReqTyped, GotoReqTyped DEF CompareOtp
    <2>4. misses' \in [Emails -> Nat]
      BY <1>6 DEF CompareOtp, Typed, TypeOK
    <2> QED
      BY <1>6, <1>0, <2>3, <2>4
      DEF CompareOtp, Typed, TypeOK, StoreTypeOK, ReqTyped, store
  <1>7. CASE CountMiss(s)
    <2>1. req[s].email \in Emails /\ MissCount(s) \in 0..OtpLimit
      BY <1>7, <1>0 DEF CountMiss, At, LocalsOK, MissCount, Request
    <2>2. ReqTyped'
      BY <1>7, FinishReqTyped DEF CountMiss
    <2> QED
      BY <1>7, <1>0, <2>1, <2>2 DEF CountMiss, Typed, TypeOK, StoreTypeOK,
         ReqTyped,
                              history
  <1>8. CASE MarkVerified(s)
    <2> DEFINE r == [req[s] EXCEPT !.pc = "verify.dropCode"]
    <2>1. r \in Request
      BY <1>0 DEF Request
    <2>2. LocalsOK(r)
      BY <1>8, <1>0 DEF MarkVerified, At, Request, LocalsOK
    <2>3. ReqTyped'
      BY <1>8, <2>1, <2>2, GotoReqTyped DEF MarkVerified
    <2>4. req[s].id \in Ids
      BY <1>8, <1>0 DEF MarkVerified, At, LocalsOK
    <2>5. users' \in [Ids -> Row \cup {Unborn, Gone}]
      BY <1>8, <1>0, <2>4, UsersTyped DEF MarkVerified
    <2> QED
      BY <1>8, <1>0, <2>5, <2>3
      DEF MarkVerified, Typed, TypeOK, StoreTypeOK, ReqTyped, history
  <1>9. CASE DropCode(s)
    <2> DEFINE r == [req[s] EXCEPT !.pc = "verify.dropCount"]
    <2>1. r \in Request
      BY <1>0 DEF Request
    <2>2. LocalsOK(r)
      BY <1>9, <1>0 DEF DropCode, At, Request, LocalsOK
    <2>3. ReqTyped'
      BY <1>9, <2>1, <2>2, GotoReqTyped DEF DropCode
    <2> QED
      BY <1>9, <1>0, <2>3
      DEF DropCode, SetCode, Typed, TypeOK, StoreTypeOK, ReqTyped, history
  <1>10. CASE DropCount(s)
    <2> DEFINE r == [req[s] EXCEPT !.pc = "verify.welcome"]
    <2>1. r \in Request
      BY <1>0 DEF Request
    <2>2. LocalsOK(r)
      BY <1>10, <1>0 DEF DropCount, At, Request, LocalsOK
    <2>3. ReqTyped'
      BY <1>10, <2>1, <2>2, GotoReqTyped DEF DropCount
    <2>4. otpAttempts' \in [Emails -> 0..OtpLimit]
      BY <1>10, <1>0 DEF DropCount, StoreTypeOK
    <2>5. misses' \in [Emails -> Nat]
      BY <1>10 DEF DropCount, Typed, TypeOK
    <2> QED
      BY <1>10, <1>0, <2>3, <2>4, <2>5
      DEF DropCount, Typed, TypeOK, StoreTypeOK, ReqTyped
  <1>11. CASE MailWelcome(s)
    <2>1. req[s].email \in Emails /\ req[s].id \in Ids
      BY <1>11, <1>0 DEF MailWelcome, At, LocalsOK
    <2>3. ReqTyped'
      BY <1>11, <2>1, StartTyped, BecomeReqTyped DEF MailWelcome
    <2> QED
      BY <1>11, <1>0, <2>1, <2>3
      DEF MailWelcome, Enqueue, Mail, Typed, TypeOK, StoreTypeOK, ReqTyped,
          history
  <1>12. CASE ReadResends(s)
    <2>1. /\ req[s].email \in Emails
          /\ otpResendAttempts[req[s].email] \in 0..OtpLimit
      BY <1>12, <1>0 DEF ReadResends, At, LocalsOK, StoreTypeOK
    <2> DEFINE attempts == otpResendAttempts[req[s].email]
               r == [req[s] EXCEPT !.pc = "resend.bump", !.count = attempts]
    <2>2. ASSUME attempts < OtpLimit
          PROVE  r \in Request /\ LocalsOK(r)
      <3>1. r \in Request
        BY <1>0, <2>1 DEF Request
      <3>2. LocalsOK(r)
        BY <1>12, <1>0, <2>1, <2>2 DEF ReadResends, At, Request, LocalsOK
      <3> QED
        BY <3>1, <3>2
    <2>3. ReqTyped'
      BY <1>12, <2>1, <2>2, BecomeReqTyped, FinishReqTyped
      DEF ReadResends, AttemptsExceeded
    <2> QED
      BY <1>12, <2>3, ReadTyped DEF ReadResends
  <1>13. CASE BumpResends(s)
    <2>1. req[s].email \in Emails /\ req[s].count + 1 \in 0..OtpLimit
      BY <1>13, <1>0 DEF BumpResends, At, LocalsOK, Request
    <2>3. ReqTyped'
      BY <1>13, <2>1, StartTyped, BecomeReqTyped DEF BumpResends
    <2> QED
      BY <1>13, <1>0, <2>1, <2>3
      DEF BumpResends, Typed, TypeOK, StoreTypeOK, ReqTyped, history
  <1>14. CASE MailResetLink(s)
    <2>0. req[s].email \in Emails /\ req[s].made \in ResetTokens
      BY <1>14, <1>0 DEF MailResetLink, At, LocalsOK
    <2> DEFINE r == [req[s] EXCEPT !.pc = "forgot.store"]
    <2>1. r \in Request
      BY <1>0 DEF Request
    <2>2. LocalsOK(r)
      BY <1>14, <1>0 DEF MailResetLink, At, Request, LocalsOK
    <2>3. ReqTyped'
      BY <1>14, <2>1, <2>2, GotoReqTyped DEF MailResetLink
    <2> QED
      BY <1>14, <1>0, <2>0, <2>3
      DEF MailResetLink, Enqueue, Mail, Secrets, Typed, TypeOK, StoreTypeOK,
          ReqTyped
  <1>15. CASE StoreResetToken(s)
    <2>1. req[s].email \in Emails /\ req[s].made \in ResetTokens
      BY <1>15, <1>0 DEF StoreResetToken, At, LocalsOK
    <2>3. ReqTyped'
      BY <1>15, FinishReqTyped DEF StoreResetToken
    <2> QED
      BY <1>15, <1>0, <2>1, <2>3
      DEF StoreResetToken, SetResetToken, Typed, TypeOK, StoreTypeOK,
          ReqTyped, history
  <1>16. CASE ResetFindUser(s)
    <2>1. ASSUME NEW id \in Ids
          PROVE  [req[s] EXCEPT !.pc = "reset.findOne", !.id = id] \in Request
      BY <1>0 DEF Request
    <2>2. ASSUME NEW id \in Ids
          PROVE  LocalsOK([req[s] EXCEPT !.pc = "reset.findOne", !.id = id])
      BY <1>16, <1>0 DEF ResetFindUser, At, Request, LocalsOK
    <2>3. ReqTyped'
      BY <1>16, <2>1, <2>2, BecomeReqTyped, FinishReqTyped
      DEF ResetFindUser, WithEmail
    <2> QED
      BY <1>16, <2>3, ReadTyped DEF ResetFindUser
  <1>17. CASE ResetFindOne(s)
    <2> DEFINE r == [req[s] EXCEPT !.pc = "reset.update"]
    <2>1. r \in Request
      BY <1>0 DEF Request
    <2>2. LocalsOK(r)
      BY <1>17, <1>0 DEF ResetFindOne, At, Request, LocalsOK
    <2>3. ReqTyped'
      BY <1>17, <2>1, <2>2, GotoReqTyped, FinishReqTyped DEF ResetFindOne
    <2> QED
      BY <1>17, <2>3, ReadTyped DEF ResetFindOne
  <1>18. CASE ResetUpdate(s)
    <2> DEFINE r == [req[s] EXCEPT !.pc = "reset.mail"]
    <2>1. r \in Request
      BY <1>0 DEF Request
    <2>2. LocalsOK(r)
      BY <1>18, <1>0 DEF ResetUpdate, At, Request, LocalsOK
    <2>3. ReqTyped'
      BY <1>18, <2>1, <2>2, GotoReqTyped, FinishReqTyped DEF ResetUpdate
    <2>4. req[s].id \in Ids /\ req[s].password \in Passwords
      BY <1>18, <1>0 DEF ResetUpdate, At, LocalsOK
    <2>5. users' \in [Ids -> Row \cup {Unborn, Gone}]
      BY <1>18, <1>0, <2>4, UsersTyped DEF ResetUpdate
    <2> QED
      BY <1>18, <1>0, <2>5, <2>3
      DEF ResetUpdate, Typed, TypeOK, StoreTypeOK, ReqTyped, history
  <1>19. CASE MailPasswordUpdate(s)
    <2>0. req[s].email \in Emails
      BY <1>19, <1>0 DEF MailPasswordUpdate, At, LocalsOK
    <2> DEFINE r == [req[s] EXCEPT !.pc = "reset.drop"]
    <2>1. r \in Request
      BY <1>0 DEF Request
    <2>2. LocalsOK(r)
      BY <1>19, <1>0 DEF MailPasswordUpdate, At, Request, LocalsOK
    <2>3. ReqTyped'
      BY <1>19, <2>1, <2>2, GotoReqTyped DEF MailPasswordUpdate
    <2> QED
      BY <1>19, <1>0, <2>0, <2>3
      DEF MailPasswordUpdate, Enqueue, Mail, Typed, TypeOK, StoreTypeOK,
          ReqTyped, history
  <1>20. CASE DropResetToken(s)
    <2>1. req[s].given \in ResetTokens
      BY <1>20, <1>0 DEF DropResetToken, At, LocalsOK
    <2>3. ReqTyped'
      BY <1>20, FinishReqTyped DEF DropResetToken
    <2> QED
      BY <1>20, <1>0, <2>1, <2>3
      DEF DropResetToken, DeleteResetToken, SetResetToken, Typed, TypeOK,
          StoreTypeOK, ReqTyped
  <1>21. CASE GoogleFindByEmail(s)
    <2> DEFINE r == [req[s] EXCEPT !.pc = "google.upsert"]
    <2>1. r \in Request
      BY <1>0 DEF Request
    <2>2. LocalsOK(r)
      BY <1>21, <1>0 DEF GoogleFindByEmail, At, Request, LocalsOK
    <2>3. ReqTyped'
      BY <1>21, <2>1, <2>2, GotoReqTyped, FinishReqTyped DEF GoogleFindByEmail
    <2> QED
      BY <1>21, <2>3, ReadTyped DEF GoogleFindByEmail
  <1>22. CASE GoogleUpsert(s)
    <2>1. req[s].email \in Emails /\ req[s].given \in GoogleIds
      BY <1>22, <1>0 DEF GoogleUpsert, At, LocalsOK
    <2>2. NewRow(req[s].email, None, req[s].given, TRUE, 2) \in Row
      BY <2>1 DEF NewRow, Row
    <2>4. PICK id \in Ids :
            /\ \/ Live(users, id) /\ UpdateGoogle(id, req[s].given)
               \/ Insert(id, NewRow(req[s].email, None, req[s].given, TRUE, 2))
            /\ Become(s, [Idle EXCEPT !.pc = "google.load", !.id = id])
      BY <1>22 DEF GoogleUpsert, WithEmail
    <2>5. users' \in [Ids -> Row \cup {Unborn, Gone}]
      BY <1>0, <2>1, <2>2, <2>4, UsersTyped
    <2> DEFINE r == [Idle EXCEPT !.pc = "google.load", !.id = id]
    <2>6. r \in Request
      BY IdleTyped DEF Request
    <2>7. LocalsOK(r)
      BY DEF Idle, LocalsOK
    <2>3. ReqTyped'
      BY <2>4, <2>6, <2>7, BecomeReqTyped
    <2> QED
      BY <1>22, <1>0, <2>5, <2>3
      DEF GoogleUpsert, Typed, TypeOK, StoreTypeOK, ReqTyped, history
  <1>23. CASE GoogleLoad(s)
    <2>1. req[s].id \in Ids
      BY <1>23, <1>0 DEF GoogleLoad, At, LocalsOK
    <2>3. ReqTyped'
      BY <1>23, <2>1, StartTyped, BecomeReqTyped, FinishReqTyped DEF GoogleLoad
    <2> QED
      BY <1>23, <2>3, ReadTyped DEF GoogleLoad
  <1>24. CASE RemoveDelete(s)
    <2>1. req[s].id \in Ids
      BY <1>24, <1>0 DEF RemoveDelete, At, LocalsOK
    <2>2. users' \in [Ids -> Row \cup {Unborn, Gone}]
      BY <1>24, <1>0, <2>1, UsersTyped DEF RemoveDelete
    <2>3. ReqTyped'
      BY <1>24, FinishReqTyped DEF RemoveDelete
    <2> QED
      BY <1>24, <1>0, <2>2, <2>3
      DEF RemoveDelete, Typed, TypeOK, StoreTypeOK, ReqTyped, history
  <1> QED
    BY <1>1, <1>2, <1>3, <1>4, <1>5, <1>6, <1>7, <1>8, <1>9, <1>10, <1>11,
       <1>12,
       <1>13, <1>14, <1>15, <1>16, <1>17, <1>18, <1>19, <1>20, <1>21, <1>22, <1>23, <1>24 DEF Continue

(* Failures, logouts, expiries and the clock. *)
LEMMA OtherTyped ==
    ASSUME Typed,
           \/ \E s \in Slots : Fail(s)
           \/ \E id \in Ids : Logout(id)
           \/ \E e \in Emails : Expire(e)
           \/ Tick
    PROVE  Typed'
  <1>0. /\ StoreTypeOK
        /\ 0 \in 0..OtpLimit
        /\ revoked \subseteq RefreshTokens
    BY DEF Typed, TypeOK
  <1>1. ASSUME NEW s \in Slots, Fail(s)
        PROVE  Typed'
    <2>1. ReqTyped'
      BY <1>1, FinishReqTyped DEF Fail
    <2>2. faults' \in 0..MaxFaults
      BY <1>1 DEF Fail, Typed, TypeOK
    <2> QED
      BY <1>1, <2>1, <2>2
      DEF Fail, Typed, TypeOK, StoreTypeOK, ReqTyped, store, history
  <1>2. ASSUME NEW id \in Ids, Logout(id)
        PROVE  Typed'
    <2>1. users' \in [Ids -> Row \cup {Unborn, Gone}]
      BY <1>0, <1>2, UsersTyped DEF Logout, StoreTypeOK
    <2>2. revoked' \subseteq RefreshTokens
      BY <1>0, <1>2 DEF Logout, CurrentTokens, StoreTypeOK
    <2> QED
      BY <1>2, <2>1, <2>2 DEF Logout, Typed, TypeOK, StoreTypeOK, Request,
         LocalsOK
  <1>3. ASSUME NEW e \in Emails, Expire(e)
        PROVE  Typed'
    <2>1. CASE ExpireCode(e)
      BY <1>0, <2>1
      DEF ExpireCode, SetCode, Typed, TypeOK, StoreTypeOK, history
    <2>2. CASE ExpireAttempts(e)
      BY <1>0, <2>2 DEF ExpireAttempts, Typed, TypeOK, StoreTypeOK
    <2>3. CASE ExpireResends(e)
      BY <1>0, <2>3 DEF ExpireResends, Typed, TypeOK, StoreTypeOK, history
    <2>4. CASE ExpireResetToken(e)
      BY <1>0, <2>4 DEF ExpireResetToken, DeleteResetToken, SetResetToken,
         Typed, TypeOK, StoreTypeOK, history
    <2> QED
      BY <1>3, <2>1, <2>2, <2>3, <2>4 DEF Expire
  <1>4. CASE Tick
    BY <1>0, <1>4 DEF Tick, Typed, TypeOK, StoreTypeOK, history
  <1> QED
    BY <1>1, <1>2, <1>3, <1>4

LEMMA StepTyped == Typed /\ [Next]_vars => Typed'
  <1> SUFFICES ASSUME Typed, [Next]_vars PROVE Typed'
    OBVIOUS
  <1>1. CASE UNCHANGED vars
    BY <1>1 DEF vars, store, history, Typed, TypeOK, StoreTypeOK
  <1>2. CASE Next
    BY <1>2, ArriveTyped, ContinueTyped, OtherTyped DEF Next
  <1> QED
    BY <1>1, <1>2

(* Every reachable state is well typed; in particular neither attempt      *)
(* counter ever passes the limit, whatever the number of requests in       *)
(* flight.                                                                 *)
THEOREM AlwaysTyped == Spec => []TypeOK
  <1>1. Init => Typed
    BY InitTyped
  <1>2. Typed /\ [Next]_vars => Typed'
    BY StepTyped
  <1>3. Typed => TypeOK
    BY DEF Typed
  <1> QED
    BY <1>1, <1>2, <1>3, PTL DEF Spec

----------------------------------------------------------------------------
(* Rows and secrets only evolve one way *)

(* No id is used twice, no row changes its address or stops being          *)
(* verified, no secret stops having been issued.                           *)
Evolves ==
    /\ issued \subseteq issued'
    /\ \A id \in Ids : users[id] # Unborn =>
         /\ users'[id] # Unborn
         /\ Live(users', id) =>
              /\ Live(users, id)
              /\ users'[id].email = users[id].email
              /\ users[id].verified => users'[id].verified

(* The writes of the handlers on one row. *)
LEMMA WriteEvolves ==
    ASSUME users \in [Ids -> Row \cup {Unborn, Gone}], NEW id \in Ids,
           issued \subseteq issued',
           \/ UNCHANGED users
           \/ \E p \in Passwords : UpdatePassword(id, p)
           \/ UpdateVerified(id)
           \/ \E h \in Ids \cup {None} : UpdateSession(id, h)
           \/ Live(users, id) /\ \E g \in GoogleIds : UpdateGoogle(id, g)
           \/ Delete(id)
           \/ \E row \in Row : Insert(id, row)
    PROVE  Evolves
  <1>1. \A i \in Ids : Live(users, i) => users[i] \in Row
    BY DEF Live
  <1>2. CASE UNCHANGED users
    BY <1>2 DEF Evolves
  <1>3. CASE \E p \in Passwords : UpdatePassword(id, p)
    BY <1>1, <1>3, RowAssumption DEF UpdatePassword, Evolves, Live, Row
  <1>4. CASE UpdateVerified(id)
    <2>1. CASE ~Live(users, id)
      BY <1>2, <1>4, <2>1 DEF UpdateVerified
    <2>2. CASE Live(users, id)
      <3>1. /\ users'[id] = [users[id] EXCEPT !.verified = TRUE, !.step = 2]
            /\ \A i \in Ids \ {id} : users'[i] = users[i]
        BY <1>4, <2>2 DEF UpdateVerified
      <3>2. /\ users'[id].email = users[id].email /\ users'[id].verified
            /\ users'[id] \in Row
        BY <1>1, <2>2, <3>1 DEF Row
      <3> QED
        BY <2>2, <3>1, <3>2 DEF Evolves, Live
    <2> QED
      BY <2>1, <2>2
  <1>5. CASE \E h \in Ids \cup {None} : UpdateSession(id, h)
    BY <1>1, <1>5, RowAssumption DEF UpdateSession, Evolves, Live, Row
  <1>6. CASE Live(users, id) /\ \E g \in GoogleIds : UpdateGoogle(id, g)
    <2>1. PICK g \in GoogleIds : UpdateGoogle(id, g)
      BY <1>6
    <2>2. /\ users'[id] = [users[id] EXCEPT !.googleId = g, !.verified = TRUE]
          /\ \A i \in Ids \ {id} : users'[i] = users[i]
      BY <2>1 DEF UpdateGoogle
    <2>3. /\ users'[id].email = users[id].email /\ users'[id].verified
          /\ users'[id] \in Row
      BY <1>1, <1>6, <2>2 DEF Row
    <2> QED
      BY <1>6, <2>2, <2>3 DEF Evolves, Live
  <1>7. CASE Delete(id)
    BY <1>7, RowAssumption DEF Delete, Evolves, Live
  <1>8. CASE \E row \in Row : Insert(id, row)
    BY <1>8, RowAssumption DEF Insert, Evolves, Live
  <1> QED
    BY <1>2, <1>3, <1>4, <1>5, <1>6, <1>7, <1>8

(* Every step of the service is one of these writes, or writes no row. *)
LEMMA StepEvolves ==
    ASSUME Typed, [Next]_vars
    PROVE  Evolves
  <1>0. /\ users \in [Ids -> Row \cup {Unborn, Gone}]
        /\ \A s \in Slots : LocalsOK(req[s])
    BY DEF Typed, TypeOK, StoreTypeOK
  <1>1. ASSUME UNCHANGED users, issued \subseteq issued'
        PROVE  Evolves
    BY <1>1 DEF Evolves
  <1>2. ASSUME NEW s \in Slots, Arrive(s)
        PROVE  Evolves
    <2>1. CASE \E e \in Emails, p \in Passwords :
                 Register(s, e, p) \/ Login(s, e, p)
      BY <1>1, <2>1 DEF Register, Login, store, history
    <2>2. CASE \E e \in Emails, c \in Codes : VerifyEmail(s, e, c)
      BY <1>1, <2>2 DEF VerifyEmail, store, history
    <2>3. CASE \E e \in Emails : Resend(s, e) \/ Forgot(s, e)
      BY <1>1, <2>3 DEF Resend, Forgot, store, history
    <2>4. CASE \E e \in Emails, t \in ResetTokens, p \in Passwords :
                 Reset(s, e, t, p)
      BY <1>1, <2>4 DEF Reset, store, history
    <2>5. CASE \E token \in signed : Refresh(s, token)
      BY <1>1, <2>5 DEF Refresh, store, history
    <2>6. CASE \E g \in GoogleIds, e \in Emails : Google(s, g, e)
      BY <1>1, <2>6 DEF Google, store
    <2>7. CASE \E id \in Ids : Remove(s, id)
      BY <1>1, <2>7 DEF Remove, store, history
    <2> QED
      BY <1>2, <2>1, <2>2, <2>3, <2>4, <2>5, <2>6, <2>7 DEF Arrive
  <1>3. ASSUME NEW s \in Slots, Continue(s)
        PROVE  Evolves
    <2>0. LocalsOK(req[s])
      BY <1>0
    <2>1. CASE RegisterInsert(s)
      <3>1. req[s].email \in Emails /\ req[s].password \in Passwords
        BY <2>0, <2>1 DEF RegisterInsert, At, LocalsOK
      <3>2. NewRow(req[s].email, req[s].password, None, FALSE, 1) \in Row
        BY <3>1 DEF NewRow, Row
      <3> QED
        <4>1. issued \subseteq issued'
          BY <2>1 DEF RegisterInsert, history
        <4> QED
          BY <1>0, <2>1, <3>2, <4>1, <1>1, WriteEvolves DEF RegisterInsert
    <2>2. CASE StoreSession(s)
      <3>1. req[s].id \in Ids
        BY <2>0, <2>2 DEF StoreSession, At, LocalsOK
      <3> QED
        BY <1>0, <2>2, <3>1, WriteEvolves DEF StoreSession, BcryptPrefix
    <2>3. CASE MarkVerified(s)
      <3>1. req[s].id \in Ids
        BY <2>0, <2>3 DEF MarkVerified, At, LocalsOK
      <3> QED
        BY <1>0, <2>3, <3>1, WriteEvolves DEF MarkVerified, history
    <2>4. CASE ResetUpdate(s)
      <3>1. req[s].id \in Ids /\ req[s].password \in Passwords
        BY <2>0, <2>4 DEF ResetUpdate, At, LocalsOK
      <3> QED
        BY <1>0, <2>4, <3>1, WriteEvolves DEF ResetUpdate, history
    <2>5. CASE GoogleUpsert(s)
      <3>1. req[s].email \in Emails /\ req[s].given \in GoogleIds
        BY <2>0, <2>5 DEF GoogleUpsert, At, LocalsOK
      <3>2. NewRow(req[s].email, None, req[s].given, TRUE, 2) \in Row
        BY <3>1 DEF NewRow, Row
      <3>3. PICK id \in Ids :
              \/ Live(users, id) /\ UpdateGoogle(id, req[s].given)
              \/ Insert(id, NewRow(req[s].email, None, req[s].given, TRUE, 2))
        BY <2>5 DEF GoogleUpsert, WithEmail
      <3>4. issued \subseteq issued'
        BY <2>5 DEF GoogleUpsert, history
      <3> QED
        BY <1>0, <3>1, <3>2, <3>3, <3>4, WriteEvolves
    <2>6. CASE RemoveDelete(s)
      <3>1. req[s].id \in Ids
        BY <2>0, <2>6 DEF RemoveDelete, At, LocalsOK
      <3> QED
        BY <1>0, <2>6, <3>1, WriteEvolves DEF RemoveDelete, history
    <2>7. CASE StoreOtp(s) \/ MailOtp(s) \/ ReadAttempts(s) \/ CompareOtp(s)
               \/ CountMiss(s) \/ DropCode(s) \/ DropCount(s) \/ MailWelcome(s)
      BY <1>1, <2>7 DEF StoreOtp, MailOtp, ReadAttempts, CompareOtp, CountMiss,
         DropCode, DropCount, MailWelcome, store, history
    <2>8. CASE ReadResends(s) \/ BumpResends(s) \/ MailResetLink(s)
               \/ StoreResetToken(s) \/ ResetFindUser(s) \/ ResetFindOne(s)
      BY <1>1, <2>8 DEF ReadResends, BumpResends, MailResetLink,
         StoreResetToken, ResetFindUser, ResetFindOne, store, history
    <2>9. CASE MailPasswordUpdate(s) \/ DropResetToken(s)
               \/ GoogleFindByEmail(s) \/ GoogleLoad(s)
      BY <1>1, <2>9 DEF MailPasswordUpdate, DropResetToken,
         GoogleFindByEmail, GoogleLoad, store, history
    <2> QED
      BY <1>3, <2>1, <2>2, <2>3, <2>4, <2>5, <2>6, <2>7, <2>8, <2>9
      DEF Continue
  <1>4. ASSUME NEW id \in Ids, Logout(id)
        PROVE  Evolves
    BY <1>0, <1>4, WriteEvolves DEF Logout
  <1>5. CASE \/ \E s \in Slots : Fail(s)
             \/ \E e \in Emails : Expire(e)
             \/ Tick
             \/ UNCHANGED vars
    BY <1>1, <1>5 DEF Fail, Expire, ExpireCode, ExpireAttempts, ExpireResends,
       ExpireResetToken, Tick, vars, store, history
  <1> QED
    BY <1>2, <1>3, <1>4, <1>5 DEF Next

----------------------------------------------------------------------------
(* The inductive invariant: what a suspended handler has checked stays     *)
(* true until it acts on it, because rows and secrets only evolve.         *)

Vouched(table, known, r) ==
    /\ r.id # None => table[r.id] # Unborn
    /\ r.id # None /\ r.email # None /\ Live(table, r.id)
         => table[r.id].email = r.email
    /\ /\ r.pc \in {"session.store", "verify.dropCode", "verify.dropCount",
                    "verify.welcome", "reset.findOne", "reset.update",
                    "google.load"}
       /\ Live(table, r.id)
       => table[r.id].verified
    /\ r.pc \in {"verify.mark", "reset.findByEmail", "reset.findOne",
                 "reset.update", "google.findByEmail", "google.upsert"}
         => <<r.email, r.given>> \in known
    /\ r.pc = "forgot.store" => <<r.email, r.made>> \in known

RowsSecured(table) ==
    \A id \in Ids :
        /\ Live(table, id)
        /\ table[id].googleId # None \/ table[id].session # None
        => table[id].verified

KeysSecured ==
    \A e \in Emails :
        /\ otp[e] # None => <<e, otp[e]>> \in issued
        /\ passwordResetToken[e] # None => <<e, passwordResetToken[e]>> \in issued

Secured ==
    /\ RowsSecured(users)
    /\ KeysSecured
    /\ \A s \in Slots : Vouched(users, issued, req[s])

(* What a request relies on survives the steps of the others. *)
LEMMA VouchedEvolves ==
    ASSUME Typed, Evolves, NEW r \in Request, LocalsOK(r),
           Vouched(users, issued, r)
    PROVE  Vouched(users', issued', r)
  <1>1. r.id # None => r.id \in Ids
    BY DEF Request
  <1>2. r.pc \in {"session.store", "verify.dropCode", "verify.dropCount",
                  "verify.welcome", "reset.findOne", "reset.update",
                  "google.load"} => r.id \in Ids
    BY DEF LocalsOK
  <1>3. r.id # None => users[r.id] # Unborn /\ users'[r.id] # Unborn
    BY <1>1 DEF Vouched, Evolves
  <1>4. r.id # None /\ r.email # None /\ Live(users', r.id)
          => users'[r.id].email = r.email
    BY <1>1, <1>3 DEF Vouched, Evolves
  <1>5. ASSUME r.pc \in {"session.store", "verify.dropCode",
                         "verify.dropCount", "verify.welcome",
                         "reset.findOne", "reset.update", "google.load"},
               Live(users', r.id)
        PROVE  users'[r.id].verified
    <2>1. r.id \in Ids /\ r.id # None
      BY <1>2, <1>5
    <2>2. Live(users, r.id)
      BY <1>3, <1>5, <2>1 DEF Evolves
    <2>3. users[r.id].verified
      BY <1>5, <2>2 DEF Vouched
    <2> QED
      BY <1>3, <1>5, <2>1, <2>3 DEF Evolves
  <1> QED
    BY <1>3, <1>4, <1>5 DEF Vouched, Evolves

LEMMA IdleVouched ==
    ASSUME NEW table, NEW known
    PROVE  Vouched(table, known, Idle)
  BY DEF Vouched, Idle

(* If the request that moves is vouched for, they all are. *)
LEMMA BecomeVouched ==
    ASSUME Typed, Secured, Evolves, NEW s \in Slots, NEW r, Become(s, r),
           Vouched(users', issued', r)
    PROVE  \A q \in Slots : Vouched(users', issued', req'[q])
  <1> TAKE q \in Slots
  <1>1. CASE q = s
    BY <1>1 DEF Become, Typed, TypeOK
  <1>2. CASE q # s
    <2>1. req'[q] = req[q] /\ req[q] \in Request /\ LocalsOK(req[q])
      BY <1>2 DEF Become, Typed, TypeOK
    <2> QED
      BY <2>1, VouchedEvolves DEF Secured
  <1> QED
    BY <1>1, <1>2

LEMMA FinishVouched ==
    ASSUME Typed, Secured, Evolves, NEW s \in Slots, Finish(s)
    PROVE  \A q \in Slots : Vouched(users', issued', req'[q])
  BY BecomeVouched, IdleVouched DEF Finish

(* A handler that only moves keeps what it relies on. *)
LEMMA GotoVouched ==
    ASSUME Typed, Secured, Evolves, NEW s \in Slots, NEW pc, Goto(s, pc),
           Vouched(users', issued', [req[s] EXCEPT !.pc = pc])
    PROVE  \A q \in Slots : Vouched(users', issued', req'[q])
  BY BecomeVouched DEF Goto

(* Sessions are written for verified rows, links verify their row. *)
LEMMA RowsStaySecured ==
    ASSUME Typed, RowsSecured(users), NEW id \in Ids,
           \/ UNCHANGED users
           \/ \E p \in Passwords : UpdatePassword(id, p)
           \/ UpdateVerified(id)
           \/ \E h \in Ids \cup {None} :
                /\ UpdateSession(id, h)
                /\ h # None /\ Live(users, id) => users[id].verified
           \/ Live(users, id) /\ \E g \in GoogleIds : UpdateGoogle(id, g)
           \/ Delete(id)
           \/ \E row \in Row : /\ Insert(id, row)
                               /\ row.session = None
                               /\ row.googleId # None => row.verified
    PROVE  RowsSecured(users')
  <1>0. users \in [Ids -> Row \cup {Unborn, Gone}]
    BY DEF Typed, TypeOK, StoreTypeOK
  <1>1. \A i \in Ids : Live(users, i) => users[i] \in Row
    BY <1>0 DEF Live
  <1>2. CASE UNCHANGED users
    BY <1>2 DEF RowsSecured
  <1>3. ASSUME NEW row, Live(users, id) \/ users[id] = Unborn,
               users' = [users EXCEPT ![id] = row],
               row.googleId # None \/ row.session # None => row.verified
        PROVE  RowsSecured(users')
    BY <1>0, <1>3 DEF RowsSecured, Live
  <1>4. ASSUME NEW p \in Passwords, UpdatePassword(id, p)
        PROVE  RowsSecured(users')
    <2>1. CASE ~Live(users, id)
      BY <1>2, <1>4, <2>1 DEF UpdatePassword
    <2>2. CASE Live(users, id)
      <3> DEFINE row == [users[id] EXCEPT !.password = p]
      <3>1. users' = [users EXCEPT ![id] = row]
        BY <1>4, <2>2 DEF UpdatePassword
      <3>2. row.googleId # None \/ row.session # None => row.verified
        BY <1>1, <2>2 DEF RowsSecured, Row
      <3> QED
        BY <1>3, <2>2, <3>1, <3>2
    <2> QED
      BY <2>1, <2>2
  <1>5. CASE UpdateVerified(id)
    <2>1. CASE ~Live(users, id)
      BY <1>2, <1>5, <2>1 DEF UpdateVerified
    <2>2. CASE Live(users, id)
      <3> DEFINE row == [users[id] EXCEPT !.verified = TRUE, !.step = 2]
      <3>1. users' = [users EXCEPT ![id] = row]
        BY <1>0, <1>5, <2>2 DEF UpdateVerified
      <3>2. row.verified
        BY <1>1, <2>2 DEF Row
      <3> QED
        BY <1>3, <2>2, <3>1, <3>2
    <2> QED
      BY <2>1, <2>2
  <1>6. ASSUME NEW h \in Ids \cup {None}, UpdateSession(id, h),
               h # None /\ Live(users, id) => users[id].verified
        PROVE  RowsSecured(users')
    <2>1. CASE ~Live(users, id)
      BY <1>2, <1>6, <2>1 DEF UpdateSession
    <2>2. CASE Live(users, id)
      <3> DEFINE row == [users[id] EXCEPT !.session = h]
      <3>1. users' = [users EXCEPT ![id] = row]
        BY <1>6, <2>2 DEF UpdateSession
      <3>2. row.googleId # None \/ row.session # None => row.verified
        BY <1>1, <1>6, <2>2 DEF RowsSecured, Row
      <3> QED
        BY <1>3, <2>2, <3>1, <3>2
    <2> QED
      BY <2>1, <2>2
  <1>7. ASSUME Live(users, id), NEW g \in GoogleIds, UpdateGoogle(id, g)
        PROVE  RowsSecured(users')
    <2> DEFINE row == [users[id] EXCEPT !.googleId = g, !.verified = TRUE]
    <2>1. users' = [users EXCEPT ![id] = row]
      BY <1>0, <1>7 DEF UpdateGoogle
    <2>2. row.verified
      BY <1>1, <1>7 DEF Row
    <2> QED
      BY <1>3, <1>7, <2>1, <2>2
  <1>8. CASE Delete(id)
    BY <1>0, <1>8, RowAssumption DEF Delete, RowsSecured, Live
  <1>9. CASE \E row \in Row : /\ Insert(id, row)
                              /\ row.session = None
                              /\ row.googleId # None => row.verified
    BY <1>3, <1>9 DEF Insert
  <1> QED
    BY <1>2, <1>4, <1>5, <1>6, <1>7, <1>8, <1>9

LEMMA InitSecured == Init => Secured
  <1> SUFFICES ASSUME Init PROVE Secured
    OBVIOUS
  <1>1. RowsSecured(users)
    <2>1. ASSUME NEW p \in Passwords
          PROVE  NewRow(AdminEmail, p, None, TRUE, None).verified
      BY DEF NewRow
    <2> QED
      BY <2>1 DEF Init, StoreInit, RowsSecured, Live
  <1>2. KeysSecured
    BY DEF Init, StoreInit, KeysSecured
  <1>3. \A s \in Slots : Vouched(users, issued, req[s])
    BY IdleVouched DEF Init
  <1> QED
    BY <1>1, <1>2, <1>3 DEF Secured

(* A step that writes neither rows nor keys. *)
LEMMA QuietSecured ==
    ASSUME Typed, Secured, Evolves, UNCHANGED <<users, otp, passwordResetToken>>,
           \A q \in Slots : Vouched(users', issued', req'[q])
    PROVE  Secured'
  BY DEF Secured, RowsSecured, KeysSecured, Evolves

(* A step that writes rows but no key. *)
LEMMA RowStepSecured ==
    ASSUME Typed, Secured, Evolves, UNCHANGED <<otp, passwordResetToken>>,
           RowsSecured(users'),
           \A q \in Slots : Vouched(users', issued', req'[q])
    PROVE  Secured'
  BY DEF Secured, RowsSecured, KeysSecured, Evolves

(* A key may be dropped, or be given a value that has been issued. *)
LEMMA KeyStepSecured ==
    ASSUME Typed, Secured, Evolves, UNCHANGED users, NEW e \in Emails,
           \/ /\ UNCHANGED passwordResetToken
              /\ \E c : SetCode(e, c) /\ (c # None => <<e, c>> \in issued')
           \/ /\ UNCHANGED otp
              /\ \E t : SetResetToken(e, t) /\ (t # None => <<e, t>> \in issued'),
           \A q \in Slots : Vouched(users', issued', req'[q])
    PROVE  Secured'
  <1>1. otp \in [Emails -> Codes \cup {None}]
        /\ passwordResetToken \in [Emails -> ResetTokens \cup {None}]
    BY DEF Typed, TypeOK, StoreTypeOK
  <1>2. KeysSecured'
    BY <1>1 DEF Secured, KeysSecured, Evolves, SetCode, SetResetToken
  <1> QED
    BY <1>2 DEF Secured, RowsSecured

(* What an arriving request relies on, its first read has established. *)
LEMMA ArriveSecured ==
    ASSUME Typed, Secured, Evolves, NEW s \in Slots, Arrive(s)
    PROVE  Secured'
  <1>0. /\ users \in [Ids -> Row \cup {Unborn, Gone}]
        /\ \A id \in Ids : Live(users, id) => users[id] # Unborn
        /\ signed \subseteq RefreshTokens
    BY DEF Typed, TypeOK, StoreTypeOK, Live
  <1>1. ASSUME NEW r, Become(s, r), Vouched(users', issued', r),
               UNCHANGED <<users, otp, passwordResetToken>>
        PROVE  Secured'
    BY <1>1, BecomeVouched, QuietSecured
  <1>2. ASSUME NEW id \in Ids, Live(users, id), users[id].verified
        PROVE  Vouched(users, issued', IssueTokens(id))
    BY <1>0, <1>2 DEF Vouched, IssueTokens, Idle
  <1>3. ASSUME NEW e \in Emails, NEW p \in Passwords, Register(s, e, p)
        PROVE  Secured'
    <2> DEFINE r == [Idle EXCEPT !.pc = "register.insert", !.email = e,
                                 !.password = p]
    <2>1. Become(s, r) /\ UNCHANGED <<users, otp, passwordResetToken>>
      BY <1>3 DEF Register, Accept, store
    <2>2. Vouched(users', issued', r)
      BY DEF Vouched, Idle
    <2> QED
      BY <1>1, <2>1, <2>2
  <1>4. ASSUME NEW e \in Emails, NEW p \in Passwords, Login(s, e, p)
        PROVE  Secured'
    <2>1. PICK id \in WithEmail(e) : Become(s, LoginOutcome(id))
      BY <1>4 DEF Login, Accept
    <2>2. id \in Ids /\ Live(users, id)
      BY <2>1 DEF WithEmail
    <2>3. UNCHANGED <<users, otp, passwordResetToken>>
      BY <1>4 DEF Login, store
    <2>4. Vouched(users, issued', SendOtp(users[id].email))
      BY DEF Vouched, SendOtp, Idle
    <2>5. Vouched(users', issued', LoginOutcome(id))
      BY <1>2, <2>2, <2>3, <2>4 DEF LoginOutcome
    <2> QED
      BY <1>1, <2>1, <2>3, <2>5
  <1>5. ASSUME NEW e \in Emails, NEW c \in Codes, VerifyEmail(s, e, c)
        PROVE  Secured'
    <2>1. PICK id \in WithEmail(e) :
            Become(s, [Idle EXCEPT !.pc = "verify.attempts", !.email = e,
                                   !.id = id, !.given = c])
      BY <1>5 DEF VerifyEmail, Accept
    <2> DEFINE r == [Idle EXCEPT !.pc = "verify.attempts", !.email = e,
                                 !.id = id, !.given = c]
    <2>2. id \in Ids /\ Live(users, id) /\ users[id].email = e
      BY <2>1 DEF WithEmail
    <2>3. UNCHANGED <<users, otp, passwordResetToken>>
      BY <1>5 DEF VerifyEmail, store
    <2>4. Vouched(users', issued', r)
      BY <1>0, <2>2, <2>3 DEF Vouched, Idle
    <2> QED
      BY <1>1, <2>1, <2>3, <2>4
  <1>6. ASSUME NEW e \in Emails, Resend(s, e)
        PROVE  Secured'
    <2> DEFINE r == [Idle EXCEPT !.pc = "resend.attempts", !.email = e]
    <2>1. Become(s, r) /\ UNCHANGED <<users, otp, passwordResetToken>>
      BY <1>6 DEF Resend, Accept, store
    <2>2. Vouched(users', issued', r)
      BY DEF Vouched, Idle
    <2> QED
      BY <1>1, <2>1, <2>2
  <1>7. ASSUME NEW e \in Emails, Forgot(s, e)
        PROVE  Secured'
    <2>1. PICK t \in ResetTokens :
            Become(s, [Idle EXCEPT !.pc = "forgot.mail", !.email = e,
                                   !.made = t])
      BY <1>7 DEF Forgot, Accept
    <2> DEFINE r == [Idle EXCEPT !.pc = "forgot.mail", !.email = e, !.made = t]
    <2>2. UNCHANGED <<users, otp, passwordResetToken>>
      BY <1>7 DEF Forgot, store
    <2>3. Vouched(users', issued', r)
      BY DEF Vouched, Idle
    <2> QED
      BY <1>1, <2>1, <2>2, <2>3
  <1>8. ASSUME NEW e \in Emails, NEW t \in ResetTokens, NEW p \in Passwords,
               Reset(s, e, t, p)
        PROVE  Secured'
    <2> DEFINE r == [Idle EXCEPT !.pc = "reset.findByEmail", !.email = e,
                                 !.given = t, !.password = p]
    <2>1. Become(s, r) /\ UNCHANGED <<users, otp, passwordResetToken>>
      BY <1>8 DEF Reset, Accept, store
    <2>2. <<e, t>> \in issued'
      BY <1>8, NoneAssumption
      DEF Reset, ResetMatches, Secured, KeysSecured, history
    <2>3. Vouched(users', issued', r)
      BY <2>2 DEF Vouched, Idle
    <2> QED
      BY <1>1, <2>1, <2>3
  <1>9. ASSUME NEW token \in signed, Refresh(s, token)
        PROVE  Secured'
    <2>1. /\ Become(s, IssueTokens(token.sub))
          /\ UNCHANGED <<users, otp, passwordResetToken>>
      BY <1>9 DEF Refresh, Accept, store
    <2>2. /\ token.sub \in Ids /\ Live(users, token.sub)
          /\ users[token.sub].session # None
      BY <1>0, <1>9, NoneAssumption
      DEF Refresh, Honoured, BcryptPrefix, RefreshTokens
    <2>3. users[token.sub].verified
      BY <2>2 DEF Secured, RowsSecured
    <2>4. Vouched(users', issued', IssueTokens(token.sub))
      BY <1>2, <2>1, <2>2, <2>3
    <2> QED
      BY <1>1, <2>1, <2>4
  <1>10. ASSUME NEW g \in GoogleIds, NEW e \in Emails, Google(s, g, e)
         PROVE  Secured'
    <2>1. UNCHANGED <<users, otp, passwordResetToken>>
      BY <1>10 DEF Google, store
    <2>2. ASSUME NEW id \in WithGoogleId(g), Become(s, IssueTokens(id))
          PROVE  Secured'
      <3>1. /\ id \in Ids /\ Live(users, id)
            /\ users[id].googleId # None
        BY <2>2, NoneAssumption DEF WithGoogleId
      <3>2. users[id].verified
        BY <3>1 DEF Secured, RowsSecured
      <3> QED
        BY <1>1, <1>2, <2>1, <2>2, <3>1, <3>2
    <2> DEFINE r == [Idle EXCEPT !.pc = "google.findByEmail", !.email = e,
                                 !.given = g]
    <2>3. CASE Become(s, r)
      <3>1. <<e, g>> \in issued'
        BY <1>10 DEF Google
      <3>2. Vouched(users', issued', r)
        BY <3>1 DEF Vouched, Idle
      <3> QED
        BY <1>1, <2>1, <2>3, <3>2
    <2> QED
      BY <1>10, <2>2, <2>3 DEF Google, Accept
  <1>11. ASSUME NEW id \in Ids, Remove(s, id)
         PROVE  Secured'
    <2> DEFINE r == [Idle EXCEPT !.pc = "remove.delete", !.id = id]
    <2>1. Become(s, r) /\ UNCHANGED <<users, otp, passwordResetToken>>
      BY <1>11 DEF Remove, Accept, store
    <2>2. Vouched(users', issued', r)
      BY <1>0, <1>11, <2>1 DEF Remove, Vouched, Idle
    <2> QED
      BY <1>1, <2>1, <2>2
  <1> QED
    BY <1>3, <1>4, <1>5, <1>6, <1>7, <1>8, <1>9, <1>10, <1>11 DEF Arrive

(* Every action relies only on what its request is vouched for. *)
LEMMA ContinueSecured ==
    ASSUME Typed, Secured, Evolves, NEW s \in Slots, Continue(s)
    PROVE  Secured'
  <1>0. /\ users \in [Ids -> Row \cup {Unborn, Gone}]
        /\ req[s] \in Request /\ LocalsOK(req[s])
        /\ Vouched(users, issued, req[s])
        /\ Vouched(users', issued', req[s])
    BY VouchedEvolves DEF Typed, TypeOK, StoreTypeOK, Secured
  <1>a. \A e : Vouched(users', issued', SendOtp(e))
    BY DEF Vouched, SendOtp, Idle
  <1>b. ASSUME UNCHANGED <<users, otp, passwordResetToken>>, NEW r,
               Become(s, r), Vouched(users', issued', r)
        PROVE  Secured'
    BY <1>b, BecomeVouched, QuietSecured
  <1>c. ASSUME UNCHANGED <<users, otp, passwordResetToken>>, Finish(s)
        PROVE  Secured'
    BY <1>c, FinishVouched, QuietSecured
  <1>1. CASE RegisterInsert(s)
    <2>1. req[s].email \in Emails /\ req[s].password \in Passwords
      BY <1>1, <1>0 DEF RegisterInsert, At, LocalsOK
    <2> DEFINE row == NewRow(req[s].email, req[s].password, None, FALSE, 1)
    <2>2. row \in Row /\ row.session = None /\ row.googleId = None
      BY <2>1 DEF NewRow, Row
    <2>3. UNCHANGED <<otp, passwordResetToken>>
      BY <1>1 DEF RegisterInsert
    <2>4. ASSUME NEW id \in Ids, Insert(id, row),
                 Become(s, SendOtp(req[s].email))
          PROVE  Secured'
      <3>1. RowsSecured(users')
        BY <2>2, <2>4, RowsStaySecured DEF Secured
      <3> QED
        BY <1>a, <2>3, <2>4, <3>1, BecomeVouched, RowStepSecured
    <2> QED
      BY <1>1, <1>c, <2>3, <2>4 DEF RegisterInsert
  <1>2. CASE StoreOtp(s)
    <2>1. PICK c \in Codes :
            /\ SetCode(req[s].email, c)
            /\ issued' = issued \cup {<<req[s].email, c>>}
            /\ Become(s, [req[s] EXCEPT !.pc = "otp.mail", !.made = c])
      BY <1>2 DEF StoreOtp
    <2>2. req[s].email \in Emails
      BY <1>2, <1>0 DEF StoreOtp, At, LocalsOK
    <2>3. Vouched(users', issued',
                  [req[s] EXCEPT !.pc = "otp.mail", !.made = c])
      BY <1>0 DEF Vouched, Request
    <2>4. \A q \in Slots : Vouched(users', issued', req'[q])
      BY <2>1, <2>3, BecomeVouched
    <2>5. UNCHANGED users /\ UNCHANGED passwordResetToken
      BY <1>2 DEF StoreOtp
    <2> QED
      BY <2>1, <2>2, <2>4, <2>5, KeyStepSecured
  <1>3. CASE MailOtp(s)
    BY <1>3, <1>c DEF MailOtp, history
  <1>4. CASE StoreSession(s)
    <2>1. req[s].id \in Ids /\ req[s].id # None
      BY <1>4, <1>0, NoneAssumption DEF StoreSession, At, LocalsOK
    <2>2. Live(users, req[s].id) => users[req[s].id].verified
      BY <1>4, <1>0 DEF StoreSession, At, Vouched
    <2>3. UpdateSession(req[s].id, req[s].id)
      BY <1>4 DEF StoreSession, BcryptPrefix
    <2>4. RowsSecured(users')
      BY <2>1, <2>2, <2>3, RowsStaySecured DEF Secured
    <2> QED
      BY <1>4, <2>4, FinishVouched, RowStepSecured DEF StoreSession
  <1>5. CASE ReadAttempts(s)
    <2>1. Vouched(users', issued', [req[s] EXCEPT !.pc = "verify.code",
                          !.count = otpAttempts[req[s].email]])
      BY <1>0 DEF Vouched, Request
    <2> QED
      BY <1>5, <1>b, <1>c, <2>1 DEF ReadAttempts, store
  <1>6. CASE CompareOtp(s)
    <2>1. req[s].email \in Emails /\ req[s].given \in Codes
      BY <1>6, <1>0 DEF CompareOtp, At, LocalsOK
    <2>2. UNCHANGED <<users, otp, passwordResetToken>>
      BY <1>6 DEF CompareOtp, store
    <2>3. ASSUME otp[req[s].email] = req[s].given
          PROVE  Vouched(users', issued',
                         [req[s] EXCEPT !.pc = "verify.mark", !.count = 0])
      <3>1. <<req[s].email, req[s].given>> \in issued
        BY <2>1, <2>3, NoneAssumption DEF Secured, KeysSecured
      <3>2. issued' = issued
        BY <1>6 DEF CompareOtp
      <3> QED
        BY <1>0, <3>1, <3>2 DEF Vouched, Request
    <2>4. Vouched(users', issued', [req[s] EXCEPT !.pc = "verify.miss"])
      BY <1>0 DEF Vouched, Request
    <2> QED
      BY <1>6, <1>b, <2>2, <2>3, <2>4 DEF CompareOtp, OtpMatches, Goto
  <1>7. CASE CountMiss(s)
    BY <1>7, <1>c DEF CountMiss, store, history
  <1>8. CASE MarkVerified(s)
    <2>1. req[s].id \in Ids /\ req[s].id # None
      BY <1>8, <1>0, NoneAssumption DEF MarkVerified, At, LocalsOK
    <2>2. RowsSecured(users')
      BY <1>8, <2>1, RowsStaySecured DEF MarkVerified, Secured
    <2>3. Live(users', req[s].id) => users'[req[s].id].verified
      BY <1>8, <1>0, <2>1 DEF MarkVerified, UpdateVerified, Live, Row
    <2>4. Vouched(users', issued', [req[s] EXCEPT !.pc = "verify.dropCode"])
      BY <1>0, <2>3 DEF Vouched, Request
    <2> QED
      BY <1>8, <2>2, <2>4, GotoVouched, RowStepSecured DEF MarkVerified
  <1>9. CASE DropCode(s)
    <2>1. req[s].email \in Emails
      BY <1>9, <1>0 DEF DropCode, At, LocalsOK
    <2>2. Vouched(users', issued', [req[s] EXCEPT !.pc = "verify.dropCount"])
      BY <1>9, <1>0 DEF DropCode, At, Vouched, Request
    <2>3. \A q \in Slots : Vouched(users', issued', req'[q])
      BY <1>9, <2>2, GotoVouched DEF DropCode
    <2>4. SetCode(req[s].email, None) /\ UNCHANGED <<users, passwordResetToken>>
      BY <1>9 DEF DropCode
    <2> QED
      BY <2>1, <2>3, <2>4, KeyStepSecured
  <1>10. CASE DropCount(s)
    <2>1. Vouched(users', issued', [req[s] EXCEPT !.pc = "verify.welcome"])
      BY <1>10, <1>0 DEF DropCount, At, Vouched, Request
    <2> QED
      BY <1>10, <1>b, <2>1 DEF DropCount, Goto, store
  <1>11. CASE MailWelcome(s)
    <2>1. Vouched(users', issued', IssueTokens(req[s].id))
      BY <1>11, <1>0 DEF MailWelcome, At, Vouched, Request, IssueTokens, Idle
    <2> QED
      BY <1>11, <1>b, <2>1 DEF MailWelcome
  <1>12. CASE ReadResends(s)
    <2>1. Vouched(users', issued', [req[s] EXCEPT !.pc = "resend.bump",
                          !.count = otpResendAttempts[req[s].email]])
      BY <1>0 DEF Vouched, Request
    <2> QED
      BY <1>12, <1>b, <1>c, <2>1 DEF ReadResends, store
  <1>13. CASE BumpResends(s)
    BY <1>13, <1>a, <1>b DEF BumpResends
  <1>14. CASE MailResetLink(s)
    <2>1. <<req[s].email, req[s].made>> \in issued'
      BY <1>14 DEF MailResetLink
    <2>2. Vouched(users', issued', [req[s] EXCEPT !.pc = "forgot.store"])
      BY <1>0, <2>1 DEF Vouched, Request
    <2> QED
      BY <1>14, <1>b, <2>2 DEF MailResetLink, Goto
  <1>15. CASE StoreResetToken(s)
    <2>1. req[s].email \in Emails
      BY <1>15, <1>0 DEF StoreResetToken, At, LocalsOK
    <2>2. <<req[s].email, req[s].made>> \in issued'
      BY <1>15, <1>0 DEF StoreResetToken, At, Vouched
    <2>3. /\ SetResetToken(req[s].email, req[s].made)
          /\ UNCHANGED users /\ UNCHANGED otp
      BY <1>15 DEF StoreResetToken
    <2>4. \A q \in Slots : Vouched(users', issued', req'[q])
      BY <1>15, FinishVouched DEF StoreResetToken
    <2> QED
      BY <2>1, <2>2, <2>3, <2>4, KeyStepSecured
  <1>16. CASE ResetFindUser(s)
    <2>1. UNCHANGED <<users, otp, passwordResetToken>>
      BY <1>16 DEF ResetFindUser, store
    <2>2. ASSUME NEW id \in WithEmail(req[s].email), users[id].verified
          PROVE  Vouched(users', issued',
                         [req[s] EXCEPT !.pc = "reset.findOne", !.id = id])
      <3>1. /\ id \in Ids /\ Live(users, id) /\ users[id] # Unborn
            /\ users[id].email = req[s].email
        BY <2>2 DEF WithEmail, Live
      <3> QED
        BY <1>16, <1>0, <2>1, <2>2, <3>1 DEF ResetFindUser, At, Vouched, Request
    <2> QED
      BY <1>16, <1>b, <1>c, <2>1, <2>2 DEF ResetFindUser
  <1>17. CASE ResetFindOne(s)
    <2>1. Vouched(users', issued', [req[s] EXCEPT !.pc = "reset.update"])
      BY <1>17, <1>0 DEF ResetFindOne, At, Vouched, Request
    <2> QED
      BY <1>17, <1>c, <1>b, <2>1 DEF ResetFindOne, Goto, store
  <1>18. CASE ResetUpdate(s)
    <2>1. req[s].id \in Ids /\ req[s].password \in Passwords
      BY <1>18, <1>0 DEF ResetUpdate, At, LocalsOK
    <2>2. RowsSecured(users')
      BY <1>18, <2>1, RowsStaySecured DEF ResetUpdate, Secured
    <2>3. Vouched(users', issued', [req[s] EXCEPT !.pc = "reset.mail"])
      BY <1>0 DEF Vouched, Request
    <2>4. \A q \in Slots : Vouched(users', issued', req'[q])
      BY <1>18, <2>3, GotoVouched, FinishVouched DEF ResetUpdate
    <2> QED
      BY <1>18, <2>2, <2>4, RowStepSecured DEF ResetUpdate
  <1>19. CASE MailPasswordUpdate(s)
    <2>1. Vouched(users', issued', [req[s] EXCEPT !.pc = "reset.drop"])
      BY <1>19, <1>0 DEF MailPasswordUpdate, At, Vouched, Request
    <2> QED
      BY <1>19, <1>b, <2>1 DEF MailPasswordUpdate, Goto, history
  <1>20. CASE DropResetToken(s)
    <2>1. req[s].email \in Emails
      BY <1>20, <1>0 DEF DropResetToken, At, LocalsOK
    <2>2. /\ SetResetToken(req[s].email, None)
          /\ UNCHANGED users /\ UNCHANGED otp
      BY <1>20 DEF DropResetToken, DeleteResetToken
    <2>3. \A q \in Slots : Vouched(users', issued', req'[q])
      BY <1>20, FinishVouched DEF DropResetToken
    <2> QED
      BY <2>1, <2>2, <2>3, KeyStepSecured
  <1>21. CASE GoogleFindByEmail(s)
    <2>1. Vouched(users', issued', [req[s] EXCEPT !.pc = "google.upsert"])
      BY <1>21, <1>0 DEF GoogleFindByEmail, At, Vouched, Request
    <2> QED
      BY <1>21, <1>c, <1>b, <2>1 DEF GoogleFindByEmail, Goto, store
  <1>22. CASE GoogleUpsert(s)
    <2>1. req[s].email \in Emails /\ req[s].given \in GoogleIds
      BY <1>22, <1>0 DEF GoogleUpsert, At, LocalsOK
    <2> DEFINE row == NewRow(req[s].email, None, req[s].given, TRUE, 2)
    <2>2. row \in Row /\ row.session = None /\ row.verified
      BY <2>1 DEF NewRow, Row
    <2>3. PICK id \in Ids :
            /\ \/ Live(users, id) /\ UpdateGoogle(id, req[s].given)
               \/ Insert(id, row)
            /\ Become(s, [Idle EXCEPT !.pc = "google.load", !.id = id])
      BY <1>22 DEF GoogleUpsert, WithEmail
    <2>4. RowsSecured(users')
      BY <2>1, <2>2, <2>3, RowsStaySecured DEF Secured
    <2>5. Live(users', id) /\ users'[id].verified /\ users'[id] # Unborn
      <3>1. CASE Live(users, id) /\ UpdateGoogle(id, req[s].given)
        <4>1. /\ users[id] \in Row
              /\ users'[id] = [users[id] EXCEPT !.googleId = req[s].given,
                                               !.verified = TRUE]
          BY <1>0, <3>1 DEF Live, UpdateGoogle
        <4>2. users'[id] \in Row /\ users'[id].verified
          BY <2>1, <4>1 DEF Row
        <4> QED
          BY <4>2, RowAssumption DEF Live
      <3>2. CASE Insert(id, row)
        BY <1>0, <2>2, <3>2, RowAssumption DEF Insert, Live
      <3> QED
        BY <2>3, <3>1, <3>2
    <2>6. Vouched(users', issued', [Idle EXCEPT !.pc = "google.load",
                                                !.id = id])
      BY <2>5 DEF Vouched, Idle
    <2> QED
      BY <1>22, <2>3, <2>4, <2>6, BecomeVouched, RowStepSecured DEF GoogleUpsert
  <1>23. CASE GoogleLoad(s)
    <2>1. Vouched(users', issued', IssueTokens(req[s].id))
      BY <1>23, <1>0 DEF GoogleLoad, At, Vouched, Request, IssueTokens, Idle
    <2> QED
      BY <1>23, <1>b, <1>c, <2>1 DEF GoogleLoad, store
  <1>24. CASE RemoveDelete(s)
    <2>1. req[s].id \in Ids
      BY <1>24, <1>0 DEF RemoveDelete, At, LocalsOK
    <2>2. RowsSecured(users')
      BY <1>24, <2>1, RowsStaySecured DEF RemoveDelete, Secured
    <2> QED
      BY <1>24, <2>2, FinishVouched, RowStepSecured DEF RemoveDelete
  <1> QED
    BY <1>1, <1>2, <1>3, <1>4, <1>5, <1>6, <1>7, <1>8, <1>9, <1>10, <1>11, <1>12,
       <1>13, <1>14, <1>15, <1>16, <1>17, <1>18, <1>19, <1>20, <1>21, <1>22, <1>23, <1>24 DEF Continue

LEMMA OtherSecured ==
    ASSUME Typed, Secured, Evolves,
           \/ \E s \in Slots : Fail(s)
           \/ \E id \in Ids : Logout(id)
           \/ \E e \in Emails : Expire(e)
           \/ Tick
           \/ UNCHANGED vars
    PROVE  Secured'
  <1>1. ASSUME NEW s \in Slots, Fail(s)
        PROVE  Secured'
    BY <1>1, FinishVouched, QuietSecured DEF Fail, store
  <1>2. ASSUME UNCHANGED req
        PROVE  \A q \in Slots : Vouched(users', issued', req'[q])
    BY <1>2, VouchedEvolves DEF Typed, TypeOK, Secured
  <1>3. ASSUME NEW id \in Ids, Logout(id)
        PROVE  Secured'
    <2>1. RowsSecured(users')
      BY <1>3, RowsStaySecured DEF Logout, Secured
    <2> QED
      BY <1>2, <1>3, <2>1, RowStepSecured DEF Logout
  <1>4. ASSUME NEW e \in Emails, Expire(e)
        PROVE  Secured'
    <2>1. CASE ExpireCode(e)
      BY <1>2, <2>1, KeyStepSecured DEF ExpireCode
    <2>2. CASE ExpireAttempts(e) \/ ExpireResends(e)
      BY <1>2, <2>2, QuietSecured DEF ExpireAttempts, ExpireResends
    <2>3. CASE ExpireResetToken(e)
      BY <1>2, <2>3, KeyStepSecured DEF ExpireResetToken, DeleteResetToken
    <2> QED
      BY <1>4, <2>1, <2>2, <2>3 DEF Expire
  <1>5. CASE Tick
    BY <1>2, <1>5, QuietSecured DEF Tick
  <1>6. CASE UNCHANGED vars
    BY <1>2, <1>6, QuietSecured DEF vars, store
  <1> QED
    BY <1>1, <1>3, <1>4, <1>5, <1>6

LEMMA StepSecured == Typed /\ Secured /\ [Next]_vars => Secured'
  BY StepEvolves, ArriveSecured, ContinueSecured, OtherSecured DEF Next

(* The two invariants together hold in every reachable state. *)
LEMMA AlwaysSecured == Spec => [](Typed /\ Secured)
  <1>1. Init => Typed /\ Secured
    BY InitTyped, InitSecured
  <1>2. Typed /\ Secured /\ [Next]_vars => (Typed /\ Secured)'
    BY StepTyped, StepSecured
  <1> QED
    BY <1>1, <1>2, PTL DEF Spec

(* No session is stored for an unverified address: the check and the write *)
(* are several awaits apart, but nothing un-verifies a row in between.     *)
THEOREM SessionsAreVerified == Spec => []SessionOnlyIfVerified
  <1>1. Typed /\ Secured => SessionOnlyIfVerified
    BY DEF Secured, RowsSecured, SessionOnlyIfVerified
  <1> QED
    BY <1>1, AlwaysSecured, PTL

============================================================================
