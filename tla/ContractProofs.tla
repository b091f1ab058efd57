--------------------------- MODULE ContractProofs ---------------------------
(***************************************************************************)
(* AuthService implements AccountLifecycle: every step of a handler is one *)
(* step of the contract or invisible to it.                                *)
(***************************************************************************)
EXTENDS AuthProofs

(* The contract sees an account exactly where the table has a row. *)
LEMMA SameAccounts ==
    ASSUME Typed
    PROVE  /\ \A id \in Ids : Contract!Exists(id) <=> Live(users, id)
           /\ \A id \in Ids : Live(users, id) =>
                /\ users[id] \in Row
                /\ AccountsOf(users)[id] = AccountOf(users[id])
           /\ \A id \in Ids : ~Live(users, id) => AccountsOf(users)[id] = users[id]
           /\ \A e \in Emails : Contract!Taken(e) <=> WithEmail(e) # {}
  <1>1. \A id \in Ids : Live(users, id) => users[id] \in Row
    BY DEF Typed, TypeOK, StoreTypeOK, Live
  <1>2. \A row \in Row : AccountOf(row) \in Contract!Account
    BY DEF AccountOf, Row, Contract!Account
  <1>3. /\ \A id \in Ids : Live(users, id) =>
             AccountsOf(users)[id] = AccountOf(users[id])
        /\ \A id \in Ids : ~Live(users, id) => AccountsOf(users)[id] = users[id]
    BY DEF AccountsOf
  <1>4. \A id \in Ids : Contract!Exists(id) <=> Live(users, id)
    BY <1>1, <1>2, <1>3, AccountAssumption DEF Contract!Exists, Live
  <1>5. \A row \in Row : AccountOf(row).email = row.email
    BY DEF AccountOf
  <1>6. \A e \in Emails : Contract!Taken(e) <=> WithEmail(e) # {}
    BY <1>1, <1>3, <1>4, <1>5 DEF Contract!Taken, WithEmail
  <1> QED
    BY <1>1, <1>3, <1>4, <1>6

(* Writing one row writes one account. *)
LEMMA WriteAccount ==
    ASSUME Typed, NEW id \in Ids, NEW row \in Row,
           users' = [users EXCEPT ![id] = row]
    PROVE  AccountsOf(users') = [AccountsOf(users) EXCEPT ![id] = AccountOf(row)]
  <1>1. users \in [Ids -> Row \cup {Unborn, Gone}]
    BY DEF Typed, TypeOK, StoreTypeOK
  <1>2. Live(users', id) /\ users'[id] = row
    BY <1>1, RowAssumption DEF Live
  <1>3. \A i \in Ids \ {id} : users'[i] = users[i]
    BY <1>1
  <1> DEFINE new == AccountsOf(users')
             old == AccountsOf(users)
  <1>4. new[id] = AccountOf(row)
    BY <1>2 DEF AccountsOf
  <1>5. ASSUME NEW i \in Ids \ {id}
        PROVE  new[i] = old[i]
    BY <1>3 DEF AccountsOf, Live
  <1>6. new = [i \in Ids |-> new[i]] /\ old = [i \in Ids |-> old[i]]
    BY DEF AccountsOf
  <1> HIDE DEF new, old
  <1>7. [old EXCEPT ![id] = AccountOf(row)]
          = [i \in Ids |-> IF i = id THEN AccountOf(row) ELSE old[i]]
    BY <1>6
  <1>8. new = [i \in Ids |-> IF i = id THEN AccountOf(row) ELSE old[i]]
    BY <1>4, <1>5, <1>6
  <1> QED
    BY <1>7, <1>8 DEF new, old

LEMMA InitContract == Init => Contract!Init
  <1> SUFFICES ASSUME Init PROVE Contract!Init
    OBVIOUS
  <1>1. CASE users = [id \in Ids |-> Unborn]
    <2>1. AccountsOf(users) = [id \in Ids |-> Unborn]
      BY <1>1 DEF AccountsOf, Live
    <2> QED
      BY <2>1 DEF Init, Contract!Init
  <1>2. ASSUME NEW admin \in Ids, NEW p \in Passwords, AdminEmail # None,
               users = [id \in Ids |->
                          IF id = admin
                          THEN NewRow(AdminEmail, p, None, TRUE, None)
                          ELSE Unborn]
        PROVE  Contract!Init
    <2> DEFINE row == NewRow(AdminEmail, p, None, TRUE, None)
    <2>1. AdminEmail \in Emails
      BY <1>2, AdminAssumption
    <2>2. row \in Row
      BY <2>1, NoneAssumption DEF NewRow, Row
    <2>3. AccountOf(row) = [email |-> AdminEmail, password |-> p,
                            verified |-> TRUE, session |-> FALSE]
      BY DEF AccountOf, NewRow
    <2> HIDE DEF row
    <2>4. AccountsOf(users) = [id \in Ids |-> IF id = admin THEN AccountOf(row)
                                                            ELSE Unborn]
      <3>1. users[admin] = row /\ Live(users, admin)
        BY <1>2, <2>2, RowAssumption DEF Live, row
      <3>2. \A id \in Ids \ {admin} : users[id] = Unborn /\ ~Live(users, id)
        BY <1>2 DEF Live
      <3>3. AccountsOf(users) = [id \in Ids |-> AccountsOf(users)[id]]
        BY DEF AccountsOf
      <3>4. /\ AccountsOf(users)[admin] = AccountOf(row)
            /\ \A id \in Ids \ {admin} : AccountsOf(users)[id] = Unborn
        BY <3>1, <3>2 DEF AccountsOf
      <3> QED
        BY <3>3, <3>4
    <2>5. \E a \in Ids, e \in Emails, q \in Passwords :
            AccountsOf(users) = [id \in Ids |->
                                   IF id = a
                                   THEN [email |-> e, password |-> q,
                                         verified |-> TRUE, session |-> FALSE]
                                   ELSE Unborn]
      <3>1. AccountsOf(users) = [id \in Ids |->
                                   IF id = admin
                                   THEN [email |-> AdminEmail, password |-> p,
                                         verified |-> TRUE, session |-> FALSE]
                                   ELSE Unborn]
        BY <2>3, <2>4
      <3> QED
        BY <2>1, <3>1
    <2> QED
      BY <2>5 DEF Init, Contract!Init
  <1> QED
    BY <1>1, <1>2 DEF Init, StoreInit

----------------------------------------------------------------------------
(* One lemma per UPDATE, INSERT and DELETE *)

ContractStep == [Contract!Next]_<<AccountsOf(users), issued>>

LEMMA Stutter ==
    ASSUME UNCHANGED users, UNCHANGED issued
    PROVE  ContractStep
  BY DEF ContractStep, AccountsOf, AccountOf, Live

(* An UPDATE of a row that exists, seen from the contract. *)
LEMMA UpdateAccount ==
    ASSUME Typed, NEW id \in Ids, Live(users, id), NEW row \in Row,
           users' = [users EXCEPT ![id] = row]
    PROVE  /\ Contract!Exists(id)
           /\ AccountsOf(users)[id] = AccountOf(users[id])
           /\ users[id] \in Row
           /\ AccountsOf(users)' = [AccountsOf(users) EXCEPT ![id] = AccountOf(row)]
  <1>1. AccountsOf(users)' = AccountsOf(users')
    BY DEF AccountsOf, AccountOf, Live
  <1> QED
    BY <1>1, SameAccounts, WriteAccount

LEMMA SessionStep ==
    ASSUME Typed, NEW id \in Ids, NEW hash \in Ids \cup {None},
           UpdateSession(id, hash), UNCHANGED issued,
           hash # None /\ Live(users, id) => users[id].verified
    PROVE  ContractStep
  <1>1. CASE ~Live(users, id)
    BY <1>1, Stutter DEF UpdateSession
  <1>2. CASE Live(users, id)
    <2> DEFINE row == [users[id] EXCEPT !.session = hash]
    <2>1. users[id] \in Row
      BY <1>2, SameAccounts
    <2>2. row \in Row
      BY <2>1 DEF Row
    <2>3. users' = [users EXCEPT ![id] = row]
      BY <1>2 DEF UpdateSession
    <2>4. AccountOf(row) = [AccountOf(users[id]) EXCEPT !.session = hash # None]
      BY <2>1 DEF AccountOf, Row
    <2> HIDE DEF row
    <2>5. /\ Contract!Exists(id)
          /\ AccountsOf(users)[id] = AccountOf(users[id])
          /\ AccountsOf(users)' = [AccountsOf(users) EXCEPT ![id] = AccountOf(row)]
      BY <1>2, <2>2, <2>3, UpdateAccount
    <2>6. CASE hash = None
      <3>1. AccountsOf(users)' = [AccountsOf(users) EXCEPT ![id].session = FALSE]
        BY <2>4, <2>5, <2>6
      <3>2. Contract!CloseSession(id)
        BY <2>5, <3>1 DEF Contract!CloseSession
      <3> QED
        BY <3>2 DEF ContractStep, Contract!Next
    <2>7. CASE hash # None
      <3>1. AccountsOf(users)' = [AccountsOf(users) EXCEPT ![id].session = TRUE]
        BY <2>4, <2>5, <2>7
      <3>2. AccountsOf(users)[id].verified
        BY <1>2, <2>5, <2>7 DEF AccountOf
      <3>3. Contract!OpenSession(id)
        BY <2>5, <3>1, <3>2 DEF Contract!OpenSession
      <3> QED
        BY <3>3 DEF ContractStep, Contract!Next
    <2> QED
      BY <2>6, <2>7
  <1> QED
    BY <1>1, <1>2

LEMMA PasswordStep ==
    ASSUME Typed, NEW id \in Ids, NEW p \in Passwords, UpdatePassword(id, p),
           UNCHANGED issued,
           Live(users, id) =>
             /\ users[id].verified
             /\ \E t \in ResetTokens : <<users[id].email, t>> \in issued
    PROVE  ContractStep
  <1>1. CASE ~Live(users, id)
    BY <1>1, Stutter DEF UpdatePassword
  <1>2. CASE Live(users, id)
    <2> DEFINE row == [users[id] EXCEPT !.password = p]
    <2>1. users[id] \in Row
      BY <1>2, SameAccounts
    <2>2. row \in Row
      BY <2>1 DEF Row
    <2>3. users' = [users EXCEPT ![id] = row]
      BY <1>2 DEF UpdatePassword
    <2>4. AccountOf(row) = [AccountOf(users[id]) EXCEPT !.password = p]
      BY <2>1 DEF AccountOf, Row
    <2> HIDE DEF row
    <2>5. /\ Contract!Exists(id)
          /\ AccountsOf(users)[id] = AccountOf(users[id])
          /\ AccountsOf(users)' = [AccountsOf(users) EXCEPT ![id] = AccountOf(row)]
      BY <1>2, <2>2, <2>3, UpdateAccount
    <2>6. AccountsOf(users)' = [AccountsOf(users) EXCEPT ![id].password = p]
      BY <2>4, <2>5
    <2>7. /\ AccountsOf(users)[id].verified
          /\ Contract!Proved(AccountsOf(users)[id].email, ResetTokens)
      BY <1>2, <2>5 DEF AccountOf, Contract!Proved
    <2>8. Contract!ChangePassword(id, p)
      BY <2>5, <2>6, <2>7 DEF Contract!ChangePassword
    <2> QED
      BY <2>8 DEF ContractStep, Contract!Next
  <1> QED
    BY <1>1, <1>2

LEMMA AccountUpdate ==
    ASSUME NEW old, NEW new, NEW v, new.verified = v,
           new.email = old.email, new.password = old.password,
           new.session = old.session
    PROVE  AccountOf(new) = [AccountOf(old) EXCEPT !.verified = v]
  BY DEF AccountOf

LEMMA VerifiedAccount ==
    ASSUME NEW old \in Row, NEW new \in Row, new.verified,
           new.email = old.email, new.password = old.password,
           new.session = old.session
    PROVE  AccountOf(new) = [AccountOf(old) EXCEPT !.verified = TRUE]
  <1>1. new.verified \in BOOLEAN
    BY DEF Row
  <1>2. \A b \in BOOLEAN : b => b = TRUE
    OBVIOUS
  <1>3. new.verified = TRUE
    BY <1>1, <1>2
  <1> QED
    BY <1>3, AccountUpdate

(* Both the OTP and the Google upsert set email_verified on a row. *)
LEMMA VerifyStep ==
    ASSUME Typed, NEW id \in Ids, NEW row \in Row, Live(users, id),
           users' = [users EXCEPT ![id] = row], UNCHANGED issued,
           AccountOf(row) = [AccountOf(users[id]) EXCEPT !.verified = TRUE],
           \E x \in Codes \cup GoogleIds : <<users[id].email, x>> \in issued
    PROVE  ContractStep
  <1>1. /\ Contract!Exists(id)
        /\ AccountsOf(users)[id] = AccountOf(users[id])
        /\ AccountsOf(users)' = [AccountsOf(users) EXCEPT ![id] = AccountOf(row)]
    BY UpdateAccount
  <1>2. AccountsOf(users)' = [AccountsOf(users) EXCEPT ![id].verified = TRUE]
    BY <1>1
  <1>3. Contract!Proved(AccountsOf(users)[id].email, Codes \cup GoogleIds)
    BY <1>1 DEF AccountOf, Contract!Proved
  <1>4. Contract!Verify(id)
    BY <1>1, <1>2, <1>3 DEF Contract!Verify
  <1> QED
    BY <1>4 DEF ContractStep, Contract!Next

LEMMA OpenStep ==
    ASSUME Typed, NEW id \in Ids, NEW e \in Emails,
           NEW p \in Passwords \cup {None}, NEW g \in GoogleIds \cup {None},
           NEW verified \in BOOLEAN, NEW step \in {None, 1, 2, 3},
           Insert(id, NewRow(e, p, g, verified, step)), AddressFree(e),
           UNCHANGED issued,
           verified => p = None /\ \E x \in GoogleIds : <<e, x>> \in issued
    PROVE  ContractStep
  <1> DEFINE row == NewRow(e, p, g, verified, step)
  <1>1. row \in Row
    BY DEF NewRow, Row
  <1>2. AccountOf(row) = [email |-> e, password |-> p, verified |-> verified,
                          session |-> FALSE]
    BY DEF AccountOf, NewRow
  <1>3. users[id] = Unborn /\ users' = [users EXCEPT ![id] = row]
    BY DEF Insert
  <1> HIDE DEF row
  <1>4. AccountsOf(users)' = [AccountsOf(users) EXCEPT ![id] = AccountOf(row)]
    <2>1. AccountsOf(users)' = AccountsOf(users')
      BY DEF AccountsOf, AccountOf, Live
    <2> QED
      BY <1>1, <1>3, <2>1, WriteAccount
  <1>5. AccountsOf(users)[id] = Unborn
    BY <1>3, SameAccounts DEF Live
  <1>6. ~Contract!Taken(e)
    BY SameAccounts DEF AddressFree
  <1>7. verified => Contract!Proved(e, GoogleIds) /\ p = None
    BY DEF Contract!Proved
  <1>8. Contract!Open(id, e, p, verified)
    BY <1>2, <1>4, <1>5, <1>6, <1>7 DEF Contract!Open
  <1> QED
    BY <1>8 DEF ContractStep, Contract!Next

LEMMA CloseStep ==
    ASSUME Typed, NEW id \in Ids, Delete(id), UNCHANGED issued
    PROVE  ContractStep
  <1>1. CASE ~Live(users, id)
    BY <1>1, Stutter DEF Delete
  <1>2. CASE Live(users, id)
    <2> DEFINE new == AccountsOf(users')
               old == AccountsOf(users)
    <2>1. users' = [users EXCEPT ![id] = Gone]
      BY <1>2 DEF Delete
    <2>2. users \in [Ids -> Row \cup {Unborn, Gone}]
      BY DEF Typed, TypeOK, StoreTypeOK
    <2>3. users'[id] = Gone /\ \A i \in Ids \ {id} : users'[i] = users[i]
      BY <2>1, <2>2
    <2>4. new[id] = Gone
      BY <2>3 DEF AccountsOf, Live
    <2>5. ASSUME NEW i \in Ids \ {id}
          PROVE  new[i] = old[i]
      BY <2>3 DEF AccountsOf, Live
    <2>6. new = [i \in Ids |-> new[i]] /\ old = [i \in Ids |-> old[i]]
      BY DEF AccountsOf
    <2> HIDE DEF new, old
    <2>7. new = [old EXCEPT ![id] = Gone]
      <3>1. [old EXCEPT ![id] = Gone]
              = [i \in Ids |-> IF i = id THEN Gone ELSE old[i]]
        BY <2>6
      <3>2. new = [i \in Ids |-> IF i = id THEN Gone ELSE old[i]]
        BY <2>4, <2>5, <2>6
      <3> QED
        BY <3>1, <3>2
    <2>8. AccountsOf(users)' = [AccountsOf(users) EXCEPT ![id] = Gone]
      <3>1. AccountsOf(users)' = AccountsOf(users')
        BY DEF AccountsOf, AccountOf, Live
      <3> QED
        BY <2>7, <3>1 DEF new, old
    <2>9. Contract!Close(id)
      BY <1>2, <2>8, SameAccounts DEF Contract!Close
    <2> QED
      BY <2>9 DEF ContractStep, Contract!Next
  <1> QED
    BY <1>1, <1>2

LEMMA ProveStep ==
    ASSUME UNCHANGED users, NEW e \in Emails, NEW x \in Secrets,
           issued' = issued \cup {<<e, x>>}
    PROVE  ContractStep
  <1>1. AccountsOf(users)' = AccountsOf(users)
    BY DEF AccountsOf, AccountOf, Live
  <1>2. Contract!Prove(e, x)
    BY <1>1 DEF Contract!Prove
  <1> QED
    BY <1>2 DEF ContractStep, Contract!Next, Secrets

----------------------------------------------------------------------------
(* One step of the service is one step of the contract or none *)

(* Requests that arrive read; only the Google callback brings a proof. *)
LEMMA ArriveStep ==
    ASSUME Typed, NEW s \in Slots, Arrive(s)
    PROVE  ContractStep
  <1>1. CASE UNCHANGED users /\ UNCHANGED issued
    BY <1>1, Stutter
  <1>2. ASSUME NEW g \in GoogleIds, NEW e \in Emails, Google(s, g, e)
        PROVE  ContractStep
    BY <1>2, ProveStep DEF Google, Secrets, store
  <1>3. \/ UNCHANGED users /\ UNCHANGED issued
        \/ \E g \in GoogleIds, e \in Emails : Google(s, g, e)
    BY DEF Arrive, Register, Login, VerifyEmail, Resend, Forgot, Reset,
           Refresh, Remove, store, history
  <1> QED
    BY <1>1, <1>2, <1>3

LEMMA ContinueStep ==
    ASSUME Typed, Secured, NEW s \in Slots, Continue(s)
    PROVE  ContractStep
  <1>0. /\ req[s] \in Request /\ LocalsOK(req[s])
        /\ Vouched(users, issued, req[s])
        /\ \A id \in Ids : Live(users, id) => users[id] \in Row
    BY SameAccounts DEF Typed, TypeOK, Secured
  <1>1. CASE UNCHANGED users /\ UNCHANGED issued
    BY <1>1, Stutter
  <1>2. CASE RegisterInsert(s)
    <2>1. req[s].email \in Emails /\ req[s].password \in Passwords
      BY <1>0, <1>2 DEF RegisterInsert, At, LocalsOK
    <2>2. ASSUME NEW id \in Ids, AddressFree(req[s].email),
                 Insert(id, NewRow(req[s].email, req[s].password, None, FALSE, 1))
          PROVE  ContractStep
      BY <1>2, <2>1, <2>2, OpenStep DEF RegisterInsert, history
    <2> QED
      BY <1>1, <1>2, <2>2 DEF RegisterInsert, history
  <1>3. CASE StoreOtp(s)
    BY <1>0, <1>3, ProveStep DEF StoreOtp, At, LocalsOK, Secrets
  <1>4. CASE StoreSession(s)
    <2>1. req[s].id \in Ids
      BY <1>0, <1>4 DEF StoreSession, At, LocalsOK
    <2>2. UpdateSession(req[s].id, req[s].id) /\ UNCHANGED issued
      BY <1>4 DEF StoreSession, BcryptPrefix
    <2>3. Live(users, req[s].id) => users[req[s].id].verified
      BY <1>0, <1>4 DEF StoreSession, At, Vouched
    <2> QED
      BY <2>1, <2>2, <2>3, SessionStep
  <1>5. CASE MarkVerified(s)
    <2> DEFINE id  == req[s].id
               row == [users[id] EXCEPT !.verified = TRUE, !.step = 2]
    <2>1. /\ id \in Ids /\ req[s].email \in Emails /\ req[s].given \in Codes
          /\ <<req[s].email, req[s].given>> \in issued
      BY <1>0, <1>5 DEF MarkVerified, At, LocalsOK, Vouched
    <2>2. UpdateVerified(id) /\ UNCHANGED issued
      BY <1>5 DEF MarkVerified, history
    <2>3. CASE ~Live(users, id)
      BY <2>2, <2>3, Stutter DEF UpdateVerified
    <2>4. CASE Live(users, id)
      <3>1. users[id] \in Row /\ users[id].email = req[s].email
        BY <1>0, <2>1, <2>4, NoneAssumption DEF Vouched
      <3>2. row \in Row
        BY <3>1 DEF Row
      <3>3. AccountOf(row) = [AccountOf(users[id]) EXCEPT !.verified = TRUE]
        <4>1. /\ row.email = users[id].email /\ row.session = users[id].session
              /\ row.password = users[id].password /\ row.verified
          BY <3>1 DEF Row
        <4> HIDE DEF row
        <4> QED
          BY <3>1, <3>2, <4>1, VerifiedAccount
      <3>4. users' = [users EXCEPT ![id] = row]
        BY <1>0, <2>1, <2>2, <2>4 DEF UpdateVerified, Typed, TypeOK, StoreTypeOK
      <3> HIDE DEF row
      <3> QED
        BY <2>1, <2>2, <2>4, <3>1, <3>2, <3>3, <3>4, VerifyStep
    <2> QED
      BY <2>3, <2>4
  <1>6. CASE MailResetLink(s)
    <2>1. req[s].email \in Emails /\ req[s].made \in Secrets
      BY <1>0, <1>6 DEF MailResetLink, At, LocalsOK, Secrets
    <2> QED
      BY <1>6, <2>1, ProveStep DEF MailResetLink
  <1>7. CASE ResetUpdate(s)
    <2>1. /\ req[s].id \in Ids /\ req[s].password \in Passwords
          /\ req[s].email \in Emails /\ req[s].given \in ResetTokens
          /\ <<req[s].email, req[s].given>> \in issued
          /\ Live(users, req[s].id) => users[req[s].id].verified
      BY <1>0, <1>7 DEF ResetUpdate, At, LocalsOK, Vouched
    <2>2. Live(users, req[s].id) => users[req[s].id].email = req[s].email
      BY <1>0, <2>1, NoneAssumption DEF Vouched
    <2>3. UpdatePassword(req[s].id, req[s].password) /\ UNCHANGED issued
      BY <1>7 DEF ResetUpdate, history
    <2> QED
      BY <2>1, <2>2, <2>3, PasswordStep
  <1>8. CASE GoogleUpsert(s)
    <2>1. /\ req[s].email \in Emails /\ req[s].given \in GoogleIds
          /\ <<req[s].email, req[s].given>> \in issued
          /\ UNCHANGED issued
      BY <1>0, <1>8 DEF GoogleUpsert, At, LocalsOK, Vouched, history
    <2>2. ASSUME NEW id \in WithEmail(req[s].email),
                 UpdateGoogle(id, req[s].given)
          PROVE  ContractStep
      <3> DEFINE row == [users[id] EXCEPT !.googleId = req[s].given,
                                         !.verified = TRUE]
      <3>1. /\ id \in Ids /\ Live(users, id) /\ users[id] \in Row
            /\ users[id].email = req[s].email
        BY <1>0, <2>2 DEF WithEmail
      <3>2. row \in Row
        BY <2>1, <3>1 DEF Row
      <3>3. AccountOf(row) = [AccountOf(users[id]) EXCEPT !.verified = TRUE]
        <4>1. /\ row.email = users[id].email /\ row.session = users[id].session
              /\ row.password = users[id].password /\ row.verified
          BY <3>1 DEF Row
        <4> HIDE DEF row
        <4> QED
          BY <3>1, <3>2, <4>1, VerifiedAccount
      <3>4. users' = [users EXCEPT ![id] = row]
        BY <2>2, <3>1 DEF UpdateGoogle, Typed, TypeOK, StoreTypeOK
      <3> HIDE DEF row
      <3> QED
        BY <2>1, <3>1, <3>2, <3>3, <3>4, VerifyStep
    <2>3. ASSUME NEW id \in Ids, AddressFree(req[s].email),
                 Insert(id, NewRow(req[s].email, None, req[s].given, TRUE, 2))
          PROVE  ContractStep
      BY <2>1, <2>3, OpenStep
    <2> QED
      BY <1>8, <2>2, <2>3 DEF GoogleUpsert
  <1>9. CASE RemoveDelete(s)
    <2>1. req[s].id \in Ids
      BY <1>0, <1>9 DEF RemoveDelete, At, LocalsOK
    <2> QED
      BY <1>9, <2>1, CloseStep DEF RemoveDelete, history
  <1>10. \/ UNCHANGED users /\ UNCHANGED issued
         \/ RegisterInsert(s) \/ StoreOtp(s) \/ StoreSession(s)
         \/ MarkVerified(s) \/ MailResetLink(s) \/ ResetUpdate(s)
         \/ GoogleUpsert(s) \/ RemoveDelete(s)
    BY DEF Continue, MailOtp, ReadAttempts, CompareOtp, CountMiss, DropCode,
           DropCount, MailWelcome, ReadResends, BumpResends, StoreResetToken,
           ResetFindUser, ResetFindOne, MailPasswordUpdate, DropResetToken,
           GoogleFindByEmail, GoogleLoad, store, history
  <1> QED
    BY <1>1, <1>2, <1>3, <1>4, <1>5, <1>6, <1>7, <1>8, <1>9, <1>10

LEMMA ServiceStep == Typed /\ Secured /\ [Next]_vars => ContractStep
  <1> SUFFICES ASSUME Typed, Secured, [Next]_vars PROVE ContractStep
    OBVIOUS
  <1>1. CASE UNCHANGED users /\ UNCHANGED issued
    BY <1>1, Stutter
  <1>2. ASSUME NEW s \in Slots, Arrive(s) \/ Continue(s)
        PROVE  ContractStep
    BY <1>2, ArriveStep, ContinueStep
  <1>3. ASSUME NEW id \in Ids, Logout(id)
        PROVE  ContractStep
    BY <1>3, SessionStep DEF Logout
  <1>4. \/ UNCHANGED users /\ UNCHANGED issued
        \/ \E s \in Slots : Arrive(s) \/ Continue(s)
        \/ \E id \in Ids : Logout(id)
    BY DEF Next, Fail, Expire, ExpireCode, ExpireAttempts, ExpireResends,
           ExpireResetToken, Tick, vars, store, history
  <1> QED
    BY <1>1, <1>2, <1>3, <1>4

(* AuthService implements AccountLifecycle: whatever requests, removals,   *)
(* failures and expiries interleave, an account is opened, verified, given *)
(* a password or a session, and closed only as the contract allows.        *)
THEOREM ServiceKeepsContract == Spec => KeepsContract
  <1>1. Typed /\ Secured /\ [Next]_vars
          => [Contract!Next]_<<AccountsOf(users), issued>>
    BY ServiceStep DEF ContractStep
  <1> QED
    BY <1>1, InitContract, AlwaysSecured, PTL DEF Spec, KeepsContract, Contract!Spec

=============================================================================
