-------------------------- MODULE AccountLifecycle --------------------------
(***************************************************************************)
(* What the authentication endpoints promise, without requests, Redis or   *)
(* a mail queue: which account may come to be, and what must have been     *)
(* proved before an account is verified, gets a new password or gets a     *)
(* session.  A proof is a pair of an address and a secret that only the    *)
(* owner of the address has been given.                                    *)
(***************************************************************************)
CONSTANTS Emails, Ids, Passwords, Codes, ResetTokens, GoogleIds, None,
          Unborn, Gone

VARIABLES accounts, proofs

Account == [email : Emails, password : Passwords \cup {None},
            verified : BOOLEAN, session : BOOLEAN]

Exists(id) == accounts[id] \notin {Unborn, Gone}
Taken(e) == \E id \in Ids : Exists(id) /\ accounts[id].email = e
Proved(e, kind) == \E x \in kind : <<e, x>> \in proofs

Init == /\ proofs = {}
        /\ \/ accounts = [id \in Ids |-> Unborn]
           \/ \E admin \in Ids, e \in Emails, p \in Passwords :
                accounts = [id \in Ids |->
                              IF id = admin
                              THEN [email |-> e, password |-> p,
                                    verified |-> TRUE, session |-> FALSE]
                              ELSE Unborn]

Prove(e, x) ==
    /\ proofs' = proofs \cup {<<e, x>>}
    /\ UNCHANGED accounts

(* A primary key names one account for ever, an address at most one at a   *)
(* time; only Google's word makes an account verified from the start.      *)
Open(id, e, p, verified) ==
    /\ accounts[id] = Unborn
    /\ ~Taken(e)
    /\ verified => Proved(e, GoogleIds) /\ p = None
    /\ accounts' = [accounts EXCEPT ![id] =
                      [email |-> e, password |-> p, verified |-> verified,
                       session |-> FALSE]]
    /\ UNCHANGED proofs

Verify(id) ==
    /\ Exists(id)
    /\ Proved(accounts[id].email, Codes \cup GoogleIds)
    /\ accounts' = [accounts EXCEPT ![id].verified = TRUE]
    /\ UNCHANGED proofs

ChangePassword(id, p) ==
    /\ Exists(id)
    /\ accounts[id].verified
    /\ Proved(accounts[id].email, ResetTokens)
    /\ accounts' = [accounts EXCEPT ![id].password = p]
    /\ UNCHANGED proofs

OpenSession(id) ==
    /\ Exists(id)
    /\ accounts[id].verified
    /\ accounts' = [accounts EXCEPT ![id].session = TRUE]
    /\ UNCHANGED proofs

CloseSession(id) ==
    /\ Exists(id)
    /\ accounts' = [accounts EXCEPT ![id].session = FALSE]
    /\ UNCHANGED proofs

Close(id) ==
    /\ Exists(id)
    /\ accounts' = [accounts EXCEPT ![id] = Gone]
    /\ UNCHANGED proofs

Next ==
    \/ \E e \in Emails, x \in Codes \cup ResetTokens \cup GoogleIds : Prove(e, x)
    \/ \E id \in Ids :
         \/ \E e \in Emails, p \in Passwords \cup {None}, v \in BOOLEAN :
              Open(id, e, p, v)
         \/ Verify(id) \/ OpenSession(id) \/ CloseSession(id) \/ Close(id)
         \/ \E p \in Passwords : ChangePassword(id, p)

Spec == Init /\ [][Next]_<<accounts, proofs>>

============================================================================
