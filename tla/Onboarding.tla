----------------------------- MODULE Onboarding -----------------------------
(***************************************************************************)
(* Onboarding: a user is created, verified and connects an inverter.       *)
(* UsersService.connectUserInverter, InvertersService and VictronAdapter   *)
(* with the two tables they share, next to the operations of other         *)
(* services that write the same columns: registration, setEmailVerified,   *)
(* the Google upsert and the removal of a user.                            *)
(*                                                                         *)
(* A user is named by its primary key and appears with the columns of      *)
(* onboarding only; AuthService models the rest of the row.  Operations    *)
(* whose only effect here is one write (registration, the Google upsert,   *)
(* signing in) are one step and take no slot.                              *)
(***************************************************************************)
EXTENDS Naturals, FiniteSets

CONSTANTS
    Users,        \* primary keys of users; one is never generated twice
    InverterIds,  \* primary keys of inverters; one is never generated twice
    Serials,      \* serial numbers of installations, as VRM reports them
    Slots,        \* requests that may be in flight at the same time
    SeededUsers,  \* users that user.seeder.ts has inserted
    MaxFaults,    \* bound: how many requests may be cut short
    None,         \* null
    Unborn,       \* a row that has not been inserted
    Gone          \* a row that has been deleted

UserRow == [verified : BOOLEAN, step : {None, 1, 2, 3}, complete : BOOLEAN]
InverterRow == [owner : Users, serial : Serials, active : BOOLEAN]

ASSUME SeedAssumption == SeededUsers \subseteq Users
ASSUME FaultsAssumption == MaxFaults \in Nat
ASSUME NullAssumption == None \notin Users \cup InverterIds \cup Serials \cup Nat
ASSUME AbsentAssumption ==
    /\ Unborn # Gone
    /\ Unborn \notin UserRow \cup InverterRow
    /\ Gone \notin UserRow \cup InverterRow

VARIABLES
    users,      \* the users table, by primary key
    inverters,  \* the inverters table, by primary key
    holders,    \* users that hold an access token; it outlives their row
    req,        \* req[s]: the request in slot s
    faults      \* requests cut short so far

vars == <<users, inverters, holders, req, faults>>

Request == [pc       : {"idle", "verify.mark", "connect.verify",
                        "connect.find", "connect.insert", "connect.complete",
                        "deactivate.update", "remove.delete"},
            user     : Users \cup {None},
            serial   : Serials \cup {None},
            inverter : InverterIds \cup {None}]

Idle == [pc |-> "idle", user |-> None, serial |-> None, inverter |-> None]

At(s, pc) == req[s].pc = pc
Become(s, r) == req' = [req EXCEPT ![s] = r]
Accept(s, pc, u) ==
    /\ At(s, "idle")
    /\ Become(s, [Idle EXCEPT !.pc = pc, !.user = u])
Goto(s, pc) == Become(s, [req[s] EXCEPT !.pc = pc])
Finish(s) == Become(s, Idle)

----------------------------------------------------------------------------
(* The two tables *)

LiveUser(u) == users[u] \notin {Unborn, Gone}
LiveInverter(i) == inverters[i] \notin {Unborn, Gone}
Owned(u) == {i \in InverterIds : LiveInverter(i) /\ inverters[i].owner = u}

NewUser(verified, step) == [verified |-> verified, step |-> step, complete |-> FALSE]

(* findBySerialNumber: a row counts whether it is active or not.           *)
WithSerial(n) == {i \in InverterIds : LiveInverter(i) /\ inverters[i].serial = n}

(* What the INSERT of an inverter checks: the unique serial number and the *)
(* foreign key to the owner.  Slip: the serial number is not unique.       *)
InsertAllowedTwice(u, n) == LiveUser(u)
InsertAllowed(u, n) == WithSerial(n) = {} /\ LiveUser(u)

(* UPDATE ... WHERE id: not an error when the row is gone.                 *)
SetVerified(u) ==
    users' = IF LiveUser(u)
             THEN [users EXCEPT ![u].verified = TRUE, ![u].step = 2]
             ELSE users

\* Slips: the step is counted on; the flag is forgotten.
SetCompleteNextStep(u) ==
    users' = IF LiveUser(u)
             THEN [users EXCEPT ![u].step = (IF @ = None THEN 1 ELSE @) + 1,
                                ![u].complete = TRUE]
             ELSE users
SetCompleteStepOnly(u) ==
    users' = IF LiveUser(u) THEN [users EXCEPT ![u].step = 3] ELSE users
SetComplete(u) ==
    users' = IF LiveUser(u)
             THEN [users EXCEPT ![u].step = 3, ![u].complete = TRUE]
             ELSE users

(* ON DELETE CASCADE of the foreign key to the owner.  Slip: the inverters *)
(* of the removed user stay.                                               *)
CascadeNot(u) == inverters
Cascade(u) == [i \in InverterIds |-> IF i \in Owned(u) THEN Gone ELSE inverters[i]]

----------------------------------------------------------------------------
(* Accounts: what AuthService does to the columns of onboarding *)

Register(u) ==
    /\ users[u] = Unborn
    /\ users' = [users EXCEPT ![u] = NewUser(FALSE, 1)]
    /\ UNCHANGED <<inverters, holders, req, faults>>

(* The Google upsert: a new row starts verified at step 2, an existing one *)
(* is verified and keeps its step.  Slip: orUpdate lists the step as well. *)
GoogleRowReset(u) == IF LiveUser(u)
                     THEN [users[u] EXCEPT !.verified = TRUE, !.step = 2]
                     ELSE NewUser(TRUE, 2)
GoogleRow(u) == IF LiveUser(u) THEN [users[u] EXCEPT !.verified = TRUE]
                               ELSE NewUser(TRUE, 2)

GoogleSignIn(u) ==
    /\ users[u] # Gone
    /\ users' = [users EXCEPT ![u] = GoogleRow(u)]
    /\ holders' = holders \cup {u}
    /\ UNCHANGED <<inverters, req, faults>>

\* Slip: an unverified user signs in as well.
MaySignInAny(u) == LiveUser(u)
MaySignIn(u) == LiveUser(u) /\ users[u].verified

SignIn(u) ==
    /\ MaySignIn(u)
    /\ u \notin holders
    /\ holders' = holders \cup {u}
    /\ UNCHANGED <<users, inverters, req, faults>>

(* verifyEmail finds the row unverified; the write comes several awaits    *)
(* later, whatever has become of the row, and is followed by a token.      *)
VerifyEmail(s, u) ==
    /\ LiveUser(u)
    /\ ~users[u].verified
    /\ Accept(s, "verify.mark", u)
    /\ UNCHANGED <<users, inverters, holders, faults>>

MarkVerified(s) ==
    /\ At(s, "verify.mark")
    /\ SetVerified(req[s].user)
    /\ holders' = holders \cup {req[s].user}
    /\ Finish(s)
    /\ UNCHANGED <<inverters, faults>>

Remove(s, u) ==
    /\ LiveUser(u)
    /\ Accept(s, "remove.delete", u)
    /\ UNCHANGED <<users, inverters, holders, faults>>

RemoveDelete(s) ==
    /\ At(s, "remove.delete")
    /\ LET u == req[s].user
       IN /\ users' = IF LiveUser(u) THEN [users EXCEPT ![u] = Gone] ELSE users
          /\ inverters' = Cascade(u)
    /\ Finish(s)
    /\ UNCHANGED <<holders, faults>>

----------------------------------------------------------------------------
(* connectUserInverter *)

(* Bound: a request connects only while ids are left for it and for every  *)
(* other request that may still insert.                                    *)
SpareInverterId ==
    Cardinality({s \in Slots : req[s].pc \in {"connect.verify", "connect.find",
                                              "connect.insert"}})
      < Cardinality({i \in InverterIds : inverters[i] = Unborn})

(* The token is checked, the row of its user is not looked at.  Brands     *)
(* other than Victron are refused before anything happens.                 *)
Connect(s, u) ==
    /\ u \in holders
    /\ SpareInverterId
    /\ Accept(s, "connect.verify", u)
    /\ UNCHANGED <<users, inverters, holders, faults>>

(* VictronAdapter.verifyAndGetSystem: VRM refuses the token, names no      *)
(* installation, or the first one it names is taken.                       *)
VerifySystem(s) ==
    /\ At(s, "connect.verify")
    /\ \/ \E n \in Serials :
            Become(s, [req[s] EXCEPT !.pc = "connect.find", !.serial = n])
       \/ Finish(s)
    /\ UNCHANGED <<users, inverters, holders, faults>>

\* Slip: an installation found connected counts as connected by this user.
FindSerialReuse(s) ==
    /\ At(s, "connect.find")
    /\ IF WithSerial(req[s].serial) = {} THEN Goto(s, "connect.insert")
                                         ELSE Goto(s, "connect.complete")
    /\ UNCHANGED <<users, inverters, holders, faults>>
FindSerial(s) ==
    /\ At(s, "connect.find")
    /\ IF WithSerial(req[s].serial) = {} THEN Goto(s, "connect.insert")
                                         ELSE Finish(s)
    /\ UNCHANGED <<users, inverters, holders, faults>>

InsertInverter(s) ==
    /\ At(s, "connect.insert")
    /\ \/ /\ InsertAllowed(req[s].user, req[s].serial)
          /\ \E i \in InverterIds :
               /\ inverters[i] = Unborn
               /\ inverters' = [inverters EXCEPT ![i] =
                                  [owner |-> req[s].user, active |-> TRUE,
                                   serial |-> req[s].serial]]
          /\ Goto(s, "connect.complete")
       \/ /\ ~InsertAllowed(req[s].user, req[s].serial)
          /\ Finish(s)
          /\ UNCHANGED inverters
    /\ UNCHANGED <<users, holders, faults>>

CompleteOnboarding(s) ==
    /\ At(s, "connect.complete")
    /\ SetComplete(req[s].user)
    /\ Finish(s)
    /\ UNCHANGED <<inverters, holders, faults>>

----------------------------------------------------------------------------
(* deactivateInverter *)

\* Slip: anybody's inverter can be deactivated.
MayDeactivateAny(u, i) == LiveInverter(i) /\ inverters[i].active
MayDeactivate(u, i) == /\ LiveInverter(i)
                       /\ inverters[i].owner = u
                       /\ inverters[i].active

Deactivate(s, u, i) ==
    /\ u \in holders
    /\ MayDeactivate(u, i)
    /\ At(s, "idle")
    /\ Become(s, [Idle EXCEPT !.pc = "deactivate.update", !.user = u,
                              !.inverter = i])
    /\ UNCHANGED <<users, inverters, holders, faults>>

DeactivateUpdate(s) ==
    /\ At(s, "deactivate.update")
    /\ LET i == req[s].inverter
       IN inverters' = IF LiveInverter(i)
                       THEN [inverters EXCEPT ![i].active = FALSE]
                       ELSE inverters
    /\ Finish(s)
    /\ UNCHANGED <<users, holders, faults>>

----------------------------------------------------------------------------
(* getOnboardingStatus: what a user is shown. *)
OnboardingStatus(u) ==
    [currentStep       |-> IF users[u].step = None THEN 1 ELSE users[u].step,
     emailVerified     |-> users[u].verified,
     inverterConnected |-> users[u].complete]

(* A driver call rejects, or the process dies: the handler does not go on. *)
Fail(s) ==
    /\ ~At(s, "idle")
    /\ faults < MaxFaults
    /\ Finish(s)
    /\ faults' = faults + 1
    /\ UNCHANGED <<users, inverters, holders>>

----------------------------------------------------------------------------
Init ==
    /\ users = [u \in Users |-> IF u \in SeededUsers THEN NewUser(TRUE, None)
                                                     ELSE Unborn]
    /\ inverters = [i \in InverterIds |-> Unborn]
    /\ holders = {}
    /\ req = [s \in Slots |-> Idle]
    /\ faults = 0

Account(u) == Register(u) \/ GoogleSignIn(u) \/ SignIn(u)

Arrive(s) ==
    \E u \in Users :
      \/ VerifyEmail(s, u) \/ Remove(s, u) \/ Connect(s, u)
      \/ \E i \in InverterIds : Deactivate(s, u, i)

Continue(s) ==
    \/ MarkVerified(s) \/ RemoveDelete(s)
    \/ VerifySystem(s) \/ FindSerial(s) \/ InsertInverter(s)
    \/ CompleteOnboarding(s)
    \/ DeactivateUpdate(s)

Next == \/ \E u \in Users : Account(u)
        \/ \E s \in Slots : Arrive(s) \/ Continue(s) \/ Fail(s)

Spec == Init /\ [][Next]_vars

(* Every awaited call settles and its handler goes on.                     *)
FairSpec == Spec /\ \A s \in Slots : WF_vars(Continue(s))

============================================================================
