------------------------ MODULE OnboardingProperties ------------------------
(***************************************************************************)
(* What onboarding must keep true whatever the order in which requests     *)
(* interleave and wherever one of them is cut short.                       *)
(***************************************************************************)
EXTENDS Onboarding

(* Every variable stays in its type; in particular the step written by     *)
(* connectUserInverter and setEmailVerified is one of the three there are. *)
TypeOK ==
    /\ users \in [Users -> UserRow \cup {Unborn, Gone}]
    /\ inverters \in [InverterIds -> InverterRow \cup {Unborn, Gone}]
    /\ holders \subseteq Users
    /\ req \in [Slots -> Request]
    /\ faults \in 0..MaxFaults

(* An installation is connected by one row at most, although               *)
(* connectVictronInverter looks for the serial number and inserts awaits   *)
(* later ("already connected to an account").                              *)
OneRowPerInstallation == \A n \in Serials : Cardinality(WithSerial(n)) <= 1

(* Every inverter row has an owner that exists and has a verified address, *)
(* although connectUserInverter looks at no user row, tokens outlive the   *)
(* rows of their users, and a removal may overtake an insert.              *)
OwnersAreVerified ==
    \A i \in InverterIds :
        LiveInverter(i) => /\ LiveUser(inverters[i].owner)
                           /\ users[inverters[i].owner].verified

(* What GET /users/onboard/status shows never runs ahead of the tables: a  *)
(* connected inverter is there and its owner verified; step 3 is shown     *)
(* with an inverter and step 2 with a verified address.  (It may lag: step *)
(* 1 for a verified user that Google or the seeder verified, step 2 after  *)
(* a late verifyEmail.)                                                    *)
StatusTruthful ==
    \A u \in Users : LiveUser(u) =>
        LET status == OnboardingStatus(u)
        IN /\ status.inverterConnected => Owned(u) # {} /\ status.emailVerified
           /\ status.currentStep = 3 => status.inverterConnected
           /\ status.currentStep = 2 => status.emailVerified

OwnersOf(n) == {inverters[i].owner : i \in WithSerial(n)}
CompletedUsers == {u \in Users : LiveUser(u) /\ users[u].complete}
Promise == INSTANCE Ownership WITH accounts  <- {u \in Users : LiveUser(u)},
                                   owners    <- [n \in Serials |-> OwnersOf(n)],
                                   completed <- CompletedUsers

(* The tables show what Ownership promises: an installation changes hands  *)
(* only through the removal of its owner's account, a deactivated one      *)
(* included, and an account completes only while it owns one.              *)
KeepsOwnership == Promise!Spec

(* An inverter stops being active only at the request of a user that owns  *)
(* it at that moment, although the owner is compared an await before the   *)
(* UPDATE; and none becomes active again, so its installation stays        *)
(* refused (findBySerialNumber) until the account is removed.              *)
ActiveChangesByOwner ==
    [][\A i \in InverterIds :
         LiveInverter(i) /\ LiveInverter(i)'
           /\ inverters'[i].active # inverters[i].active
         => /\ inverters[i].active
            /\ \E s \in Slots : /\ At(s, "deactivate.update")
                                /\ req'[s] # req[s]
                                /\ req[s].user = inverters[i].owner]_vars

(* The onboarding step of a user falls in one way only: a verifyEmail that *)
(* read the row while it was unverified writes step 2 after another        *)
(* request has verified the user and an inverter has been connected.       *)
StepFallsOnlyByLateVerify ==
    [][\A u \in Users :
         LiveUser(u) /\ LiveUser(u)'
           /\ OnboardingStatus(u)'.currentStep < OnboardingStatus(u).currentStep
         => /\ users[u].verified /\ users[u].complete /\ users'[u].complete
            /\ \E s \in Slots : /\ At(s, "verify.mark") /\ req'[s] # req[s]
                                /\ req[s].user = u]_vars

(* A user that owns an inverter is shown as complete in the end, unless    *)
(* the user is removed or the request dies between the INSERT and the      *)
(* UPDATE of connectUserInverter, which no transaction joins.              *)
ConnectedUserCompletes ==
    \A u \in Users :
        (Owned(u) # {})
          ~> (~LiveUser(u) \/ faults > 0 \/ users[u].complete)

============================================================================
