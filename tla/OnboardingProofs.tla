-------------------------- MODULE OnboardingProofs --------------------------
(***************************************************************************)
(* Invariants of Onboarding, and its refinement of Ownership, for every    *)
(* set of users, inverters, serial numbers and slots.                      *)
(***************************************************************************)
EXTENDS OnboardingProperties, FiniteSetTheorems, TLAPS

USE SeedAssumption, FaultsAssumption, NullAssumption, AbsentAssumption

UserCell == UserRow \cup {Unborn, Gone}
InverterCell == InverterRow \cup {Unborn, Gone}

Connecting == {"connect.verify", "connect.find", "connect.insert",
               "connect.complete"}

(* The locals a suspended handler still needs are set. *)
LocalsOK(r) ==
    /\ r.pc # "idle" => r.user \in Users
    /\ r.pc \in {"connect.find", "connect.insert"} => r.serial \in Serials
    /\ r.pc = "deactivate.update" => r.inverter \in InverterIds

Typed == TypeOK /\ \A s \in Slots : LocalsOK(req[s])

(* What a suspended handler relies on, although it reads nothing again:    *)
(* its user has had a row; a connecting one holds a token; one that is     *)
(* about to be completed owns an inverter unless it has been removed; an   *)
(* inverter about to be deactivated is of this user unless it is gone.     *)
Vouched(r) ==
    /\ r.pc # "idle" => users[r.user] # Unborn
    /\ r.pc \in Connecting => r.user \in holders
    /\ r.pc = "connect.complete" /\ LiveUser(r.user) => Owned(r.user) # {}
    /\ r.pc = "deactivate.update" =>
         /\ inverters[r.inverter] # Unborn
         /\ LiveInverter(r.inverter) => inverters[r.inverter].owner = r.user

(* A token is held only by a user that has had a row; that row is verified.*)
HoldersVerified ==
    \A u \in holders : /\ users[u] # Unborn
                       /\ LiveUser(u) => users[u].verified

SerialsUnique ==
    \A i, j \in InverterIds :
        /\ LiveInverter(i) /\ LiveInverter(j)
        /\ inverters[i].serial = inverters[j].serial
        => i = j

TablesSound == /\ HoldersVerified
               /\ SerialsUnique
               /\ OwnersAreVerified
               /\ StatusTruthful

Sound == TablesSound /\ \A s \in Slots : Vouched(req[s])

----------------------------------------------------------------------------
(* Rows and requests *)

LEMMA LiveRow ==
    ASSUME Typed
    PROVE  /\ \A u \in Users : /\ users[u] \in UserCell
                               /\ LiveUser(u) <=> users[u] \in UserRow
           /\ \A i \in InverterIds : /\ inverters[i] \in InverterCell
                                     /\ LiveInverter(i) <=> inverters[i] \in InverterRow
  BY DEF Typed, TypeOK, UserCell, InverterCell, LiveUser, LiveInverter

LEMMA IdleTyped == Idle \in Request /\ LocalsOK(Idle)
  BY DEF Idle, Request, LocalsOK

LEMMA BecomeTyped ==
    ASSUME Typed, NEW s \in Slots, NEW r \in Request, LocalsOK(r), Become(s, r)
    PROVE  req' \in [Slots -> Request] /\ \A q \in Slots : LocalsOK(req'[q])
  BY DEF Typed, TypeOK, Become

LEMMA FinishTyped ==
    ASSUME Typed, NEW s \in Slots, Finish(s)
    PROVE  req' \in [Slots -> Request] /\ \A q \in Slots : LocalsOK(req'[q])
  BY BecomeTyped, IdleTyped DEF Finish

LEMMA GotoTyped ==
    ASSUME Typed, NEW s \in Slots, NEW pc, Goto(s, pc),
           [req[s] EXCEPT !.pc = pc] \in Request,
           LocalsOK([req[s] EXCEPT !.pc = pc])
    PROVE  req' \in [Slots -> Request] /\ \A q \in Slots : LocalsOK(req'[q])
  BY BecomeTyped DEF Goto

LEMMA AcceptTyped ==
    ASSUME Typed, NEW s \in Slots, NEW u \in Users,
           NEW pc \in {"verify.mark", "connect.verify", "remove.delete"},
           Accept(s, pc, u)
    PROVE  req' \in [Slots -> Request] /\ \A q \in Slots : LocalsOK(req'[q])
  <1> DEFINE r == [Idle EXCEPT !.pc = pc, !.user = u]
  <1>1. r \in Request /\ LocalsOK(r)
    BY DEF Idle, Request, LocalsOK
  <1> QED
    BY <1>1, BecomeTyped DEF Accept

(* The two updates of a user row: what they write and what they leave.     *)
LEMMA SetVerifiedEffect ==
    ASSUME Typed, NEW u \in Users, SetVerified(u)
    PROVE  /\ users' \in [Users -> UserCell]
           /\ \A v \in Users \ {u} : users'[v] = users[v]
           /\ ~LiveUser(u) => users'[u] = users[u]
           /\ LiveUser(u) => /\ users'[u] \in UserRow
                             /\ users'[u].verified /\ users'[u].step = 2
                             /\ users'[u].complete = users[u].complete
  <1>0. users \in [Users -> UserCell]
    BY DEF Typed, TypeOK, UserCell
  <1>1. CASE ~LiveUser(u)
    BY <1>0, <1>1 DEF SetVerified
  <1>2. CASE LiveUser(u)
    <2> DEFINE row == [users[u] EXCEPT !.verified = TRUE, !.step = 2]
    <2>1. users[u] \in UserRow
      BY <1>2, LiveRow
    <2>2. /\ row \in UserRow /\ row.verified /\ row.step = 2
          /\ row.complete = users[u].complete
      BY <2>1 DEF UserRow
    <2>3. users' = [users EXCEPT ![u] = row]
      BY <1>0, <1>2, <2>1 DEF SetVerified, UserRow
    <2> QED
      BY <1>0, <1>2, <2>2, <2>3 DEF UserCell
  <1> QED
    BY <1>1, <1>2

LEMMA SetCompleteEffect ==
    ASSUME Typed, NEW u \in Users, SetComplete(u)
    PROVE  /\ users' \in [Users -> UserCell]
           /\ \A v \in Users \ {u} : users'[v] = users[v]
           /\ ~LiveUser(u) => users'[u] = users[u]
           /\ LiveUser(u) => /\ users'[u] \in UserRow
                             /\ users'[u].verified = users[u].verified
                             /\ users'[u].step = 3 /\ users'[u].complete
  <1>0. users \in [Users -> UserCell]
    BY DEF Typed, TypeOK, UserCell
  <1>1. CASE ~LiveUser(u)
    BY <1>0, <1>1 DEF SetComplete
  <1>2. CASE LiveUser(u)
    <2> DEFINE row == [users[u] EXCEPT !.step = 3, !.complete = TRUE]
    <2>1. users[u] \in UserRow
      BY <1>2, LiveRow
    <2>2. /\ row \in UserRow /\ row.complete /\ row.step = 3
          /\ row.verified = users[u].verified
      BY <2>1 DEF UserRow
    <2>3. users' = [users EXCEPT ![u] = row]
      BY <1>0, <1>2, <2>1 DEF SetComplete, UserRow
    <2> QED
      BY <1>0, <1>2, <2>2, <2>3 DEF UserCell
  <1> QED
    BY <1>1, <1>2

LEMMA GoogleRowEffect ==
    ASSUME Typed, NEW u \in Users
    PROVE  /\ GoogleRow(u) \in UserRow /\ GoogleRow(u).verified
           /\ LiveUser(u) => /\ GoogleRow(u).step = users[u].step
                             /\ GoogleRow(u).complete = users[u].complete
           /\ ~LiveUser(u) => GoogleRow(u) = NewUser(TRUE, 2)
  <1>1. CASE LiveUser(u)
    <2>1. users[u] \in UserRow
      BY <1>1, LiveRow
    <2> QED
      BY <1>1, <2>1 DEF GoogleRow, UserRow
  <1>2. CASE ~LiveUser(u)
    BY <1>2 DEF GoogleRow, NewUser, UserRow
  <1> QED
    BY <1>1, <1>2

----------------------------------------------------------------------------
(* Types *)

ReqTyped == req \in [Slots -> Request] /\ \A s \in Slots : LocalsOK(req[s])

TablesTyped == /\ users \in [Users -> UserCell]
               /\ inverters \in [InverterIds -> InverterCell]
               /\ holders \subseteq Users
               /\ faults \in 0..MaxFaults

LEMMA TypedParts == Typed <=> TablesTyped /\ ReqTyped
  <1>1. Typed => TablesTyped /\ ReqTyped
    BY DEF Typed, TypeOK, TablesTyped, ReqTyped, UserCell, InverterCell
  <1>2. TablesTyped /\ ReqTyped => Typed
    BY DEF Typed, TypeOK, TablesTyped, ReqTyped, UserCell, InverterCell
  <1> QED
    BY <1>1, <1>2

LEMMA InitTyped == Init => Typed
  <1> SUFFICES ASSUME Init PROVE Typed
    OBVIOUS
  <1>1. NewUser(TRUE, None) \in UserRow
    BY DEF NewUser, UserRow
  <1>2. TablesTyped
    <2>1. users \in [Users -> UserCell]
      BY <1>1 DEF Init, UserCell
    <2>2. inverters \in [InverterIds -> InverterCell]
      BY DEF Init, InverterCell
    <2>3. holders \subseteq Users /\ faults \in 0..MaxFaults
      BY DEF Init
    <2> QED
      BY <2>1, <2>2, <2>3 DEF TablesTyped
  <1>3. ReqTyped
    BY IdleTyped DEF Init, ReqTyped
  <1> QED
    BY <1>2, <1>3, TypedParts

(* Cascade leaves a row as it is or deletes it. *)
LEMMA CascadeTyped ==
    ASSUME Typed, NEW u \in Users
    PROVE  Cascade(u) \in [InverterIds -> InverterCell]
  BY DEF Typed, TypeOK, Cascade, InverterCell

LEMMA AccountTyped ==
    ASSUME Typed, NEW u \in Users, Account(u)
    PROVE  Typed'
  <1>0. TablesTyped /\ ReqTyped
    BY TypedParts
  <1>1. CASE Register(u)
    <2>1. NewUser(FALSE, 1) \in UserRow
      BY DEF NewUser, UserRow
    <2>2. TablesTyped' /\ ReqTyped'
      BY <1>0, <1>1, <2>1 DEF Register, TablesTyped, ReqTyped, UserCell
    <2> QED
      BY <2>2, TypedParts DEF Typed, TypeOK, TablesTyped, ReqTyped, UserCell, InverterCell
  <1>2. CASE GoogleSignIn(u)
    <2>1. GoogleRow(u) \in UserRow
      BY GoogleRowEffect
    <2>2. TablesTyped' /\ ReqTyped'
      BY <1>0, <1>2, <2>1 DEF GoogleSignIn, TablesTyped, ReqTyped, UserCell
    <2> QED
      BY <2>2 DEF Typed, TypeOK, TablesTyped, ReqTyped, UserCell, InverterCell
  <1>3. CASE SignIn(u)
    <2>1. TablesTyped' /\ ReqTyped'
      BY <1>0, <1>3 DEF SignIn, TablesTyped, ReqTyped
    <2> QED
      BY <2>1 DEF Typed, TypeOK, TablesTyped, ReqTyped, UserCell, InverterCell
  <1> QED
    BY <1>1, <1>2, <1>3 DEF Account

(* A step whose writes to the tables and to the slots are typed is typed.  *)
LEMMA StepParts ==
    ASSUME TablesTyped', ReqTyped'
    PROVE  Typed'
  BY DEF Typed, TypeOK, TablesTyped, ReqTyped, UserCell, InverterCell

LEMMA ArriveTyped ==
    ASSUME Typed, NEW s \in Slots, Arrive(s)
    PROVE  Typed'
  <1>0. TablesTyped /\ ReqTyped
    BY TypedParts
  <1>1. PICK u \in Users : \/ VerifyEmail(s, u) \/ Remove(s, u) \/ Connect(s, u)
                           \/ \E i \in InverterIds : Deactivate(s, u, i)
    BY DEF Arrive
  <1>2. UNCHANGED <<users, inverters, holders, faults>>
    BY <1>1 DEF VerifyEmail, Remove, Connect, Deactivate
  <1>3. TablesTyped'
    BY <1>0, <1>2 DEF TablesTyped
  <1>4. CASE VerifyEmail(s, u) \/ Remove(s, u) \/ Connect(s, u)
    <2>1. ReqTyped'
      BY <1>4, AcceptTyped DEF VerifyEmail, Remove, Connect, ReqTyped
    <2> QED
      BY <1>3, <2>1, StepParts
  <1>5. CASE \E i \in InverterIds : Deactivate(s, u, i)
    <2>1. PICK i \in InverterIds : Deactivate(s, u, i)
      BY <1>5
    <2> DEFINE r == [Idle EXCEPT !.pc = "deactivate.update", !.user = u,
                                 !.inverter = i]
    <2>2. r \in Request /\ LocalsOK(r)
      BY DEF Idle, Request, LocalsOK
    <2>3. ReqTyped'
      BY <2>1, <2>2, BecomeTyped DEF Deactivate, ReqTyped
    <2> QED
      BY <1>3, <2>3, StepParts
  <1> QED
    BY <1>1, <1>4, <1>5

LEMMA ContinueTyped ==
    ASSUME Typed, NEW s \in Slots, Continue(s)
    PROVE  Typed'
  <1>0. TablesTyped /\ ReqTyped /\ req[s] \in Request /\ LocalsOK(req[s])
    BY TypedParts DEF ReqTyped
  <1> USE DEF TablesTyped, ReqTyped
  <1>1. CASE MarkVerified(s)
    <2>1. req[s].user \in Users
      BY <1>0, <1>1 DEF MarkVerified, At, LocalsOK
    <2>2. TablesTyped'
      BY <1>0, <1>1, <2>1, SetVerifiedEffect DEF MarkVerified
    <2>3. ReqTyped'
      BY <1>1, FinishTyped DEF MarkVerified
    <2> QED
      BY <2>2, <2>3, StepParts
  <1>2. CASE RemoveDelete(s)
    <2> DEFINE u == req[s].user
    <2>1. u \in Users
      BY <1>0, <1>2 DEF RemoveDelete, At, LocalsOK
    <2>2. inverters' \in [InverterIds -> InverterCell]
      BY <1>2, <2>1, CascadeTyped DEF RemoveDelete
    <2>3. users' \in [Users -> UserCell]
      BY <1>0, <1>2, <2>1 DEF RemoveDelete, UserCell
    <2>4. ReqTyped'
      BY <1>2, FinishTyped DEF RemoveDelete
    <2> QED
      BY <1>0, <1>2, <2>2, <2>3, <2>4, StepParts DEF RemoveDelete
  <1>3. CASE VerifySystem(s)
    <2>1. TablesTyped'
      BY <1>0, <1>3 DEF VerifySystem
    <2>2. CASE Finish(s)
      BY <2>1, <2>2, FinishTyped, StepParts
    <2>3. ASSUME NEW n \in Serials,
                 Become(s, [req[s] EXCEPT !.pc = "connect.find", !.serial = n])
          PROVE  Typed'
      <3> DEFINE r == [req[s] EXCEPT !.pc = "connect.find", !.serial = n]
      <3>1. r \in Request /\ LocalsOK(r)
        BY <1>0, <1>3 DEF VerifySystem, At, Request, LocalsOK
      <3>2. ReqTyped'
        BY <2>3, <3>1, BecomeTyped
      <3> QED
        BY <2>1, <3>2, StepParts
    <2> QED
      BY <1>3, <2>2, <2>3 DEF VerifySystem
  <1>4. CASE FindSerial(s)
    <2>1. TablesTyped'
      BY <1>0, <1>4 DEF FindSerial
    <2>2. CASE Finish(s)
      BY <2>1, <2>2, FinishTyped, StepParts
    <2>3. CASE Goto(s, "connect.insert")
      <3> DEFINE r == [req[s] EXCEPT !.pc = "connect.insert"]
      <3>1. r \in Request /\ LocalsOK(r)
        BY <1>0, <1>4 DEF FindSerial, At, Request, LocalsOK
      <3> QED
        BY <2>1, <2>3, <3>1, GotoTyped, StepParts
    <2> QED
      BY <1>4, <2>2, <2>3 DEF FindSerial
  <1>5. CASE InsertInverter(s)
    <2>1. CASE Finish(s) /\ UNCHANGED inverters
      BY <1>0, <1>5, <2>1, FinishTyped, StepParts DEF InsertInverter
    <2>2. CASE ~(Finish(s) /\ UNCHANGED inverters)
      <3>1. PICK i \in InverterIds :
              inverters' = [inverters EXCEPT ![i] =
                              [owner |-> req[s].user, active |-> TRUE,
                               serial |-> req[s].serial]]
        BY <1>5, <2>2 DEF InsertInverter
      <3>2. Goto(s, "connect.complete")
        BY <1>5, <2>2 DEF InsertInverter
      <3>3. req[s].user \in Users /\ req[s].serial \in Serials
        BY <1>0, <1>5 DEF InsertInverter, At, LocalsOK
      <3>4. inverters' \in [InverterIds -> InverterCell]
        BY <1>0, <3>1, <3>3 DEF InverterCell, InverterRow
      <3> DEFINE r == [req[s] EXCEPT !.pc = "connect.complete"]
      <3>5. r \in Request /\ LocalsOK(r)
        BY <1>0, <3>3 DEF Request, LocalsOK
      <3>6. ReqTyped'
        BY <3>2, <3>5, GotoTyped
      <3>7. TablesTyped'
        BY <1>0, <1>5, <3>4 DEF InsertInverter
      <3> QED
        BY <3>6, <3>7, StepParts
    <2> QED
      BY <2>1, <2>2
  <1>6. CASE CompleteOnboarding(s)
    <2>1. req[s].user \in Users
      BY <1>0, <1>6 DEF CompleteOnboarding, At, LocalsOK
    <2>2. TablesTyped'
      BY <1>0, <1>6, <2>1, SetCompleteEffect DEF CompleteOnboarding
    <2>3. ReqTyped'
      BY <1>6, FinishTyped DEF CompleteOnboarding
    <2> QED
      BY <2>2, <2>3, StepParts
  <1>7. CASE DeactivateUpdate(s)
    <2> DEFINE i == req[s].inverter
    <2>1. i \in InverterIds
      BY <1>0, <1>7 DEF DeactivateUpdate, At, LocalsOK
    <2>2. LiveInverter(i) => [inverters[i] EXCEPT !.active = FALSE] \in InverterRow
      BY <2>1, LiveRow DEF InverterRow
    <2>3. inverters' \in [InverterIds -> InverterCell]
      BY <1>0, <1>7, <2>1, <2>2 DEF DeactivateUpdate, InverterCell
    <2>4. ReqTyped'
      BY <1>7, FinishTyped DEF DeactivateUpdate
    <2> QED
      BY <1>0, <1>7, <2>3, <2>4, StepParts DEF DeactivateUpdate
  <1> QED
    BY <1>1, <1>2, <1>3, <1>4, <1>5, <1>6, <1>7 DEF Continue

LEMMA StepTyped == Typed /\ [Next]_vars => Typed'
  <1> SUFFICES ASSUME Typed, [Next]_vars PROVE Typed'
    OBVIOUS
  <1>1. CASE UNCHANGED vars
    BY <1>1 DEF vars, Typed, TypeOK
  <1>2. ASSUME NEW s \in Slots, Fail(s) PROVE Typed'
    <2>1. faults' \in 0..MaxFaults
      BY <1>2, TypedParts DEF Fail, TablesTyped
    <2>2. TablesTyped'
      BY <1>2, <2>1, TypedParts DEF Fail, TablesTyped
    <2> QED
      BY <1>2, <2>2, FinishTyped, StepParts DEF Fail, ReqTyped
  <1> QED
    BY <1>1, <1>2, AccountTyped, ArriveTyped, ContinueTyped DEF Next

(* Every reachable state of onboarding is well typed; in particular the    *)
(* step a user is at is one of the three there are.                        *)
THEOREM OnboardingTyped == Spec => []TypeOK
  <1>1. Typed => TypeOK
    BY DEF Typed
  <1> QED
    BY <1>1, InitTyped, StepTyped, PTL DEF Spec

----------------------------------------------------------------------------
(* What any step leaves true of rows and tokens *)

(* No key is used twice, no inverter changes its owner, no token is taken  *)
(* back, and a user that stays keeps the inverters it has.                 *)
Evolves ==
    /\ holders \subseteq holders'
    /\ \A u \in Users : users[u] # Unborn =>
         /\ users'[u] # Unborn
         /\ LiveUser(u)' => LiveUser(u)
    /\ \A i \in InverterIds : inverters[i] # Unborn =>
         /\ inverters'[i] # Unborn
         /\ LiveInverter(i)' => /\ LiveInverter(i)
                                /\ inverters'[i].owner = inverters[i].owner
    /\ \A u \in Users : LiveUser(u)' => Owned(u) \subseteq Owned(u)'

(* Hence what a suspended request relies on stays true while others step.  *)
LEMMA VouchedKept ==
    ASSUME Typed, Evolves, NEW r \in Request, LocalsOK(r), Vouched(r)
    PROVE  Vouched(r)'
  <1>1. r.pc # "idle" => r.user \in Users /\ users'[r.user] # Unborn
    BY DEF Evolves, LocalsOK, Vouched
  <1>2. r.pc \in Connecting => r.user \in holders'
    BY DEF Evolves, Vouched
  <1>3. ASSUME r.pc = "connect.complete", LiveUser(r.user)'
        PROVE  Owned(r.user)' # {}
    <2>1. LiveUser(r.user) /\ Owned(r.user) \subseteq Owned(r.user)'
      BY <1>1, <1>3 DEF Evolves, Vouched, LocalsOK
    <2> QED
      BY <1>3, <2>1 DEF Vouched
  <1>4. ASSUME r.pc = "deactivate.update"
        PROVE  /\ inverters'[r.inverter] # Unborn
               /\ LiveInverter(r.inverter)' => inverters'[r.inverter].owner = r.user
    BY <1>4 DEF Evolves, Vouched, LocalsOK
  <1> QED
    BY <1>1, <1>2, <1>3, <1>4 DEF Vouched

LEMMA SlotsVouched ==
    ASSUME Typed, Sound, Evolves, NEW s \in Slots, NEW r, Become(s, r),
           Vouched(r)'
    PROVE  (\A q \in Slots : Vouched(req[q]))'
  <1> SUFFICES ASSUME NEW q \in Slots PROVE Vouched(req[q])'
    OBVIOUS
  <1>0. req \in [Slots -> Request] /\ req[q] \in Request /\ LocalsOK(req[q])
    BY DEF Typed, TypeOK
  <1>1. CASE q = s
    <2>1. req'[q] = r
      BY <1>0, <1>1 DEF Become
    <2> QED
      BY <2>1 DEF Vouched, LiveUser, LiveInverter, Owned
  <1>2. CASE q # s
    <2>1. req'[q] = req[q]
      BY <1>0, <1>2 DEF Become
    <2>2. \A x \in Request : LocalsOK(x) /\ Vouched(x) => Vouched(x)'
      BY VouchedKept
    <2> DEFINE x == req[q]
    <2>3. x \in Request /\ LocalsOK(x) /\ Vouched(x)
      BY <1>0 DEF Sound
    <2>4. PICK y \in Request : y = x /\ LocalsOK(y) /\ Vouched(y)
      BY <2>3
    <2>5. Vouched(y)' /\ req'[q] = y
      BY <2>1, <2>2, <2>4
    <2> QED
      BY <2>5 DEF Vouched, LiveUser, LiveInverter, Owned
  <1> QED
    BY <1>1, <1>2

LEMMA IdleVouched == Vouched(Idle)'
  BY DEF Vouched, Idle, Connecting

LEMMA FinishVouched ==
    ASSUME Typed, Sound, Evolves, NEW s \in Slots, Finish(s)
    PROVE  (\A q \in Slots : Vouched(req[q]))'
  BY SlotsVouched, IdleVouched DEF Finish

(* A step that writes no slot. *)
LEMMA QuietVouched ==
    ASSUME Typed, Sound, Evolves, UNCHANGED req
    PROVE  (\A q \in Slots : Vouched(req[q]))'
  <1> SUFFICES ASSUME NEW q \in Slots PROVE Vouched(req[q])'
    OBVIOUS
  <1>1. req[q] \in Request /\ LocalsOK(req[q]) /\ Vouched(req[q])
    BY DEF Typed, TypeOK, Sound
  <1>2. Become(q, req[q])
    BY DEF Become, Typed, TypeOK
  <1>3. PICK y \in Request : y = req[q] /\ LocalsOK(y) /\ Vouched(y)
    BY <1>1
  <1>4. Vouched(y)'
    BY <1>3, VouchedKept
  <1> QED
    BY <1>3, <1>4 DEF Vouched, LiveUser, LiveInverter, Owned

(* A step that leaves the tables alone. *)
LEMMA TablesQuiet ==
    ASSUME Typed, Sound, UNCHANGED <<users, inverters, holders>>
    PROVE  TablesSound' /\ Evolves
  BY DEF Sound, TablesSound, HoldersVerified, SerialsUnique, OwnersAreVerified,
         StatusTruthful, OnboardingStatus, Evolves, LiveUser, LiveInverter, Owned

----------------------------------------------------------------------------
(* Writes to one user row *)

Truthful(row, owned) ==
    /\ row.complete => owned # {} /\ row.verified
    /\ row.step = 3 => row.complete
    /\ row.step = 2 => row.verified

LEMMA TruthfulRows ==
    /\ StatusTruthful <=>
         \A u \in Users : LiveUser(u) => Truthful(users[u], Owned(u))
    /\ StatusTruthful' <=>
         (\A u \in Users : LiveUser(u) => Truthful(users[u], Owned(u)))'
  BY DEF StatusTruthful, OnboardingStatus, Truthful, LiveUser, Owned, LiveInverter

(* A row that is inserted, or written without becoming unverified, and     *)
(* says nothing untrue of its user.                                        *)
LEMMA UserWritten ==
    ASSUME Typed, Sound, Typed', NEW u \in Users,
           \A v \in Users \ {u} : users'[v] = users[v],
           UNCHANGED inverters,
           users[u] # Gone, users'[u] \in UserRow,
           LiveUser(u) /\ users[u].verified => users'[u].verified,
           Truthful(users'[u], Owned(u)),
           holders \subseteq holders', holders' \subseteq holders \cup {u},
           u \in holders' => users'[u].verified
    PROVE  TablesSound' /\ Evolves
  <1>1. LiveUser(u)' /\ users'[u] # Unborn
    BY DEF LiveUser
  <1>2. \A v \in Users \ {u} : LiveUser(v)' <=> LiveUser(v)
    BY DEF LiveUser
  <1>3. \A v \in Users : Owned(v)' = Owned(v)
    BY DEF Owned, LiveInverter
  <1>4. \A i \in InverterIds : LiveInverter(i)' <=> LiveInverter(i)
    BY DEF LiveInverter
  <1>5. HoldersVerified'
    BY <1>1, <1>2 DEF Sound, TablesSound, HoldersVerified, Typed, TypeOK
  <1>6. SerialsUnique'
    BY <1>4 DEF Sound, TablesSound, SerialsUnique
  <1>7. OwnersAreVerified'
    <2> SUFFICES ASSUME NEW i \in InverterIds, LiveInverter(i)
                 PROVE  /\ LiveUser(inverters[i].owner)'
                        /\ users'[inverters[i].owner].verified
      BY <1>4 DEF OwnersAreVerified, LiveUser
    <2>1. /\ inverters[i].owner \in Users
          /\ LiveUser(inverters[i].owner)
          /\ users[inverters[i].owner].verified
      BY LiveRow DEF Sound, TablesSound, OwnersAreVerified, InverterRow
    <2> QED
      BY <1>1, <1>2, <2>1
  <1>8. StatusTruthful'
    <2>1. \A v \in Users : LiveUser(v)' => Truthful(users'[v], Owned(v))
      BY <1>1, <1>2, TruthfulRows DEF Sound, TablesSound
    <2>2. (\A v \in Users : LiveUser(v) => Truthful(users[v], Owned(v)))'
      BY <1>3, <2>1
    <2> QED
      BY <2>2, TruthfulRows
  <1>9. Evolves
    <2>1. \A v \in Users : users[v] # Unborn =>
             users'[v] # Unborn /\ (LiveUser(v)' => LiveUser(v))
      BY <1>1, <1>2 DEF LiveUser
    <2> QED
      BY <1>3, <1>4, <2>1 DEF Evolves
  <1> QED
    BY <1>5, <1>6, <1>7, <1>8, <1>9 DEF TablesSound

LEMMA AccountSound ==
    ASSUME Typed, Sound, NEW u \in Users, Account(u)
    PROVE  TablesSound' /\ Evolves
  <1>0. Typed' /\ users \in [Users -> UserCell]
    BY AccountTyped DEF Typed, TypeOK, UserCell
  <1>1. CASE Register(u)
    <2>1. users'[u] = NewUser(FALSE, 1) /\ \A v \in Users \ {u} : users'[v] = users[v]
      BY <1>0, <1>1 DEF Register
    <2>2. users'[u] \in UserRow /\ Truthful(users'[u], Owned(u))
      BY <2>1 DEF NewUser, UserRow, Truthful
    <2>3. u \notin holders /\ ~LiveUser(u) /\ users[u] # Gone
      BY <1>1 DEF Register, LiveUser, Sound, TablesSound, HoldersVerified
    <2> QED
      BY <1>0, <1>1, <2>1, <2>2, <2>3, UserWritten DEF Register
  <1>2. CASE GoogleSignIn(u)
    <2>1. users'[u] = GoogleRow(u) /\ \A v \in Users \ {u} : users'[v] = users[v]
      BY <1>0, <1>2 DEF GoogleSignIn
    <2>2. users'[u] \in UserRow /\ users'[u].verified
      BY <2>1, GoogleRowEffect
    <2>3. Truthful(users'[u], Owned(u))
      <3>1. CASE LiveUser(u)
        <4>1. Truthful(users[u], Owned(u))
          BY <3>1, TruthfulRows DEF Sound, TablesSound
        <4> QED
          BY <2>1, <2>2, <3>1, <4>1, GoogleRowEffect DEF Truthful
      <3>2. CASE ~LiveUser(u)
        BY <2>1, <3>2, GoogleRowEffect DEF Truthful, NewUser
      <3> QED
        BY <3>1, <3>2
    <2> QED
      BY <1>0, <1>2, <2>1, <2>2, <2>3, UserWritten DEF GoogleSignIn
  <1>3. CASE SignIn(u)
    <2>1. users[u] \in UserRow /\ users[u] # Gone /\ LiveUser(u) /\ users[u].verified
      BY <1>3, LiveRow DEF SignIn, MaySignIn, LiveUser
    <2>2. Truthful(users[u], Owned(u))
      BY <2>1, TruthfulRows DEF Sound, TablesSound
    <2> QED
      BY <1>0, <1>3, <2>1, <2>2, UserWritten DEF SignIn
  <1> QED
    BY <1>1, <1>2, <1>3 DEF Account

LEMMA MarkVerifiedSound ==
    ASSUME Typed, Sound, NEW s \in Slots, MarkVerified(s)
    PROVE  TablesSound' /\ Evolves
  <1> DEFINE u == req[s].user
  <1>0. /\ Typed' /\ u \in Users /\ users[u] # Unborn
        /\ users \in [Users -> UserCell]
    BY ContinueTyped DEF Continue, MarkVerified, At, Typed, TypeOK, LocalsOK,
                         Sound, Vouched, UserCell
  <1>1. CASE LiveUser(u)
    <2>1. /\ users'[u] \in UserRow /\ users'[u].verified /\ users'[u].step = 2
          /\ users'[u].complete = users[u].complete
          /\ \A v \in Users \ {u} : users'[v] = users[v]
      BY <1>0, <1>1, SetVerifiedEffect DEF MarkVerified
    <2>2. Truthful(users[u], Owned(u))
      BY <1>0, <1>1, TruthfulRows DEF Sound, TablesSound
    <2>3. Truthful(users'[u], Owned(u))
      BY <2>1, <2>2 DEF Truthful
    <2>4. users[u] # Gone
      BY <1>1 DEF LiveUser
    <2> QED
      BY <1>0, <2>1, <2>3, <2>4, UserWritten DEF MarkVerified
  <1>2. CASE ~LiveUser(u)
    <2>1. users' = users /\ inverters' = inverters /\ holders' = holders \cup {u}
      BY <1>2 DEF MarkVerified, SetVerified
    <2>2. HoldersVerified'
      BY <1>0, <1>2, <2>1 DEF Sound, TablesSound, HoldersVerified, LiveUser
    <2> QED
      BY <2>1, <2>2 DEF Sound, TablesSound, SerialsUnique, OwnersAreVerified,
             StatusTruthful, OnboardingStatus, Evolves, LiveUser, LiveInverter, Owned
  <1> QED
    BY <1>1, <1>2

(* The user owns an inverter by now, or has been removed together with it. *)
LEMMA CompleteSound ==
    ASSUME Typed, Sound, NEW s \in Slots, CompleteOnboarding(s)
    PROVE  TablesSound' /\ Evolves
  <1> DEFINE u == req[s].user
  <1>0. /\ Typed' /\ u \in Users /\ u \in holders
        /\ LiveUser(u) => Owned(u) # {}
    BY ContinueTyped DEF Continue, CompleteOnboarding, At, Typed, TypeOK, LocalsOK,
                         Sound, Vouched, Connecting
  <1>1. CASE LiveUser(u)
    <2>1. /\ users'[u] \in UserRow /\ users'[u].verified = users[u].verified
          /\ users'[u].step = 3 /\ users'[u].complete
          /\ \A v \in Users \ {u} : users'[v] = users[v]
      BY <1>0, <1>1, SetCompleteEffect DEF CompleteOnboarding
    <2>2. users[u].verified /\ users[u] # Gone
      BY <1>0, <1>1 DEF Sound, TablesSound, HoldersVerified, LiveUser
    <2>3. Truthful(users'[u], Owned(u))
      BY <1>0, <1>1, <2>1, <2>2 DEF Truthful
    <2> QED
      BY <1>0, <2>1, <2>2, <2>3, UserWritten DEF CompleteOnboarding
  <1>2. CASE ~LiveUser(u)
    <2>1. UNCHANGED <<users, inverters, holders>>
      BY <1>2 DEF CompleteOnboarding, SetComplete
    <2> QED
      BY <2>1, TablesQuiet
  <1> QED
    BY <1>1, <1>2

----------------------------------------------------------------------------
(* Writes to the inverters table *)

LEMMA InsertSound ==
    ASSUME Typed, Sound, NEW s \in Slots, InsertInverter(s)
    PROVE  /\ TablesSound' /\ Evolves
           /\ \A u \in Users : u = req[s].user /\ Goto(s, "connect.complete")
                                => Owned(u)' # {}
  <1>0. PICK u \in Users, n \in Serials :
          /\ u = req[s].user /\ n = req[s].serial /\ u \in holders
          /\ req \in [Slots -> Request] /\ req[s] \in Request
          /\ inverters \in [InverterIds -> InverterCell]
    BY DEF InsertInverter, At, Typed, TypeOK, LocalsOK, Sound, Vouched, Connecting,
           InverterCell
  <1> DEFINE row == [owner |-> u, active |-> TRUE, serial |-> n]
  <1>1. CASE ~InsertAllowed(u, n)
    <2>1. UNCHANGED <<users, inverters, holders>> /\ Finish(s)
      BY <1>0, <1>1 DEF InsertInverter
    <2>2. ~Goto(s, "connect.complete")
      BY <1>0, <2>1 DEF Goto, Finish, Become, Idle, Request
    <2> QED
      BY <2>1, <2>2, TablesQuiet
  <1>2. CASE InsertAllowed(u, n)
    <2>1. PICK i \in InverterIds : /\ inverters[i] = Unborn
                                   /\ inverters' = [inverters EXCEPT ![i] = row]
      BY <1>0, <1>2 DEF InsertInverter
    <2>2. UNCHANGED <<users, holders>> /\ row \in InverterRow
      BY <1>0 DEF InsertInverter, InverterRow
    <2>3. /\ inverters'[i] = row
          /\ \A j \in InverterIds \ {i} : inverters'[j] = inverters[j]
      BY <1>0, <2>1
    <2>4. LiveInverter(i)' /\ ~LiveInverter(i)
      BY <2>1, <2>2, <2>3 DEF LiveInverter
    <2>5. \A j \in InverterIds \ {i} : LiveInverter(j)' <=> LiveInverter(j)
      BY <2>3 DEF LiveInverter
    <2>6. LiveUser(u) /\ users[u].verified
      BY <1>0, <1>2 DEF InsertAllowed, Sound, TablesSound, HoldersVerified
    <2>7. \A v \in Users : Owned(v) \subseteq Owned(v)'
      BY <2>3, <2>4, <2>5 DEF Owned
    <2>8. SerialsUnique'
      <3>1. \A j \in InverterIds : LiveInverter(j) => inverters[j].serial # n
        BY <1>2 DEF InsertAllowed, WithSerial
      <3> QED
        BY <2>3, <2>4, <2>5, <3>1 DEF Sound, TablesSound, SerialsUnique
    <2>9. OwnersAreVerified'
      <3> SUFFICES ASSUME NEW j \in InverterIds, LiveInverter(j)'
                   PROVE  /\ LiveUser(inverters'[j].owner)
                          /\ users[inverters'[j].owner].verified
        BY <2>2 DEF OwnersAreVerified, LiveUser
      <3>1. CASE j = i
        BY <2>3, <2>6, <3>1
      <3>2. CASE j # i
        BY <2>3, <2>5, <3>2 DEF Sound, TablesSound, OwnersAreVerified
      <3> QED
        BY <3>1, <3>2
    <2>10. HoldersVerified'
      BY <2>2 DEF Sound, TablesSound, HoldersVerified, LiveUser
    <2>11. StatusTruthful'
      <3>1. \A v \in Users : LiveUser(v) => Truthful(users[v], Owned(v))
        BY TruthfulRows DEF Sound, TablesSound
      <3>2. (\A v \in Users : LiveUser(v) => Truthful(users[v], Owned(v)))'
        BY <2>2, <2>7, <3>1 DEF Truthful, LiveUser
      <3> QED
        BY <3>2, TruthfulRows
    <2>12. Evolves
      BY <2>1, <2>2, <2>3, <2>4, <2>5, <2>7 DEF Evolves, LiveUser
    <2>13. i \in Owned(u)'
      BY <2>3, <2>4 DEF Owned
    <2> QED
      BY <1>0, <2>8, <2>9, <2>10, <2>11, <2>12, <2>13 DEF TablesSound
  <1> QED
    BY <1>1, <1>2

LEMMA DeactivateSound ==
    ASSUME Typed, Sound, NEW s \in Slots, DeactivateUpdate(s)
    PROVE  /\ TablesSound' /\ Evolves
           /\ \A j \in InverterIds : /\ LiveInverter(j)' <=> LiveInverter(j)
                                     /\ LiveInverter(j) =>
                                          /\ inverters'[j].owner = inverters[j].owner
                                          /\ inverters'[j].serial = inverters[j].serial
  <1> DEFINE i == req[s].inverter
             row == [inverters[i] EXCEPT !.active = FALSE]
  <1>0. /\ i \in InverterIds /\ inverters \in [InverterIds -> InverterCell]
        /\ UNCHANGED <<users, holders>>
    BY DEF DeactivateUpdate, At, Typed, TypeOK, LocalsOK, InverterCell
  <1>1. LiveInverter(i) => /\ row \in InverterRow
                           /\ row.owner = inverters[i].owner
                           /\ row.serial = inverters[i].serial
    BY <1>0, LiveRow DEF InverterRow
  <1>2. \A j \in InverterIds : inverters'[j] = IF j = i /\ LiveInverter(i) THEN row
                                                                      ELSE inverters[j]
    BY <1>0 DEF DeactivateUpdate
  <1>3. \A j \in InverterIds : /\ LiveInverter(j)' <=> LiveInverter(j)
                               /\ LiveInverter(j) =>
                                    /\ inverters'[j].owner = inverters[j].owner
                                    /\ inverters'[j].serial = inverters[j].serial
    BY <1>0, <1>1, <1>2 DEF LiveInverter
  <1>4. \A v \in Users : Owned(v)' = Owned(v)
    BY <1>3 DEF Owned
  <1>5. SerialsUnique'
    BY <1>3 DEF Sound, TablesSound, SerialsUnique
  <1>6. OwnersAreVerified' /\ HoldersVerified'
    BY <1>0, <1>3 DEF Sound, TablesSound, OwnersAreVerified, HoldersVerified, LiveUser
  <1>7. StatusTruthful'
    BY <1>0, <1>4 DEF Sound, TablesSound, StatusTruthful, OnboardingStatus, LiveUser
  <1>8. \A j \in InverterIds : inverters[j] # Unborn => inverters'[j] # Unborn
    BY <1>3, <1>2 DEF LiveInverter
  <1>9. Evolves
    BY <1>0, <1>3, <1>4, <1>8 DEF Evolves, LiveUser
  <1> QED
    BY <1>3, <1>5, <1>6, <1>7, <1>9 DEF TablesSound

(* The removal takes the inverters of the user along. *)
LEMMA RemoveSound ==
    ASSUME Typed, Sound, NEW s \in Slots, RemoveDelete(s)
    PROVE  TablesSound' /\ Evolves
  <1>0. PICK u \in Users :
          /\ u = req[s].user /\ users[u] # Unborn
          /\ users \in [Users -> UserCell] /\ holders' = holders
    BY DEF RemoveDelete, At, Typed, TypeOK, LocalsOK, Sound, Vouched, UserCell
  <1>1. /\ ~LiveUser(u)' /\ users'[u] # Unborn
        /\ \A v \in Users \ {u} : users'[v] = users[v]
    BY <1>0 DEF RemoveDelete, LiveUser
  <1>2. \A v \in Users : LiveUser(v)' => v # u /\ LiveUser(v) /\ users'[v] = users[v]
    BY <1>1 DEF LiveUser
  <1>3. \A i \in InverterIds :
          inverters'[i] = IF i \in Owned(u) THEN Gone ELSE inverters[i]
    BY <1>0 DEF RemoveDelete, Cascade
  <1>4. \A i \in InverterIds : LiveInverter(i)' <=> LiveInverter(i) /\ inverters[i].owner # u
    BY <1>3 DEF LiveInverter, Owned
  <1>5. \A i \in InverterIds : LiveInverter(i)' => inverters'[i] = inverters[i]
    BY <1>3, <1>4 DEF LiveInverter
  <1>6. \A v \in Users \ {u} : Owned(v)' = Owned(v)
    BY <1>4, <1>5 DEF Owned
  <1>7. SerialsUnique'
    BY <1>4, <1>5 DEF Sound, TablesSound, SerialsUnique
  <1>8. OwnersAreVerified'
    <2> SUFFICES ASSUME NEW i \in InverterIds, LiveInverter(i)'
                 PROVE  /\ users'[inverters'[i].owner] \notin {Unborn, Gone}
                        /\ users'[inverters'[i].owner].verified
      BY DEF OwnersAreVerified, LiveUser
    <2>1. PICK v \in Users :
            /\ v = inverters[i].owner /\ inverters'[i] = inverters[i] /\ v # u
            /\ LiveUser(v) /\ users[v].verified
      BY <1>4, <1>5, LiveRow DEF Sound, TablesSound, OwnersAreVerified, InverterRow
    <2> QED
      BY <1>1, <2>1 DEF LiveUser
  <1>9. HoldersVerified'
    BY <1>0, <1>1, <1>2 DEF Sound, TablesSound, HoldersVerified, Typed, TypeOK, LiveUser
  <1>10. StatusTruthful'
    <2>1. \A v \in Users : LiveUser(v) => Truthful(users[v], Owned(v))
      BY TruthfulRows DEF Sound, TablesSound
    <2>2. (\A v \in Users : LiveUser(v) => Truthful(users[v], Owned(v)))'
      BY <1>2, <1>6, <2>1 DEF Truthful
    <2> QED
      BY <2>2, TruthfulRows
  <1>11. \A i \in InverterIds : inverters[i] # Unborn => inverters'[i] # Unborn
    BY <1>3
  <1>12. \A v \in Users : users[v] # Unborn => users'[v] # Unborn
    BY <1>1
  <1>13. Evolves
    BY <1>0, <1>2, <1>4, <1>5, <1>6, <1>11, <1>12 DEF Evolves
  <1> QED
    BY <1>7, <1>8, <1>9, <1>10, <1>13 DEF TablesSound

----------------------------------------------------------------------------
(* Every step *)

LEMMA InitSound == Init => Sound
  <1> SUFFICES ASSUME Init PROVE Sound
    OBVIOUS
  <1>1. HoldersVerified /\ SerialsUnique /\ OwnersAreVerified
    BY DEF Init, HoldersVerified, SerialsUnique, OwnersAreVerified, LiveInverter
  <1>2. StatusTruthful
    <2>1. \A u \in Users : LiveUser(u) => users[u] = NewUser(TRUE, None)
      BY DEF Init, LiveUser
    <2> QED
      BY <2>1, TruthfulRows DEF Truthful, NewUser
  <1>3. \A s \in Slots : Vouched(req[s])
    BY DEF Init, Idle, Vouched, Connecting
  <1> QED
    BY <1>1, <1>2, <1>3 DEF Sound, TablesSound

LEMMA ArriveSound ==
    ASSUME Typed, Sound, NEW s \in Slots, Arrive(s)
    PROVE  Sound' /\ Evolves
  <1>1. PICK u \in Users : \/ VerifyEmail(s, u) \/ Remove(s, u) \/ Connect(s, u)
                           \/ \E i \in InverterIds : Deactivate(s, u, i)
    BY DEF Arrive
  <1>2. UNCHANGED <<users, inverters, holders>>
    BY <1>1 DEF VerifyEmail, Remove, Connect, Deactivate
  <1>3. TablesSound' /\ Evolves
    BY <1>2, TablesQuiet
  <1>4. users[u] # Unborn
    BY <1>1 DEF VerifyEmail, Remove, Connect, Deactivate, LiveUser, Sound,
                TablesSound, HoldersVerified
  <1>5. PICK r : Become(s, r) /\ Vouched(r)'
    <2>1. CASE VerifyEmail(s, u) \/ Remove(s, u)
      <3>1. PICK pc \in {"verify.mark", "remove.delete"} : Accept(s, pc, u)
        BY <2>1 DEF VerifyEmail, Remove
      <3> DEFINE r == [Idle EXCEPT !.pc = pc, !.user = u]
      <3>2. r.pc = pc /\ r.user = u
        BY DEF Idle
      <3>3. Vouched(r)'
        BY <1>2, <1>4, <3>2 DEF Vouched, Connecting
      <3> QED
        BY <3>1, <3>3 DEF Accept
    <2>2. CASE Connect(s, u)
      <3> DEFINE r == [Idle EXCEPT !.pc = "connect.verify", !.user = u]
      <3>1. r.pc = "connect.verify" /\ r.user = u
        BY DEF Idle
      <3>2. Vouched(r)'
        BY <1>2, <1>4, <2>2, <3>1 DEF Vouched, Connecting, Connect
      <3> QED
        BY <2>2, <3>2 DEF Accept, Connect
    <2>3. ASSUME NEW i \in InverterIds, Deactivate(s, u, i)
          PROVE  \E r : Become(s, r) /\ Vouched(r)'
      <3> DEFINE r == [Idle EXCEPT !.pc = "deactivate.update", !.user = u,
                                   !.inverter = i]
      <3>1. r.pc = "deactivate.update" /\ r.user = u /\ r.inverter = i
        BY DEF Idle
      <3>2. Vouched(r)'
        BY <1>2, <1>4, <2>3, <3>1
           DEF Vouched, Connecting, Deactivate, MayDeactivate, LiveInverter
      <3> QED
        BY <2>3, <3>2 DEF Deactivate
    <2> QED
      BY <1>1, <2>1, <2>2, <2>3
  <1> QED
    BY <1>3, <1>5, SlotsVouched DEF Sound

LEMMA ContinueSound ==
    ASSUME Typed, Sound, NEW s \in Slots, Continue(s)
    PROVE  Sound' /\ Evolves
  <1>0. /\ req[s] \in Request /\ LocalsOK(req[s]) /\ Vouched(req[s])
        /\ req \in [Slots -> Request]
    BY DEF Typed, TypeOK, Sound
  <1>1. CASE MarkVerified(s)
    BY <1>1, MarkVerifiedSound, FinishVouched DEF MarkVerified, Sound
  <1>2. CASE RemoveDelete(s)
    BY <1>2, RemoveSound, FinishVouched DEF RemoveDelete, Sound
  <1>3. CASE CompleteOnboarding(s)
    BY <1>3, CompleteSound, FinishVouched DEF CompleteOnboarding, Sound
  <1>4. CASE DeactivateUpdate(s)
    BY <1>4, DeactivateSound, FinishVouched DEF DeactivateUpdate, Sound
  <1>5. CASE VerifySystem(s) \/ FindSerial(s)
    <2>1. TablesSound' /\ Evolves /\ UNCHANGED <<users, inverters, holders>>
      BY <1>5, TablesQuiet DEF VerifySystem, FindSerial
    <2>2. CASE Finish(s)
      BY <2>1, <2>2, FinishVouched DEF Sound
    <2>3. CASE ~Finish(s)
      <3>1. PICK r : /\ Become(s, r) /\ r.user = req[s].user
                     /\ r.pc \in {"connect.find", "connect.insert"}
        <4>1. \A n \in Serials :
                 LET x == [req[s] EXCEPT !.pc = "connect.find", !.serial = n]
                 IN x.user = req[s].user /\ x.pc = "connect.find"
          BY <1>0 DEF Request
        <4>2. LET x == [req[s] EXCEPT !.pc = "connect.insert"]
              IN x.user = req[s].user /\ x.pc = "connect.insert"
          BY <1>0 DEF Request
        <4> QED
          BY <1>5, <2>3, <4>1, <4>2 DEF VerifySystem, FindSerial, Goto
      <3>2. req[s].pc \in Connecting
        BY <1>5 DEF VerifySystem, FindSerial, At, Connecting
      <3>3. users[r.user] # Unborn /\ r.user \in holders
        BY <1>0, <3>1, <3>2 DEF Vouched, Connecting
      <3>4. Vouched(r)'
        BY <2>1, <3>1, <3>3 DEF Vouched
      <3> QED
        BY <2>1, <3>1, <3>4, SlotsVouched DEF Sound
    <2> QED
      BY <2>2, <2>3
  <1>6. CASE InsertInverter(s)
    <2>1. TablesSound' /\ Evolves
      BY <1>6, InsertSound
    <2>2. CASE Finish(s)
      BY <2>1, <2>2, FinishVouched DEF Sound
    <2>3. CASE Goto(s, "connect.complete")
      <3>1. PICK u \in Users : /\ u = req[s].user /\ users[u] # Unborn
                               /\ u \in holders
        BY <1>0, <1>6 DEF InsertInverter, At, LocalsOK, Vouched, Connecting
      <3>2. PICK r : /\ Become(s, r) /\ r.user = u /\ r.pc = "connect.complete"
        BY <1>0, <2>3, <3>1 DEF Goto, Request
      <3>3. Owned(u)' # {}
        BY <1>6, <2>3, <3>1, InsertSound
      <3>4. users' = users /\ holders' = holders
        BY <1>6 DEF InsertInverter
      <3>5. Vouched(r)'
        BY <3>1, <3>2, <3>3, <3>4 DEF Vouched
      <3> QED
        BY <2>1, <3>2, <3>5, SlotsVouched DEF Sound
    <2> QED
      BY <1>6, <2>2, <2>3 DEF InsertInverter
  <1> QED
    BY <1>1, <1>2, <1>3, <1>4, <1>5, <1>6 DEF Continue

LEMMA StepSound == Typed /\ Sound /\ [Next]_vars => Sound' /\ Evolves
  <1> SUFFICES ASSUME Typed, Sound, [Next]_vars PROVE Sound' /\ Evolves
    OBVIOUS
  <1>1. CASE UNCHANGED vars
    BY <1>1, TablesQuiet, QuietVouched DEF vars, Sound
  <1>2. ASSUME NEW s \in Slots, Fail(s) PROVE Sound' /\ Evolves
    BY <1>2, TablesQuiet, FinishVouched DEF Fail, Sound
  <1>3. ASSUME NEW u \in Users, Account(u) PROVE Sound' /\ Evolves
    <2>1. UNCHANGED req
      BY <1>3 DEF Account, Register, GoogleSignIn, SignIn
    <2> QED
      BY <1>3, <2>1, AccountSound, QuietVouched DEF Sound
  <1> QED
    BY <1>1, <1>2, <1>3, ArriveSound, ContinueSound DEF Next

LEMMA AlwaysSound == Spec => [](Typed /\ Sound)
  <1> QED
    BY InitTyped, InitSound, StepTyped, StepSound, PTL DEF Spec

(* No two rows name the same installation: the unique constraint decides,  *)
(* the lookup of connectVictronInverter being out of date by then.         *)
THEOREM InstallationsHaveOneRow == Spec => []OneRowPerInstallation
  <1>1. SerialsUnique => OneRowPerInstallation
    <2> SUFFICES ASSUME SerialsUnique, NEW n \in Serials
                 PROVE  Cardinality(WithSerial(n)) <= 1
      BY DEF OneRowPerInstallation
    <2>1. CASE WithSerial(n) = {}
      BY <2>1, FS_EmptySet
    <2>2. CASE WithSerial(n) # {}
      <3>1. PICK i \in WithSerial(n) : TRUE
        BY <2>2
      <3>2. WithSerial(n) = {i}
        BY <3>1 DEF SerialsUnique, WithSerial
      <3>3. Cardinality({i}) = 1
        BY FS_Singleton
      <3> QED
        BY <3>2, <3>3
    <2> QED
      BY <2>1, <2>2
  <1> QED
    BY <1>1, AlwaysSound, PTL DEF Sound, TablesSound

(* Tokens outlive the rows of their users and no handler of connecting     *)
(* reads one, yet no inverter is ever owned by a removed or an unverified  *)
(* user.                                                                   *)
THEOREM VerifiedOwners == Spec => []OwnersAreVerified
  BY AlwaysSound, PTL DEF Sound, TablesSound

(* What the status shows is never ahead of the tables.                     *)
THEOREM StatusNeverAhead == Spec => []StatusTruthful
  BY AlwaysSound, PTL DEF Sound, TablesSound

----------------------------------------------------------------------------
(* Action properties *)

LateFall ==
    \A u \in Users :
      LiveUser(u) /\ LiveUser(u)'
        /\ OnboardingStatus(u)'.currentStep < OnboardingStatus(u).currentStep
      => /\ users[u].verified /\ users[u].complete /\ users'[u].complete
         /\ \E s \in Slots : /\ At(s, "verify.mark") /\ req'[s] # req[s]
                             /\ req[s].user = u

(* Only a verifyEmail in flight sets a completed user back to step 2.      *)
THEOREM LateVerifyOnly == Spec => StepFallsOnlyByLateVerify
  <1> DEFINE Late(u) ==
               /\ users[u].verified /\ users[u].complete /\ users'[u].complete
               /\ \E s \in Slots : /\ At(s, "verify.mark") /\ req'[s] # req[s]
                                   /\ req[s].user = u
  <1>1. ASSUME Typed, Sound, [Next]_vars PROVE LateFall
    <2> SUFFICES ASSUME NEW u \in Users, LiveUser(u), LiveUser(u)',
                        OnboardingStatus(u)'.currentStep
                          < OnboardingStatus(u).currentStep
                 PROVE  Late(u)
      BY DEF LateFall
    <2> DEFINE Shown(row) == IF row.step = None THEN 1 ELSE row.step
    <2>1. /\ users[u] \in UserRow /\ users'[u] \in UserRow
          /\ Shown(users'[u]) < Shown(users[u])
          /\ users \in [Users -> UserCell]
      <3>1. Typed'
        BY <1>1, StepTyped
      <3> QED
        BY <1>1, <3>1, LiveRow DEF OnboardingStatus, Typed, TypeOK, UserCell, LiveUser
    <2>2. users'[u].step # users[u].step
      BY <2>1 DEF UserRow
    <2>3. CASE \E v \in Users : Account(v)
      <3>1. PICK v \in Users : Account(v)
        BY <2>3
      <3>2. v = u /\ GoogleSignIn(u)
        BY <2>1, <2>2, <3>1 DEF Account, Register, GoogleSignIn, SignIn, LiveUser
      <3>3. users'[u] = GoogleRow(u) /\ users'[u].step = users[u].step
        BY <1>1, <2>1, <3>2, GoogleRowEffect DEF GoogleSignIn, LiveUser
      <3> QED
        BY <2>2, <3>3
    <2>4. CASE \E s \in Slots : Arrive(s) \/ Fail(s)
      BY <2>2, <2>4 DEF Arrive, VerifyEmail, Remove, Connect, Deactivate, Fail
    <2>5. ASSUME NEW s \in Slots, Continue(s) PROVE Late(u)
      <3>1. req[s] \in Request /\ LocalsOK(req[s]) /\ req \in [Slots -> Request]
        BY <1>1 DEF Typed, TypeOK
      <3>2. \/ MarkVerified(s)
            \/ CompleteOnboarding(s)
            \/ RemoveDelete(s)
        BY <2>2, <2>5 DEF Continue, VerifySystem, FindSerial, InsertInverter,
                          DeactivateUpdate
      <3>3. req[s].user \in Users
        BY <3>1, <3>2 DEF MarkVerified, CompleteOnboarding, RemoveDelete, At, LocalsOK
      <3>4. CASE RemoveDelete(s)
        BY <2>1, <2>2, <3>3, <3>4 DEF RemoveDelete
      <3>5. CASE CompleteOnboarding(s)
        <4>1. u = req[s].user /\ users'[u].step = 3
          BY <1>1, <2>1, <2>2, <3>3, <3>5, SetCompleteEffect DEF CompleteOnboarding
        <4>2. users[u].step \in {None, 1, 2, 3}
          BY <2>1 DEF UserRow
        <4> QED
          BY <2>1, <4>1, <4>2
      <3>6. CASE MarkVerified(s)
        <4>1. /\ u = req[s].user /\ LiveUser(u) /\ users'[u].step = 2
              /\ users'[u].complete = users[u].complete
          BY <1>1, <2>1, <2>2, <3>3, <3>6, SetVerifiedEffect DEF MarkVerified
        <4>2. users[u].step = 3
          <5>1. users[u].step \in {None, 1, 2, 3}
            BY <2>1 DEF UserRow
          <5> QED
            BY <2>1, <4>1, <5>1
        <4>3. users[u].complete /\ users[u].verified
          BY <1>1, <4>1, <4>2, TruthfulRows DEF Sound, TablesSound, Truthful
        <4>4. At(s, "verify.mark") /\ req'[s] # req[s]
          BY <3>1, <3>6 DEF MarkVerified, At, Finish, Become, Idle
        <4> QED
          BY <4>1, <4>3, <4>4
      <3> QED
        BY <3>2, <3>4, <3>5, <3>6
    <2>6. CASE UNCHANGED vars
      BY <2>2, <2>6 DEF vars
    <2> QED
      BY <1>1, <2>3, <2>4, <2>5, <2>6 DEF Next
  <1>2. Typed /\ Sound /\ [Next]_vars => [LateFall]_vars
    BY <1>1
  <1> QED
    BY <1>2, AlwaysSound, PTL DEF Spec, StepFallsOnlyByLateVerify, LateFall

OwnerDeactivates ==
    \A i \in InverterIds :
      LiveInverter(i) /\ LiveInverter(i)'
        /\ inverters'[i].active # inverters[i].active
      => /\ inverters[i].active
         /\ \E s \in Slots : /\ At(s, "deactivate.update")
                             /\ req'[s] # req[s]
                             /\ req[s].user = inverters[i].owner

(* The UPDATE that deactivates an inverter names its row only, an await    *)
(* after its owner was compared; it is the owner's at that moment too.     *)
THEOREM DeactivatedByOwner == Spec => ActiveChangesByOwner
  <1>1. ASSUME Typed, Sound, [Next]_vars PROVE OwnerDeactivates
    <2> SUFFICES ASSUME NEW i \in InverterIds, LiveInverter(i), LiveInverter(i)',
                        inverters'[i].active # inverters[i].active
                 PROVE  /\ inverters[i].active
                        /\ \E s \in Slots : /\ At(s, "deactivate.update")
                                            /\ req'[s] # req[s]
                                            /\ req[s].user = inverters[i].owner
      BY DEF OwnerDeactivates
    <2>0. inverters \in [InverterIds -> InverterCell] /\ inverters'[i] # inverters[i]
      BY <1>1 DEF Typed, TypeOK, InverterCell
    <2>1. PICK s \in Slots : Continue(s)
      BY <1>1, <2>0 DEF Next, Account, Register, GoogleSignIn, SignIn, Arrive,
           VerifyEmail, Remove, Connect, Deactivate, Fail, vars
    <2>2. /\ req[s] \in Request /\ LocalsOK(req[s]) /\ Vouched(req[s])
          /\ req \in [Slots -> Request]
      BY <1>1 DEF Typed, TypeOK, Sound
    <2>3. CASE InsertInverter(s)
      BY <2>0, <2>3 DEF InsertInverter, LiveInverter
    <2>4. CASE RemoveDelete(s)
      BY <2>0, <2>4 DEF RemoveDelete, Cascade, LiveInverter
    <2>5. CASE DeactivateUpdate(s)
      <3>1. i = req[s].inverter
        BY <2>0, <2>5 DEF DeactivateUpdate
      <3>2. At(s, "deactivate.update") /\ req'[s] # req[s]
        BY <2>2, <2>5 DEF DeactivateUpdate, At, Finish, Become, Idle
      <3>3. req[s].user = inverters[i].owner
        BY <2>2, <3>1, <3>2 DEF At, Vouched
      <3>4. inverters[i] \in InverterRow
        BY <1>1, LiveRow
      <3>5. inverters'[i] = [inverters[i] EXCEPT !.active = FALSE]
        BY <2>0, <2>5, <3>1 DEF DeactivateUpdate
      <3>6. inverters'[i].active = FALSE /\ inverters[i].active \in BOOLEAN
        BY <3>4, <3>5 DEF InverterRow
      <3>7. inverters[i].active
        BY <3>6, Zenon
      <3> QED
        BY <3>2, <3>3, <3>7
    <2> QED
      BY <2>0, <2>1, <2>3, <2>4, <2>5 DEF Continue, MarkVerified, VerifySystem,
           FindSerial, CompleteOnboarding
  <1>2. Typed /\ Sound /\ [Next]_vars => [OwnerDeactivates]_vars
    BY <1>1
  <1> QED
    BY <1>2, AlwaysSound, PTL DEF Spec, ActiveChangesByOwner, OwnerDeactivates

----------------------------------------------------------------------------
(* Refinement *)

Accounts == {u \in Users : LiveUser(u)}
Owners == [n \in Serials |-> OwnersOf(n)]
PromiseStep == [Promise!Next]_<<Accounts, Owners, CompletedUsers>>

LEMMA OwnersSame ==
    ASSUME \A i \in InverterIds :
             /\ LiveInverter(i)' <=> LiveInverter(i)
             /\ LiveInverter(i) => /\ inverters'[i].owner = inverters[i].owner
                                   /\ inverters'[i].serial = inverters[i].serial
    PROVE  Owners' = Owners
  <1>1. \A n \in Serials : OwnersOf(n)' = OwnersOf(n)
    BY DEF OwnersOf, WithSerial
  <1> QED
    BY <1>1 DEF Owners

LEMMA OwnersQuiet ==
    ASSUME UNCHANGED inverters
    PROVE  Owners' = Owners
  BY OwnersSame DEF LiveInverter

(* A step that writes at most the row of one user, which was and stays     *)
(* there, and does not complete it.                                        *)
LEMMA SameAccounts ==
    ASSUME NEW u \in Users, \A v \in Users \ {u} : users'[v] = users[v],
           LiveUser(u)' <=> LiveUser(u),
           LiveUser(u) => users'[u].complete = users[u].complete
    PROVE  Accounts' = Accounts /\ CompletedUsers' = CompletedUsers
  BY DEF Accounts, CompletedUsers, LiveUser

LEMMA QuietAccounts ==
    ASSUME UNCHANGED users
    PROVE  Accounts' = Accounts /\ CompletedUsers' = CompletedUsers
  BY DEF Accounts, CompletedUsers, LiveUser

LEMMA OpenStep ==
    ASSUME NEW u \in Users, ~LiveUser(u), LiveUser(u)', ~users'[u].complete,
           \A v \in Users \ {u} : users'[v] = users[v], UNCHANGED inverters
    PROVE  PromiseStep
  <1>1. u \notin Accounts /\ Accounts' = Accounts \cup {u}
    BY DEF Accounts, LiveUser
  <1>2. CompletedUsers' = CompletedUsers
    BY DEF CompletedUsers, LiveUser
  <1>3. Promise!Open(u)
    BY <1>1, <1>2, OwnersQuiet DEF Promise!Open, Accounts, Owners
  <1> QED
    BY <1>3 DEF Promise!Next, PromiseStep

LEMMA InitPromise == Init => Promise!Init
  <1> SUFFICES ASSUME Init PROVE Promise!Init
    OBVIOUS
  <1>1. \A n \in Serials : OwnersOf(n) = {}
    BY DEF Init, OwnersOf, WithSerial, LiveInverter
  <1>2. CompletedUsers = {}
    BY DEF Init, CompletedUsers, LiveUser, NewUser
  <1> QED
    BY <1>1, <1>2 DEF Promise!Init

LEMMA AccountStep ==
    ASSUME Typed, NEW u \in Users, Account(u)
    PROVE  PromiseStep
  <1>0. users \in [Users -> UserCell]
    BY DEF Typed, TypeOK, UserCell
  <1>1. CASE Register(u)
    <2>1. users'[u] = NewUser(FALSE, 1) /\ \A v \in Users \ {u} : users'[v] = users[v]
      BY <1>0, <1>1 DEF Register
    <2>2. NewUser(FALSE, 1) \in UserRow /\ ~NewUser(FALSE, 1).complete
      BY DEF NewUser, UserRow
    <2> QED
      BY <1>1, <2>1, <2>2, OpenStep DEF Register, LiveUser
  <1>2. CASE GoogleSignIn(u)
    <2>1. /\ users'[u] = GoogleRow(u) /\ \A v \in Users \ {u} : users'[v] = users[v]
          /\ UNCHANGED inverters
      BY <1>0, <1>2 DEF GoogleSignIn
    <2>2. GoogleRow(u) \in UserRow
      BY GoogleRowEffect
    <2>3. CASE LiveUser(u)
      <3>1. Accounts' = Accounts /\ CompletedUsers' = CompletedUsers
        BY <2>1, <2>2, <2>3, GoogleRowEffect, SameAccounts DEF LiveUser
      <3> QED
        BY <2>1, <3>1, OwnersQuiet DEF PromiseStep
    <2>4. CASE ~LiveUser(u)
      <3>1. ~GoogleRow(u).complete
        BY <2>4, GoogleRowEffect DEF NewUser
      <3> QED
        BY <2>1, <2>2, <2>4, <3>1, OpenStep DEF LiveUser
    <2> QED
      BY <2>3, <2>4
  <1>3. CASE SignIn(u)
    BY <1>3, QuietAccounts, OwnersQuiet DEF SignIn, PromiseStep
  <1> QED
    BY <1>1, <1>2, <1>3 DEF Account

(* The INSERT is the claim. *)
LEMMA ClaimStep ==
    ASSUME Typed, NEW s \in Slots, InsertInverter(s)
    PROVE  PromiseStep
  <1>0. PICK u \in Users, n \in Serials :
          /\ u = req[s].user /\ n = req[s].serial
          /\ inverters \in [InverterIds -> InverterCell]
    BY DEF InsertInverter, At, Typed, TypeOK, LocalsOK, InverterCell
  <1>1. Accounts' = Accounts /\ CompletedUsers' = CompletedUsers
    BY QuietAccounts DEF InsertInverter
  <1>2. CASE ~InsertAllowed(u, n)
    BY <1>0, <1>1, <1>2, OwnersQuiet DEF InsertInverter, PromiseStep
  <1>3. CASE InsertAllowed(u, n)
    <2> DEFINE row == [owner |-> u, active |-> TRUE, serial |-> n]
    <2>1. PICK i \in InverterIds : /\ inverters[i] = Unborn
                                   /\ inverters' = [inverters EXCEPT ![i] = row]
      BY <1>0, <1>3 DEF InsertInverter
    <2>2. row \in InverterRow /\ row.owner = u /\ row.serial = n
      BY DEF InverterRow
    <2>3. /\ inverters'[i] = row /\ LiveInverter(i)' /\ ~LiveInverter(i)
          /\ \A j \in InverterIds \ {i} : /\ inverters'[j] = inverters[j]
                                          /\ LiveInverter(j)' <=> LiveInverter(j)
      BY <1>0, <2>1, <2>2 DEF LiveInverter
    <2>4. OwnersOf(n) = {} /\ u \in Accounts
      BY <1>3 DEF InsertAllowed, OwnersOf, Accounts
    <2>5. WithSerial(n)' = {i}
      BY <1>3, <2>2, <2>3 DEF InsertAllowed, WithSerial
    <2>6. OwnersOf(n)' = {u}
      BY <2>2, <2>3, <2>5 DEF OwnersOf
    <2>7. ASSUME NEW m \in Serials, m # n PROVE OwnersOf(m)' = OwnersOf(m)
      <3>1. WithSerial(m)' = WithSerial(m) /\ i \notin WithSerial(m)
        BY <2>2, <2>3, <2>7 DEF WithSerial
      <3>2. \A j \in WithSerial(m) : inverters'[j] = inverters[j]
        BY <2>3, <3>1 DEF WithSerial
      <3> QED
        BY <3>1, <3>2 DEF OwnersOf
    <2>8. Owners' = [Owners EXCEPT ![n] = {u}]
      BY <2>6, <2>7 DEF Owners
    <2>9. Promise!Claim(u, n)
      BY <1>1, <2>4, <2>8 DEF Promise!Claim, Accounts, Owners
    <2> QED
      BY <2>9 DEF Promise!Next, PromiseStep
  <1> QED
    BY <1>2, <1>3

LEMMA CompletionStep ==
    ASSUME Typed, Sound, NEW s \in Slots, CompleteOnboarding(s)
    PROVE  PromiseStep
  <1>0. PICK u \in Users : /\ u = req[s].user
                           /\ LiveUser(u) => Owned(u) # {}
    BY DEF CompleteOnboarding, At, Typed, TypeOK, LocalsOK, Sound, Vouched
  <1>1. Owners' = Owners
    BY OwnersQuiet DEF CompleteOnboarding
  <1>2. CASE ~LiveUser(u)
    BY <1>0, <1>1, <1>2, QuietAccounts DEF CompleteOnboarding, SetComplete, PromiseStep
  <1>3. CASE LiveUser(u)
    <2>1. /\ users'[u] \in UserRow /\ users'[u].complete
          /\ \A v \in Users \ {u} : users'[v] = users[v]
      BY <1>0, <1>3, SetCompleteEffect DEF CompleteOnboarding
    <2>2. /\ Accounts' = Accounts /\ u \in Accounts
          /\ CompletedUsers' = CompletedUsers \cup {u}
      BY <1>3, <2>1 DEF Accounts, CompletedUsers, LiveUser
    <2>3. Promise!Owns(u)
      <3>1. PICK i \in InverterIds : LiveInverter(i) /\ inverters[i].owner = u
        BY <1>0, <1>3 DEF Owned
      <3>2. inverters[i].serial \in Serials
        BY <3>1, LiveRow DEF InverterRow
      <3>3. u \in OwnersOf(inverters[i].serial)
        BY <3>1 DEF OwnersOf, WithSerial
      <3> QED
        BY <3>2, <3>3 DEF Promise!Owns
    <2>4. Promise!Complete(u)
      BY <1>1, <2>2, <2>3 DEF Promise!Complete, Accounts, Owners
    <2> QED
      BY <2>4 DEF Promise!Next, PromiseStep
  <1> QED
    BY <1>2, <1>3

LEMMA CloseStep ==
    ASSUME Typed, Sound, NEW s \in Slots, RemoveDelete(s)
    PROVE  PromiseStep
  <1>0. PICK u \in Users : u = req[s].user /\ users \in [Users -> UserCell]
    BY DEF RemoveDelete, At, Typed, TypeOK, LocalsOK, UserCell
  <1>1. \A i \in InverterIds :
          inverters'[i] = IF i \in Owned(u) THEN Gone ELSE inverters[i]
    BY <1>0 DEF RemoveDelete, Cascade
  <1>2. CASE ~LiveUser(u)
    <2>1. \A i \in InverterIds : i \notin Owned(u)
      BY <1>2 DEF Owned, Sound, TablesSound, OwnersAreVerified
    <2>2. Owners' = Owners
      BY <1>1, <2>1, OwnersSame DEF LiveInverter
    <2> QED
      BY <1>0, <1>2, <2>2, QuietAccounts DEF RemoveDelete, PromiseStep
  <1>3. CASE LiveUser(u)
    <2>1. users' = [users EXCEPT ![u] = Gone]
      BY <1>0, <1>3 DEF RemoveDelete
    <2>2. /\ u \in Accounts /\ Accounts' = Accounts \ {u}
          /\ CompletedUsers' = CompletedUsers \ {u}
      BY <1>0, <1>3, <2>1 DEF Accounts, CompletedUsers, LiveUser
    <2>3. \A i \in InverterIds :
            LiveInverter(i)' <=> LiveInverter(i) /\ inverters[i].owner # u
      BY <1>1 DEF LiveInverter, Owned
    <2>4. \A i \in InverterIds : LiveInverter(i)' => inverters'[i] = inverters[i]
      BY <1>1, <2>3 DEF LiveInverter
    <2>5. \A n \in Serials : OwnersOf(n)' = OwnersOf(n) \ {u}
      BY <2>3, <2>4 DEF OwnersOf, WithSerial
    <2>6. Owners' = [n \in Serials |-> Owners[n] \ {u}]
      BY <2>5 DEF Owners
    <2>7. Promise!Close(u)
      BY <2>2, <2>6 DEF Promise!Close, Accounts, Owners
    <2> QED
      BY <2>7 DEF Promise!Next, PromiseStep
  <1> QED
    BY <1>2, <1>3

LEMMA OnboardingStep == Typed /\ Sound /\ [Next]_vars => PromiseStep
  <1> SUFFICES ASSUME Typed, Sound, [Next]_vars PROVE PromiseStep
    OBVIOUS
  <1>1. CASE UNCHANGED users /\ UNCHANGED inverters
    BY <1>1, QuietAccounts, OwnersQuiet DEF PromiseStep
  <1>2. ASSUME NEW s \in Slots, MarkVerified(s) PROVE PromiseStep
    <2>1. PICK u \in Users : u = req[s].user /\ SetVerified(u)
      BY <1>2 DEF MarkVerified, At, Typed, TypeOK, LocalsOK
    <2>2. Accounts' = Accounts /\ CompletedUsers' = CompletedUsers
      BY <2>1, SetVerifiedEffect, SameAccounts DEF LiveUser
    <2> QED
      BY <1>2, <2>2, OwnersQuiet DEF MarkVerified, PromiseStep
  <1>3. ASSUME NEW s \in Slots, DeactivateUpdate(s) PROVE PromiseStep
    <2>1. Owners' = Owners
      BY <1>3, DeactivateSound, OwnersSame
    <2> QED
      BY <1>3, <2>1, QuietAccounts DEF DeactivateUpdate, PromiseStep
  <1>4. \/ UNCHANGED users /\ UNCHANGED inverters
        \/ \E u \in Users : Account(u)
        \/ \E s \in Slots : \/ MarkVerified(s) \/ RemoveDelete(s)
                            \/ InsertInverter(s) \/ CompleteOnboarding(s)
                            \/ DeactivateUpdate(s)
    BY DEF Next, Arrive, VerifyEmail, Remove, Connect, Deactivate, Continue,
           VerifySystem, FindSerial, Fail, vars
  <1> QED
    BY <1>1, <1>2, <1>3, <1>4, AccountStep, ClaimStep, CompletionStep, CloseStep

(* Onboarding implements Ownership: an installation is claimed once, is    *)
(* given up only with its owner's account, and only owners complete.       *)
THEOREM OnboardingKeepsOwnership == Spec => KeepsOwnership
  <1>1. Typed /\ Sound /\ [Next]_vars
          => [Promise!Next]_<<{u \in Users : LiveUser(u)},
                              [n \in Serials |-> OwnersOf(n)], CompletedUsers>>
    BY OnboardingStep DEF PromiseStep, Accounts, Owners
  <1> QED
    BY <1>1, InitPromise, AlwaysSound, PTL DEF Spec, KeepsOwnership, Promise!Spec

============================================================================
