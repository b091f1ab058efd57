--------------------------- MODULE FewSlotsProofs ---------------------------
(***************************************************************************)
(* What AuthService guarantees when few requests run at the same time: how *)
(* often the counters of verifyEmail and resendVerificationEmail let a     *)
(* client try with one or two requests in flight, for every limit, and     *)
(* what findOrCreateByGoogle keeps unique with one.                        *)
(***************************************************************************)
EXTENDS AuthProofs, FiniteSetTheorems, Integers

OneSlot == Cardinality(Slots) = 1
FewSlots == IsFiniteSet(Slots) /\ Cardinality(Slots) \in {1, 2}

(* Tries a counter at value n still allows, no request holding a count of  *)
(* it: with a second slot a request may hold count n while the other uses  *)
(* up the Rest, and then set the counter back to n + 1.                    *)
Rest(n) == IF OneSlot THEN 0 ELSE OtpLimit - n
Triangle(n) == (n * (n + 3)) \div 2
Tries(n) == IF OneSlot THEN OtpLimit - n ELSE Triangle(OtpLimit - n)

----------------------------------------------------------------------------
(* Arithmetic *)

LEMMA TriangleFacts ==
    ASSUME NEW n \in Nat
    PROVE  /\ Triangle(n) \in Nat /\ 2 * Triangle(n) = n * (n + 3)
           /\ Triangle(n + 1) = (n + 1) + 1 + Triangle(n)
  <1>1. ASSUME NEW m \in Nat PROVE 2 * Triangle(m) = m * (m + 3)
    <2>1. PICK k \in Nat : m = 2 * k \/ m = 2 * k + 1
      <3>1. m \div 2 \in Nat /\ (m = 2 * (m \div 2) \/ m = 2 * (m \div 2) + 1)
        OBVIOUS
      <3> QED
        BY <3>1
    <2>2. PICK h \in Nat : m * (m + 3) = 2 * h
      <3>1. m = 2 * k => m * (m + 3) = 2 * (k * (2 * k + 3))
        OBVIOUS
      <3>2. m = 2 * k + 1 => m * (m + 3) = 2 * ((2 * k + 1) * (k + 2))
        OBVIOUS
      <3>3. k * (2 * k + 3) \in Nat /\ (2 * k + 1) * (k + 2) \in Nat
        OBVIOUS
      <3> QED
        BY <2>1, <3>1, <3>2, <3>3
    <2> QED
      BY <2>2 DEF Triangle
  <1>2. Triangle(n) \in Int /\ Triangle(n + 1) \in Int
    BY DEF Triangle
  <1>3. n * (n + 3) >= 0 /\ n * (n + 3) \in Int
    OBVIOUS
  <1>4. (n + 1) * ((n + 1) + 3) = n * (n + 3) + 2 * (n + 2)
    OBVIOUS
  <1>5. 2 * Triangle(n) = n * (n + 3) /\ 2 * Triangle(n + 1) = (n + 1) * ((n + 1) + 3)
    BY <1>1
  <1> HIDE DEF Triangle
  <1> QED
    BY <1>2, <1>3, <1>4, <1>5

LEMMA TriangleGrows ==
    ASSUME NEW n \in Nat, NEW m \in 0..n
    PROVE  Triangle(m) + 2 * (n - m) <= Triangle(n)
  <1>1. PICK k \in Nat : n = m + k
    <2>1. n - m \in Nat /\ n = m + (n - m)
      OBVIOUS
    <2> QED
      BY <2>1
  <1>2. n * (n + 3) - m * (m + 3) = k * (m + m + k + 3)
    BY <1>1
  <1>3. k * (m + m + k + 3) >= 4 * k
    <2>1. CASE k = 0
      BY <2>1
    <2>2. CASE k # 0
      <3>1. PICK h \in Nat : m + m + k + 3 = 4 + h
        <4>1. (m + m + k - 1) \in Nat
          BY <2>2
        <4> QED
          BY <4>1
      <3>2. k * (4 + h) = 4 * k + k * h /\ k * h >= 0
        OBVIOUS
      <3> QED
        BY <3>1, <3>2
    <2> QED
      BY <2>1, <2>2
  <1>4. /\ Triangle(n) \in Nat /\ 2 * Triangle(n) = n * (n + 3)
        /\ Triangle(m) \in Nat /\ 2 * Triangle(m) = m * (m + 3)
    BY TriangleFacts
  <1> HIDE DEF Triangle
  <1> QED
    BY <1>1, <1>2, <1>3, <1>4

(* What the proofs below use of Rest and Tries.                            *)
LEMMA TriesFacts ==
    ASSUME NEW n \in 0..OtpLimit
    PROVE  /\ Rest(n) \in Nat /\ Tries(n) \in Nat
           /\ n < OtpLimit => Tries(n) = Rest(n) + 1 + Tries(n + 1)
           /\ \A m \in 0..n : /\ Rest(n) <= Rest(m) /\ Tries(n) <= Tries(m)
                              /\ ~OneSlot => Tries(n) + 2 * (n - m) <= Tries(m)
  <1>0. OtpLimit \in Nat /\ OtpLimit - n \in Nat /\ n \in Nat
    BY OtpLimitAssumption
  <1>1. ASSUME OneSlot
        PROVE  /\ Rest(n) = 0 /\ Tries(n) = OtpLimit - n
               /\ Tries(n + 1) = OtpLimit - (n + 1)
               /\ \A m \in 0..n : Rest(m) = 0 /\ Tries(m) = OtpLimit - m
    BY <1>1 DEF Rest, Tries
  <1>2. ASSUME ~OneSlot
        PROVE  /\ Rest(n) = OtpLimit - n /\ Tries(n) = Triangle(OtpLimit - n)
               /\ Tries(n + 1) = Triangle(OtpLimit - (n + 1))
               /\ \A m \in 0..n : Rest(m) = OtpLimit - m
                                  /\ Tries(m) = Triangle(OtpLimit - m)
    BY <1>2 DEF Rest, Tries
  <1>3. CASE OneSlot
    <2> HIDE DEF OneSlot, Rest, Tries
    <2> QED
      BY <1>0, <1>1, <1>3
  <1>4. CASE ~OneSlot
    <2>1. Rest(n) \in Nat /\ Tries(n) \in Nat
      BY <1>0, <1>2, <1>4, TriangleFacts
    <2>2. ASSUME n < OtpLimit PROVE Tries(n) = Rest(n) + 1 + Tries(n + 1)
      <3>1. PICK k \in Nat : k = OtpLimit - (n + 1) /\ k + 1 = OtpLimit - n
        <4>1. OtpLimit - (n + 1) \in Nat
          BY <1>0, <2>2
        <4> QED
          BY <1>0, <4>1
      <3>2. Triangle(k + 1) = (k + 1) + 1 + Triangle(k)
        BY TriangleFacts
      <3> QED
        BY <1>2, <1>4, <3>1, <3>2
    <2>3. ASSUME NEW m \in 0..n
          PROVE  /\ Rest(n) <= Rest(m) /\ Tries(n) <= Tries(m)
                 /\ Tries(n) + 2 * (n - m) <= Tries(m)
      <3>1. PICK k \in Nat : k = OtpLimit - m
        BY <1>0
      <3>2. PICK h \in 0..k : h = OtpLimit - n
        BY <1>0, <3>1
      <3>3. Triangle(h) + 2 * (k - h) <= Triangle(k)
        BY TriangleGrows
      <3>4. Triangle(h) \in Nat /\ Triangle(k) \in Nat /\ k - h = n - m
        BY <1>0, <3>1, <3>2, TriangleFacts
      <3>5. /\ Tries(n) = Triangle(h) /\ Tries(m) = Triangle(k)
            /\ Rest(n) = h /\ Rest(m) = k
        BY <1>2, <1>4, <3>1, <3>2
      <3> HIDE DEF Rest, Tries, Triangle
      <3> QED
        BY <1>0, <3>3, <3>4, <3>5
    <2> HIDE DEF Rest, Tries
    <2> QED
      BY <1>4, <2>1, <2>2, <2>3
  <1> QED
    BY <1>3, <1>4

----------------------------------------------------------------------------
(* A counter and the requests that hold a count of it                      *)

(* The tries left are more than may still follow: with no request holding  *)
(* a count, with one that may outlast the others and set the counter back, *)
(* and with two of which the one with the lower count does so.             *)
Fits(left, n, holders, r) ==
    /\ Tries(n) <= left
    /\ \A s \in holders : Rest(n) + 1 + Tries(r[s].count + 1) <= left
    /\ \A s, t \in holders :
         s # t /\ r[s].count <= r[t].count
           => 1 + (OtpLimit - r[t].count) + Tries(r[s].count + 1) <= left

Counting(holders, r) ==
    /\ holders \subseteq Slots
    /\ \A s \in holders : r[s].count \in 0..OtpLimit /\ r[s].count < OtpLimit

LEMMA TwoSlots ==
    ASSUME FewSlots, NEW s \in Slots, NEW t \in Slots, s # t
    PROVE  /\ \A n \in 0..OtpLimit : Rest(n) = OtpLimit - n
           /\ ~OneSlot /\ Slots = {s, t}
  <1>1. IsFiniteSet({s, t}) /\ Cardinality({s, t}) = 2
    <2>1. IsFiniteSet({s}) /\ Cardinality({s}) = 1 /\ t \notin {s}
      BY FS_Singleton
    <2>2. {s, t} = {s} \cup {t}
      OBVIOUS
    <2> QED
      BY <2>1, <2>2, FS_AddElement
  <1>2. Cardinality(Slots) = 2
    BY <1>1, FS_Subset DEF FewSlots
  <1>3. ASSUME NEW u \in Slots, u \notin {s, t} PROVE FALSE
    <2>1. Cardinality({s, t} \cup {u}) = 3
      BY SMTT(60), <1>1, <1>3, FS_AddElement
    <2>2. {s, t} \cup {u} \subseteq Slots
      OBVIOUS
    <2> QED
      BY <1>2, <2>1, <2>2, FS_Subset DEF FewSlots
  <1> QED
    BY <1>2, <1>3 DEF OneSlot, Rest

LEMMA FitsLess ==
    ASSUME NEW left \in Int, NEW n, NEW holders, NEW r, Fits(left, n, holders, r),
           NEW more \in Int, left <= more, NEW fewer \in SUBSET holders, NEW q,
           n \in 0..OtpLimit, Counting(holders, r),
           \A s \in fewer : q[s].count = r[s].count
    PROVE  Fits(more, n, fewer, q)
  <1>1. Tries(n) \in Nat /\ Rest(n) \in Nat
    BY TriesFacts
  <1>2. \A s \in holders : Tries(r[s].count + 1) \in Nat /\ r[s].count \in Nat
    <2> SUFFICES ASSUME NEW s \in holders
                 PROVE  Tries(r[s].count + 1) \in Nat /\ r[s].count \in Nat
      OBVIOUS
    <2>1. r[s].count + 1 \in 0..OtpLimit /\ r[s].count \in Nat
      BY OtpLimitAssumption DEF Counting
    <2> QED
      BY <2>1, TriesFacts
  <1> HIDE DEF Tries, Rest
  <1> QED
    BY <1>1, <1>2, OtpLimitAssumption DEF Fits

(* A request reads a counter below the limit.                              *)
LEMMA FitsRead ==
    ASSUME FewSlots,
           NEW left \in Int, NEW n \in 0..OtpLimit, NEW holders, NEW r,
           Fits(left, n, holders, r), Counting(holders, r),
           NEW s \in Slots, s \notin holders, n < OtpLimit,
           NEW q, q[s].count = n, \A t \in holders : q[t].count = r[t].count
    PROVE  Fits(left, n, holders \cup {s}, q)
  <1>1. /\ Tries(n) = Rest(n) + 1 + Tries(n + 1) /\ Rest(n) \in Nat
        /\ Tries(n) \in Nat /\ Tries(n + 1) \in Nat
    BY TriesFacts, OtpLimitAssumption
  <1>2. ASSUME NEW t \in holders
        PROVE  /\ Rest(n) + 1 + Tries(q[t].count + 1) <= left
               /\ q[t].count <= n => 1 + (OtpLimit - n) + Tries(q[t].count + 1) <= left
               /\ n <= q[t].count => 1 + (OtpLimit - q[t].count) + Tries(n + 1) <= left
    <2> DEFINE c == q[t].count
    <2>1. c \in 0..OtpLimit /\ c < OtpLimit /\ c = r[t].count /\ t \in Slots /\ t # s
      BY DEF Counting
    <2>2. Rest(n) = OtpLimit - n
      BY <2>1, TwoSlots
    <2>3. Rest(n) + 1 + Tries(c + 1) <= left /\ Tries(n) <= left
      BY <2>1 DEF Fits
    <2> HIDE DEF c, Tries, Rest
    <2>4. n <= c => 1 + (OtpLimit - c) + Tries(n + 1) <= left
      BY <1>1, <2>1, <2>2, <2>3, OtpLimitAssumption
    <2> QED
      BY <2>1, <2>2, <2>3, <2>4, OtpLimitAssumption DEF c
  <1>3. ASSUME NEW t \in holders, NEW u \in holders, t # u
        PROVE  FALSE
    BY <1>3, TwoSlots DEF Counting
  <1>4. Tries(n) <= left
    BY DEF Fits
  <1> HIDE DEF Tries, Rest
  <1> QED
    BY <1>1, <1>2, <1>3, <1>4 DEF Fits

(* A request writes back the count it holds plus one: one try less.        *)
LEMMA FitsWrite ==
    ASSUME FewSlots,
           NEW left \in Int, NEW n \in 0..OtpLimit, NEW holders, NEW r,
           Fits(left, n, holders, r), Counting(holders, r),
           NEW s \in holders, NEW q,
           \A t \in holders \ {s} : q[t].count = r[t].count
    PROVE  Fits(left - 1, r[s].count + 1, holders \ {s}, q)
  <1> DEFINE c == r[s].count
  <1>1. c \in Nat /\ c < OtpLimit /\ c + 1 \in 0..OtpLimit /\ s \in Slots
    BY OtpLimitAssumption DEF Counting
  <1>2. Tries(c + 1) \in Nat /\ Rest(n) \in Nat
    BY <1>1, TriesFacts
  <1>3. Rest(n) + 1 + Tries(c + 1) <= left
    BY DEF Fits
  <1>4. ASSUME NEW t \in holders \ {s}
        PROVE  Rest(c + 1) + 1 + Tries(q[t].count + 1) <= left - 1
    <2> DEFINE d == r[t].count
    <2>1. /\ d \in Nat /\ d < OtpLimit /\ d + 1 \in 0..OtpLimit /\ t \in Slots /\ t # s
          /\ q[t].count = d
      BY OtpLimitAssumption DEF Counting
    <2>2. Rest(c + 1) = OtpLimit - (c + 1) /\ ~OneSlot
      BY <1>1, <2>1, TwoSlots
    <2>3. Tries(d + 1) \in Nat
      BY <2>1, TriesFacts
    <2>4. d <= c => 1 + (OtpLimit - c) + Tries(d + 1) <= left
      BY DEF Fits
    <2>5. c <= d => 1 + (OtpLimit - d) + Tries(c + 1) <= left
      BY DEF Fits
    <2>6. c <= d => Tries(d + 1) + 2 * (d - c) <= Tries(c + 1)
      <3>1. ASSUME c <= d PROVE c + 1 \in 0..d + 1 /\ (d + 1) - (c + 1) = d - c
        BY <1>1, <2>1, <3>1
      <3> QED
        BY <2>1, <2>2, <3>1, TriesFacts
    <2> HIDE DEF c, d, Tries, Rest
    <2> QED
      BY <1>1, <1>2, <2>1, <2>2, <2>3, <2>4, <2>5, <2>6, OtpLimitAssumption
  <1>5. ASSUME NEW t \in holders \ {s}, NEW u \in holders \ {s}, t # u
        PROVE  FALSE
    BY <1>1, <1>5, TwoSlots DEF Counting
  <1> HIDE DEF c, Tries, Rest
  <1>6. Tries(c + 1) <= left - 1
    BY <1>2, <1>3
  <1>7. Fits(left - 1, c + 1, holders \ {s}, q)
    BY <1>4, <1>5, <1>6 DEF Fits
  <1> QED
    BY <1>7 DEF c

(* The counter is cleared: whatever counts are held, all tries are left.   *)
LEMMA FitsClear ==
    ASSUME FewSlots, NEW holders, NEW r, Counting(holders, r)
    PROVE  Fits(Tries(0), 0, holders, r)
  <1>1. 0 \in 0..OtpLimit /\ 0 < OtpLimit
    BY OtpLimitAssumption
  <1>2. Tries(0) = Rest(0) + 1 + Tries(1) /\ Tries(0) \in Nat /\ Rest(0) \in Nat
    BY <1>1, TriesFacts
  <1>3. ASSUME NEW s \in holders
        PROVE  /\ r[s].count \in Nat /\ r[s].count < OtpLimit
               /\ Tries(r[s].count) \in Nat /\ Tries(r[s].count + 1) \in Nat
               /\ Tries(r[s].count) <= Tries(0) /\ Tries(r[s].count + 1) <= Tries(1)
               /\ Tries(r[s].count) = Rest(r[s].count) + 1 + Tries(r[s].count + 1)
    <2> DEFINE c == r[s].count
    <2>1. c \in 0..OtpLimit /\ c < OtpLimit /\ c + 1 \in 0..OtpLimit
      BY OtpLimitAssumption DEF Counting
    <2>2. 0 \in 0..c /\ 1 \in 0..c + 1
      BY <2>1
    <2>3. Tries(c) <= Tries(0) /\ Tries(c + 1) <= Tries(1)
      BY <2>1, <2>2, TriesFacts
    <2>4. /\ Tries(c) \in Nat /\ Tries(c + 1) \in Nat
          /\ Tries(c) = Rest(c) + 1 + Tries(c + 1)
      BY <2>1, TriesFacts
    <2> QED
      BY <2>1, <2>3, <2>4
  <1>4. ASSUME NEW s \in holders, NEW t \in holders, s # t, r[s].count <= r[t].count
        PROVE  1 + (OtpLimit - r[t].count) + Tries(r[s].count + 1) <= Tries(0)
    <2> DEFINE c == r[s].count
               d == r[t].count
    <2>1. Rest(c) = OtpLimit - c
      BY <1>3, <1>4, TwoSlots DEF Counting
    <2>2. /\ c \in Nat /\ d \in Nat /\ c <= d /\ Tries(c + 1) \in Nat
          /\ Tries(c) <= Tries(0) /\ Tries(c) = Rest(c) + 1 + Tries(c + 1)
      BY <1>3, <1>4
    <2> HIDE DEF c, d, Tries, Rest
    <2>3. 1 + (OtpLimit - d) + Tries(c + 1) <= Tries(0)
      BY <1>2, <2>1, <2>2, OtpLimitAssumption
    <2> QED
      BY <2>3 DEF c, d
  <1>5. Tries(1) \in Nat
    BY <1>1, OtpLimitAssumption, TriesFacts
  <1> HIDE DEF Tries, Rest
  <1>6. \A s \in holders : Rest(0) + 1 + Tries(r[s].count + 1) <= Tries(0)
    BY <1>2, <1>3, <1>5
  <1> QED
    BY <1>2, <1>4, <1>6 DEF Fits

----------------------------------------------------------------------------
(* Steps that leave the counters and those who hold a count of them alone  *)

HoldPcs == {"verify.code", "verify.miss", "resend.bump"}

QuietStep ==
    /\ UNCHANGED <<otpAttempts, otpResendAttempts, misses, faults>>
    /\ \A q \in Slots : \/ req'[q] = req[q]
                        \/ req[q].pc \notin HoldPcs /\ req'[q].pc \notin HoldPcs

(* The steps the arguments below are about. *)
CounterStep(s) == \/ ReadAttempts(s) \/ CompareOtp(s) \/ CountMiss(s)
                  \/ DropCount(s) \/ ReadResends(s) \/ BumpResends(s) \/ Fail(s)

LEMMA Moved ==
    ASSUME Typed, NEW s \in Slots, NEW n, Become(s, n)
    PROVE  req'[s] = n /\ \A q \in Slots \ {s} : req'[q] = req[q]
  BY DEF Become, Typed, TypeOK

LEMMA GoneTo ==
    ASSUME Typed, NEW s \in Slots, NEW pc, Goto(s, pc)
    PROVE  /\ req'[s].pc = pc /\ req'[s].email = req[s].email
           /\ req'[s].count = req[s].count
           /\ \A q \in Slots \ {s} : req'[q] = req[q]
  <1>1. req[s] \in Request
    BY DEF Typed, TypeOK
  <1> QED
    BY <1>1, Moved DEF Goto, Request

LEMMA CountedTo ==
    ASSUME Typed, NEW s \in Slots, NEW pc, NEW n,
           Become(s, [req[s] EXCEPT !.pc = pc, !.count = n])
    PROVE  /\ req'[s].pc = pc /\ req'[s].email = req[s].email /\ req'[s].count = n
           /\ \A q \in Slots \ {s} : req'[q] = req[q]
  <1>1. req[s] \in Request
    BY DEF Typed, TypeOK
  <1>2. /\ req'[s] = [req[s] EXCEPT !.pc = pc, !.count = n]
        /\ \A q \in Slots \ {s} : req'[q] = req[q]
    BY Moved
  <1> QED
    BY <1>1, <1>2 DEF Request

(* A request moves from one await to another, neither of them between the  *)
(* read of a counter and its write.                                        *)
LEMMA MoveQuiet ==
    ASSUME Typed, NEW s \in Slots, req[s].pc \notin HoldPcs,
           req'[s].pc \notin HoldPcs, \E n : Become(s, n),
           UNCHANGED <<otpAttempts, otpResendAttempts, misses, faults>>
    PROVE  QuietStep
  BY Moved DEF QuietStep

LEMMA GotoQuiet ==
    ASSUME Typed, NEW s \in Slots, req[s].pc \notin HoldPcs,
           (\E pc : Goto(s, pc) /\ pc \notin HoldPcs) \/ Finish(s),
           UNCHANGED <<otpAttempts, otpResendAttempts, misses, faults>>
    PROVE  QuietStep
  <1>1. CASE \E pc : Goto(s, pc) /\ pc \notin HoldPcs
    BY <1>1, GoneTo DEF QuietStep
  <1>2. CASE Finish(s)
    BY <1>2, Moved DEF Finish, Idle, HoldPcs, QuietStep
  <1> QED
    BY <1>1, <1>2

LEMMA ArriveKeepsCounters ==
    ASSUME Typed, NEW s \in Slots, Arrive(s)
    PROVE  QuietStep
  <1>0. req \in [Slots -> Request]
    BY DEF Typed, TypeOK
  <1>1. /\ req[s].pc \notin HoldPcs
        /\ UNCHANGED <<otpAttempts, otpResendAttempts, misses, faults>>
        /\ \E n : Become(s, n)
    BY DEF Arrive, Register, Login, VerifyEmail, Resend, Forgot, Reset, Refresh,
           Google, Remove, Accept, At, HoldPcs, store, history
  <1>2. \A id : IssueTokens(id).pc \notin HoldPcs /\ LoginOutcome(id).pc \notin HoldPcs
    BY DEF IssueTokens, LoginOutcome, SendOtp, Idle, HoldPcs
  <1>3. req'[s].pc \notin HoldPcs
    <2>1. CASE \E e \in Emails, p \in Passwords : Register(s, e, p) \/ Login(s, e, p)
      BY <1>0, <1>2, <2>1 DEF Register, Login, Accept, Become, Idle, HoldPcs
    <2>2. CASE \E e \in Emails, c \in Codes : VerifyEmail(s, e, c)
      BY <1>0, <2>2 DEF VerifyEmail, Accept, Become, Idle, HoldPcs
    <2>3. CASE \E e \in Emails : Resend(s, e) \/ Forgot(s, e)
      <3>1. CASE \E e \in Emails : Resend(s, e)
        BY <1>0, <3>1 DEF Resend, Accept, Become, Idle, HoldPcs
      <3>2. ASSUME NEW e \in Emails, Forgot(s, e) PROVE req'[s].pc = "forgot.mail"
        <4>1. PICK t \in ResetTokens :
                Become(s, [Idle EXCEPT !.pc = "forgot.mail", !.email = e, !.made = t])
          BY <3>2 DEF Forgot, Accept
        <4> QED
          BY <1>0, <4>1 DEF Become, Idle
      <3> QED
        BY <2>3, <3>1, <3>2 DEF HoldPcs
    <2>4. CASE \E e \in Emails, t \in ResetTokens, p \in Passwords : Reset(s, e, t, p)
      BY <1>0, <2>4 DEF Reset, Accept, Become, Idle, HoldPcs
    <2>5. CASE \E token \in signed : Refresh(s, token)
      BY <1>0, <1>2, <2>5 DEF Refresh, Accept, Become
    <2>6. CASE \E g \in GoogleIds, e \in Emails : Google(s, g, e)
      BY <1>0, <1>2, <2>6 DEF Google, Accept, Become, Idle, HoldPcs
    <2>7. CASE \E id \in Ids : Remove(s, id)
      BY <1>0, <2>7 DEF Remove, Accept, Become, Idle, HoldPcs
    <2> QED
      BY <2>1, <2>2, <2>3, <2>4, <2>5, <2>6, <2>7 DEF Arrive
  <1> QED
    BY <1>1, <1>3, MoveQuiet

LEMMA ContinueKeepsCounters ==
    ASSUME Typed, NEW s \in Slots, Continue(s), ~CounterStep(s)
    PROVE  QuietStep
  <1>0. req \in [Slots -> Request] /\ req[s] \in Request
    BY DEF Typed, TypeOK
  <1>1. CASE \/ MailOtp(s) \/ StoreSession(s) \/ MarkVerified(s) \/ DropCode(s)
             \/ MailResetLink(s) \/ StoreResetToken(s) \/ ResetFindOne(s)
             \/ ResetUpdate(s) \/ MailPasswordUpdate(s) \/ DropResetToken(s)
             \/ GoogleFindByEmail(s) \/ RemoveDelete(s)
    <2>1. /\ req[s].pc \notin HoldPcs
          /\ UNCHANGED <<otpAttempts, otpResendAttempts, misses, faults>>
          /\ (\E pc : Goto(s, pc) /\ pc \notin HoldPcs) \/ Finish(s)
      BY <1>1 DEF MailOtp, StoreSession, MarkVerified, DropCode, MailResetLink,
                  StoreResetToken, ResetFindOne, ResetUpdate, MailPasswordUpdate,
                  DropResetToken, GoogleFindByEmail, RemoveDelete, At, HoldPcs, store,
                  history
    <2> QED
      BY <2>1, GotoQuiet
  <1>2. CASE \/ RegisterInsert(s) \/ StoreOtp(s) \/ MailWelcome(s) \/ GoogleUpsert(s)
             \/ GoogleLoad(s) \/ ResetFindUser(s)
    <2>1. /\ req[s].pc \notin HoldPcs
          /\ UNCHANGED <<otpAttempts, otpResendAttempts, misses, faults>>
          /\ \E n : Become(s, n)
      BY <1>2 DEF RegisterInsert, StoreOtp, MailWelcome, GoogleUpsert, GoogleLoad,
                  ResetFindUser, At, HoldPcs, store, history, Finish
    <2>2. CASE RegisterInsert(s) \/ MailWelcome(s) \/ GoogleLoad(s)
      <3>1. \A e : SendOtp(e).pc \notin HoldPcs /\ IssueTokens(e).pc \notin HoldPcs
        BY DEF IssueTokens, SendOtp, Idle, HoldPcs
      <3>2. Idle.pc \notin HoldPcs
        BY DEF Idle, HoldPcs
      <3> QED
        BY <1>0, <2>1, <2>2, <3>1, <3>2, Moved, MoveQuiet
           DEF RegisterInsert, MailWelcome, GoogleLoad, Finish
    <2>3. CASE StoreOtp(s)
      <3>1. PICK c \in Codes : Become(s, [req[s] EXCEPT !.pc = "otp.mail", !.made = c])
        BY <2>3 DEF StoreOtp
      <3>2. req'[s].pc = "otp.mail"
        BY <1>0, <3>1 DEF Become, Request
      <3> QED
        BY <2>1, <3>2, MoveQuiet DEF HoldPcs
    <2>4. CASE GoogleUpsert(s)
      BY ZenonT(60), <1>0, <2>1, <2>4, MoveQuiet DEF GoogleUpsert, Become, Idle, HoldPcs
    <2>5. CASE ResetFindUser(s)
      <3>1. req'[s].pc \in {"idle", "reset.findOne"}
        <4>1. CASE Finish(s)
          BY <1>0, <4>1 DEF Finish, Become, Idle
        <4>2. CASE ~Finish(s)
          <5>1. PICK id :
                  Become(s, [req[s] EXCEPT !.pc = "reset.findOne", !.id = id])
            BY <2>5, <4>2 DEF ResetFindUser
          <5> QED
            BY <1>0, <5>1 DEF Become, Request
        <4> QED
          BY <4>1, <4>2
      <3> QED
        BY <2>1, <3>1, MoveQuiet DEF HoldPcs
    <2> QED
      BY <1>2, <2>2, <2>3, <2>4, <2>5
  <1> QED
    BY <1>1, <1>2 DEF Continue, CounterStep

LEMMA StepKinds ==
    ASSUME Typed, [Next]_vars
    PROVE  \/ QuietStep
           \/ \E s \in Slots : CounterStep(s)
           \/ \E e \in Emails : ExpireAttempts(e) \/ ExpireResends(e)
  <1>1. CASE \/ UNCHANGED vars \/ Tick
             \/ \E id \in Ids : Logout(id)
             \/ \E e \in Emails : ExpireCode(e) \/ ExpireResetToken(e)
    <2>1. UNCHANGED <<req, otpAttempts, otpResendAttempts, misses, faults>>
      BY <1>1 DEF vars, store, history, Tick, Logout, ExpireCode, ExpireResetToken
    <2> QED
      BY <2>1 DEF QuietStep
  <1> QED
    BY <1>1, ArriveKeepsCounters, ContinueKeepsCounters DEF Next, Expire, CounterStep

----------------------------------------------------------------------------
(* Wrong codes: the counter of verifyEmail                                 *)

CheckPcs == {"verify.code", "verify.miss"}
Checkers(e) == {s \in Slots : req[s].pc \in CheckPcs /\ req[s].email = e}
Missing(e) == {s \in Slots : req[s].pc = "verify.miss" /\ req[s].email = e}

(* A wrong code whose request has not written the count yet may still be   *)
(* written, and then uses up a try, or the request is cut short.           *)
Left(e) == Tries(0) + faults + Cardinality(Missing(e)) - misses[e]
BudgetOf(e) == Fits(Left(e), otpAttempts[e], Checkers(e), req)
Budget == \A e \in Emails : BudgetOf(e)

LEMMA CheckersCount ==
    ASSUME Typed, FewSlots, NEW e \in Emails
    PROVE  /\ Counting(Checkers(e), req) /\ Left(e) \in Int
           /\ otpAttempts[e] \in 0..OtpLimit /\ Tries(0) \in Nat
           /\ faults \in Nat /\ misses[e] \in Nat
           /\ IsFiniteSet(Missing(e)) /\ Cardinality(Missing(e)) \in Nat
  <1>1. /\ otpAttempts[e] \in 0..OtpLimit /\ faults \in Nat /\ misses[e] \in Nat
    BY BoundsAssumption DEF Typed, TypeOK, StoreTypeOK
  <1>2. IsFiniteSet(Missing(e)) /\ Cardinality(Missing(e)) \in Nat
    <2>1. Missing(e) \subseteq Slots
      BY DEF Missing
    <2> QED
      BY <2>1, FS_Subset, FS_CardinalityType DEF FewSlots
  <1>3. Tries(0) \in Nat
    BY OtpLimitAssumption, TriesFacts
  <1>4. Left(e) \in Int
    BY <1>1, <1>2, <1>3 DEF Left
  <1>5. Counting(Checkers(e), req)
    <2> SUFFICES ASSUME NEW s \in Checkers(e)
                 PROVE  req[s].count \in 0..OtpLimit /\ req[s].count < OtpLimit
      BY DEF Counting, Checkers
    <2> QED
      BY DEF Checkers, CheckPcs, Typed, TypeOK, LocalsOK, Request
  <1> QED
    BY <1>1, <1>2, <1>3, <1>4, <1>5

(* An address whose counter and history stay, with no more requests that   *)
(* hold a count of it, and no fewer tries left.                            *)
LEMMA BudgetKept ==
    ASSUME Typed, Typed', FewSlots, NEW e \in Emails, BudgetOf(e),
           otpAttempts'[e] = otpAttempts[e], Left(e) <= Left(e)',
           \A q \in Checkers(e)' : q \in Checkers(e) /\ req'[q].count = req[q].count
    PROVE  BudgetOf(e)'
  <1>1. /\ Counting(Checkers(e), req) /\ Left(e) \in Int /\ Tries(0) \in Nat
        /\ otpAttempts[e] \in 0..OtpLimit
    BY CheckersCount
  <1>2. Left(e)' \in Int
    <2>1. Missing(e)' \subseteq Slots
      BY DEF Missing
    <2>2. Cardinality(Missing(e)') \in Nat
      BY <2>1, FS_Subset, FS_CardinalityType DEF FewSlots
    <2>3. faults' \in Nat /\ misses'[e] \in Nat
      BY BoundsAssumption DEF Typed, TypeOK
    <2> QED
      BY <1>1, <2>2, <2>3 DEF Left
  <1>3. Checkers(e)' \subseteq Checkers(e)
    OBVIOUS
  <1> QED
    BY <1>1, <1>2, <1>3, FitsLess DEF BudgetOf

(* What one request does to the sets of those that hold a count.           *)
LEMMA OthersStay ==
    ASSUME NEW s \in Slots, \A q \in Slots \ {s} : req'[q] = req[q], NEW e
    PROVE  /\ Checkers(e)' \ {s} = Checkers(e) \ {s}
           /\ Missing(e)' \ {s} = Missing(e) \ {s}
  BY DEF Checkers, Missing

LEMMA QuietBudget ==
    ASSUME Typed, Typed', FewSlots, Budget, QuietStep
    PROVE  Budget'
  <1> SUFFICES ASSUME NEW e \in Emails PROVE BudgetOf(e)'
    BY DEF Budget
  <1>1. Missing(e)' = Missing(e) /\ Checkers(e)' = Checkers(e)
    BY DEF QuietStep, Missing, Checkers, CheckPcs, HoldPcs
  <1>2. Left(e)' = Left(e) /\ otpAttempts'[e] = otpAttempts[e] /\ Left(e) \in Int
    BY <1>1, CheckersCount DEF Left, QuietStep
  <1>3. \A q \in Checkers(e) : req'[q] = req[q]
    BY DEF QuietStep, Checkers, CheckPcs, HoldPcs
  <1> QED
    BY <1>1, <1>2, <1>3, BudgetKept DEF Budget

LEMMA ReadBudget ==
    ASSUME Typed, Typed', FewSlots, Budget, NEW s \in Slots, ReadAttempts(s)
    PROVE  Budget'
  <1>1. req[s].email \in Emails /\ req[s] \in Request /\ req[s].pc = "verify.attempts"
    BY DEF Typed, TypeOK, LocalsOK, ReadAttempts, At
  <1>2. UNCHANGED <<otpAttempts, otpResendAttempts, misses, faults>>
    BY DEF ReadAttempts, store, history
  <1>3. CASE Finish(s)
    BY <1>1, <1>2, <1>3, GotoQuiet, QuietBudget DEF HoldPcs
  <1>4. CASE ~Finish(s)
    <2>0. PICK e \in Emails, n \in 0..OtpLimit :
            e = req[s].email /\ n = otpAttempts[e] /\ OtpLimit \in Nat
      BY <1>1, OtpLimitAssumption DEF Typed, TypeOK, StoreTypeOK
    <2>1. Become(s, [req[s] EXCEPT !.pc = "verify.code", !.count = n]) /\ n < OtpLimit
      <3>1. ~AttemptsExceeded(n)
        <4> SUFFICES ASSUME AttemptsExceeded(n) PROVE FALSE
          OBVIOUS
        <4>1. AttemptsExceeded(otpAttempts[req[s].email])
          BY <2>0
        <4>2. Finish(s)
          BY <4>1 DEF ReadAttempts
        <4> QED
          BY <1>4, <4>2
      <3>2. Become(s, [req[s] EXCEPT !.pc = "verify.code", !.count = n])
        BY <2>0, <3>1 DEF ReadAttempts
      <3>3. n < OtpLimit
        BY <2>0, <3>1 DEF AttemptsExceeded
      <3> QED
        BY <3>2, <3>3
    <2>2. /\ req'[s].pc = "verify.code" /\ req'[s].email = e /\ req'[s].count = n
          /\ \A q \in Slots \ {s} : req'[q] = req[q]
      <3>1. /\ req'[s].pc = "verify.code" /\ req'[s].email = req[s].email
            /\ req'[s].count = n /\ \A q \in Slots \ {s} : req'[q] = req[q]
        BY ZenonT(60), <2>1, CountedTo
      <3> QED
        BY <2>0, <3>1
    <2>3. ASSUME NEW f \in Emails
          PROVE  Missing(f)' = Missing(f) /\ s \notin Checkers(f) /\ Left(f)' = Left(f)
      <3>1. Missing(f)' = Missing(f) /\ s \notin Checkers(f)
        BY <1>1, <2>2 DEF Missing, Checkers, CheckPcs
      <3> QED
        BY <1>2, <3>1 DEF Left
    <2>4. ASSUME NEW f \in Emails, f # e PROVE BudgetOf(f)'
      <3>1. Checkers(f)' = Checkers(f)
        BY <1>1, <2>2, <2>4 DEF Checkers, CheckPcs
      <3>2. Left(f)' = Left(f) /\ Left(f) \in Int /\ s \notin Checkers(f)
        BY <2>3, CheckersCount
      <3> QED
        BY <1>2, <2>2, <3>1, <3>2, BudgetKept DEF Budget, Checkers
    <2>5. BudgetOf(e)'
      <3>1. Checkers(e)' = Checkers(e) \cup {s}
        BY <1>1, <2>0, <2>2 DEF Checkers, CheckPcs
      <3>2. /\ Left(e)' = Left(e) /\ Left(e) \in Int /\ s \notin Checkers(e)
            /\ Counting(Checkers(e), req) /\ n \in 0..OtpLimit
        BY <1>1, <2>3, CheckersCount
      <3>3. \A t \in Checkers(e) : req'[t].count = req[t].count
        BY <2>2, <3>2 DEF Checkers
      <3>4. Fits(Left(e), n, Checkers(e), req)
        BY <2>0 DEF Budget, BudgetOf
      <3>5. Fits(Left(e), n, Checkers(e) \cup {s}, req')
        BY <2>1, <2>2, <3>2, <3>3, <3>4, FitsRead
      <3> QED
        BY <1>2, <2>0, <3>1, <3>2, <3>5 DEF BudgetOf
    <2> QED
      BY <2>4, <2>5 DEF Budget
  <1> QED
    BY <1>3, <1>4

(* An address whose counter and history stay: the request that takes the   *)
(* step is neither counting a wrong code for it nor holds a count of it    *)
(* afterwards.                                                             *)
LEMMA LetGo ==
    ASSUME Typed, Typed', FewSlots, Budget, NEW s \in Slots, NEW e \in Emails,
           \A q \in Slots \ {s} : req'[q] = req[q],
           s \notin Missing(e), s \notin Checkers(e)',
           otpAttempts'[e] = otpAttempts[e], misses'[e] = misses[e],
           faults' \in {faults, faults + 1}
    PROVE  BudgetOf(e)'
  <1>1. Missing(e)' = Missing(e)
    BY OthersStay DEF Missing, Checkers, CheckPcs
  <1>2. Left(e) <= Left(e)'
    BY <1>1, CheckersCount DEF Left
  <1>3. \A q \in Checkers(e)' : q \in Checkers(e) /\ req'[q].count = req[q].count
    BY DEF Checkers
  <1> QED
    BY <1>2, <1>3, BudgetKept DEF Budget

(* An address whose counter and history are cleared.                       *)
LEMMA Cleared ==
    ASSUME Typed', FewSlots, NEW e \in Emails, otpAttempts'[e] = 0, misses'[e] = 0
    PROVE  BudgetOf(e)'
  <1>1. Counting(Checkers(e)', req')
    <2> SUFFICES ASSUME NEW s \in Checkers(e)'
                 PROVE  req'[s].count \in 0..OtpLimit /\ req'[s].count < OtpLimit
      BY DEF Counting, Checkers
    <2> QED
      BY DEF Checkers, CheckPcs, Typed, TypeOK, LocalsOK, Request
  <1>2. Fits(Tries(0), 0, Checkers(e)', req')
    BY <1>1, FitsClear
  <1>3. Tries(0) \in Nat /\ 0 \in 0..OtpLimit
    BY OtpLimitAssumption, TriesFacts
  <1>4. Left(e)' \in Int /\ Tries(0) <= Left(e)'
    <2>1. Missing(e)' \subseteq Slots
      BY DEF Missing
    <2>2. Cardinality(Missing(e)') \in Nat
      BY <2>1, FS_Subset, FS_CardinalityType DEF FewSlots
    <2>3. faults' \in Nat
      BY BoundsAssumption DEF Typed, TypeOK
    <2> QED
      BY <1>3, <2>2, <2>3 DEF Left
  <1>5. Fits(Left(e)', 0, Checkers(e)', req')
    BY <1>1, <1>2, <1>3, <1>4, FitsLess
  <1> QED
    BY <1>5 DEF BudgetOf

LEMMA CompareBudget ==
    ASSUME Typed, Typed', FewSlots, Budget, NEW s \in Slots, CompareOtp(s)
    PROVE  Budget'
  <1> SUFFICES ASSUME NEW e \in Emails PROVE BudgetOf(e)'
    BY DEF Budget
  <1>1. /\ req[s].pc = "verify.code" /\ req[s].email \in Emails
        /\ UNCHANGED <<otpAttempts, faults>> /\ misses \in [Emails -> Nat]
    BY DEF Typed, TypeOK, LocalsOK, CompareOtp, At, store
  <1>2. s \notin Missing(e)
    BY <1>1 DEF Missing
  <1>3. CASE OtpMatches(s)
    <2>1. Become(s, [req[s] EXCEPT !.pc = "verify.mark", !.count = 0]) /\ misses' = misses
      BY <1>3 DEF CompareOtp
    <2>2. req'[s].pc = "verify.mark" /\ \A q \in Slots \ {s} : req'[q] = req[q]
      BY <2>1, CountedTo
    <2>3. s \notin Checkers(e)'
      BY <2>2 DEF Checkers, CheckPcs
    <2> QED
      BY <1>1, <1>2, <2>1, <2>2, <2>3, LetGo
  <1>4. CASE ~OtpMatches(s)
    <2>1. Goto(s, "verify.miss") /\ misses' = [misses EXCEPT ![req[s].email] = @ + 1]
      BY <1>4 DEF CompareOtp
    <2>2. /\ req'[s].pc = "verify.miss" /\ req'[s].email = req[s].email
          /\ req'[s].count = req[s].count /\ \A q \in Slots \ {s} : req'[q] = req[q]
      BY <2>1, GoneTo
    <2>3. CASE e # req[s].email
      <3>1. misses'[e] = misses[e]
        BY <1>1, <2>1, <2>3
      <3>2. s \notin Checkers(e)'
        BY <2>2, <2>3 DEF Checkers
      <3> QED
        BY <1>1, <1>2, <2>2, <3>1, <3>2, LetGo
    <2>4. CASE e = req[s].email
      <3>1. misses'[e] = misses[e] + 1
        BY <1>1, <2>1, <2>4
      <3>2. Missing(e)' = Missing(e) \cup {s}
        BY <2>2, <2>4 DEF Missing
      <3>3. Cardinality(Missing(e)') = Cardinality(Missing(e)) + 1
        BY <1>2, <3>2, CheckersCount, FS_AddElement
      <3>4. Left(e)' = Left(e) /\ Left(e) \in Int
        <4>1. /\ faults \in Nat /\ misses[e] \in Nat /\ Tries(0) \in Nat
              /\ Cardinality(Missing(e)) \in Nat /\ Left(e) \in Int
          BY CheckersCount
        <4> QED
          BY <1>1, <3>1, <3>3, <4>1 DEF Left
      <3>5. \A q \in Checkers(e)' : q \in Checkers(e) /\ req'[q].count = req[q].count
        BY <1>1, <2>2, <2>4 DEF Checkers, CheckPcs
      <3> QED
        BY <1>1, <3>4, <3>5, BudgetKept DEF Budget
    <2> QED
      BY <2>3, <2>4
  <1> QED
    BY <1>3, <1>4

LEMMA CountMissBudget ==
    ASSUME Typed, Typed', FewSlots, Budget, NEW s \in Slots, CountMiss(s)
    PROVE  Budget'
  <1> SUFFICES ASSUME NEW e \in Emails PROVE BudgetOf(e)'
    BY DEF Budget
  <1>1. /\ req[s].pc = "verify.miss" /\ req[s].email \in Emails
        /\ UNCHANGED <<misses, faults>> /\ otpAttempts \in [Emails -> 0..OtpLimit]
        /\ otpAttempts' = [otpAttempts EXCEPT ![req[s].email] = req[s].count + 1]
    BY DEF Typed, TypeOK, StoreTypeOK, LocalsOK, CountMiss, At, history, MissCount
  <1>2. req'[s].pc = "idle" /\ \A q \in Slots \ {s} : req'[q] = req[q]
    BY Moved DEF CountMiss, Finish, Idle
  <1>3. s \notin Checkers(e)' /\ s \notin Missing(e)'
    BY <1>2 DEF Checkers, Missing, CheckPcs
  <1>4. CASE e # req[s].email
    <2>1. otpAttempts'[e] = otpAttempts[e] /\ s \notin Missing(e)
      BY <1>1, <1>4 DEF Missing
    <2> QED
      BY <1>1, <1>2, <1>3, <2>1, LetGo
  <1>5. CASE e = req[s].email
    <2>1. /\ s \in Missing(e) /\ s \in Checkers(e)
          /\ otpAttempts'[e] = req[s].count + 1
      BY <1>1, <1>5 DEF Missing, Checkers, CheckPcs
    <2>2. Missing(e)' = Missing(e) \ {s} /\ Checkers(e)' = Checkers(e) \ {s}
      BY <1>2, <1>3, OthersStay
    <2>3. Cardinality(Missing(e)') = Cardinality(Missing(e)) - 1
      BY <2>1, <2>2, CheckersCount, FS_RemoveElement
    <2>4. Left(e)' = Left(e) - 1 /\ Left(e) \in Int
      <3>1. /\ faults \in Nat /\ misses[e] \in Nat /\ Tries(0) \in Nat
            /\ Cardinality(Missing(e)) \in Nat /\ Left(e) \in Int
        BY CheckersCount
      <3> QED
        BY <1>1, <2>3, <3>1 DEF Left
    <2>5. /\ Counting(Checkers(e), req) /\ otpAttempts[e] \in 0..OtpLimit
          /\ Fits(Left(e), otpAttempts[e], Checkers(e), req)
      BY CheckersCount DEF Budget, BudgetOf
    <2>6. Fits(Left(e) - 1, req[s].count + 1, Checkers(e) \ {s}, req')
      <3>1. \A t \in Checkers(e) \ {s} : req'[t].count = req[t].count
        BY <1>2 DEF Checkers
      <3>2. PICK n \in 0..OtpLimit, left \in Int :
              n = otpAttempts[e] /\ left = Left(e)
        BY <2>4, <2>5
      <3>3. Fits(left, n, Checkers(e), req)
        BY <2>5, <3>2
      <3>4. Fits(left - 1, req[s].count + 1, Checkers(e) \ {s}, req')
        BY <2>1, <2>5, <3>1, <3>3, FitsWrite
      <3> QED
        BY <3>2, <3>4
    <2> QED
      BY <2>1, <2>2, <2>4, <2>6 DEF BudgetOf
  <1> QED
    BY <1>4, <1>5

LEMMA DropCountBudget ==
    ASSUME Typed, Typed', FewSlots, Budget, NEW s \in Slots, DropCount(s)
    PROVE  Budget'
  <1> SUFFICES ASSUME NEW e \in Emails PROVE BudgetOf(e)'
    BY DEF Budget
  <1>1. /\ req[s].pc = "verify.dropCount" /\ req[s].email \in Emails /\ faults' = faults
        /\ otpAttempts' = [otpAttempts EXCEPT ![req[s].email] = 0]
        /\ misses' = [misses EXCEPT ![req[s].email] = 0]
        /\ otpAttempts \in [Emails -> 0..OtpLimit] /\ misses \in [Emails -> Nat]
    BY DEF Typed, TypeOK, StoreTypeOK, LocalsOK, DropCount, At
  <1>2. req'[s].pc = "verify.welcome" /\ \A q \in Slots \ {s} : req'[q] = req[q]
    BY GoneTo DEF DropCount
  <1>3. s \notin Checkers(e)' /\ s \notin Missing(e)
    BY <1>1, <1>2 DEF Checkers, Missing, CheckPcs
  <1>4. CASE e = req[s].email
    BY <1>1, <1>4, Cleared
  <1>5. CASE e # req[s].email
    <2>1. otpAttempts'[e] = otpAttempts[e] /\ misses'[e] = misses[e]
      BY <1>1, <1>5
    <2> QED
      BY <1>1, <1>2, <1>3, <2>1, LetGo
  <1> QED
    BY <1>4, <1>5

LEMMA ResendBudget ==
    ASSUME Typed, Typed', FewSlots, Budget, NEW s \in Slots,
           ReadResends(s) \/ BumpResends(s)
    PROVE  Budget'
  <1> SUFFICES ASSUME NEW e \in Emails PROVE BudgetOf(e)'
    BY DEF Budget
  <1>1. UNCHANGED <<otpAttempts, misses, faults>> /\ s \notin Missing(e)
    BY DEF ReadResends, BumpResends, At, Missing, store, history
  <1>2. /\ req'[s].pc \in {"idle", "resend.bump", "otp.store"}
        /\ \A q \in Slots \ {s} : req'[q] = req[q]
    <2>1. CASE ReadResends(s)
      <3>1. CASE Finish(s)
        BY <3>1, Moved DEF Finish, Idle
      <3>2. CASE ~Finish(s)
        <4>1. Become(s, [req[s] EXCEPT !.pc = "resend.bump",
                                       !.count = otpResendAttempts[req[s].email]])
          BY <2>1, <3>2 DEF ReadResends
        <4> QED
          BY <4>1, CountedTo
      <3> QED
        BY <3>1, <3>2
    <2>2. CASE BumpResends(s)
      <3>1. /\ req'[s] = SendOtp(req[s].email)
            /\ \A q \in Slots \ {s} : req'[q] = req[q]
        BY <2>2, Moved DEF BumpResends
      <3> QED
        BY <3>1 DEF SendOtp, Idle
    <2> QED
      BY <2>1, <2>2
  <1>3. s \notin Checkers(e)'
    BY <1>2 DEF Checkers, CheckPcs
  <1> QED
    BY <1>1, <1>2, <1>3, LetGo

LEMMA FailBudget ==
    ASSUME Typed, Typed', FewSlots, Budget, NEW s \in Slots, Fail(s)
    PROVE  Budget'
  <1> SUFFICES ASSUME NEW e \in Emails PROVE BudgetOf(e)'
    BY DEF Budget
  <1>1. UNCHANGED <<otpAttempts, misses>> /\ faults' = faults + 1
    BY DEF Fail, store, history
  <1>2. req'[s].pc = "idle" /\ \A q \in Slots \ {s} : req'[q] = req[q]
    BY Moved DEF Fail, Finish, Idle
  <1>3. s \notin Checkers(e)' /\ s \notin Missing(e)'
    BY <1>2 DEF Checkers, Missing, CheckPcs
  <1>4. CASE s \notin Missing(e)
    BY <1>1, <1>2, <1>3, <1>4, LetGo
  <1>5. CASE s \in Missing(e)
    <2>1. Missing(e)' = Missing(e) \ {s}
      BY <1>2, <1>3, OthersStay
    <2>2. Cardinality(Missing(e)') = Cardinality(Missing(e)) - 1
      BY <1>5, <2>1, CheckersCount, FS_RemoveElement
    <2>3. Left(e)' = Left(e) /\ Left(e) \in Int
      <3>1. /\ faults \in Nat /\ misses[e] \in Nat /\ Tries(0) \in Nat
            /\ Cardinality(Missing(e)) \in Nat /\ Left(e) \in Int
        BY CheckersCount
      <3> QED
        BY <1>1, <2>2, <3>1 DEF Left
    <2>4. \A q \in Checkers(e)' : q \in Checkers(e) /\ req'[q].count = req[q].count
      BY <1>2, <1>3 DEF Checkers
    <2> QED
      BY <1>1, <2>3, <2>4, BudgetKept DEF Budget
  <1> QED
    BY <1>4, <1>5

LEMMA ExpireBudget ==
    ASSUME Typed, Typed', FewSlots, Budget, NEW f \in Emails,
           ExpireAttempts(f) \/ ExpireResends(f)
    PROVE  Budget'
  <1> SUFFICES ASSUME NEW e \in Emails PROVE BudgetOf(e)'
    BY DEF Budget
  <1>1. UNCHANGED <<req, faults>>
    BY DEF ExpireAttempts, ExpireResends, history
  <1>2. CASE otpAttempts'[e] = otpAttempts[e] /\ misses'[e] = misses[e]
    <2>1. Missing(e)' = Missing(e) /\ Checkers(e)' = Checkers(e)
      BY <1>1 DEF Missing, Checkers
    <2>2. Left(e)' = Left(e) /\ Left(e) \in Int
      BY <1>1, <1>2, <2>1, CheckersCount DEF Left
    <2> QED
      BY <1>1, <1>2, <2>1, <2>2, BudgetKept DEF Budget
  <1>3. CASE otpAttempts'[e] = 0 /\ misses'[e] = 0
    BY <1>3, Cleared
  <1> QED
    BY <1>2, <1>3 DEF ExpireAttempts, ExpireResends, Typed, TypeOK, StoreTypeOK, history

LEMMA InitBudget == FewSlots /\ Init => Budget
  <1> SUFFICES ASSUME FewSlots, Init, NEW e \in Emails PROVE BudgetOf(e)
    BY DEF Budget
  <1>1. Missing(e) = {} /\ Checkers(e) = {}
    BY DEF Init, Missing, Checkers, CheckPcs, Idle
  <1>2. faults = 0 /\ misses[e] = 0 /\ otpAttempts[e] = 0
    BY DEF Init, StoreInit
  <1>3. Tries(0) \in Nat
    BY OtpLimitAssumption, TriesFacts
  <1>4. Left(e) = Tries(0)
    BY <1>1, <1>2, <1>3, FS_EmptySet DEF Left
  <1> QED
    BY <1>1, <1>2, <1>3, <1>4 DEF BudgetOf, Fits

LEMMA StepBudget ==
    ASSUME Typed, Typed', FewSlots, Budget, [Next]_vars
    PROVE  Budget'
  <1>1. CASE QuietStep
    BY <1>1, QuietBudget
  <1>2. ASSUME NEW s \in Slots, CounterStep(s) PROVE Budget'
    BY <1>2, ReadBudget, CompareBudget, CountMissBudget, DropCountBudget,
       ResendBudget, FailBudget DEF CounterStep
  <1>3. ASSUME NEW e \in Emails, ExpireAttempts(e) \/ ExpireResends(e) PROVE Budget'
    BY <1>3, ExpireBudget
  <1> QED
    BY <1>1, <1>2, <1>3, StepKinds

LEMMA AlwaysBudget ==
    ASSUME FewSlots
    PROVE  Spec => [](Typed /\ Budget)
  <1>1. Init => Typed /\ Budget
    BY InitTyped, InitBudget
  <1>2. Typed /\ Budget /\ [Next]_vars => (Typed /\ Budget)'
    BY StepTyped, StepBudget
  <1> QED
    BY <1>1, <1>2, PTL DEF Spec

(* A request that is counting a wrong code will use up a try.              *)
LEMMA MissingFit ==
    ASSUME Typed, FewSlots, Budget, NEW e \in Emails
    PROVE  Cardinality(Missing(e)) <= Left(e)
  <1>0. /\ Counting(Checkers(e), req) /\ Left(e) \in Int /\ Tries(0) \in Nat
        /\ otpAttempts[e] \in 0..OtpLimit /\ OtpLimit \in Nat
        /\ IsFiniteSet(Missing(e)) /\ Cardinality(Missing(e)) \in Nat
    BY CheckersCount, OtpLimitAssumption
  <1>1. Missing(e) \subseteq Checkers(e) /\ Missing(e) \subseteq Slots
    BY DEF Missing, Checkers, CheckPcs
  <1>2. Tries(otpAttempts[e]) \in Nat /\ Tries(otpAttempts[e]) <= Left(e)
    BY <1>0, TriesFacts DEF Budget, BudgetOf, Fits
  <1>3. ASSUME NEW s \in Missing(e)
        PROVE  /\ req[s].count \in Nat /\ req[s].count < OtpLimit
               /\ Tries(req[s].count + 1) \in Nat /\ Rest(otpAttempts[e]) \in Nat
               /\ 1 <= Left(e)
    <2>1. s \in Checkers(e) /\ req[s].count \in 0..OtpLimit /\ req[s].count < OtpLimit
      BY <1>0, <1>1 DEF Counting
    <2>2. Tries(req[s].count + 1) \in Nat /\ Rest(otpAttempts[e]) \in Nat
      <3>1. req[s].count + 1 \in 0..OtpLimit
        BY <1>0, <2>1
      <3> QED
        BY <1>0, <3>1, TriesFacts
    <2>3. Rest(otpAttempts[e]) + 1 + Tries(req[s].count + 1) <= Left(e)
      BY <2>1 DEF Budget, BudgetOf, Fits
    <2> HIDE DEF Tries, Rest, Left
    <2> QED
      BY <1>0, <2>1, <2>2, <2>3
  <1>4. ASSUME NEW s \in Missing(e), NEW t \in Missing(e), s # t,
               req[s].count <= req[t].count
        PROVE  2 <= Left(e)
    <2>1. 1 + (OtpLimit - req[t].count) + Tries(req[s].count + 1) <= Left(e)
      BY <1>1, <1>4 DEF Budget, BudgetOf, Fits
    <2> HIDE DEF Tries, Rest, Left
    <2> QED
      BY <1>0, <1>3, <2>1
  <1>5. CASE Missing(e) = {}
    BY <1>0, <1>2, <1>5, FS_EmptySet
  <1>6. CASE \E s \in Missing(e) : Missing(e) = {s}
    BY <1>0, <1>3, <1>6, FS_Singleton
  <1>7. CASE \E s, t \in Missing(e) : s # t
    <2>1. PICK s \in Missing(e), t \in Missing(e) : s # t /\ req[s].count <= req[t].count
      BY <1>3, <1>7
    <2>2. 2 <= Left(e)
      BY <1>4, <2>1
    <2>3. Cardinality(Missing(e)) <= 2
      <3>1. Cardinality(Missing(e)) <= Cardinality(Slots)
        BY <1>1, FS_Subset DEF FewSlots
      <3> QED
        BY <1>0, <3>1 DEF FewSlots
    <2> QED
      BY <1>0, <2>2, <2>3
  <1> QED
    BY <1>5, <1>6, <1>7

(* How many wrong codes an address is tried with before its counter is     *)
(* cleared, in instances of one or two slots: with one request in flight   *)
(* as many as verifyEmail's limit, with two at most limit * (limit + 3) / 2,*)
(* whatever the limit is and whatever else registers, resends, fails or    *)
(* expires meanwhile; a request cut short may add one.                     *)
THEOREM WrongCodesAreBounded == FewSlots => (Spec => []MissesBounded)
  <1> SUFFICES ASSUME FewSlots PROVE Spec => []MissesBounded
    OBVIOUS
  <1>1. Typed /\ Budget => MissesBounded
    <2> SUFFICES ASSUME Typed, Budget, NEW e \in Emails PROVE misses[e] <= MissBound
      BY DEF MissesBounded
    <2>1. /\ faults \in Nat /\ faults <= MaxFaults /\ MaxFaults \in Nat
          /\ misses[e] \in Nat /\ Tries(0) \in Nat
          /\ Cardinality(Missing(e)) \in Nat
      BY CheckersCount, BoundsAssumption DEF Typed, TypeOK
    <2>2. Cardinality(Missing(e)) <= Left(e)
      BY MissingFit
    <2>3. misses[e] <= MaxFaults + Tries(0)
      BY <2>1, <2>2 DEF Left
    <2>4. MissBound = MaxFaults + Tries(0)
      <3>1. OtpLimit - 0 = OtpLimit
        BY OtpLimitAssumption
      <3> QED
        BY <3>1 DEF MissBound, Tries, Triangle, OneSlot
    <2> QED
      BY <2>3, <2>4
  <1> QED
    BY <1>1, AlwaysBudget, PTL

----------------------------------------------------------------------------
(* Google accounts, one request at a time                                  *)

Serial == \E s : Slots = {s}

Link(table, id) == IF Live(table, id) THEN table[id].googleId ELSE None

(* What findOrCreateByGoogle has found out holds until it acts on it: no   *)
(* row is linked to the Google account, and the row of the address, when   *)
(* there is one, to none.                                                  *)
GooglePcs == {"google.findByEmail", "google.upsert"}
Ready(s) ==
    /\ req[s].pc \in GooglePcs => WithGoogleId(req[s].given) = {}
    /\ req[s].pc = "google.upsert" =>
         \A id \in WithEmail(req[s].email) : users[id].googleId = None

Linking == GoogleIdNamesOneRow /\ \A s \in Slots : Ready(s)

(* A step that links no row, and one that adds no row either.              *)
KeepsLinks == \A id \in Ids : Live(users', id) => Link(users', id) = Link(users, id)
AddsNoRow == \A id \in Ids : Live(users', id) =>
                /\ Live(users, id) /\ Link(users', id) = Link(users, id)
                /\ users'[id].email = users[id].email

LEMMA AddsNoLink == AddsNoRow => KeepsLinks
  BY DEF AddsNoRow, KeepsLinks

LEMMA UpdateAddsNoRow ==
    ASSUME Typed, NEW id \in Ids,
           \/ UNCHANGED users
           \/ \E p \in Passwords : UpdatePassword(id, p)
           \/ UpdateVerified(id)
           \/ \E h \in Ids \cup {None} : UpdateSession(id, h)
           \/ Delete(id)
    PROVE  AddsNoRow
  <1>0. /\ \A i \in Ids : Live(users, i) => users[i] \in Row
        /\ users \in [Ids -> Row \cup {Unborn, Gone}]
    BY DEF Typed, TypeOK, StoreTypeOK, Live
  <1>1. CASE UNCHANGED users
    BY <1>1 DEF AddsNoRow, Link, Live
  <1>2. CASE ~Live(users, id) \/ Delete(id)
    <2>1. \A i \in Ids : Live(users', i) => Live(users, i) /\ users'[i] = users[i]
      <3>1. CASE UNCHANGED users
        BY <3>1 DEF Live
      <3>2. CASE Delete(id)
        BY <1>0, <3>2, RowAssumption DEF Delete, Live
      <3> QED
        BY <1>2, <3>1, <3>2 DEF UpdatePassword, UpdateVerified, UpdateSession, Delete
    <2> QED
      BY <2>1 DEF AddsNoRow, Link
  <1>3. CASE /\ Live(users, id)
             /\ \/ \E p \in Passwords : UpdatePassword(id, p)
                \/ UpdateVerified(id)
                \/ \E h \in Ids \cup {None} : UpdateSession(id, h)
    <2>1. /\ users'[id].googleId = users[id].googleId
          /\ users'[id].email = users[id].email
      <3>1. CASE \E p \in Passwords : UpdatePassword(id, p)
        BY <1>0, <1>3, <3>1 DEF UpdatePassword, Row
      <3>2. CASE UpdateVerified(id)
        <4>1. users'[id] = [users[id] EXCEPT !.verified = TRUE, !.step = 2]
          BY <1>0, <1>3, <3>2 DEF UpdateVerified
        <4> QED
          BY <1>0, <1>3, <4>1 DEF Row
      <3>3. CASE \E h \in Ids \cup {None} : UpdateSession(id, h)
        BY <1>0, <1>3, <3>3 DEF UpdateSession, Row
      <3> QED
        BY <1>3, <3>1, <3>2, <3>3
    <2>2. \A i \in Ids \ {id} : users'[i] = users[i]
      BY <1>0, <1>3 DEF UpdatePassword, UpdateVerified, UpdateSession
    <2> QED
      BY <1>3, <2>1, <2>2 DEF AddsNoRow, Link, Live
  <1> QED
    BY <1>1, <1>2, <1>3

LEMMA ArriveReady ==
    ASSUME Typed, NEW s \in Slots, Arrive(s)
    PROVE  Ready(s)' /\ UNCHANGED users
  <1>0. req \in [Slots -> Request]
    BY DEF Typed, TypeOK
  <1>1. UNCHANGED users
    BY DEF Arrive, Register, Login, VerifyEmail, Resend, Forgot, Reset, Refresh,
           Google, Remove, store
  <1>2. \A id : IssueTokens(id).pc \notin GooglePcs /\ LoginOutcome(id).pc \notin GooglePcs
    BY DEF IssueTokens, LoginOutcome, SendOtp, Idle, GooglePcs
  <1>3. CASE \E g \in GoogleIds, e \in Emails : Google(s, g, e)
    <2>1. PICK g \in GoogleIds, e \in Emails : Google(s, g, e)
      BY <1>3
    <2>2. CASE \E id \in WithGoogleId(g) : Accept(s, "google", IssueTokens(id))
      BY <1>0, <1>1, <1>2, <2>2 DEF Accept, Become, Ready, GooglePcs
    <2>3. CASE /\ WithGoogleId(g) = {}
               /\ Accept(s, "google", [Idle EXCEPT !.pc = "google.findByEmail",
                                                   !.email = e, !.given = g])
      <3>1. req'[s].pc = "google.findByEmail" /\ req'[s].given = g
        BY <1>0, <2>3 DEF Accept, Become, Idle
      <3>2. WithGoogleId(g)' = {}
        BY <1>1, <2>3 DEF WithGoogleId
      <3> QED
        BY <1>1, <3>1, <3>2 DEF Ready
    <2> QED
      BY <2>1, <2>2, <2>3 DEF Google
  <1>4. CASE ~\E g \in GoogleIds, e \in Emails : Google(s, g, e)
    <2> SUFFICES req'[s].pc \notin GooglePcs
      BY <1>1 DEF Ready, GooglePcs
    <2>1. CASE \E e \in Emails, p \in Passwords : Register(s, e, p) \/ Login(s, e, p)
      BY <1>0, <1>2, <2>1 DEF Register, Login, Accept, Become, Idle, GooglePcs
    <2>2. CASE \E e \in Emails, c \in Codes : VerifyEmail(s, e, c)
      BY <1>0, <2>2 DEF VerifyEmail, Accept, Become, Idle, GooglePcs
    <2>3. CASE \E e \in Emails : Resend(s, e)
      BY <1>0, <2>3 DEF Resend, Accept, Become, Idle, GooglePcs
    <2>4. ASSUME NEW e \in Emails, Forgot(s, e) PROVE req'[s].pc \notin GooglePcs
      <3>1. PICK t \in ResetTokens :
              Become(s, [Idle EXCEPT !.pc = "forgot.mail", !.email = e, !.made = t])
        BY <2>4 DEF Forgot, Accept
      <3> QED
        BY <1>0, <3>1 DEF Become, Idle, GooglePcs
    <2>5. CASE \E e \in Emails, t \in ResetTokens, p \in Passwords : Reset(s, e, t, p)
      BY <1>0, <2>5 DEF Reset, Accept, Become, Idle, GooglePcs
    <2>6. CASE \E token \in signed : Refresh(s, token)
      BY <1>0, <1>2, <2>6 DEF Refresh, Accept, Become
    <2>7. CASE \E id \in Ids : Remove(s, id)
      BY <1>0, <2>7 DEF Remove, Accept, Become, Idle, GooglePcs
    <2> QED
      BY <1>4, <2>1, <2>2, <2>3, <2>4, <2>5, <2>6, <2>7 DEF Arrive
  <1> QED
    BY <1>3, <1>4

(* No handler but that of the callback goes on to its awaits.              *)
LEMMA LeavesGoogle ==
    ASSUME Typed, NEW s \in Slots, Continue(s), ~GoogleFindByEmail(s)
    PROVE  req'[s].pc \notin GooglePcs
  <1>0. req \in [Slots -> Request] /\ req[s] \in Request
    BY DEF Typed, TypeOK
  <1>1. ASSUME (\E pc : Goto(s, pc) /\ pc \notin GooglePcs) \/ Finish(s)
        PROVE  req'[s].pc \notin GooglePcs
    BY <1>1, GoneTo, Moved DEF Finish, Idle, GooglePcs
  <1>2. ASSUME NEW pc, NEW n, pc \notin GooglePcs,
               Become(s, [req[s] EXCEPT !.pc = pc, !.count = n])
        PROVE  req'[s].pc \notin GooglePcs
    BY <1>2, CountedTo
  <1>3. ASSUME NEW e, Become(s, SendOtp(e)) \/ Become(s, IssueTokens(e))
        PROVE  req'[s].pc \notin GooglePcs
    <2>1. SendOtp(e).pc \notin GooglePcs /\ IssueTokens(e).pc \notin GooglePcs
      BY DEF SendOtp, IssueTokens, Idle, GooglePcs
    <2> QED
      BY <1>3, <2>1, Moved
  <1>4. CASE \/ MailOtp(s) \/ StoreSession(s) \/ CountMiss(s) \/ MarkVerified(s)
             \/ DropCode(s) \/ DropCount(s) \/ MailResetLink(s) \/ StoreResetToken(s)
             \/ ResetFindOne(s) \/ ResetUpdate(s) \/ MailPasswordUpdate(s)
             \/ DropResetToken(s) \/ RemoveDelete(s)
    <2>1. (\E pc : Goto(s, pc) /\ pc \notin GooglePcs) \/ Finish(s)
      BY <1>4 DEF MailOtp, StoreSession, CountMiss, MarkVerified, DropCode, DropCount,
                  MailResetLink, StoreResetToken, ResetFindOne, ResetUpdate,
                  MailPasswordUpdate, DropResetToken, RemoveDelete, GooglePcs
    <2> QED
      BY <1>1, <2>1
  <1>5. CASE ReadAttempts(s) \/ ReadResends(s)
    <2>1. Finish(s) \/ \E pc, n : /\ pc \notin GooglePcs
                                  /\ Become(s, [req[s] EXCEPT !.pc = pc, !.count = n])
      BY <1>5 DEF ReadAttempts, ReadResends, GooglePcs
    <2> QED
      BY <1>1, <1>2, <2>1
  <1>6. CASE CompareOtp(s)
    <2>1. CASE OtpMatches(s)
      <3>1. Become(s, [req[s] EXCEPT !.pc = "verify.mark", !.count = 0])
        BY <1>6, <2>1 DEF CompareOtp
      <3>2. req'[s].pc = "verify.mark"
        BY <3>1, CountedTo
      <3> QED
        BY <3>2 DEF GooglePcs
    <2>2. CASE ~OtpMatches(s)
      BY <1>1, <1>6, <2>2 DEF CompareOtp, GooglePcs
    <2> QED
      BY <2>1, <2>2
  <1>7. CASE RegisterInsert(s) \/ MailWelcome(s) \/ BumpResends(s) \/ GoogleLoad(s)
    BY <1>1, <1>3, <1>7 DEF RegisterInsert, MailWelcome, BumpResends, GoogleLoad
  <1>8. CASE StoreOtp(s)
    <2>1. PICK c \in Codes : Become(s, [req[s] EXCEPT !.pc = "otp.mail", !.made = c])
      BY <1>8 DEF StoreOtp
    <2> QED
      BY <1>0, <2>1 DEF Become, Request, GooglePcs
  <1>9. CASE ResetFindUser(s)
    <2>1. CASE ~Finish(s)
      <3>1. PICK id : Become(s, [req[s] EXCEPT !.pc = "reset.findOne", !.id = id])
        BY <1>9, <2>1 DEF ResetFindUser
      <3> QED
        BY <1>0, <3>1 DEF Become, Request, GooglePcs
    <2> QED
      BY <1>1, <2>1
  <1>10. CASE GoogleUpsert(s)
    BY <1>0, <1>10 DEF GoogleUpsert, Become, Idle, GooglePcs
  <1> QED
    BY <1>4, <1>5, <1>6, <1>7, <1>8, <1>9, <1>10 DEF Continue

LEMMA ContinueReady ==
    ASSUME Typed, NEW s \in Slots, Ready(s), Continue(s)
    PROVE  Ready(s)'
  <1>1. CASE ~GoogleFindByEmail(s)
    BY <1>1, LeavesGoogle DEF Ready, GooglePcs
  <1>2. CASE GoogleFindByEmail(s)
    <2>1. UNCHANGED users /\ req[s].pc = "google.findByEmail" /\ req[s].given \in GoogleIds
      BY <1>2 DEF GoogleFindByEmail, At, store, Typed, LocalsOK
    <2>2. CASE Finish(s)
      BY <2>2, Moved DEF Finish, Idle, Ready, GooglePcs
    <2>3. CASE ~Finish(s)
      <3>1. ~Conflicting(s) /\ Goto(s, "google.upsert")
        BY <1>2, <2>3 DEF GoogleFindByEmail
      <3>2. /\ req'[s].pc = "google.upsert" /\ req'[s].email = req[s].email
            /\ req'[s].given = req[s].given
        <4>1. req[s] \in Request
          BY DEF Typed, TypeOK
        <4> QED
          BY <3>1, <4>1, Moved DEF Goto, Request
      <3>3. WithGoogleId(req[s].given) = {}
        BY <2>1 DEF Ready, GooglePcs
      <3>4. \A id \in WithEmail(req[s].email) : users[id].googleId = None
        BY <3>1, <3>3 DEF Conflicting, WithGoogleId, WithEmail
      <3> QED
        BY <2>1, <3>2, <3>3, <3>4 DEF Ready, WithGoogleId, WithEmail
    <2> QED
      BY <2>2, <2>3
  <1> QED
    BY <1>1, <1>2

LEMMA ContinueKeepsLinks ==
    ASSUME Typed, NEW s \in Slots, Continue(s), ~GoogleUpsert(s)
    PROVE  KeepsLinks
  <1>0. LocalsOK(req[s]) /\ users \in [Ids -> Row \cup {Unborn, Gone}]
    BY DEF Typed, TypeOK, StoreTypeOK
  <1>1. CASE RegisterInsert(s)
    <2>1. CASE UNCHANGED users
      BY <2>1 DEF KeepsLinks, Link, Live
    <2>2. CASE ~UNCHANGED users
      <3>1. PICK id \in Ids :
              Insert(id, NewRow(req[s].email, req[s].password, None, FALSE, 1))
        BY <1>1, <2>2 DEF RegisterInsert
      <3> QED
        BY <1>0, <3>1 DEF Insert, NewRow, KeepsLinks, Link, Live
    <2> QED
      BY <2>1, <2>2
  <1>2. CASE StoreSession(s) \/ MarkVerified(s) \/ ResetUpdate(s) \/ RemoveDelete(s)
    <2>1. req[s].id \in Ids /\ (ResetUpdate(s) => req[s].password \in Passwords)
      BY <1>0, <1>2 DEF StoreSession, MarkVerified, ResetUpdate, RemoveDelete, At,
                        LocalsOK
    <2> QED
      BY <1>2, <2>1, UpdateAddsNoRow, AddsNoLink
         DEF StoreSession, MarkVerified, ResetUpdate, RemoveDelete, BcryptPrefix
  <1>3. CASE \/ StoreOtp(s) \/ MailOtp(s) \/ ReadAttempts(s) \/ CompareOtp(s)
             \/ CountMiss(s) \/ DropCode(s) \/ DropCount(s) \/ MailWelcome(s)
             \/ ReadResends(s) \/ BumpResends(s) \/ MailResetLink(s)
             \/ StoreResetToken(s) \/ ResetFindUser(s) \/ ResetFindOne(s)
             \/ MailPasswordUpdate(s) \/ DropResetToken(s) \/ GoogleFindByEmail(s)
             \/ GoogleLoad(s)
    <2>1. UNCHANGED users
      BY <1>3 DEF StoreOtp, MailOtp, ReadAttempts, CompareOtp, CountMiss, DropCode,
                  DropCount, MailWelcome, ReadResends, BumpResends, MailResetLink,
                  StoreResetToken, ResetFindUser, ResetFindOne, MailPasswordUpdate,
                  DropResetToken, GoogleFindByEmail, GoogleLoad, store
    <2> QED
      BY <2>1 DEF KeepsLinks, Link, Live
  <1> QED
    BY <1>1, <1>2, <1>3 DEF Continue

LEMMA KeepsOneRow ==
    ASSUME GoogleIdNamesOneRow, KeepsLinks
    PROVE  GoogleIdNamesOneRow'
  BY DEF GoogleIdNamesOneRow, KeepsLinks, Link

LEMMA UpsertLinks ==
    ASSUME Typed, Linking, NEW s \in Slots, GoogleUpsert(s)
    PROVE  /\ GoogleIdNamesOneRow' /\ Ready(s)'
           /\ \A id \in Ids : /\ Live(users, id) /\ Live(users', id)
                              /\ users[id].googleId # None
                              => users'[id].googleId = users[id].googleId
  <1>0. /\ users \in [Ids -> Row \cup {Unborn, Gone}]
        /\ req[s].pc = "google.upsert" /\ req[s].given \in GoogleIds
        /\ \A i \in Ids : Live(users, i) => users[i] \in Row
    BY DEF Typed, TypeOK, StoreTypeOK, LocalsOK, GoogleUpsert, At, Live
  <1>1. WithGoogleId(req[s].given) = {}
    BY <1>0 DEF Linking, Ready, GooglePcs
  <1>2. PICK id \in Ids :
          \/ id \in WithEmail(req[s].email) /\ UpdateGoogle(id, req[s].given)
          \/ Insert(id, NewRow(req[s].email, None, req[s].given, TRUE, 2))
    BY DEF GoogleUpsert
  <1>3. /\ \A i \in Ids \ {id} : users'[i] = users[i]
        /\ users'[id].googleId = req[s].given
        /\ Live(users, id) => users[id].googleId = None
    <2>1. CASE id \in WithEmail(req[s].email) /\ UpdateGoogle(id, req[s].given)
      <3>1. users[id] \in Row /\ users[id].googleId = None
        BY <1>0, <2>1 DEF WithEmail, Linking, Ready
      <3>2. /\ users'[id] = [users[id] EXCEPT !.googleId = req[s].given, !.verified = TRUE]
            /\ \A i \in Ids \ {id} : users'[i] = users[i]
        BY <1>0, <2>1 DEF UpdateGoogle
      <3> QED
        BY <3>1, <3>2 DEF Row
    <2>2. CASE Insert(id, NewRow(req[s].email, None, req[s].given, TRUE, 2))
      BY <1>0, <2>2 DEF Insert, NewRow, Live
    <2> QED
      BY <1>2, <2>1, <2>2
  <1>4. \A i \in Ids \ {id} : Live(users', i) => /\ Live(users, i)
                                                 /\ users[i].googleId # req[s].given
    BY <1>1, <1>3 DEF WithGoogleId, Live
  <1>5. GoogleIdNamesOneRow'
    BY <1>3, <1>4 DEF GoogleIdNamesOneRow, Linking
  <1>6. Ready(s)'
    <2>1. GoogleUpsert(s) => Continue(s) /\ ~GoogleFindByEmail(s)
      BY DEF Continue, GoogleUpsert, GoogleFindByEmail, At
    <2> QED
      BY <2>1, LeavesGoogle DEF Ready, GooglePcs
  <1> QED
    BY <1>3, <1>5, <1>6

(* The steps that no slot takes.                                           *)
LEMMA OthersAddNoRow ==
    ASSUME Typed,
           \/ \E id \in Ids : Logout(id)
           \/ \E e \in Emails : Expire(e)
           \/ Tick \/ UNCHANGED vars
    PROVE  AddsNoRow /\ req' = req
  <1>1. CASE \E id \in Ids : Logout(id)
    BY <1>1, UpdateAddsNoRow DEF Logout
  <1>2. CASE (\E e \in Emails : Expire(e)) \/ Tick \/ UNCHANGED vars
    <2>1. UNCHANGED <<users, req>>
      BY <1>2 DEF Expire, ExpireCode, ExpireAttempts, ExpireResends, ExpireResetToken,
                  Tick, vars, store
    <2> QED
      BY <2>1 DEF AddsNoRow, Link, Live
  <1> QED
    BY <1>1, <1>2

LEMMA LinksKept ==
    ASSUME KeepsLinks
    PROVE  \A id \in Ids : /\ Live(users, id) /\ Live(users', id)
                           /\ users[id].googleId # None
                           => users'[id].googleId = users[id].googleId
  BY DEF KeepsLinks, Link

LEMMA StepLinking ==
    ASSUME Typed, Linking, Serial, [Next]_vars
    PROVE  /\ Linking'
           /\ \A id \in Ids : /\ Live(users, id) /\ Live(users', id)
                              /\ users[id].googleId # None
                              => users'[id].googleId = users[id].googleId
  <1>1. PICK s \in Slots : Slots = {s}
    BY DEF Serial
  <1>2. CASE GoogleUpsert(s)
    BY <1>1, <1>2, UpsertLinks DEF Linking
  <1>3. CASE \/ Arrive(s) \/ Fail(s)
             \/ Continue(s) /\ ~GoogleUpsert(s)
    <2>1. Ready(s)'
      <3>1. CASE Fail(s)
        BY <3>1, Moved DEF Fail, Finish, Idle, Ready, GooglePcs
      <3> QED
        BY <1>3, <3>1, ArriveReady, ContinueReady DEF Linking
    <2>2. KeepsLinks
      <3>1. UNCHANGED users => KeepsLinks
        BY DEF KeepsLinks, Link, Live
      <3> QED
        BY <1>3, <3>1, ArriveReady, ContinueKeepsLinks DEF Fail, store
    <2> QED
      BY <1>1, <2>1, <2>2, KeepsOneRow, LinksKept DEF Linking
  <1>4. CASE \/ \E id \in Ids : Logout(id)
             \/ \E e \in Emails : Expire(e)
             \/ Tick \/ UNCHANGED vars
    <2>1. AddsNoRow /\ req' = req
      BY <1>4, OthersAddNoRow
    <2>2. Ready(s)'
      BY <2>1 DEF AddsNoRow, Link, Linking, Ready, WithGoogleId, WithEmail
    <2> QED
      BY <1>1, <2>1, <2>2, AddsNoLink, KeepsOneRow, LinksKept DEF Linking
  <1> QED
    BY <1>1, <1>2, <1>3, <1>4 DEF Next

LEMMA InitLinking == Init => Linking
  <1> SUFFICES ASSUME Init PROVE Linking
    OBVIOUS
  <1>1. \A s \in Slots : req[s].pc = "idle"
    BY DEF Init, Idle
  <1>2. \A id \in Ids : Live(users, id) => users[id].googleId = None
    BY DEF Init, StoreInit, NewRow, Live
  <1> QED
    BY <1>1, <1>2 DEF Linking, Ready, GooglePcs, GoogleIdNamesOneRow

LEMMA AlwaysLinking ==
    ASSUME Serial
    PROVE  Spec => [](Typed /\ Linking)
  <1>1. Init => Typed /\ Linking
    BY InitTyped, InitLinking
  <1>2. Typed /\ Linking /\ [Next]_vars => (Typed /\ Linking)'
    BY StepTyped, StepLinking
  <1> QED
    BY <1>1, <1>2, PTL DEF Spec

(* When requests come one at a time, findOrCreateByGoogle opens one row    *)
(* for a Google account, although google_id has no unique constraint.      *)
THEOREM OneRowPerGoogleId == Serial => (Spec => []GoogleIdNamesOneRow)
  <1> SUFFICES ASSUME Serial PROVE Spec => []GoogleIdNamesOneRow
    OBVIOUS
  <1>1. Typed /\ Linking => GoogleIdNamesOneRow
    BY DEF Linking
  <1> QED
    BY <1>1, AlwaysLinking, PTL

(* When requests come one at a time, a row that is linked to a Google      *)
(* account is never linked to another one: the conflict check still holds  *)
(* when the row is written.                                                *)
THEOREM LinksAreStable == Serial => (Spec => GoogleLinkStable)
  <1> SUFFICES ASSUME Serial PROVE Spec => GoogleLinkStable
    OBVIOUS
  <1>1. Typed /\ Linking /\ [Next]_vars =>
          [\A id \in Ids : Live(users, id) /\ Live(users', id) /\ users[id].googleId # None
             => users'[id].googleId = users[id].googleId]_vars
    BY StepLinking
  <1> QED
    BY <1>1, AlwaysLinking, PTL DEF Spec, GoogleLinkStable

============================================================================
