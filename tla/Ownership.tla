----------------------------- MODULE Ownership -----------------------------
(***************************************************************************)
(* What onboarding promises, without requests or table rows: an            *)
(* installation (a serial number) has no owner or one, is given up only    *)
(* with the account of its owner, and an account completes its onboarding  *)
(* only when it owns an installation.                                      *)
(***************************************************************************)
CONSTANTS Users, Serials

VARIABLES
    accounts,   \* accounts that exist
    owners,     \* owners[n]: the accounts that own installation n
    completed   \* accounts whose onboarding is complete

Owns(u) == \E n \in Serials : u \in owners[n]

Init ==
    /\ accounts \subseteq Users
    /\ owners = [n \in Serials |-> {}]
    /\ completed = {}

Open(u) ==
    /\ u \notin accounts
    /\ accounts' = accounts \cup {u}
    /\ UNCHANGED <<owners, completed>>

Claim(u, n) ==
    /\ u \in accounts
    /\ owners[n] = {}
    /\ owners' = [owners EXCEPT ![n] = {u}]
    /\ UNCHANGED <<accounts, completed>>

Complete(u) ==
    /\ u \in accounts
    /\ Owns(u)
    /\ completed' = completed \cup {u}
    /\ UNCHANGED <<accounts, owners>>

Close(u) ==
    /\ u \in accounts
    /\ accounts' = accounts \ {u}
    /\ owners' = [n \in Serials |-> owners[n] \ {u}]
    /\ completed' = completed \ {u}

Next == \E u \in Users : \/ Open(u) \/ Complete(u) \/ Close(u)
                         \/ \E n \in Serials : Claim(u, n)

Spec == Init /\ [][Next]_<<accounts, owners, completed>>

============================================================================
