------------------------------- MODULE MCAuth -------------------------------
(* Instances of AuthService for TLC; the .cfg files choose the constants.  *)
EXTENDS AuthProperties, TLC

\* Slots are interchangeable; so are ids, codes, tokens, passwords and
\* Google accounts, which the program only compares for equality.
Symmetry == Permutations(Slots) \cup Permutations(Ids) \cup Permutations(Codes)
            \cup Permutations(ResetTokens) \cup Permutations(Passwords)
            \cup Permutations(GoogleIds)

OtpEndpoints == {"register", "login", "verifyEmail", "resend"}
ResetEndpoints == {"forgot", "reset", "login"}
GoogleEndpoints == {"google", "register", "verifyEmail"}
SessionEndpoints == {"login", "refresh", "logout"}
AccountEndpoints == GoogleEndpoints \cup SessionEndpoints \cup {"remove"}
============================================================================
