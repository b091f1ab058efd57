----------------------------- MODULE MCAuthMail -----------------------------
(* The instance of AuthMail for TLC.                                       *)
EXTENDS AuthMail, TLC

MailEndpoints == {"register", "login", "resend"}
============================================================================
