------------------------------ MODULE MCEmails ------------------------------
(* The instance of EmailQueue for TLC: a code and a contact form.          *)
EXTENDS EmailProperties

MailJobs == {[kind |-> "verify", no |-> 1], [kind |-> "contactUs", no |-> 2]}
============================================================================
