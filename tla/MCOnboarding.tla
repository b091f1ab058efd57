---------------------------- MODULE MCOnboarding ----------------------------
(* The instance of Onboarding for TLC.                                     *)
EXTENDS OnboardingProperties, TLC
============================================================================
