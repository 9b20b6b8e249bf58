---------------------------- MODULE MCLeadIntake ----------------------------
(* Two schedulers, three records and reads of at most two of them.           *)
EXTENDS LeadIntake
=============================================================================
