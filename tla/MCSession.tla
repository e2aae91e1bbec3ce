----------------------------- MODULE MCSession ------------------------------
(* Values of the constants of Session for TLC. *)
EXTENDS Session, TLC

CONSTANTS t1

\* One tab: what its requests share is the flag; other tabs share the jar only.
MCTabOf == [r \in Requests |-> t1]
MCRoleAsked == [s \in States |-> "attendee"]
MCSymmetry == Permutations(Requests)
=============================================================================
