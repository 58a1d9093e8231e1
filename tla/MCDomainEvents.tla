--------------------------- MODULE MCDomainEvents ---------------------------
(* Model-checking instance of DomainEvents. *)
EXTENDS DomainEvents
=============================================================================
