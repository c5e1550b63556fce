------------------------------- MODULE SqlNull -------------------------------
(***************************************************************************)
(* The NULL of the database's columns.  It is declared once, for all       *)
(* components: modules that are composed, or reasoned about together, have *)
(* one NULL.  Each module assumes which of its values it differs from.     *)
(***************************************************************************)
CONSTANT NULL
=============================================================================
