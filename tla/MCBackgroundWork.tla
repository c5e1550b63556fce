-------------------------- MODULE MCBackgroundWork --------------------------
(* Instance for TLC of two components that work in the background: the       *)
(* monthly invoices and the batches of credential offers.  They share no     *)
(* state, so each behaviour runs one of them, chosen at its start, and the   *)
(* other stays as it began.                                                  *)
EXTENDS InvoiceGeneration, BatchIssuance

VARIABLE live

BackgroundInit ==
  /\ GenerationInit /\ BatchInit
  /\ live \in {"INVOICES", "BATCH"}

InvoicesRun == live = "INVOICES" /\ GenerationNext /\ UNCHANGED <<batchVars, live>>
BatchRuns == live = "BATCH" /\ BatchNext /\ UNCHANGED <<generationVars, live>>

\* The fairness of each component, for the behaviours that run it: no batch is
\* ever queued in those of the invoices.
BackgroundSpec ==
  /\ BackgroundInit /\ [][InvoicesRun \/ BatchRuns]_<<generationVars, batchVars, live>>
  /\ WF_generationVars(live = "INVOICES" /\ NextMonth)
  /\ \A r \in Runs : WF_generationVars(live = "INVOICES" /\ Generate(r))
  /\ BatchFairness
=============================================================================
