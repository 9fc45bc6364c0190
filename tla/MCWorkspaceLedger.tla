------------------------- MODULE MCWorkspaceLedger -------------------------
(* The workspace ledger with one name and two documents, for TLC. *)
EXTENDS WorkspaceLedger, TLC

CONSTANTS board, wide, narrow

\* As a registration the one document lists every kind under the name, the other
\* nothing but events.
MCAdmits ==
  [d \in Document |-> IF d = wide THEN Admitted \X Name ELSE {"event"} \X Name]
=============================================================================
