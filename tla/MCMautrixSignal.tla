--------------------------- MODULE MCMautrixSignal ---------------------------
(* MautrixSignalReconciler instantiated for TLC. *)
EXTENDS MautrixSignalReconciler

\* Two server names: an edit of the Synapse can change its name.
MCServerNames == {"example.com", "matrix.org"}
MCNoName == "unset"
MCInputDomain == "user.example"
=============================================================================
