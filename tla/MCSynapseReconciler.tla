------------------------ MODULE MCSynapseReconciler ------------------------
(* Model-checking instance of SynapseReconciler: two server names, one of  *)
(* which is the server_name of the user-provided ConfigMap.                *)
EXTENDS SynapseReconciler

MCServerNames == {"example.com", "matrix.org"}
MCInputName == "example.com"
MCNoName == "unset"

\* Bound on outside events per behaviour: a store failure and two edits are
\* each possible, but at most two of the three happen in one behaviour.
MCEventBudget == errors + edits <= 2
=============================================================================
