--------------------------- MODULE MCOtelCollectors ---------------------------
(* Small instances of OtelCollectors for TLC. *)
EXTENDS OtelCollectors

(* A collector may turn from one into the other. *)
DeploymentOrSidecar == {"deployment", "sidecar"}
=============================================================================
