---------------------------- MODULE MCContainerRun -----------------------------
(* Two launches of the two tools, under the default id. *)
EXTENDS ContainerRun
================================================================================
