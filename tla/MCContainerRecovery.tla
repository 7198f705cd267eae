----------------------- MODULE MCContainerRecovery -----------------------
(* Instances of ContainerRecovery for TLC. *)
EXTENDS ContainerRecovery

CONSTANTS g0, g1, g2

MCGeneration == {g0, g1, g2}
MCConfigured == {g1, g2}
=============================================================================
