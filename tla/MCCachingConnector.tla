------------------------- MODULE MCCachingConnector -------------------------
(* Instances of CachingConnector for TLC.                                  *)
EXTENDS CachingConnector, TLC

=============================================================================
