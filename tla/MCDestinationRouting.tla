------------------------- MODULE MCDestinationRouting -------------------------
(* Model checking of DestinationRouting.                                    *)
EXTENDS DestinationRouting

=============================================================================
