------------------------- MODULE MCFallbackTransport -------------------------
(* Model checking of FallbackTransport.                                     *)
EXTENDS FallbackTransport

=============================================================================
