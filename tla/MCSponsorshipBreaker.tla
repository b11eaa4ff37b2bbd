------------------------ MODULE MCSponsorshipBreaker ------------------------
(***************************************************************************)
(* The breaker for TLC.  One of its properties is temporal, so that the    *)
(* interchangeable ticks and operators are not declared symmetric.         *)
(***************************************************************************)
EXTENDS SponsorshipBreaker
=============================================================================
