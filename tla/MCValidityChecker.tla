------------------------- MODULE MCValidityChecker -------------------------
(* One or two certificates, every validity window over 0..5, an offset of two    *)
(* units and an interval of one.                                          *)
EXTENDS ValidityChecker, TLC

CONSTANTS a, b

MCCertOne == <<a>>

MCCertList == <<a, b>>
=============================================================================
