---------------------------- MODULE MCServerSetup ----------------------------
(* The instances of ServerSetup that TLC checks: the constants are in          *)
(* MCSetup.cfg and MCCertificate.cfg.                                         *)
EXTENDS ServerSetup
=============================================================================
