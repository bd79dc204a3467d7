------------------------------ MODULE MCTools ------------------------------
(* The instance of Tools that TLC checks: its constants are in MCTools.cfg.   *)
EXTENDS Tools
=============================================================================
