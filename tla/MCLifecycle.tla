----------------------------- MODULE MCLifecycle -----------------------------
(* The instances of Lifecycle that TLC checks: clients that leave in           *)
(* MCLife.cfg, a watcher that may stay in MCLifeWatcher.cfg.                  *)
EXTENDS Lifecycle
=============================================================================
