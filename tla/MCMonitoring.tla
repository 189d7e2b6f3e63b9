--------------------------- MODULE MCMonitoring ---------------------------
(* Small timeouts for checking Monitoring.  In the monitor run the stuck   *)
(* timer is the shorter one, so that it goes off; in the longhandler run   *)
(* the idle timer is, as it is with the defaults (5 minutes and an hour).  *)
EXTENDS Monitoring
=============================================================================
