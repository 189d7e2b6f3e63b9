------------------------ MODULE MCEventDownloader ------------------------
(***************************************************************************)
(* Instances of EventDownloader: five events, batches of two or three, two *)
(* workers, windows and writes of two events, two faults.                  *)
(***************************************************************************)
EXTENDS EventDownloader
=============================================================================
