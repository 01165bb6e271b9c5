------------------------------ MODULE MCDaemon ------------------------------
(* Two encoder requests and an adjudication, on a TCP and a Unix listener.  *)
EXTENDS Daemon, TLC

CONSTANTS e1, e2, a1, tcp, uds

MCCallers == {e1, e2, a1}
MCOf == (e1 :> "encoder") @@ (e2 :> "encoder") @@ (a1 :> "adjudicator")
MCListeners == {tcp, uds}
=============================================================================
