--------------------------- MODULE MCWebDashboard ---------------------------
(* An instance of WebDashboard with two requests in flight.                  *)
EXTENDS WebDashboard

CONSTANTS s1, s2
=============================================================================
