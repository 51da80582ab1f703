-------------------------- MODULE MCWebsiteMonitor --------------------------
(* Model-checking instances of WebsiteMonitor. *)
EXTENDS WebsiteMonitor
=============================================================================
