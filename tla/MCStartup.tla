------------------------------ MODULE MCStartup ------------------------------
(* Startup as TLC checks it: two images and a channel for two settings.      *)
EXTENDS Startup
=============================================================================
