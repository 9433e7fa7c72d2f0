---------------------------- MODULE MCStartupEvents ----------------------------
(* Direct recoveries and start-ups with up to two pending forgettings.       *)
EXTENDS StartupEvents

=============================================================================
