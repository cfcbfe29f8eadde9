------------------------------- MODULE MCBoot -------------------------------
(* A machine of four frames to boot on, twenty pages for the processes.    *)
EXTENDS Boot
=============================================================================
