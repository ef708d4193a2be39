---------------------------- MODULE MCTestSession ----------------------------
(* TestSession with up to three runs, the second one failing.               *)
EXTENDS TestSession

CONSTANTS passed, failed

MCVerdicts == <<passed, failed, passed>>
=============================================================================
