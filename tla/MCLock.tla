-------------------------------- MODULE MCLock --------------------------------
(***************************************************************************)
(* An instance of TransitionLock with a supervisor, a CLI and a GUI        *)
(* process.                                                                *)
(***************************************************************************)
EXTENDS TransitionLock

CONSTANTS supervisor, cli, gui, odd, even

\* The supervisor comes back while a file of its last attempt is still somewhere;
\* the two that were invoked try again when theirs is gone.
MCAttempts == [by : {supervisor}, id : {odd, even}] \cup [by : {cli, gui}, id : {odd}]
=============================================================================
