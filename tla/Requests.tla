------------------------------ MODULE Requests ------------------------------
(***************************************************************************)
(* What the models of several services share: the requests in flight, and  *)
(* the value that stands for null.                                         *)
(***************************************************************************)
CONSTANTS
    Procs,  \* requests that may be in flight at once
    None
=============================================================================
