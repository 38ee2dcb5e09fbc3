------------------------------- MODULE MCServer -------------------------------
(***************************************************************************)
(* Which RPCs reach which of the two threads of Server.                    *)
(***************************************************************************)
EXTENDS Server, TLC

CONSTANTS t1, t2

MCOps == t1 :> {"create"} @@ t2 :> {"list", "stats"}

=============================================================================
