---------------------------- MODULE MCDeployment ----------------------------
(* Deployment for TLC: each kind of request and each kind of body.         *)
EXTENDS Deployment

CONSTANT alice

MCNames == {alice}
MCForms ==
  [op : {"create"}, name : Bodies] \cup [op : {"get"}, id : {NoId, 1}]
    \cup [op : {"list", "stats", "health"}]
=============================================================================
