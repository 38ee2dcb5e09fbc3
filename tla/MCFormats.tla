------------------------------- MODULE MCFormats -------------------------------
(***************************************************************************)
(* The data formats: messages, the JSON of a user, the command line.  The  *)
(* command line shares nothing with the messages, so that it is enough to  *)
(* let each of the two move while the other is as it was at the start.     *)
(***************************************************************************)
EXTENDS JsonUtils, Config

CONSTANTS empty, x, y, number

MCLength == empty :> 0 @@ x :> 1 @@ y :> 200
\* 1000 is wider than int32.
MCInts == {-1, 0, 1000}
MCSamples == {[id |-> x, name |-> y, email |-> x, created_at |-> 1000]}

FormatsInit ==
  /\ MessagesInit
  /\ ConfigInit
  /\ env = [key \in Keys |-> NoValue] \/ kind = "GetStatsRequest"

FormatsNext ==
  \/ /\ MessagesNext \/ LoadJson
     /\ argv = <<>> /\ gateway = "starting" /\ env = [key \in Keys |-> NoValue]
     /\ UNCHANGED configVars
  \/ /\ kind = "GetStatsRequest" /\ a = New(kind) /\ b = New(kind)
     /\ ConfigNext
     /\ UNCHANGED messageVars

FormatsSpec == FormatsInit /\ [][FormatsNext]_<<messageVars, configVars>>

=============================================================================
