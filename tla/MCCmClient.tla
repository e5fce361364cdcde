----------------------------- MODULE MCCmClient -----------------------------
(***************************************************************************)
(* Small instances of CmClient.                                            *)
(***************************************************************************)
EXTENDS CmClient, TLC

CONSTANTS c1, c2

\* one caller logs in and makes every kind of call, the other is another task
\* of the same program
MainAndTask == c1 :> CallKinds @@ c2 :> {"service"}

\* two tasks, service calls only
TwoTasks == c1 :> {"login", "service"} @@ c2 :> {"service"}
=============================================================================
