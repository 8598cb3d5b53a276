----------------------------- MODULE MCDeployWatch -----------------------------
(* DeployWatch for TLC: an app test and the api test, or the api test alone.   *)
EXTENDS DeployWatch

AppThenApi == <<"app", "api">>
ApiAlone == <<"api">>
================================================================================
