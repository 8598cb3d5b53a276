----------------------------- MODULE MCPipelineRuns -----------------------------
(* PipelineRuns for TLC, with the jobs of create-cloudfoundry.yml.             *)
EXTENDS PipelineRuns, CreateCloudfoundry

JobsBefore[j \in DOMAIN Jobs] ==
    JobPassed[j] \union UNION {JobsBefore[k] : k \in JobPassed[j]}

\* The job off the graph that does both: it shares a serial group with smoke-tests, and
\* gets and puts cf-tfstate.
Credentials == {"rotate-cloudfoundry-credentials"}
================================================================================
