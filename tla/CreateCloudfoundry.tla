--------------------------- MODULE CreateCloudfoundry ---------------------------
(***************************************************************************)
(* The jobs of create-cloudfoundry.yml that get pipeline-trigger, with the *)
(* jobs that a run has to have passed, the serial groups, what they put    *)
(* that other jobs get the newest version of, and what they get so: the    *)
(* Terraform state, the manifest, and whether the healthcheck app is       *)
(* deployed.  Then the jobs without pipeline-trigger that put any of it or *)
(* share a serial group with the former.                                   *)
(* What the tasks of a job do is abstracted to whether it succeeds.        *)
(***************************************************************************)
EXTENDS TLC

\* A job that is not serial, then one that is, and one of a group.
Parallel(passed, reads) == [passed |-> passed, groups |-> {}, writes |-> {}, reads |-> reads]
Serial(job, passed, writes, reads) ==
    [passed |-> passed, groups |-> {job}, writes |-> writes, reads |-> reads]

GenerateSecrets == Serial("cf-deploy", {}, {}, {})
PreDeploy == Parallel({"generate-secrets"}, {"deployed-healthcheck"})
AppAvailabilityTests ==
    Serial("app-availability-tests", {"generate-secrets"}, {}, {"deployed-healthcheck"})
InternalAppAvailabilityTests ==
    Serial("internal-app-availability-tests", {"generate-secrets"}, {}, {"deployed-healthcheck"})
ApiAvailabilityTests ==
    Serial("api-availability-tests", {"generate-secrets"}, {}, {"deployed-healthcheck"})
CfTerraform == Serial("cf-terraform", {"pre-deploy"}, {"cf-tfstate"}, {"cf-tfstate"})
PsnTerraform == Serial("psn-terraform", {"pre-deploy"}, {}, {})
VpcPeeringTerraform == Serial("vpc-peering-terraform", {"pre-deploy"}, {}, {})
AzHealthcheckTerraform == Serial("az-healthcheck-terraform", {"pre-deploy"}, {}, {})
DmsTerraform == Serial("dms-terraform", {"pre-deploy"}, {}, {})
GenerateCfConfig ==
    Serial("cf-deploy", {"cf-terraform", "az-healthcheck-terraform", "psn-terraform"},
           {"cf-manifest"}, {})
CfDeploy == Serial("cf-deploy", {"generate-cf-config"}, {}, {"cf-tfstate"})
PrometheusDeploy == Serial("prometheus-deploy", {"cf-deploy"}, {}, {"cf-tfstate"})
AppAutoscalerDeploy == Serial("app-autoscaler-deploy", {"cf-deploy"}, {}, {"cf-tfstate"})
PostCfDeploy ==
    Serial("post-cf-deploy", {"cf-deploy"}, {"deployed-healthcheck"}, {"cf-manifest", "cf-tfstate"})
PostBoshDeploys ==
    Serial("post-bosh-deploys",
           {"post-cf-deploy", "prometheus-deploy", "app-autoscaler-deploy",
            "app-availability-tests", "internal-app-availability-tests",
            "api-availability-tests"},
           {}, {"cf-tfstate"})
SmokeTests == Serial("smoke-tests", {"post-bosh-deploys"}, {}, {"cf-manifest"})
AcceptanceTests == Parallel({"post-bosh-deploys"}, {"cf-manifest"})
CustomAcceptanceTests == Parallel({"post-bosh-deploys"}, {"cf-manifest"})
CustomBrokerAcceptanceTests == Parallel({"post-bosh-deploys"}, {"cf-manifest"})
BoshTests == Parallel({"post-bosh-deploys"}, {"cf-manifest"})
AppAutoscalerAcceptanceTests == Parallel({"post-bosh-deploys"}, {"cf-manifest"})
RotateCerts ==
    Serial("rotate-certs",
           {"smoke-tests", "acceptance-tests", "custom-acceptance-tests",
            "custom-broker-acceptance-tests", "bosh-tests", "app-autoscaler-acceptance-tests"},
           {}, {})
CheckCertificatesAfterRotation == Parallel({"rotate-certs"}, {})
TagRelease == Parallel({"check-certificates-after-rotation"}, {})
PipelineUnlock == Serial("pipeline-unlock", {"tag-release"}, {}, {})

RotateCfAdminPassword == Serial("smoke-tests", {}, {}, {})
RotateCloudfoundryCredentials == Serial("smoke-tests", {}, {"cf-tfstate"}, {"cf-tfstate"})
RotateBrokerCredentials == Serial("smoke-tests", {}, {}, {})
ContinuousSmokeTests == Serial("smoke-tests", {}, {}, {"deployed-healthcheck"})
ExpireAwsKeys == Serial("expire-aws-keys", {}, {"cf-tfstate"}, {"cf-tfstate"})
HealthcheckDisable == Serial("healthcheck-disable", {}, {"deployed-healthcheck"}, {})

Jobs ==
    "generate-secrets" :> GenerateSecrets
 @@ "pre-deploy" :> PreDeploy
 @@ "app-availability-tests" :> AppAvailabilityTests
 @@ "internal-app-availability-tests" :> InternalAppAvailabilityTests
 @@ "api-availability-tests" :> ApiAvailabilityTests
 @@ "cf-terraform" :> CfTerraform
 @@ "psn-terraform" :> PsnTerraform
 @@ "vpc-peering-terraform" :> VpcPeeringTerraform
 @@ "az-healthcheck-terraform" :> AzHealthcheckTerraform
 @@ "dms-terraform" :> DmsTerraform
 @@ "generate-cf-config" :> GenerateCfConfig
 @@ "cf-deploy" :> CfDeploy
 @@ "prometheus-deploy" :> PrometheusDeploy
 @@ "app-autoscaler-deploy" :> AppAutoscalerDeploy
 @@ "post-cf-deploy" :> PostCfDeploy
 @@ "post-bosh-deploys" :> PostBoshDeploys
 @@ "smoke-tests" :> SmokeTests
 @@ "acceptance-tests" :> AcceptanceTests
 @@ "custom-acceptance-tests" :> CustomAcceptanceTests
 @@ "custom-broker-acceptance-tests" :> CustomBrokerAcceptanceTests
 @@ "bosh-tests" :> BoshTests
 @@ "app-autoscaler-acceptance-tests" :> AppAutoscalerAcceptanceTests
 @@ "rotate-certs" :> RotateCerts
 @@ "check-certificates-after-rotation" :> CheckCertificatesAfterRotation
 @@ "tag-release" :> TagRelease
 @@ "pipeline-unlock" :> PipelineUnlock

JobsAside ==
    "rotate-cf-admin-password" :> RotateCfAdminPassword
 @@ "rotate-cloudfoundry-credentials" :> RotateCloudfoundryCredentials
 @@ "rotate-broker-credentials" :> RotateBrokerCredentials
 @@ "continuous-smoke-tests" :> ContinuousSmokeTests
 @@ "expire-aws-keys" :> ExpireAwsKeys
 @@ "healthcheck-disable" :> HealthcheckDisable

AllJobs == Jobs @@ JobsAside

JobNames == DOMAIN Jobs
AsideNames == DOMAIN JobsAside
JobPassed == [j \in DOMAIN Jobs |-> Jobs[j].passed]
JobWrites == [j \in DOMAIN AllJobs |-> AllJobs[j].writes]
JobReads == [j \in DOMAIN AllJobs |-> AllJobs[j].reads]
JobExcludes ==
    [j \in DOMAIN AllJobs |->
        {k \in DOMAIN AllJobs : AllJobs[j].groups \intersect AllJobs[k].groups # {}}]

\* What the jobs off the graph put is put on it as well (ResourceAssumption of
\* PipelineRuns, for all of them; TLC runs it with one).
ASSUME AsideAssumption ==
    UNION {JobWrites[a] : a \in AsideNames} \subseteq UNION {JobWrites[j] : j \in JobNames}
================================================================================
