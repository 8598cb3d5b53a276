# A TLA+ model of paas-cf

paas-cf deploys and runs GOV.UK PaaS: a Concourse pipeline that deploys Cloud
Foundry with BOSH and Terraform, the scripts that rotate its credentials, the
tests that watch its availability while that happens, and the programs that
export its metrics. Most of the repository is configuration (BOSH manifests,
Terraform, dashboards) and vendored libraries. This directory models the parts
that decide something: where several goroutines, jobs, VMs or runs of the
pipeline act on shared state, and where a step that fails half way leaves
something behind.

Paths below are relative to the root of the repository. `PROJECT.json` lists the
components, runs, theorems and findings, and for every definition the lines it
models.

1. [Inventory](#inventory)
2. [Modules](#modules)
3. [Runs](#runs)
4. [Fairness](#fairness)
5. [Proofs](#proofs)
6. [Findings](#findings)
7. [What is left out](#what-is-left-out)
8. [Plan](#plan)

## Inventory

For each component: the state it keeps, its operations, whom it talks to, what
is hard about it, and what makes it correct.

### Modelled

**Availability monitor** (`platform-tests/availability/monitor`).
A `Monitor` keeps a list of tasks and, once `Run` is called, five kinds of
goroutine: the caller of `Run` waiting for the report, a producer, `numWorkers`
workers, a statistics collector, and whoever calls `Stop`. They share two
buffered channels (`queue`, `results`), an unbuffered one (`reporter`) and a
`halt` channel that `Stop` closes. *Hard:* blocking sends do not watch `halt`; the
collector leaves as soon as it sees `halt`; `Stop` looks and then closes, in two
steps. *Correct:* no execution is counted twice or lost in transit, the report
misses a bounded number of executions, slow tasks throttle the producer, `Run`
returns after `Stop` even if every task hangs, and the report is final.

**BBS tolerance** (`platform-tests/availability/api/api_test.go`).
The task that the monitor's workers run in parallel counts the failures it
tolerates down in a captured variable, without a lock. *Hard:* the race.
*Correct:* exactly as many failures are tolerated as the variable grants.

**Availability tests and the run they watch**
(`platform-tests/availability/{api,app,helpers}`,
`concourse/tasks/wait-for-*-availability-tests.yml`, and the jobs `pipeline-lock`,
`pre-deploy`, `*-availability-tests`, `cf-deploy`, `post-cf-deploy` of
`concourse/pipelines/create-cloudfoundry.yml`).
A run of the pipeline is known by its version of the `pipeline-trigger` resource.
`pre-deploy` waits until each test has signalled that it started, the api test by
a job file in S3, the app tests by requests that carry the version and show in an
app's log. The tests poll Concourse until `post-cf-deploy` of their version has
ended. *Hard:* runs overlap when locking is off or the lock was released by hand;
jobs are rerun; signals are left over or disappear; only the last ten versions
are looked at; the tests are serial and may be stuck for 12 hours behind those of
a failed run; the polling goroutine, `Stop` and the spec's verdict race.
*Correct:* no deploy starts unwatched, no test passes before its deploy is over,
every test ends.

**Certificate rotation** (`concourse/scripts/ca-rotation-*.rb`, `check-certificates.rb`,
`check-certificate-hierarchy.rb`, `lib/credhub.rb`; jobs `rotate-certs` and
`check-certificates-after-rotation`). CredHub keeps the versions of every certificate and,
per CA, one *transitional* flag. Each pass removes the flag of a CA whose old version is
flagged, moves the flag of a CA whose newest version is flagged to the older one and
regenerates what that CA signs, regenerates expiring certificates, and makes a flagged new
version of an expiring CA. Only a BOSH deploy hands CredHub's values to the VMs, one VM at a
time. *Hard:* correctness depends on what happens between two passes; every pass must
recognise from the flags alone where each CA is; any call may fail; the job can be started
again with no deploy in between. *Correct:* at every moment of every deploy all VMs trust
each other, nothing stays signed with a retired version, every rotation completes.

**Rotation of the database key** (job `rotate-database-encryption-keys`, the tasks of
`cf-deploy` and `post-cf-deploy` that deploy and encrypt again,
`operations.d/320-cc-database-key-rotation.yml`). CredHub keeps the current key and one
old key, each with an id. A deploy hands both to the VMs one by one; then an errand
encrypts every row again with the current key, unless nothing changed since it last
succeeded. *Hard:* the rotation is not under the pipeline's lock and runs at any time;
it is a dozen calls, and may die at each; a second rotation before the errand overwrites
the old key; VMs with old and new keys write to the same database during a deploy.
*Correct:* what is stored can be read with what was deployed, and no row keeps a key
that was rotated out.

**create-cloudfoundry: job graph and lock** (`create-cloudfoundry.yml`,
`concourse/scripts/create_pool_lock.sh`, `self-update-pipeline.sh`). Some seventy jobs,
26 of them linked by `passed` from `pipeline-lock`, which claims a lock in a git
repository and makes a version of `pipeline-trigger`, to `pipeline-unlock`, which
releases it. Jobs hand each other Terraform's state and the manifest in S3, and many get
the newest version instead of the one their run has seen. Jobs off that graph, started by
timers and by hand and not under the lock, put the same resources (`expire-aws-keys` and
`rotate-cloudfoundry-credentials` put `cf-tfstate`, `healthcheck-disable` puts
`deployed-healthcheck`) or share a serial group with one on it (`rotate-*` and
`continuous-smoke-tests`, with `smoke-tests`). *Hard:* the lock has no owner:
`pipeline-release-lock` releases whoever holds it; a `pipeline-lock` that dies leaves the
lock claimed with no run; jobs fail and are started again; some exclude each other.
*Correct:* one run deploys at a time, what a job uses comes from its own run, and a
run can always go on.

**Metrics stream** (`tools/metrics/pkg/metrics`, `tools/metrics/main.go`).
Pollers write metrics and errors to bounded channels; a goroutine per poller
copies them to a combined channel that the main loop reads. Closing a buffer
cancels a context, and a goroutine then closes the channel. *Hard:* blocked
writers, writes to closed channels, closing that propagates in both directions,
end of stream read over and over. *Correct:* order and completeness per poller,
bounded lag, independence of pollers, closing ends everything.

**Sleeping environments and zones** (`concourse/scripts/fast-startup-and-shutdown-cf-env.sh`,
run by `fast-startup-cf-env` and `fast-shutdown-cf-env`; jobs `disable-az-*` and `enable-az-*`
of `create-cloudfoundry.yml`, `terraform/az-management`). The script lists the VMs, or the
databases, that are in one state, asks AWS to bring them to the other, and waits until as
many as it asked for are there. AWS keeps their state; BOSH keeps whether its resurrector,
which makes every VM again that it cannot reach, is on. *Hard:* a build fails or is aborted
half way and the next one begins from what it left; instances are deleted, made again or
maintained meanwhile; the wait has no limit; the two jobs are serial only each for itself;
two unrelated features switch one resurrector. *Correct:* the resurrector is never on over
VMs that are stopped or cut off, a build that ends well has done what it announces, and
it ends.

**Gauges that count** (`AppCountGauge` and `ServiceCountGauge` of
`tools/metrics/gauges_cf.go`, and the gauges of `tools/metrics/pkg/prometheus_reporter`). A
poll lists apps (or service instances), spaces, orgs and quotas, a call after the other,
joins the lists and writes a number per label; the client requests each list page by page
(`go-cfclient`, `next_url`). The reporter keeps the numbers of labels that a batch does not
mention. *Hard:* tenants and operators change everything between the requests, and a
deletion moves what follows to a page that may have been read; a failed call ends the poll;
a panic ends the process. *Correct:* a change makes wrong at most the count of what it
changes or moves, and the numbers become right when the changes end.

### Not modelled yet

**Rotation of JWT keys, passwords and UAA's passphrase** (jobs `rotate-*` of
`create-cloudfoundry.yml`). *Hard:* the JWT job overwrites the old signing key and
makes the id before the key; a new admin password is in CredHub before UAA is
told. UAA's passphrase goes through the calls that `KeyRotation` models for the
Cloud Controller's key, but the pipeline runs no errand for it.

**Vars store rotation** (`manifests/cf-manifest/scripts/rotate-vars-store-secrets.rb`).
A pure function on a YAML store: deletion, rotation with an `_old` copy. No pipeline or
script of the repository calls it any more; its spec does.

**User management** (`tools/user_management`). Reconciles UAA users and groups
with a file, a call at a time. *Hard:* read, compare and write are not atomic.

**Database migration** (`scripts/migrate-db.sh`). Creates the target, renames the source,
copies, rebinds, deletes the source. Its first call, `cf create-service` (line 80), gets
plan and name in one pair of quotes, as one argument, and fails for lack of a third: the
script ends there, and there is nothing after it to check.

**The other gauges** (`tools/metrics/gauges_*.go`, `pkg/pingdumb`), the reporter's counters
and `pkg/debug`: an answer of an API turned into a number; sequential.

**Pipeline tools** (`concourse/scripts/unbind_job.rb`, `run_job.sh`,
`set_pipeline_ordering.rb`, `tools/pipecleaner`): functions on a pipeline's YAML; the
traversal of `unbind_job.rb` is worth a reference definition.

**Release tagging** (`concourse/scripts/tag_release.sh`): check, tag, push; two
pipelines that promote at once race.

**Kick-off, autodelete, destroy and remote monitoring pipelines**: sequences of
jobs with no state beyond Concourse's and Terraform's.

**Redis update notifications** (`tools/aws_redis_update_manager`): API calls and
formatting; the hash `fnv.rb` is a function on 32 bit integers.

**User and buildpack e-mails** (`tools/user_emails`, `tools/buildpacks`), **operator
scripts** (`scripts/`), **Logit** (`common-go`, `config/logit`), **manifests**,
**Terraform**, **acceptance tests and example apps**: queries and text,
one-off sequences run by a person, stateless clients, declarative configuration,
tests of other systems.

### How they interact

The lock serialises runs; a run's `pre-deploy` waits for the tests; the tests run
the monitor (and the BBS tolerance inside its workers) and poll the run;
`cf-deploy` hands CredHub's values to the VMs; when all tests have passed
`rotate-certs` changes CredHub for the next run; `pipeline-unlock` ends the run.
The metrics app runs beside all this: its gauges write to the stream, its main loop hands
what it reads to the reporter. `CountGauges` takes a poll's batch to the reporter in one
step; that it arrives, complete and in order, is `KeepsStream` and `Delivered`. Sleeping
and waking an environment, and disabling a zone, meet in BOSH's resurrector and are one
module for that reason. In the model, `DeployWatch` takes from
`Monitor` that `Run` returns after `Stop` (`RunReturns`) and makes no use of the
lock; `CertRotation` takes from the pipeline that it is locked: a deploy does not
start while the last run rotates. `PipelineRuns` shows that the lock does this:
`rotate-certs` and `cf-deploy` are on the way to `pipeline-unlock`, one before the other, and
`BuildsInTurn`, which `DeploysAreAlone` proves from `OneRunAtATime` and the order of the
jobs, says that such jobs are never built at the same time, as long as nobody starts a job
again that has succeeded. `CertRotation` lets `rotate-certs` be started so, but beside no deploy.

## Modules

| Module | Models | Proofs |
| --- | --- | --- |
| `Monitor`, promise `AvailabilityReport` | the monitor's goroutines and channels | `MonitorProofs` |
| `BbsTolerance` | the shared tolerance counter | `AvailabilityProofs` |
| `DeployWatch` | runs, their tests, and how they find each other | `AvailabilityProofs` |
| `CertRotation` | CredHub, the rotation scripts, deploys | `CertRotationProofs` |
| `PipelineRuns`, with the jobs of `CreateCloudfoundry` | the lock, runs, builds, what they put | `PipelineRunsProofs` |
| `KeyRotation` | CredHub's database keys, deploys, the errand, the rows | `KeyRotationProofs` |
| `MetricStream`, promise `MergedStream` | pollers, buffers, copying, closing | `MetricStreamProofs` |
| `DevEnvironment` | sleeping and waking builds, zones, the resurrector, AWS | `DevEnvironmentProofs` |
| `CountGauges` | polls that join four lists of a changing Cloud Foundry, the reporter | `CountGaugesProofs` |

The `MC*` modules give constants that a cfg cannot write and the symmetry sets.
Definitions called `X_...`, `Y_...` or `..._Something` right before a definition
and commented "Deviation" are plausible bugs: with the definition replaced by
the deviation, a property of the run must fail. No specification uses them.

**Monitor.** An action is what a goroutine does between two points where it can block.
`queue` and `results` are the channels; `halt` is "nil", "open" or "closed"; a `select` with
two ready cases is two enabled actions. A task ends with any of three outcomes (nil, an
error, an error that a warning matcher matches) or never. `StopCheck` and `StopClose` are
the two steps of `Stop`, so two callers interleave, and calls before `Run` are included (the
nil channel makes `close` panic). `executed`, `produced` and `saw` are history.
`HaveTestsPassed` is the Go function, with the target in units of `1/Unit` of a percent, so
that it need not be an integer (the code's is 99.95). Where float64 may round either way,
within `Rounding` of a unit, `MayReach` lets the verdict pass: `VerdictSound` then holds for
whatever the division returns. `AvailabilityReport` knows neither goroutines nor channels:
executions end at any time, are collected at most once, at most `Lag` are missing, and
`Return` follows `Stop`. `KeepsPromise` maps `report.count` and the state of `Run` and
`halt` to it, with `Lag` twice the number of workers.

**BbsTolerance.** A decrement is a read and a write; the comparison after it uses
the value just written or reads the variable again, as the compiler likes. An
execution counts one failure at most, as in the code (the second call is only
made when the first succeeds).

**DeployWatch.** Runs are `1..MaxRuns`, their versions; `secrets` are those that
`generate-secrets` has passed on. Per run: the gate (`pre-deploy` and the index of the wait
it has got to), the jobs up to `cf-deploy`, the newest build of `post-cf-deploy`; per test
and run, where the test is. `signal` is what `pre-deploy` can see: job files and requests in
logs. `GateSees` uses `Shows`, which is the unanchored `grep` of the app waits: a run's
number is also found at the beginning of a longer numeral, in base `Radix`. `ApiPollFails`,
`ApiPollerFails` and `ApiVerdict` separate the goroutine's `Stop`, its expectation and the
spec's verdict. `InPage` is the page of versions that `buildsWithVersion` reads. Every job
may fail, be aborted and be started again, the tests also after they passed (`ByHand`;
`Triggered` is Concourse with the newest version); files survive a failed deletion; logs
rotate. Not so a deploy that worked, or a `generate-secrets` of an older run than the last
that passed it: to build those again would be to run the pipeline again, for an old run. The
environment is one whose healthcheck app is deployed: otherwise these jobs do nothing.

**CertRotation.** A certificate is modelled by what rotation depends on: how many
versions it has, which of them is flagged, which version of its CA signed its
current one, and how many of its versions are within the expiry window (versions
expire in the order they were made). `Active` is what a lookup with
`current=true` returns. `View` is what a VM deployed now gets: the versions its
certificates are signed with, and the versions it trusts (the `.ca` of a
certificate is all active versions of its signer). A deploy resolves the view when
it starts and hands it out VM by VM. A script is a loop over CredHub's list in
any order, a call at a time; `JobDies` may hit between any two calls.
`StartRotation` is the pipeline, after a deploy whose tests passed; `StartRotationAgain` is
`rotate-certs` started by hand, between deploys, any number of times. `hasty` is history: since
the last deploy that worked a pass began while some VM still lacked what the pass before had
changed (`Handed`). Nothing in the code prevents it, and then a VM gets a certificate of a version
that others do not trust; `Trust`, `TrustedBeforeUse` and `RetiredAfterUse` say what
holds otherwise, and `PipelineIsNotHasty` that the pipeline itself never does it.
`RegenerateSigned` includes intermediate CAs: `cert["signs"]` is a list of names, so
the script's test for `leaf["signs"]` never finds anything to spare.

**PipelineRuns.** A run is a version of `pipeline-trigger`. The actions up to `Bump` are
the steps of `pipeline-lock` (`LockFails` is its end at any of them), `ReleaseByHand` is
`pipeline-release-lock`. `Ready` and `Excluded` are Concourse: the newest run that
has passed all constraints, when no build of the job or of its serial groups is under
way. `latest` is, per resource, the run whose putting its newest version contains; a build that
fails may have put some of its resources (the `ensure` of `cf-terraform`).

Jobs off the graph (`Aside`) are built at any time. They put what they got, changed a little,
or something that is of no run: `aside` keeps what each has got, `Overtaken` says that a run
has put something newer since, which is lost when the job puts its own. `forget-access-keys`, in
`expire-aws-keys` and `rotate-cloudfoundry-credentials`, takes keys out of a copy of
`cf-tfstate` in this way, while `cf-terraform` puts another.

The graph is a parameter. `CreateCloudfoundry` is the pipeline's, a definition per job: what it
waits for, its serial group, the resources that it puts and the ones that it gets without
a constraint, as far as a job of a run puts them (`cf-tfstate`, `cf-manifest`,
`deployed-healthcheck`). `pre-deploy` and the tests get `deployed-healthcheck`, and `cf-terraform`
gets `cf-tfstate`, before their own run puts it: `OwnInputs` claims nothing of those,
they are meant to get what an earlier run has left. The tasks of a job are abstracted
to whether it succeeds.

`ClaimMayFail`, `HandRelease` and `HandStarts` are what the code permits and
the lock cannot survive: `lock-the-pipeline` is under a `try` that also covers the
claim, an operator may release the lock while a run goes on, and Concourse lets a job that
has succeeded, or a build of an old run, be started again. With any of them two runs are built
at once, and a job gets another run's manifest; a pipeline deployed
with `disable_pipeline_locking` is in the same position. The properties are about
none of them (`Orderly`).

**KeyRotation.** Keys and ids are numbered as CredHub generates them; a row is known
by the pair of id and key it is encrypted with. `job` is the call the rotation comes to
next; only the calls about the Cloud Controller's key are modelled. A VM's
configuration is the map that the ops file writes and the pair the VM writes with.
The map's keys are variables themselves, so when the new key does not have its id yet
the map has one entry for two keys: either may win. `Write` is any VM at any time.
`careless` is history: a rotation began before the errand had caught up with the last
one, or a deploy found a new key under an old id (the job makes the key, line 6277, and its
id, line 6278, in two calls, and may die in between). Nothing in the code prevents
either; the properties say what holds otherwise.

**MetricStream.** An event is a metric or an error: both go the same way, the
error written by the caller of `CopyMetrics`. `Send` blocks while the channel is open
and full and panics once it is closed; a closed channel is still read until it is
empty. `Close` may hit any buffer at any time. `CopierEnds` and `MainEnds` are the
loops that read the end of stream over and over. `MergedStream` knows no buffers:
per source, what is read is a prefix of what was written, at most `Lag` behind.

**DevEnvironment.** `job[a]` is the build of the job for action `a`: the step of `main` it
is at, and within a step whether it lists, calls or waits. `ids` is what it has listed,
`left` what it has not called for. EC2 is called once for all, RDS once for each, and either
refuses an instance that is on its way elsewhere. `Waits` compares counts, as the script
does; a VM that was made again has another id, and when AWS has forgotten the old one a
query for it fails (`Forgotten`), while one for a deleted database finds nothing. As in the
code, `Begins` looks at the state of VMs only, and a BOSH that does not answer means that
the resurrector is not touched (`skip_bosh`). Any call may fail and any build be aborted.
`DisableResurrector` and `DisableZone` are the two tasks of `disable-az-*`, with the end of
the job without the second. `known` is history: the instances a build could know of.
`overlapped` and `unguarded` are history too, and the properties are about behaviours in
which builds did not overlap (`WakingWakes` says so itself, because the run stops at an
overlap), BOSH answered, and nobody woke the environment while a zone was disabled. Nothing
in the code prevents any of these: without `overlapped` TLC finds a waking build that waits
for ever for databases that the other job has stopped, and a resurrector that is turned on
over stopped VMs.

**CountGauges.** The actions above the line are Cloud Foundry: whatever may change between
two calls, with what its database sees to (`Consistent`: a space goes after its apps, an org
after its spaces, a quota after its orgs). A poll reads each list page by page: `Read` is
the loop that every list of the client is. `poll.ahead` is what the next pages hold. What is
made comes last; what is deleted disappears from the pages ahead or, from one that was read
(`Deleted`), moves the first of the next page where it is not read any more. Which things
share a page is left open. What is deleted does not come back (`deleted`): another has
another guid. `Placed` and `Found` are the items the loop does not skip; `Panics` is the
case in which `ServiceCountGauge` goes on with a quota that it has not found. The reporter's
numbers survive the poll and not the process. `steady` is history: the items that have not
changed since the poll began, nor their org's quota, and that no deletion has taken from the
poll by moving them, their space, org or quota (`Needing`) to a page that was read. A list
of services or plans that fails ends a poll without an error (lines 203 and 207); to the
numbers this is the same as an error.

## Runs

All runs end within minutes. `CHECK_DEADLOCK FALSE` is set where the system really
may stop: goroutines that have ended, or a bound that has been reached.

| Run | Question | Instance |
| --- | --- | --- |
| `monitor` | what may the report miss, how wrong may the verdict be, is the producer throttled, is the report final? does `Run` return although tasks hang, does everything settle, when does `Stop` panic, is the promise kept? | 1 worker, 2 callers of Stop, 5 tasks handed out; 285,000 states |
| `bbs` | is an error ever reported too early? | 3 workers, tolerance 3, 6 failures; 4,700 states |
| `watch` | does a deploy start unwatched, does a test pass too early, does every test end? | 2 runs, an app test and the api test, a page of 1 version, radix 2; 970,000 states |
| `watch_serial` | does the newest run get its test although an older one's holds the serial job? | 2 runs, the api test, a page of 2 versions; 31,000 states |
| `watch_contact` | does a test that lost sight of Concourse fail? (violated) | 1 run |
| `cert_rotation` | do all VMs trust each other, is anything orphaned, put to use or retired too early, does every rotation complete? | 1 CA, 2 certificates of it, 2 VMs, 2 ageing versions; 519,000 states |
| `cert_rotation_crash` | does running the pipeline again repair a job that died? (violated) | 1 CA, 1 certificate, 2 VMs |
| `keys` | do stored rows stay readable, and on which VMs; is every row encrypted again? | 2 VMs, 3 keys; 88,000 states |
| `pipeline` | does the lock keep runs apart, does a job get its own run's files, can a run always go on? | the 26 jobs of the pipeline and `rotate-cloudfoundry-credentials`, 2 runs; 946,000 states |
| `environment` | is the resurrector ever on over a VM that is stopped or cut off, does a build do what it announces, does it end, does waking wake everything? | 1 VM, 2 databases, 1 zone; 99,000 states |
| `gauges` | how wrong may the numbers be, when does the app panic, do the numbers become right? | 2 apps, 1 service instance, 2 spaces, an org, 2 quotas, pages of 1, 2 changes; 589,000 states |
| `metrics` | order, completeness, bounded lag, delivery while others hang, closing | 2 pollers, buffers of 1, 2 events each; 71,000 states |

The bounds and why they are enough:

- `MaxProduced` is more than both channels and the worker can hold (3), so the queue fills,
  the results fill, the worker is stuck in its send and the producer still has a task to send.
  `LossBounded` and `Backpressure` reach their bounds. What the run shows of one worker's
  executions and of the report (`ResultsConserved`, `LossBounded`, `Backpressure`, `VerdictSound`,
  `ReportFinal`, and `KeepsPromise` but for its fairness) is proved for any number of workers; two
  callers of `Stop` are the fewest that overlap.
- `MaxFailures` is twice the tolerance: enough for each of three workers to lose a
  decrement and for errors to be reported after that.
- `Radix` is 10 in the code. With 2 the second run's number, 10, begins with the
  first's, 1, which base 10 would need ten runs for. Nothing else depends on it.
- `PageLimit` is 10 in the code; with two runs and a page of one version (`watch`), a
  version falls off the page while its test still polls, and the test ends. With a page of
  two (`watch_serial`) nothing falls off, and the test of a run whose deploy failed keeps
  the serial job until its 12 hours are over: without `TimesOut` TLC finds
  `NewestRunIsTested` violated.
- `MaxKey = 3` is two rotations: the second starts from whatever the first has left,
  and is the one that loses the first key. Two VMs are enough for a mixed deploy: what
  one VM can read does not depend on the others but through the rows.
- Two runs are the fewest that overlap; builds of the first may be started again at any
  time, and the second `pipeline-lock` may be waiting, have died with the lock, or have had
  it released by hand, during or after all of it. The proofs are for any number of runs and
  any graph. Of the jobs off the graph the run has the one that does both, puts `cf-tfstate`
  and excludes `smoke-tests`; two of them take longer than the run may. TLC finds
  `OwnInputs` violated without its exception for overtaken resources, and `CanGoOn` if
  builds off the graph counted, so both cases happen. That the assumptions of the proofs are
  true with all six is checked, too (`GroupAssumption`; `AsideAssumption` of
  `CreateCloudfoundry`).
- `MaxAged = 2` lets a CA rotate twice, so that a second rotation starts on top of the flags
  and certificates that the first, complete or not, has left. Two certificates of it let a
  job die between two regenerations that expire alone. Two CAs, with passes started by hand,
  have more than 16 million states; the theorems are for any number. Two VMs are enough for
  a mixed deploy, since `Trust` is about pairs.
- Two databases are the fewest of which one can be deleted or maintained while a build
  is between its calls for them, or waits for the other. The theorems on `DevEnvironment`
  are for any number of VMs, databases and zones. `Apart` stops TLC at an overlap, of
  which every property says that it holds only before it or without it.
- `MaxChanges = 2` lets something be deleted from a page that was read and something else that
  the move hides change, within one poll, or an org get another quota and its old one be deleted.
  With pages of one every list of two has a page to move from; the apps are the fewest that
  differ in one label, and the second space is there to be deleted before the first. Every
  consistent Cloud Foundry is an initial state. If `steady` did not leave out what moves
  (`Needing`), TLC would find `CountsSteady` and `DiesOnlyOnChange` violated.
- With buffers of 1 (8 in the code) and two events per poller a poller fills its
  buffer and blocks; the combined buffer holds as many events as there are
  pollers, as in the code. `Lag`, how far `MergedStream` lets the main loop be behind, is then 4,
  more than a poller writes: that bound binds in the theorem (`StreamIsKept`) only, order and
  completeness in the run as well.

The type invariants of `Monitor`, `PipelineRuns`, `DevEnvironment` and `CountGauges` are
proved and not checked again by the runs.

In `cert_rotation` a job may die between any two calls
except after it moved a flag and before it regenerated everything that CA signs
(`CrashWhileRegenerating = FALSE`); `cert_rotation_crash` shows what happens there.

## Fairness

- `Monitor`: `SchedulerFairness` is weak fairness of the collector's halt case and of
  the rendezvous on `reporter`. The halt case stays enabled once `halt` is closed and
  the collector is in its `select`; Go picks among ready cases at random, so it is
  not passed over for ever. Nothing is assumed of tasks, of the timer or of
  callers of `Stop`. `SettlesAfterStop` assumes `TaskFairness` besides: tasks end, and a
  `select` that is at its halt case again and again takes it (strong fairness, for
  the same reason).
- `DeployWatch`: the tests poll as long as they run. Weak fairness is assumed of a poll
  whose answer is certain (the deployment is complete, or its version is off the
  page) and of the verdict after `Stop` (`RunReturns` of `Monitor`). The pipeline owes
  nothing. `NewestRunIsTested` also assumes `Patience`: 12 hours pass, Concourse
  starts a build that can start, and operators do not start old tests again for ever (each
  would have the serial job for 12 hours).
- `CertRotation` (`FairSpec`): the pipeline is run again and again, its jobs make progress, and
  from some time on they stop failing and nobody starts `rotate-certs` alone. The last two are
  needed: a job that always fails rotates nothing, nor does one that runs while nobody deploys.
  `cert_rotation_crash` uses `PipelineSpec`, in which operators only run the whole pipeline again,
  as the comment that it refutes tells them to. Operators are told to run the pipeline again
  (`check-certificates.rb:77-81`).
- `KeyRotation`: the pipeline is run again and again, its jobs make progress, and from
  some time on they stop failing. Nothing is assumed of the rotation job: an operator
  starts it. `KeyRetired` is about behaviours in which nobody was careless.
- `DevEnvironment`: AWS brings an instance to the state it was asked for; there is, again
  and again, a moment in which no database is under maintenance; a build that runs takes its
  next step, and a wait that sees the wanted state again and again ends (strong fairness:
  the loop polls for ever). Nothing is assumed of whoever starts builds or of builds
  succeeding: `WakingWakes` is about behaviours in which they do.
- `CountGauges`: each gauge polls again and again (`metrics.go` polls on a timer), a poll goes
  on, and the platform starts a crashed app again. From some time on calls succeed and
  nobody restarts the app: a gauge that always fails shows nothing. Of Cloud Foundry nothing
  is assumed; `Settles` is about behaviours in which it stops changing.
- `MetricStream`: goroutines are scheduled, but a poller's function may hang for ever.
  `CloseEndsAll` assumes that functions return (`PollerFairness`): a poller looks at its
  context between two calls only.

## Proofs

TLAPS checks the proofs for every value of the constants that satisfies the assumption named
in each module (finite non-empty `Worker`, at least one task, a target from 0 to 100
percent, a positive tolerance, `SignedBy` a function on `Cert`, a finite graph of jobs
without a cycle, ...). TLC evaluates each assumption for the constants of the runs; those of
`PipelineRuns` it evaluates for the pipeline's own graph. `AvailabilityProofs` extends two
modules that share nothing: `DeployWatch`, and `BbsTolerance`, whose specification is
`ToleranceSpec`.

| Theorem | States | Argument |
| --- | --- | --- |
| `MonitorProofs!TypeCorrect` | `[]TypeOK` | inductive as it stands |
| `MonitorProofs!LossIsBounded` | `[]LossBounded` | `FlowInv`: executed = reported + results in the channel + workers that are sending, in total; the channel and the workers bound the difference |
| `MonitorProofs!ProducerIsThrottled` | `[]Backpressure` | `FlowInv` also counts what was produced, the queue and the busy workers |
| `MonitorProofs!ReportIsFinal` | `ReportFinal` | the collector is done once `Run` has returned |
| `MonitorProofs!NoResultIsLost` | `[]ResultsConserved` | `ConservedInv`: `FlowInv`, and the same for each outcome |
| `MonitorProofs!VerdictIsSound` | `[]VerdictSound` | arithmetic on `ConservedInv` and `LossBounded` |
| `MonitorProofs!StopPanicsOnMisuse` | `[]PanicOnlyOnMisuse` | `StopInv`: the channel is closed once, by a caller that had not seen it closed |
| `MonitorProofs!PromiseIsKept` | `Promise!Safety`, the refinement of `AvailabilityReport` without its fairness | `PromiseInv`, below |
| `MonitorProofs!RunNeedsOnlyCollector` | `[]OnlyCollectorIsNeeded`, the safety part of `RunReturns` | `StageInv` |
| `MonitorProofs!SettledStays` | `SettledForGood`, the safety part of `SettlesAfterStop` | `StageInv`, and every other action is disabled |
| `AvailabilityProofs!FailuresAccounted` | `[]ToleranceTypeOK` | inductive as it stands, with the set of workers that judge named |
| `AvailabilityProofs!ErrorsAreEarned` | `[]ErrorsOnlyBeyondTolerance` | `LenientInv`: the variable, and every value a worker has read or written, is at least the tolerance less the failures counted so far |
| `AvailabilityProofs!TypeCorrect` | `[]TypeOK` | `TypeInv`: a test that polls has an attempt left |
| `AvailabilityProofs!NoUnwatchedDeploy` | `[]DeployWatched` | `StartedInv`: every signal is of a test that was started, and each wait passed has seen one; a started test never looks unstarted |
| `AvailabilityProofs!PassesMeanDeployed` | `[]PassedMeansDeployed` | `EndInv`: `post-cf-deploy` follows a deploy that worked, and whoever gave up has no attempts left |
| `CertRotationProofs!TypeCorrect` | `[]TypeOK` | a flag is on the newest version or the one before |
| `CertRotationProofs!TrustKept` | `[]Trust` | `IInv`, below |
| `CertRotationProofs!NothingOrphaned` | `[]NoOrphans` | part of `IInv` |
| `CertRotationProofs!NewIsTrustedFirst` | `TrustedBeforeUse` | from `IInv` |
| `CertRotationProofs!OldIsRetiredLast` | `RetiredAfterUse` | from `IInv` |
| `CertRotationProofs!PipelineIsNotHasty` | a step `StartRotation` ends with `hasty` false | `DeployIsCurrent` of `IInv`: a deploy that worked has handed out what CredHub holds |
| `PipelineRunsProofs!TypeCorrect` | `[]TypeOK` | inductive as it stands |
| `PipelineRunsProofs!RunsKeptApart` | `[]OneRunAtATime` | `IInv`, below |
| `PipelineRunsProofs!InputsAreOwn` | `OwnInputs` | `Newest` of `IInv` |
| `PipelineRunsProofs!RunsCanGoOn` | `[]CanGoOn`, when the lock works (`Orderly`) | the first job that is not done, below |
| `PipelineRunsProofs!DeploysAreAlone` | `[]BuildsInTurn` | `IInv`: of one run a job before another is done when the other is built |
| `KeyRotationProofs!TypeCorrect` | `[]TypeOK` | part of `IInv` |
| `KeyRotationProofs!RowsStayReadable` | `[]Readable` | `IInv`: the phases, below |
| `KeyRotationProofs!OnlyNewIsUnread` | `[]OnlyNewRowsUnread` | from `IInv` |
| `DevEnvironmentProofs!TypeCorrect` | `[]TypeOK` | part of `IInv`, with the shape of each build |
| `DevEnvironmentProofs!ResurrectorSafe` | `[]NothingToResurrect` | `IInv`, below |
| `DevEnvironmentProofs!AnnouncementsHold` | `EndsAsAnnounced` | `Kept` of `IInv`: the steps behind a build have done their part |
| `CountGaugesProofs!TypeCorrect` | `[]TypeOK` | inductive as it stands |
| `CountGaugesProofs!CountsCorrect` | `CountsSteady` | `Tracking`: of an item that is steady, what the pages read so far say is still so, and what they do not say is ahead |
| `CountGaugesProofs!PanicsOnlyOnChange` | `DiesOnlyOnChange` | `Tracking`, for the list of quotas |
| `MetricStreamProofs!TypeCorrect` | `[]TypeOK` | inductive with the domains of the functions |
| `MetricStreamProofs!StreamIsKept` | `KeepsStream`, the refinement of `MergedStream` | `StreamInv`, below |

That the counts of `Monitor` match in total (`FlowInv`) does not tell a success from a
failure. `ConservedInv` adds that they match for each outcome, where the results of an
outcome are the places of `results` that hold one: receiving shifts the places, so the
lemmas on `Append` and `Tail` compare sets by a bijection. `VerdictSound` follows from it: a
verdict cannot pass on successes that the Review has invented. It is proved for every `Target`
in every `Unit` and every `Rounding`; the run has 50.05 percent, and an error of a hundredth.

The refinement of `AvailabilityReport` needs to know besides how far each goroutine can be
(`StageInv`): nothing runs before `Run`; while `Run` waits, and only then, the collector
collects or reports; it reports after `Stop` only. Then `WorkerExecutes` is `Execute`,
`CollectorReceives` is `Collect`, `CollectorReports` is `Return`, the closing of the channel
is `Stop`, and everything else is a stutter. `Return` of the promise is weakly fair, which is
left to TLC; `RunNeedsOnlyCollector` proves what that fairness rests on: a `Run` that waits
after `Stop` has before it only steps of the collector whose guards hold.

`Trust` is not inductive: it says nothing of what the next deploy will hand out. The
inductive invariant `IInv` of `CertRotationProofs` adds that a VM deployed with what CredHub
holds *now* would trust and be trusted by every VM there is (`Compatible`), that a running
deploy hands out what CredHub holds and a finished one has done so (`DeployIsCurrent`, where
the lock is needed), that in a pass every VM trusts all versions until the pass makes a new
one (`AllTrusted`), and presents what CredHub holds until the pass regenerates something
(`AllPresented`). These two are why the scripts run in the order remove, move, set.
`Careful` is the three of them that a hasty pass loses (`Compatible`, `AllTrusted`,
`AllPresented`), so `IInv` has it for passes that are not hasty only. A deploy that works
brings it back, because all VMs are then alike (`DeployedIsCareful`); this is why `hasty`
may be forgotten there.

The theorems on rotation, except the types, hold under `Orderly`: there are no
intermediate CAs (`check-certificate-hierarchy.rb` refuses them), and no job dies
between moving a flag and the last regeneration that follows; without the second
they are false (run `cert_rotation_crash` and the finding below).

`OneRunAtATime` of `PipelineRuns` does not say what has been done. The inductive invariant
of `PipelineRunsProofs` adds that a run that is at a job, or past it, has passed every job
before it (`InOrder`; `Before` is closed under `Passed` by assumption, and TLC evaluates the
assumption for the pipeline's graph), that every run but the newest has passed
`pipeline-unlock`, and the newest holds the lock until it has (`Held`), and that what the
newest run has put is in the newest version and in what any job off the graph has got, or
has overtaken it (`Newest`). An old run then has nothing left to do on the way to
`pipeline-unlock`. `CanGoOn` takes, of the jobs on the way that the newest run has not
passed, one that none of them comes before: there is one, because the graph is finite,
`Before` is transitive and no job is before itself (`FirstJob`, by the well-foundedness of
strict inclusion on finite sets). All that it waits for has been passed, no newer run can
take its place, and what it shares a serial group with is a job off the graph, which only
has to end, or on the way itself (`GroupAssumption`), and so of this run: the build that it
would wait for is what goes on. This is proved for a lock that works (`Orderly`), which is
also what the run checks. `ResourceAssumption` says that jobs of a run which are not on the
way to `pipeline-unlock` put nothing that others get the newest version of.

`Readable` of `KeyRotation` does not say what is written next, or what a later rotation
overwrites. The inductive invariant of `KeyRotationProofs` says that, unless somebody
was careless, the state is in one of three phases: `Settled` (everybody writes with the
current key, and so are all rows), `HalfRotated` (a new key without its own id, which no
VM has), `Rotated` (every VM writes with the old key, or the last deploy hands out both
keys and each VM has that or writes with the old one). `HandedOut`, that after a deploy
that worked all VMs have what it handed out, takes `Rotated` back to `Settled` when the
errand has succeeded.

`NothingToResurrect` of `DevEnvironment` does not say why the resurrector is off when a VM is
about to stop. The inductive invariant of `DevEnvironmentProofs` says, of the behaviours the
property is about, that two builds are never under way at once (`Apart`); that no zone is
or is about to be disabled while the resurrector is on or a build wakes the environment
(`Told`); that the resurrector is off once a build that puts the environment to sleep has
taken its first step, and on only while no VM stops or is stopped (`Quiet`); that a waking
build that has listed the stopped VMs knows all others awake (`Waking`); and that whatever a
build has found is as it announces, or is being waited for (`Kept`). TLC has checked it as
an invariant, too.

`CountsSteady` follows from `Tracking` by the cardinality of sets: what is counted under a
label lies between the steady items that belong there and those with all unsteady ones. A page
that is read takes something from what is ahead to what was read; a deletion that takes something
from what is ahead without it being read makes unsteady all that needs it.

What the main loop has read is, in `KeepsStream`, the beginning of what a poller wrote. On
the way an event is in the combined buffer, in the hands of the goroutine that copies, or in
the poller's buffer. The inductive invariant `StreamInv` says so by number: `Carries(s, p,
lo, hi)`, that channel `s` holds the events of `p` from `lo + 1` to `hi`, each once and in
order, is stated of places in `s`, and not of `s` with the other pollers' events filtered
out, because what a filter returns is defined by recursion on the sequence and could only be
proved about by induction on data. It holds as long as no write has panicked: a panic loses
what was being written.

Only model-checked: everything under fairness (`RunReturns`, `SettlesAfterStop`,
`EndsWithDeploy`, `NewestRunIsTested`, `RotationCompletes`, `KeyRetired`, `Delivered`,
`CloseEndsAll`, `BuildsEnd`, `WakingWakes`, `Settles`), which is out of the prover's reach,
and of `KeepsPromise` the conjunct that is fairness. Every invariant, action property and
refinement that a run checks is proved, some under hypotheses that are in the statement
(`Orderly` of `CertRotation` and `PipelineRuns`). That Concourse at last builds a job that
shares a serial group with jobs off the graph, instead of ever more builds of those, is its
scheduling and not claimed.

## Findings

- `ca-rotation-move-transitional.rb:52`: the flag moves before what the CA signs is
  regenerated. If the job dies in between, the next pass retires the old version,
  and nothing regenerates the certificates that are still signed with it, although
  `check-certificates.rb:78` says that running the pipeline again completes the
  rotation (`cert_rotation_crash`).
- `api_test.go:161`: the goroutine that has lost sight of Concourse stops the monitor
  first and expects the error not to have occurred second. The spec may pass in
  between (`watch_contact`).

What the models show besides, without a run of its own:

- `wait-for-app-availability-tests.yml:45`: the version is searched for unanchored, so a
  `pre-deploy` started again for 0.0.1 is satisfied by the requests of 0.0.10. `GateSees` has
  it so, and `DeployWatched` holds in spite of it. Version prefixes apart, `pre-deploy`
  waits for its own tests.
- `api_test.go:132`: decrements without a lock get lost, and more failures are
  tolerated than line 104 grants. The race only ever makes the test more lenient
  (`ErrorsAreEarned`).
- `gauges_cf.go:263`: `ServiceCountGauge` looks for an error where it should look for the
  quota. The message of the next line is never logged; instead the app panics when an org's
  quota, after the org was listed, is taken from it and deleted, or moved by the deletion of
  another quota to a page that was read before (a quota that is given to an org later does
  no harm: the list of quotas comes after that of orgs). Every gauge starts again from
  nothing.
- `apps.go:357` and its like of `go-cfclient`: a page begins where the last one ended by
  count. An app (or a space, org, quota, with all in it) that has not changed is missing
  from a poll when something on an earlier page is deleted between two requests; the next
  poll has it again.
- `create-cloudfoundry.yml:5850`: `rotate-certs` started again, after it failed or succeeded and
  before the next deploy, uses or retires a CA version too early; the next deploy then mixes VMs
  that do not trust each other. Without `hasty` TLC finds `Trust` violated.
- `create-cloudfoundry.yml:6316` and `:6206`: `expire-aws-keys` and
  `rotate-cloudfoundry-credentials` put a copy of the `cf-tfstate` that they got over what
  `cf-terraform` may have put meanwhile; `cf-deploy` and the jobs after it then get the
  older state.
- A label that nothing is counted under any more keeps its last number until the app is
  restarted: a poll writes the labels that it has come across only.
- `fast-startup-and-shutdown-cf-env.sh:98`: a database that is deleted while it is waited
  for is waited for for ever; databases on their way to another state are neither refused
  (line 166 looks at VMs only) nor waited for.
- `create-cloudfoundry.yml:1824`: disabling a zone turns the resurrector off and enabling it
  does not turn it on. Only waking the environment does, even while another zone is
  disabled.

## What is left out

- Of the modelled components: wording of reports and logs, the rate of the token bucket and
  of the polls, HTTP and BOSH themselves, tasks of the api test that fail before the
  tolerance is reached, the usage file and Slack message of the startup script, the counters
  and names of the reporter, the scheduler's `cc_deployment_updater`, which has one key
  under a label of its own (`database_encryption_keys_spec.rb:37-46`).
- CredHub, Concourse, BOSH and the app log are external: only what the code relies
  on is modelled, and those definitions are marked so in the map.
- Goroutine scheduling and the memory model are interleavings of the steps between
  blocking points, except for the tolerance counter, whose race is modelled.
- Of the pipeline: the jobs `deploy-paas-*` (they get `cf-tfstate` and `cf-manifest`, and
  put nothing that a modelled job gets), the timed checks of availability zones (they send
  e-mails), the jobs an operator starts (those of `KeyRotation`, `DevEnvironment` and
  `CreateCloudfoundry` apart), what the modelled ones do beside putting resources and taking
  up a serial group, and that some runs end for good in a job that keeps failing: `CanGoOn`
  says that the next step is possible, not that it is taken.
- The components listed above as not modelled yet.
- Most lines of Go in the repository are generated fakes of API clients
  (`tools/metrics/pkg/*/fakes`): they hold no behaviour of the program and are not mapped.

## Plan

Each with its hazards from `PROJECT.json`:

1. `CredentialRotation`: the JWT keys and the passwords, with the deploys between, and what
   a `cf-tfstate` that has been overtaken (`OwnInputs`) means for the access keys in it.
2. `UserGroups`: concurrent changes between a read and a write.
3. Pure algorithms against reference definitions: the traversal of `unbind_job.rb`,
   the hash of `fnv.rb`, the reporter's `multierror`.
4. Proofs of what other liveness properties rest on beside fairness, as
   `RunNeedsOnlyCollector` and `SettledStays` do for the monitor: that a closed buffer of
   `MetricStream` stays drained, that each pass of `CertRotation` takes a CA a step further,
   that no row of `KeyRotation` gets an old key back once the errand has succeeded.
