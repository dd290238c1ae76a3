# A TLA+ model of llm-bench

llm-bench benchmarks agents and models. A *control plane* (a Postgres database
behind a web application) keeps experiments and their jobs; *runners*, one
daemon per machine, pair with an account, lease jobs, execute them and report
events, checkpoints, artifacts and a terminal state, of which an administrator may
publish the results. This directory holds the
TLA+ modules of the parts where processes, failures and retries meet, the TLC
configurations that check them and the theorems that TLAPS proves.

Paths below are relative to `packages/` of the repository.

## 1. Inventory

| Component | State | Operations | Talks to | What is hard |
|---|---|---|---|---|
| Job queue (`control-plane`: `runner-jobs.ts`, `postgres-runner-store.ts`, `runner-http.ts`) | tables `jobs`, `attempts`, `runner_events`, `results`, `runners` | enqueue, lease, heartbeat, events, checkpoint, complete, cancel status, revoke | runners by HTTP; dashboard by shared rows | every handler reads in one transaction and writes in a later one; runners repeat requests after time-outs |
| Dashboard (`dashboard-experiments.ts`, `apps/web` `matrix.ts`) | the same rows | preview, launch, cancel, retry | job queue | launch uses an old preview, cancel is two statements, retry is pressed twice |
| Publication (`public-results.ts`) | `experiments.visibility`, `public_snapshot`; artifacts | preview, curate, withdraw, list | job queue rows, administrators | a preview is many reads, and curation publishes them in a later statement |
| Pairing (`runner-protocol.ts`) | `runner_pairings`, `runners` | start, approve, poll, authenticate, revoke | runner CLI, dashboard | two approvals, two polls, expiry, revocation in between |
| Runner worker (`runner`: `worker.ts`, `state.ts`, `daemon.ts`, `http-transport.ts`) | `active-job.json`; live deliveries in memory | `runOnce`, `claim`, `deliver`, cancellation monitor | job queue | crashes between two writes, lost answers, late requests, "never spends again silently" |
| Event buffer (`runner`: `event-buffer.ts`, `LiveEventDelivery`) | `events/<attempt>.jsonl` and its `.sequence` file | append, flush | job queue | appends during a send, crashes between file operations, sequence numbers |
| Runner CLI (`cli-app.ts`, `cli.ts`) | `credentials.json`, `runner.pid` | login, logout, start, stop, status, plugin and mcp commands | pairing, daemon, registries | commands of several terminals, daemons that outlive `stop` |
| Executors (`tracer-executor.ts`, `response-executor.ts`), engine (`runner-engine`), agent loop (`llm-bench-harness`) | workspace, budgets | execute, resume, abort | harness, provider, tools | limits, deadline and cancellation coincide; cleanup |
| Extensions: plugin host and registry (`plugin-*.ts`), MCP sessions and registry (`mcp`), process runner (`process-harness`) | child processes, tables of pending requests, sockets, registry files | install, grant, probe, run, request, time out, abort, stop | child processes, the operator | late answers, partial start-up, kill escalation, artifacts that change |
| Adapters (`codex-`, `claude-`, `pi-harness`), provider client (`openai-compatible`) | a checkpoint; a stream's assembler | run, resume, complete, stream | CLIs, HTTP | answers in fragments, failed turns, which session to resume |
| Pure code (`performance`, `contracts`, `harness-sdk`, graders, `crypto`) | none | functions | - | boundaries of numbers and formats |

What makes them correct, in a sentence each. *Job queue*: one active attempt per
runner, job and attempt agree, terminal is final, the first completion wins,
leases respect accounts and credentials, a revoked runner obtains nothing.
*Dashboard*: a cancellation is not lost, one open retry, jobs leave in matrix
order. *Publication*: what is public is what an administrator confirmed and what
the tables say, and stays so. *Pairing*: one token per pairing, the delivered
token works, one runner per pairing. *Worker*: a job is executed from the start at
most once, its verdict is unique, its last checkpoint precedes it, and it gets to
the server. *Execution*: a grade is the hidden tests' alone, events and verdict
agree, nothing is spent after an interruption, and it ends. *Event buffer*: no
number is used twice, nothing that was appended is lost. *CLI*: the state files
name the daemon and the runner there are. *Extensions*: nothing is left behind,
answers are one's own, only leased artifacts are started, a run ends.

## 2. Modules

State machines:

| Module | Models |
|---|---|
| `RunnerJobs` | job queue and dashboard writes; an action is one transaction |
| `JobLifecycle` | the abstract life of a job; `RunnerJobs` implements it, `Publication` is built on it |
| `Publication` | preview, curate, withdraw beside the jobs of an experiment |
| `Pairing` | pairing and revocation |
| `LeasedJob` | the abstract contract of runner and control plane about an attempt |
| `RunnerWorker` | the worker against an abstract server; implements `LeasedJob` |
| `EventBuffer` | one attempt's event buffer and its delivery |
| `Execution` | one execution by the llmbench harness: engine, agent loop, grading |
| `McpSession`, `ExtensionRun` | the child processes of a run and their requests; the run of a plugin with MCP profiles around them |
| `RunnerCli` | the commands of several terminals, the state files, the daemons |

Pure definitions, each compared with a reference definition over small inputs by
the `ASSUME`s of an MC module:

| Module | Models | Compared in |
|---|---|---|
| `Performance` | samples, aggregates, the report of a response benchmark | `MCPublication` |
| `Compatibility`, `Dispatch` | offered matrices, round-robin expansion, target compatibility; what claim and executor accept | `MCRunnerJobs` |
| `RepositoryTools`, `Texts` | the four tools of the agent, paths, string functions | `MCExecution` |
| `WorkspaceDiff` | captured and rendered diffs | `MCExecution` |
| `ProviderStream` | requests, answers, SSE framing and assembly of streams | `MCExecution` |
| `NativeHarness` | the adapters of codex, claude and pi, and what is saved of them | `MCExecution` |
| `Transcript`, `Redaction`, `ExamplePlugin` | the SDK's transcript, redaction of messages, the example plugin | `MCExtensionRun` |
| `Registries` | operations of the plugin and profile registries | `MCExtensionRun` |

`MCRunnerJobs`, `MCExecution`, `MCPublication`, `MCExtensionRun` and `MCRunnerWorker`
give the constants their values. A state machine's theorems are in the module named
after it: `RunnerJobsProofs`, `PairingProofs`, `RunnerWorkerProofs`, `EventBufferProofs`,
`ExecutionProofs`, `PublicationProofs`, `ExtensionRunProofs` and `RunnerCliProofs`.

### RunnerJobs

The rows are functions over `Jobs` (a job's number is its `queue_position`) and
`Attempts`; `row` holds the columns that never change. A request that was
authenticated, or that has read the row it will act upon, is a record in
`leaseReqs`, `beatReqs`, `eventReqs`, `checkpointReqs` or `terminalReqs`: the
`Receive...` action is the first transaction, the action that removes the record
is the last one. Between the two every other action may happen, so a request is
acted upon after a revocation, after another completion, or after its runner
gave it up and sent it again. `recordEvents` is a loop of single inserts, hence
`SaveEvent` per item, and `AbandonEvents` when the server stops in the loop.
`cancelJob` is a transaction of two statements: `CancelBegin` decides by the
status it finds (and holds the row's lock if it matched), `CancelEnd` is the
second statement and the commit. `Claim` is `claimNext`: it holds the lock of the
runner's row, looks for an active attempt, walks the candidates in queue order,
fails those whose target became incompatible, passes over those whose credential
is sealed for another runner or is for another provider (`fits`, which is free for what
`enqueue` inserts and true for a launch: `saveCredentialProfile` knows one provider, and the
preview asks a hosted route for it), and leases the first that is left. The rows of
`held` are those that `SKIP LOCKED` hides because the open claim of another
runner looked at them first.

Abstractions. A target stands for model route, harness and toolset; `CanHost` and
`Inventories` say which a runner pairs for and supports (in the code:
`targetCompatibility` and the capability match). `Hosted` targets need a sealed
credential. Terminal requests are a status and whether they carry evidence, which
is all the store looks at. The experiment's jobs get consecutive positions;
launches of different experiments do not interleave their inserts. Two requests
of the same runner with the same contents are one element of a set.
`requestCancellation` is one statement and waits for a row lock.

`ImplementsLifecycle` maps a job to `JobLifecycle`: leased and running are one
phase, and the result row is the outcome it was written from. A claim is one
step of it that fails the incompatible jobs and leases one.

### Pairing

`ReceiveApproval` and `ReceivePoll` are the reads, `Approve` and `Consume` the
transactions, `Abandon` a server that stops in between. Ids and tokens are drawn
from counters, for they are random. Expiry is a step of the clock; a transaction
that took its clock before the expiry may still commit after it (`InTime`).
Polls of an unapproved pairing read and change nothing.

### RunnerWorker and LeasedJob

`pc` is what `runOnce` waits for. `active` is `active-job.json`, which survives a
crash; `live`, `queued` and `delivered` are the `LiveCheckpointDelivery`, which
does not. An answered request acts and is answered in one step; a request that
fails for the worker moves to `delayed`, where it may act later, once, or never.
`Interrupt` is enabled whenever a started execution is found on disk, because the
harness may be unable to resume from the checkpoint (`canResume`), and is the
only choice when there is no checkpoint. Events are reduced to whether the
buffer is empty (`unsent`); `EventBuffer` has them in detail. The server is the
part of `RunnerJobs` that one runner sees: queue order, one active attempt,
conditional updates. Revocation is left to `RunnerJobs`.

`LeasedJob` is the promise: an attempt becomes active while no other is, is
executed from the start at most once and only while active, and ends with one
verdict, "executed" only after an execution and "cancelled" only after a request.
`RunnerWorker` implements it with the same variable names (`Leased == INSTANCE
LeasedJob`, property `Contract`).

### EventBuffer

An `appendFile` and a `rename` are one step. `writeFile` over the buffer is two,
the truncation and the write. `mutation` is the chain of `mutate()`, `delivery`
the flush under way. Batches the runner gave up on stay in `delayed` and may be
saved later, wholly or partly. A crash keeps the files, drops everything else,
and the restarted worker either resumes the execution or ends it.

### Execution

What `RunnerWorker` takes as one step. `pc` is what `TracerExecutor.execute` waits
for, `loop` what the agent loop, or a response sample, waits for inside it. A step is
the code between two awaits; the signals (`aborted` by the worker's monitor or by the
poll that follows an event, `expired` by the deadline, `clock` by the loop's own timer
and `Date.now`) may change between any two. `Interrupted` is `AbortSignal.any` of the
first two, which follows its sources at once. The loop's controller follows its
parent only from `addEventListener` on; `Halted` reads the parent itself. A grader's
child that is under way when the signal fires fails its test (`cut`), as one does that
was about to start. `terminals` are the terminal events that were appended. A response case runs
the same signals over its samples and has one catch clause, which reports and returns.
`Fails` stands for any disk operation of the engine that rejects. Messages, usage,
redaction are left out; tools, diffs and provider have modules of their own, and
`ExtensionRun` and `NativeHarness` are the other harnesses.

### Publication

An action is one statement of `prepareCuration`, `curate` or `withdraw`; a request
between two of its statements is a record of `requests`. The reads of results,
metrics and artifacts are one step (`ReadResults`): of a job that was terminal
when its status was read nothing changes any more, which `JobLifecycle` says and
`SnapshotAgreesWithTables` depends on. `readable` are the jobs whose artifact could
be read at that moment, and `current` says whether the registry of the build still is the
one the jobs were launched with: versions, conditions and metadata of metrics are compared
with it. A fingerprint is the view it is a hash of. Values are
fractions, compared exactly; the code compares doubles up to an epsilon.
Other experiments, and names and their sanitizing, are left out.

### McpSession and ExtensionRun

`child` and `told` are a process and the strongest signal its group got; a process
that has exited is closed once no descendant holds its pipes, which only then
settles a promise. `pc` is what `harnessFor` and the repair of `withMcpProfiles`
wait for. `file` and `entry` are the hashes of an extension's artifact and of its
registry entry, which the operator changes at any time before the server is spawned.
`launch` is what the last verification found: between it (`Verify`) and the spawn (`Spawn`)
the artifact can still be replaced, which the code does not see, and
`LeasedServersOnly` speaks of that verification. An abort reaches every listener in one step, as `AbortSignal`
does. `Fairness` gives the children nothing until they are killed. Lines of
JSON-RPC and the bytes of the pipes are left out, except that an answer may be
malformed (`Fail`).

### RunnerCli

A command waits before each of its reads, requests and writes, and can be broken off
at each. Of two things the code promises nothing, and `disturbed` keeps the files
that met one: a login or a start that overlaps another command on the same file, and
a command that breaks off between a change and the file that tells of it (a paired
runner, a spawned daemon, a revoked runner). Of every other
overlap and break-off `StateFilesStand` does speak: stops, logouts and status beside each other,
a start that fails before it has spawned, a login that is given up. Revocation from the
dashboard and process ids that are used again are left out.

### The pure modules

`Registries` takes a list to the list an operation writes. `#mutate` orders the
operations of one process, so that they are functions; what two processes do to
each other is in section 6. The references say: whatever four operations were done, the
file can be read again, ids are unique and never those of built-in harnesses;
a plugin or a server is started iff its file is still what was installed; a grant
to a plugin leaves its identity, one to a profile makes another of it, which
its revocation takes back.

`Dispatch` follows a target from the matrix that the dashboard offers over the
claim to the executor, each with another inventory: what is accepted is executed
by the harness that was launched, or refused, and never by another build
(`ServesWhatWasLaunched`). `RepositoryTools` works on trees of five names; every patch,
read and search stays inside the root, and a search misses nothing that is visible.
`ProviderStream` splits the text of a stream at every place, and
`NativeHarness` runs up to four attempts and resumes the last session that completed.

## 3. Runs

| Run | Question | Bounds |
|---|---|---|
| AttemptLifecycle | do overlapping, repeated, reordered requests about an attempt leave the rows consistent and final? | 1 runner, 1 job, 2 attempts, 2 events, 2 checkpoints, 3 outcomes, 3 requests at once |
| OneRunner | revocation, cancellation, retries of retries; does every step implement `JobLifecycle`? | 1 runner, 3 jobs, 2 attempts, 2 targets, 2 inventories, 1 request beside the transactions |
| TwoRunners | do two runners share a queue correctly, in matrix order although claims hide rows from each other? | 2 runners, 2 jobs, 2 attempts, 2 requests |
| Pairing | approvals, polls, expiry, revocation | 2 pairings, 2 accounts, 3 approvals, 3 polls |
| EventBuffer | numbering, loss, delivery, and that delivery ends | 3 events, 2 crashes |
| Execution | do grade, events and verdict survive interruptions and failures at any await, and does an execution end? | 2 turns, 3 tool calls, 2 calls per completion, 3 hidden tests, 2 samples |
| RunnerWorker | the contract, verdict and checkpoint; does a job on disk get to the server? | 2 attempts, 2 checkpoints, 1 crash |
| Publication | is what is public what was confirmed, what the tables say, fairly ranked, and final? | 2 administrators, 2 targets and a retry, 3 benchmarks, 7 outcomes, 2 requests |
| ExtensionRun | is nothing left behind, whatever fails when; are answers one's own; does a run end? | 2 servers and a plugin, 2 requests, 7 transcripts; the plugin and the second server change |
| RunnerCli | do the state files tell the truth, and does a stopped daemon end? | 2 terminals, 5 commands, 3 daemons, 2 runners |
| EventBufferErase | *violated*: the buffer's comment says that nothing is erased | 3 events, 1 crash |
| RunnerWorkerLost | *violated*: a leased job ends | 1 attempt, no crash |

Why the bounds are enough. A race in the job queue needs one request that read
early, one that acted in between and at most one more that makes the difference
visible. One job and its attempt carry every conditional update; a second job is
needed for the one-active rule, the matrix order and a retry, a third for a retry
of a retry. Three events are what an erased event needs: one acknowledged, one
appended during the send, one after it. Two administrators, or one with two
requests, are what an overlap of curations needs, and one retry is what a snapshot
can miss. With two servers one is up while the other fails to start or is replaced, and with two
requests an answer can be another's. A start, a stop and a command between
them in another terminal are four of the five commands. The theorems of section 5
remove the bounds from every safety property and refinement; what they still limit is
liveness and the references of the pure modules.

In `Execution` two turns with two calls each reach both limits, three tests have
one before, one during and one after an interruption.

Runs with `CHECK_DEADLOCK FALSE` are those whose bounds let the system stop (all
jobs over, all ids drawn, all commands typed, an execution that ended);
`RunnerWorker` always has a daemon that polls, so deadlock is checked there.

### Findings

*Erased events.* `DurableEventBuffer.flush` rewrites the buffer with `writeFile`,
which truncates first. A crash between truncation and write loses events that
were appended while the batch was in flight and are not on the server; the
comment at `runner/src/event-buffer.ts:74` promises that the rewrite cannot erase
them. `OnlyRewriteCrashErases` shows that this window is the only one. The state
files (`state.ts`) are written to a temporary name and renamed, which would close it.

*Lost lease.* `claim` writes `active-job.json` only after the lease request was
answered. When the answer is lost the attempt stays leased; `claimNext` answers
"no job" to a runner with an active attempt, and nothing on the server ends it:
the runner idles until somebody repairs the row (a cancellation only sets the flag).
`TakenJobEnds` shows that from the moment a job is on disk this cannot happen.

### Observations

What the definitions showed beside the two findings; none is stated as a property.

- `renderDiffText` is not injective: lines of a file that look like headers make two
  distinct patches render, and hash, alike, which its comment
  (`runner-engine/src/diff.ts:44`) excludes. `DiffReference` holds without such lines,
  `HeaderReference` is the exception.
- `apply_patch` writes through `String.prototype.replace` with a string, in which
  `$&` and its like are patterns; and an old text that overlaps itself
  counts as unique (`llm-bench-harness/src/tools/repository.ts:307`).
- `claude-harness.ts:199` says that the latest session id is kept; `findSessionId`
  returns the first of the list it is given.
- Server-sent events are separated by `\n\n` only: a stream with CRLF boundaries is
  one event.
- The content hash of an MCP profile depends on the order in which its secrets were
  granted, for they are hashed as JSON.
- `logout` that breaks off after the revocation leaves credentials that no
  later logout can clear (`runner/src/cli-app.ts:167`).

## 4. Fairness

Safety runs assume none. The liveness runs assume, for the worker: weak fairness of the
steps of `runOnce` (`runDaemonLoop` calls it again after every result and every
error, and its local steps are plain code), of the end of an execution (duration
and turn limits end it), and of a live delivery being answered or failing (every
request has a time-out); strong fairness of the *answered* variants of requests,
since a failure returns to the loop and the request is made again: a server that is
up now and then answers one in the end. Crashes, failures, cancellations, late
requests and new checkpoints are not fair. For the event buffer: the same for
its steps, with strong fairness of the answer and of the rewrite that follows it.
For an execution: weak fairness of its local steps (the repository tools are file
operations, a grader's child is killed after five seconds, an aborted fetch rejects)
and of the deadline. The provider owes nothing: it may never answer.
For an extension run: weak fairness of what the runner does itself and of its timers
(start-up and request time-outs, the engine's deadline as `Abort`, the 250 ms
before SIGKILL), and of the death of a process group that was killed. Servers and
plugin owe nothing else. For the CLI: weak fairness of a daemon's own steps; nobody
has to type a command.

## 5. Proofs

Every safety property and every refinement that a run checks is a theorem, for every
value of the constants. The theorems use the assumptions that the modules state of
their constants (`...Assumption`, which TLC evaluates on every run) and nothing else.
Most of them only give the constants their types. Those that say more: a worker may take at least one
attempt; what a runner reports ends a job with a terminal status and has a
fraction or null for a metric; an honest outcome is what `Report` computes
(`HonestAssumption`; `ReportsAreHonest` proves it of every report); a plugin prints
messages or malformed lines; the jobs of `Publication` are numbers.

| Module | Theorems |
|---|---|
| `RunnerJobsProofs` | the six safety invariants and five action properties of the queue, `KeepsLifecycle` |
| `PairingProofs` | `DeliveredOnce`, `DeliveredStands`, `ApprovalUnique`, `RevocationStands` |
| `RunnerWorkerProofs` | `VerdictIsOne`, `CheckpointFirst`, `KeepsContract` |
| `EventBufferProofs` | `NumbersAreOrdered`, `CompletedHasEvents`, `RewriteErasesAlone` |
| `ExecutionProofs` | `GradeFaithful`, `EventsFaithful`, `NothingSpentLate` |
| `PublicationProofs` | `ConfirmationBinds`, `SnapshotIsCurrent`, `RanksStand`, `PublishedOnce`, `HonestPass` |
| `ExtensionRunProofs` | `CleanUp`, `OwnAnswers`, `LeasedOnly`, `CompletedAreWhole`, `ValidIsWhole` |
| `RunnerCliProofs` | `FilesStand` |

Each module proves an inductive invariant (`Inductive`; in `ExecutionProofs` three that
build on each other), with one lemma per action or per kind of step, and reads the
properties off it. TLC found every one of them to hold on the bounds of section 3.

*Job queue.* First types (`TInv`): `TypeOK` with the facts that rows below
`nextJob` exist and that a locked cancellation finds its job queued. A lemma per
group of actions then says what a step does to job and attempt statuses
(`DashboardEffect`, `LeasingEffect`, `AttemptRequestsEffect`, joined in
`StepEffect`): it either leaves attempts alone and moves jobs that have none, or
changes only requests, or leases one queued job by a new attempt of a runner with
no active one, or moves one attempt and its job together. The inductive invariant
`IInv` adds to the properties what they rest on: attempts are inserted in the order
of their numbers, an event request names an attempt that exists, a queued job has
no attempt, a job's row is that of its attempt. Induction over these four kinds of
step replaces a case per action and property.

The second part looks at the rows instead. By `RowsEffect` a step launches,
inserts one job (fresh, or the retry of a job), claims, or starts and ends jobs.
A cancellation is not lost because a cancel transaction that missed a queued job
has missed one that was leased or over (`MissedIsSettled`), and no job returns to
the queue (`NeverRequeued`). The order of a launch needs `PInv`: a launch that waits
asks only for what its runner can host, an experiment has the number of its first
job, and the jobs of a launch are pinned, with their credential, to one runner
(`LaunchPinned`). So a claim of a later job is by the runner of the earlier one,
which no other runner's claim can hide; it was a candidate, was not claimable, and
can only have been incompatible: the claim fails it.

The refinement (`KeepsLifecycle`) has a lemma per action of `JobLifecycle`. It rests on
a job having one attempt, so that the attempt a step ends is the one that
the job's phase and result are about; the start of an attempt is invisible.

*Pairing.* A drawn id is in no row and no other request (`IdsFresh`), a runner
belongs to one pairing (`OneRunnerEach`), an approval a poll has read stands
(`PollsApproved`), and an answer leaves its pairing consumed.

*Worker.* `IInv` says what `runOnce` may rely on at each step (`StepOK`), that what is
on disk agrees with the server (`HandOK`: a job that is in hand and not over on the
server has no verdict there; an execution that was aborted had its flag set),
that a live checkpoint belongs to an execution the server has not ended
(`DeliveryOK`), and that a late request says nothing the job on disk does not say
(`RequestsOK`): without the last, a completion that a crash left in the network could
be overtaken by a checkpoint. `KeepsContract` maps each step to a step of
`LeasedJob`, or to none.

*Event buffer.* The next number is above every number that is in the file, in a
batch, in a late request or on the server, and the `.sequence` file is ahead of the
buffer whenever a delivery may empty it (`NumberingOK`); what an acknowledgement covers
was sent and is stored (`DeliveryOK`). Then a rewrite keeps what is not covered, and only a crash in its
middle erases: `CompletedHasEvents` needs in addition that without a crash nothing
is lost (`NoLoss`).

*Execution.* A test that is under way is one of the task, and fewer have passed than
were begun; a test is cut only when interrupted, which lasts, and the second
classification sees it; what has been written at each point, per mode, with
`cancelled` having a request behind it.

*Publication.* What a request has read of ended jobs stays true of the tables
(`Settled`), and so does a view built from it (`Agrees`); the launch is over before
anything is read (`Launched`), so that only retries can be missed. The
ranks are a theorem about finite sets of any size: fractions with positive denominators are
ordered by cross-multiplication, hence an order exists in which no series
follows one it beats, a rank that is handed on to equal values is the place of the
first of them, and the series before that place are those that beat it.
`HonestPass` compares two sums: the runner adds the values of a list from which
the missing ones were filtered, the control plane those of the samples that have one.
A sum over a finite set does not depend on which element is taken first (`SumIs`), and a subsequence
has the length and sum of the places that were kept (`SubsequenceIs`).

*Extension run.* Servers are started in order and closed in reverse
(`ServersInOrder`), the plugin is told to stop before anything is cleaned up
(`PluginInOrder`), request ids of a session are never used again (`IdsAreOwn`), and an entry
that was read is the leased one until it is verified, which finds the leased artifact
(`EntryIsLeased`).
`ValidIsWhole` is an induction over the lines of an output of any length: one that
is accepted is events numbered from zero and a single result at its end.

*CLI.* As long as a file is not disturbed, a login or a start is the only command on it
(`OneAtATime`), and what every command carries agrees
with the daemons that run and the runners that are paired (`DaemonOK`, `RunnerOK`):
what a stop is about to signal is the only daemon that was not told to stop, none is left
when the file is about to be cleared or another daemon to be spawned, and the newest runner
is revoked or the one that a logout, or the file, holds.
`StateFilesStand` alone is not inductive: it says nothing of a file whose command is
under way.

*Induction over data.* The library's induction theorems take an operator as a
parameter, which the installed provers cannot instantiate. `Induction` states it for a
set of numbers instead (from `WFMin` and `NatLessThanWellFounded`). The filter,
the scan of a transcript, the rank loop and the sums are therefore recursive
functions or folds: a lemma proves by induction that a function with the recursive equation
exists, and another what it returns.

Only model-checked: liveness (`EventuallyCompleted`, `ExecutionEnds`,
`ExtensionRunEnds`, `StoppedDaemonEnds`, `TakenJobEnds`), since fairness needs
`ENABLED`, which the prover does not support; the two findings, which are counterexamples;
and the references of the pure modules, which are evaluated over bounded inputs.

## 6. Not modelled

Disk writes that fail, and torn lines of the event buffer: they need a file system
below the one the code uses. Two daemons on one state directory (`RunnerCli` says
when there can be two, `RunnerWorker` has one), two processes that write
one registry file, and the in-memory stores of the tests. Benchmarks: data and
graders of single texts. Web routes and pages: stateless glue and rendering.
Encryption: libsodium. Sanitizing of public texts, the translation of single
harness events to trajectory entries, schemas of messages: formatting. Deletion of
accounts (cascades) and of runners.

## 7. Plan

What is left are the pure modules. Only `RepositoryTools` has a `RECURSIVE` operator, and
no proof module reaches it, so that the others can be reasoned about. Worth a theorem, in
the proof module of the state machine that uses them:

1. `Registries`: ids stay unique and built-in harnesses are never shadowed, for lists of
   any length (`ExtensionRunProofs`).
2. `Performance`: percentiles are inside the range of the values, and the variance is
   not negative (`PublicationProofs`).
3. `Redaction`: no secret is left in what is shown, as far as `HidesAll` promises it.
