------------------------------ MODULE Dispatch ------------------------------
(***************************************************************************)
(* The way of a job's target from the claim to the harness that executes   *)
(* it: what the claim accepts (postgres-runner-store.ts), and what the     *)
(* runner's executor makes of the lease before anything is started         *)
(* (tracer-executor.ts).  Pure definitions.                                *)
(*                                                                         *)
(*   lease   [benchmark, version, case, content, target, credential]       *)
(*   runner  [id, corpus, inventory, registry]: the corpus maps benchmarks *)
(*           to [version, cases], cases to contents; the inventory is what *)
(*           the daemon read when it started, the registry what is         *)
(*           installed now                                                 *)
(* A content stands for a task or case and its hashes; a credential is     *)
(* [sealedFor, wellFormed], or NoCredential.                               *)
(***************************************************************************)
EXTENDS Compatibility

CONSTANTS NoCredential, Refused

(* parsePersistedExecution, then targetCompatibilityBlockers.              *)
IsClaimable(lease, inventory) ==
  /\ lease.target.harness.id = "llmbench" <=> lease.credential # NoCredential
  /\ IsCompatible(lease.target, BenchmarkDefinition(lease.benchmark), inventory)

-----------------------------------------------------------------------------
(* The workload is one of the runner's own, to the letter.                 *)
IsLocalWorkload(lease, runner) ==
  /\ lease.benchmark \in DOMAIN runner.corpus
  /\ LET local == runner.corpus[lease.benchmark] IN
       /\ lease.version = local.version
       /\ lease.case \in DOMAIN local.cases
       /\ lease.content = local.cases[lease.case]

(* The executor does not look for the CLIs of native harnesses: one that   *)
(* is gone fails when it is spawned.                                       *)
IsValidTarget(lease, runner) ==
  IsCompatible(lease.target, BenchmarkDefinition(lease.benchmark),
               [runner.inventory EXCEPT !.clis = NativeHarnesses])

OpensCredential(lease, runner) ==
  /\ lease.credential # NoCredential
  /\ lease.credential.sealedFor = runner.id
  /\ lease.credential.wellFormed

(* resolveExecution reads the registry again.                              *)
StillInstalled(target, runner) ==
  \E p \in runner.registry :
    /\ p.manifest.id = target.harness.id
    /\ p.protocol = target.plugin.protocol /\ p.hash = target.plugin.hash

BuiltInHarness(lease, runner) ==
  LET id == lease.target.harness.id IN
  IF id = "llmbench" /\ ~OpensCredential(lease, runner) THEN Refused ELSE id

(* harnessFor and withMcpProfiles: pi rejects an agentic request, and only *)
(* a plugin can take MCP connections.                                      *)
AgenticHarness(lease, runner) ==
  LET target == lease.target IN
  IF target.plugin # NoPlugin
    THEN IF StillInstalled(target, runner) THEN "plugin" ELSE Refused
  ELSE IF target.harness.id = "pi" \/ target.toolset.profiles # {} THEN Refused
  ELSE BuiltInHarness(lease, runner)

(* executeResponse.                                                        *)
ResponseHarness(lease, runner) ==
  IF lease.target.plugin # NoPlugin \/ lease.target.toolset.profiles # {} THEN Refused
  ELSE BuiltInHarness(lease, runner)

Dispatch(lease, runner) ==
  IF ~IsLocalWorkload(lease, runner) \/ ~IsValidTarget(lease, runner) THEN Refused
  ELSE IF BenchmarkDefinition(lease.benchmark).kind = "agentic"
    THEN AgenticHarness(lease, runner)
    ELSE ResponseHarness(lease, runner)

-----------------------------------------------------------------------------
(* Launch, claim and executor agree: what could be launched and claimed    *)
(* with the inventory that the daemon has is executed by the harness that  *)
(* was chosen, and whatever was reinstalled in between, a plugin that runs *)
(* is the build that was chosen.                                           *)
Credential(target, runner) ==
  IF target.harness.id = "llmbench" THEN [sealedFor |-> runner.id, wellFormed |-> TRUE]
  ELSE NoCredential

LeaseOf(benchmark, target, runner) ==
  LET local == runner.corpus[benchmark]
      case == CHOOSE c \in DOMAIN local.cases : TRUE
  IN [benchmark |-> benchmark, version |-> local.version, case |-> case,
      content |-> local.cases[case], target |-> target,
      credential |-> Credential(target, runner)]

ServesWhatWasLaunched(matrix, benchmark, launched, claimed, runner) ==
  CanLaunch(matrix, benchmark, launched) =>
    \A expanded \in ToSet(ExpandRoundRobin(matrix)) :
      LET target == Pinned(expanded, launched)
          lease == LeaseOf(benchmark, target, runner)
          harness == Dispatch(lease, runner)
          chosen == IF target.plugin # NoPlugin THEN "plugin" ELSE target.harness.id
      IN /\ harness \in {chosen, Refused}
         /\ IsClaimable(lease, claimed) /\ claimed = runner.inventory
            /\ runner.inventory.plugins \subseteq runner.registry => harness = chosen
         /\ harness = "plugin" =>
              \E p \in launched.plugins : p.manifest = target.harness
                /\ \E q \in runner.registry : q.manifest.id = p.manifest.id /\ q.hash = p.hash
=============================================================================
