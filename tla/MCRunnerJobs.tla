---------------------------- MODULE MCRunnerJobs ----------------------------
(* Small instances of RunnerJobs.  Their targets, launches and inventories *)
(* are those that Dispatch gives for one hosted route and one plugin.      *)
EXTENDS RunnerJobs, Dispatch, TLC

CONSTANTS r1, r2, o1

mcOwnerOf == [r \in Runners |-> o1]
mcCanHost == [r \in Runners |-> Targets]
mcSymmetry == Permutations(Runners)

(* A plugin that serves the route of the hosted harness, so that one       *)
(* launch can compare the two.                                             *)
hostedRoute == OpenRouterRoute("gpt-4o")
plugin ==
  [manifest |-> [id |-> "custom", version |-> "2.0.0",
                 capabilities |-> RepositoryRepairCapabilities, routes |-> {hostedRoute}],
   protocol |-> "1.0", hash |-> "h1"]

withPlugin == [plugins |-> {plugin}, profiles |-> {}, clis |-> {}]
withAnotherBuild == [withPlugin EXCEPT !.plugins = {[plugin EXCEPT !.hash = "h2"]}]

comparison ==
  [routes |-> <<hostedRoute>>,
   harnesses |-> <<LlmBenchMatrix.harnesses[1], plugin.manifest>>,
   toolsets |-> LlmBenchMatrix.toolsets]

(* The targets have short names in the states.                             *)
targetNamed ==
  LET expanded == ExpandRoundRobin(comparison) IN
  [hosted |-> expanded[1], native |-> Pinned(expanded[2], withPlugin)]

NameOf(target) == CHOOSE n \in DOMAIN targetNamed : targetNamed[n] = target

SupportedBy(inventory) ==
  {n \in Targets :
     IsCompatible(targetNamed[n], BenchmarkDefinition("repository-repair"), inventory)}

mcHosted == {n \in Targets : targetNamed[n].harness.id = "llmbench"}

(* Lease race: the plugin was there at the launch and is replaced by       *)
(* another build, and a leased attempt ends in one way.                    *)
mcMatrices ==
  {[i \in DOMAIN expanded |-> NameOf(Pinned(expanded[i], withPlugin))] :
     expanded \in {ExpandRoundRobin(m) : m \in {n \in {comparison} :
                                    CanLaunch(n, "repository-repair", withPlugin)}}}
mcInventories == {SupportedBy(withPlugin), SupportedBy(withAnotherBuild)}
mcFullInventory == {SupportedBy(withPlugin)}
mcOneOutcome == {[status |-> "completed", evidence |-> TRUE]}

(* Attempt lifecycle: three outcomes that the store treats differently.    *)
mcNativeMatrices == {<<"native">>}
mcOneInventory == {{"native"}}
mcOutcomes == {[status |-> "completed", evidence |-> TRUE],
               [status |-> "cancelled", evidence |-> FALSE],
               [status |-> "failed", evidence |-> TRUE]}

(* The expansion, against its definition: every combination once, and      *)
(* between two targets of one route one of every other route.              *)
ASSUME RoundRobinReference ==
  \A n \in 1..3, m \in 0..2, k \in 0..2 :
    LET expanded == ExpandRoundRobin([routes |-> [i \in 1..n |-> i],
                                      harnesses |-> [i \in 1..m |-> i],
                                      toolsets |-> [i \in 1..k |-> i]])
    IN /\ Len(expanded) = n * m * k /\ Cardinality(ToSet(expanded)) = n * m * k
       /\ \A i, j \in DOMAIN expanded :
            i < j /\ expanded[i].route = expanded[j].route =>
              {expanded[l].route : l \in i..j} = 1..n

(* The dashboard offers what the preflight accepts: the hosted harness and *)
(* the code harnesses for every benchmark, pi for responses only.          *)
ASSUME DashboardReference ==
  LET everything == [withPlugin EXCEPT !.clis = NativeHarnesses] IN
  /\ \A b \in {"repository-repair", "structured-output"} :
       /\ CanLaunch(LlmBenchMatrix, b, everything)
       /\ \A h \in NativeHarnesses :
            CanLaunch(NativeMatrix(h), b, everything) <=>
              h # "pi" \/ b = "structured-output"
       /\ CanLaunch(PluginMatrix(plugin, {}), b, everything) <=> b = "repository-repair"
  /\ ~CanLaunch(NativeMatrix("codex"), "structured-output", withPlugin)

(* A runner with one of the two builds in the daemon's inventory and one   *)
(* in the registry, or none.                                               *)
corpus ==
  ("repository-repair" :> [version |-> "1.0.0", cases |-> ("clamp" :> "c1")])
  @@ ("structured-output" :> [version |-> "1.0.0", cases |-> ("record" :> "c2")])

inventories ==
  {[withPlugin EXCEPT !.plugins = p, !.clis = c] :
     p \in {{}, withPlugin.plugins, withAnotherBuild.plugins}, c \in {{}, NativeHarnesses}}

runnersOf(inventory) ==
  {[id |-> r1, corpus |-> corpus, inventory |-> inventory, registry |-> i.plugins] :
     i \in inventories}

offered ==
  {LlmBenchMatrix, comparison, PluginMatrix(plugin, {})}
  \cup {NativeMatrix(h) : h \in NativeHarnesses}

(* The preflights of launch, claim and executor agree.                     *)
ASSUME DispatchReference ==
  \A matrix \in offered, benchmark \in DOMAIN corpus, launched, claimed, known \in inventories :
    \A runner \in runnersOf(known) :
      ServesWhatWasLaunched(matrix, benchmark, launched, claimed, runner)

(* What the server's corpus and the runner's do not have in common, and a  *)
(* credential of another runner, are refused.                              *)
ASSUME RefusalReference ==
  LET runner == [id |-> r1, corpus |-> corpus, inventory |-> withPlugin,
                 registry |-> withPlugin.plugins]
      lease == LeaseOf("structured-output", ExpandRoundRobin(LlmBenchMatrix)[1], runner)
  IN /\ Dispatch(lease, runner) = "llmbench"
     /\ \A changed \in {[lease EXCEPT !.version = "2.0.0"], [lease EXCEPT !.content = "c1"],
                        [lease EXCEPT !.case = "clamp"], [lease EXCEPT !.credential.sealedFor = r2]} :
          Dispatch(changed, runner) = Refused
=============================================================================
