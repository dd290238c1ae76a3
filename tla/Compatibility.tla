--------------------------- MODULE Compatibility ---------------------------
(***************************************************************************)
(* Which targets a dashboard launch expands to and which targets a runner  *)
(* can execute: the matrix of a harness (matrix.ts), its round-robin       *)
(* expansion and the pinning of plugins (dashboard-experiments.ts), and    *)
(* the preflight shared by launch, claim and executor                      *)
(* (target-compatibility.ts).  Pure definitions, which give RunnerJobs its *)
(* Matrices and Inventories.                                               *)
(*                                                                         *)
(*   route      [id, provider, model]                                      *)
(*   harness    [id, version, capabilities, routes]                        *)
(*   toolset    [id, version, tools, profiles]                             *)
(*   plugin     [manifest, protocol, hash], or NoPlugin                    *)
(*   inventory  [plugins, profiles, clis]: what a runner advertises; clis  *)
(*              are the native harnesses whose CLI has a usable version    *)
(***************************************************************************)
EXTENDS Integers, Sequences, FiniteSets, FiniteSetsExt, SequencesExt

CONSTANT NoPlugin

NativeHarnesses == {"codex", "claude", "pi"}
BuiltInHarnesses == {"llmbench"} \cup NativeHarnesses
SupportedVersion == "1.0.0"
RepositoryTools == {"read_file", "list_directory", "search_files", "apply_patch"}
RepositoryRepairCapabilities == {"response_generation", "workspaces", "files"}

(* The benchmarks of the registry, as far as a launch tells them apart.    *)
BenchmarkDefinition(id) ==
  IF id = "repository-repair"
    THEN [kind |-> "agentic", capabilities |-> RepositoryRepairCapabilities]
    ELSE [kind |-> "response", capabilities |-> {"response_generation"}]

-----------------------------------------------------------------------------
(* The dashboard's matrix of a harness.                                    *)

OpenRouterRoute(model) == [id |-> model, provider |-> "openrouter", model |-> model]

LlmBenchMatrix ==
  LET routes == <<OpenRouterRoute("gpt-4o"), OpenRouterRoute("llama")>> IN
  [routes |-> routes,
   harnesses |-> <<[id |-> "llmbench", version |-> SupportedVersion,
                    capabilities |-> RepositoryRepairCapabilities, routes |-> ToSet(routes)]>>,
   toolsets |-> <<[id |-> "builtin", version |-> SupportedVersion,
                   tools |-> RepositoryTools, profiles |-> {}]>>]

NativeMatrix(id) ==
  LET route == [id |-> id, provider |-> id, model |-> id] IN
  [routes |-> <<route>>,
   harnesses |-> <<[id |-> id, version |-> SupportedVersion,
                    capabilities |->
                      IF id = "pi" THEN {"response_generation", "streaming", "usage_reporting"}
                      ELSE RepositoryRepairCapabilities \cup {"session_resume"},
                    routes |-> {route}]>>,
   toolsets |-> <<[id |-> "native", version |-> SupportedVersion,
                   tools |-> {}, profiles |-> {}]>>]

(* Its profiles are the selected ones that the runner advertises.          *)
PluginMatrix(plugin, profiles) ==
  [routes |-> SetToSeq(plugin.manifest.routes),
   harnesses |-> <<plugin.manifest>>,
   toolsets |-> <<[id |-> "plugin", version |-> plugin.manifest.version,
                   tools |-> RepositoryTools, profiles |-> profiles]>>]

-----------------------------------------------------------------------------
(* A launch.                                                               *)

(* The harness and toolset pairs of one route, harness by harness.         *)
Pairs(matrix) ==
  FlattenSeq([h \in DOMAIN matrix.harnesses |->
    [t \in DOMAIN matrix.toolsets |->
       [harness |-> matrix.harnesses[h], toolset |-> matrix.toolsets[t]]]])

(* expandRoundRobin: one pair of every route before the next pair of any.  *)
ExpandRoundRobin(matrix) ==
  LET pairs == Pairs(matrix) IN
  FlattenSeq([p \in DOMAIN pairs |->
    [r \in DOMAIN matrix.routes |->
       [route |-> matrix.routes[r], harness |-> pairs[p].harness,
        toolset |-> pairs[p].toolset, plugin |-> NoPlugin]]])

(* executionTargetForRunner: an external harness is pinned to the plugin   *)
(* that the runner advertises under its name.                              *)
Pinned(target, inventory) ==
  LET installed == {p \in inventory.plugins : p.manifest.id = target.harness.id} IN
  IF target.harness.id \in BuiltInHarnesses \/ installed = {} THEN target
  ELSE [target EXCEPT !.plugin =
          LET p == CHOOSE p \in installed : TRUE IN [protocol |-> p.protocol, hash |-> p.hash]]

-----------------------------------------------------------------------------
(* targetCompatibilityBlockers is empty.                                   *)

HasPlugin(target, inventory) ==
  \E p \in inventory.plugins :
    /\ p.manifest = target.harness
    /\ p.protocol = target.plugin.protocol /\ p.hash = target.plugin.hash

HarnessIsAvailable(target, inventory) ==
  IF target.plugin # NoPlugin THEN HasPlugin(target, inventory)
  ELSE /\ target.harness.id \in BuiltInHarnesses
       /\ target.harness.version = SupportedVersion
       /\ target.harness.id \in NativeHarnesses => target.harness.id \in inventory.clis

(* The hosted harness repairs with the repository's tools; what tools a    *)
(* response lists does not matter.                                         *)
ToolsetSuitsHarness(target, kind) ==
  LET toolset == target.toolset IN
  /\ target.harness.id = "llmbench" =>
       /\ target.route.provider = "openrouter"
       /\ toolset.id = "builtin" /\ toolset.version = SupportedVersion
       /\ kind = "agentic" => toolset.tools = RepositoryTools
  /\ target.harness.id \in NativeHarnesses =>
       toolset.id = "native" /\ toolset.version = SupportedVersion /\ toolset.tools = {}

ProfilesAreInstalled(target, inventory) ==
  target.toolset.profiles # {} =>
    /\ "mcp" \in target.harness.capabilities
    /\ target.toolset.profiles \subseteq inventory.profiles

IsCompatible(target, definition, inventory) ==
  /\ HarnessIsAvailable(target, inventory)
  /\ target.route \in target.harness.routes
  /\ definition.capabilities \subseteq target.harness.capabilities
  /\ ToolsetSuitsHarness(target, definition.kind)
  /\ ProfilesAreInstalled(target, inventory)

(* blockersFor is empty, as far as targets go.                             *)
CanLaunch(matrix, benchmark, inventory) ==
  LET definition == BenchmarkDefinition(benchmark)
      targets == {Pinned(t, inventory) : t \in ToSet(ExpandRoundRobin(matrix))}
  IN /\ targets # {}
     /\ \A t \in targets :
          /\ ~(definition.kind = "response" /\ t.plugin # NoPlugin)
          /\ IsCompatible(t, definition, inventory)
=============================================================================
