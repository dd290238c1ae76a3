--------------------------- MODULE MCExtensionRun ---------------------------
EXTENDS ExtensionRun, Redaction, TLC

mcVersion == <<1, 0>>

(* The plugin, and the profile that is set up while another one runs.      *)
mcChangeable == {Plugin, Profiles}

(* Every kind of line, of the leased version and of others.                *)
mcMessages ==
  {Handshake(mcVersion), Handshake(<<2, 0>>), Malformed} \cup
  {RunEvent(n, mcVersion) : n \in 0..1} \cup
  {RunResult("completed", FALSE, mcVersion), RunResult("failed", FALSE, <<1, 1>>)}

(* Reference checks of the pure functions: the scan of the transcript says *)
(* of every output of up to four lines what the protocol says of it as a   *)
(* whole.                                                                  *)
ASSUME TranscriptReference ==
  \A lines \in UNION {[1..n -> mcMessages] : n \in 0..4} :
    IsValidOutput(lines, mcVersion) <=> IsWholeRun(lines, mcVersion)

mcSecrets == {{<<"a", "b">>}, {<<"a", "b">>, <<"a", "b", "c">>}, {<<>>, <<"b">>, <<"c", "b">>}}

(* A redacted text holds no secret, whichever contain each other.          *)
ASSUME RedactionReference ==
  \A secrets \in mcSecrets :
    /\ HidesAll(secrets)
    /\ \A text \in UNION {[1..n -> {"a", "b", "c"}] : n \in 0..4} :
         /\ IsClean(RedactText(text, secrets), secrets)
         /\ RedactMessage([kind |-> "failed", error |-> text, state |-> <<>>], secrets).error
              = RedactText(text, secrets)

(* The example plugin, as the host sees it.                                *)
Example == INSTANCE ExamplePlugin WITH PluginVersion <- mcVersion

ASSUME ExamplePluginReference ==
  /\ Example!AnswersProbe
  /\ \A run \in [kind : {"run_request"}, supported : BOOLEAN, credentials : SUBSET {"key"},
                 tools : SUBSET {"read_file", "apply_patch"}], writable \in BOOLEAN :
       Example!AnswersRun(run, writable)

(* The registries: every list that four operations on one disk can make,   *)
(* and what it starts on every disk, where an executable was replaced, a   *)
(* link was redirected or a mode bit lost.                                 *)
Registry ==
  INSTANCE Registries WITH
    Rejected <- NoResult, ReservedIds <- {"codex"}, ReservedNames <- {"PATH"},
    Wrappers <- {"npx"}, Runtimes <- {"node"}

File(name, executable, content) ==
  [kind |-> "file", name |-> name, executable |-> executable, content |-> content]
Link(to) == [kind |-> "link", to |-> to]
Answers(id, major) == [id |-> id, protocol |-> <<major, 0>>]

mcDisk ==
  [alpha |-> File("alpha", TRUE, Answers("alpha", 1)),
   beta |-> File("beta", TRUE, Answers("beta", 1)),
   codex |-> File("codex", TRUE, Answers("codex", 1)),
   later |-> File("later", TRUE, Answers("later", 2)),
   node |-> File("node", TRUE, Answers("node", 0)),
   npx |-> File("npx", TRUE, Answers("npx", 0)),
   script |-> File("script", FALSE, Answers("script", 0)),
   current |-> Link("alpha")]

mcDisks ==
  {mcDisk,
   [mcDisk EXCEPT !["alpha"] = File("alpha", TRUE, Answers("alpha", 2))],
   [mcDisk EXCEPT !["alpha"] = File("alpha", FALSE, Answers("alpha", 1))],
   [mcDisk EXCEPT !["alpha"] = Link("beta")],
   [mcDisk EXCEPT !["current"] = Link("beta")],
   [mcDisk EXCEPT !["script"] = File("script", FALSE, Answers("other", 0))],
   [mcDisk EXCEPT !["node"] = Link("npx")]}

Flag == [flag |-> TRUE, path |-> "--stdio"]
Positional(path) == [flag |-> FALSE, path |-> path]
Argv(command, arguments) == [command |-> command, arguments |-> arguments]

mcInputs ==
  [id : {"docs", "search"},
   argv : {Argv("current", <<Flag>>), Argv("node", <<Positional("script"), Flag>>),
           Argv("node", <<Flag, Positional("script")>>), Argv("npx", <<Flag>>),
           Argv("beta", <<Positional("script")>>), Argv("script", <<>>)},
   secrets : {<<>>, <<<<"KEY", "KEY">>>>}]

mcSecretNames == {"KEY", "TOKEN", "PATH"}

PluginLists[n \in Nat] ==
  IF n = 0 THEN {<<>>}
  ELSE LET lists == PluginLists[n - 1] IN
    lists \cup
    {Registry!InstallPlugin(l, mcDisk, path) : l \in lists, path \in DOMAIN mcDisk} \cup
    {Registry!RemoveEntry(l, id) : l \in lists, id \in {"alpha", "beta"}} \cup
    {Registry!GrantCredential(l, "alpha", name, "KEY") : l \in lists, name \in mcSecretNames} \cup
    {Registry!RevokeCredential(l, "alpha", name) : l \in lists, name \in mcSecretNames}

ProfileLists[n \in Nat] ==
  IF n = 0 THEN {<<>>}
  ELSE LET lists == ProfileLists[n - 1] IN
    lists \cup
    {Registry!AddProfile(l, mcDisk, input) : l \in lists, input \in mcInputs} \cup
    {Registry!RemoveEntry(l, id) : l \in lists, id \in {"docs", "search"}} \cup
    {Registry!GrantSecret(l, "docs", name, "KEY") : l \in lists, name \in mcSecretNames} \cup
    {Registry!RevokeSecret(l, "docs", name) : l \in lists, name \in mcSecretNames}

ASSUME PluginRegistryReference ==
  \A list \in PluginLists[4] :
    /\ Registry!PluginsAreSound(list)
    /\ \A disk \in mcDisks : Registry!StartsWhatWasInstalled(list, mcDisk, disk)
    /\ Registry!GrantsAndIdentity(list, <<>>, mcSecretNames)

ASSUME ProfileRegistryReference ==
  \A list \in ProfileLists[4] :
    /\ Registry!ProfilesAreSound(list)
    /\ \A disk \in mcDisks : Registry!LaunchesWhatWasAttested(list, mcDisk, disk)
    /\ Registry!GrantsAndIdentity(<<>>, list, mcSecretNames)

(* An output of a handshake and of each way to go on.                      *)
mcOutputs ==
  {<<>>, <<Handshake(mcVersion), RunEvent(0, mcVersion)>>,
   <<Handshake(mcVersion), RunResult("completed", FALSE, mcVersion), RunEvent(0, mcVersion)>>,
   <<Handshake(mcVersion), RunEvent(0, mcVersion), RunResult("completed", FALSE, mcVersion)>>,
   <<Handshake(mcVersion), RunResult("completed", TRUE, mcVersion)>>,
   <<Handshake(mcVersion), RunResult("failed", TRUE, mcVersion)>>,
   <<Handshake(mcVersion), RunResult("cancelled", FALSE, mcVersion)>>}
=============================================================================
