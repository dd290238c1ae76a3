---------------------------- MODULE Registries ----------------------------
(***************************************************************************)
(* The runner's registries of installed extensions: PluginRegistry         *)
(* (plugin-registry.ts) and McpProfileRegistry (mcp/registry.ts).  Pure    *)
(* definitions: an operation takes the list that the file holds to the     *)
(* list that it writes, or, where it throws, to the same list.             *)
(*                                                                         *)
(*   disk      path -> [kind |-> "link", to]                               *)
(*                     or [kind |-> "file", name, executable, content]     *)
(*   plugin    [id, protocol, hash, executable, grants]                    *)
(*   profile   [id, argv, secrets, artifacts, hash]                        *)
(*   argv      [command, arguments], an argument is [flag, path]           *)
(* A content stands for its SHA-256; that of a plugin is what its probe    *)
(* answers, [id, protocol].  Grants and secrets are JavaScript objects of  *)
(* names: their keys keep the order of insertion.                          *)
(***************************************************************************)
EXTENDS Sequences, FiniteSets

CONSTANTS
  Rejected,
  ReservedIds,      \* of the built-in harnesses
  ReservedNames,    \* of the environment, which no secret may replace
  Wrappers,         \* commands that start something else, and
                    \* interpreters that are not supported
  Runtimes          \* commands whose first argument is a script

RealPath(disk, path) == IF disk[path].kind = "link" THEN disk[path].to ELSE path

IsArtifact(disk, path, executable) ==
  LET node == disk[RealPath(disk, path)] IN
  node.kind = "file" /\ (executable => node.executable)

-----------------------------------------------------------------------------
(* Lists of entries, and objects of names.                                 *)

IsStored(stored, id) == \E i \in DOMAIN stored : stored[i].id = id
Entry(stored, id) == stored[CHOOSE i \in DOMAIN stored : stored[i].id = id]

RemoveEntry(stored, id) == SelectSeq(stored, LAMBDA e : e.id # id)

Update(stored, id, entry) ==
  [i \in DOMAIN stored |-> IF stored[i].id = id THEN entry ELSE stored[i]]

Assign(names, name, value) ==
  IF \E i \in DOMAIN names : names[i][1] = name
    THEN [i \in DOMAIN names |-> IF names[i][1] = name THEN <<name, value>> ELSE names[i]]
    ELSE Append(names, <<name, value>>)

Delete(names, name) == SelectSeq(names, LAMBDA n : n[1] # name)

-----------------------------------------------------------------------------
(* PluginRegistry.  Grants that come with an installation are grants right *)
(* after it.                                                               *)

InstallPlugin(stored, disk, path) ==
  LET executable == RealPath(disk, path)
      probe == disk[executable].content
      accepted ==
        /\ IsArtifact(disk, path, TRUE)
        /\ probe.protocol[1] = 1
        /\ probe.id \notin ReservedIds
        /\ ~IsStored(stored, probe.id)
  IN IF accepted
       THEN Append(stored, [id |-> probe.id, protocol |-> probe.protocol, hash |-> probe,
                            executable |-> executable, grants |-> <<>>])
       ELSE stored

GrantCredential(stored, id, name, value) ==
  Update(stored, id, [Entry(stored, id) EXCEPT !.grants = Assign(@, name, value)])

RevokeCredential(stored, id, name) ==
  Update(stored, id, [Entry(stored, id) EXCEPT !.grants = Delete(@, name)])

(* What the dashboard hears of.                                            *)
PluginInventory(stored) ==
  [i \in DOMAIN stored |->
     [id |-> stored[i].id, protocol |-> stored[i].protocol, hash |-> stored[i].hash]]

ResolveExecution(stored, disk, id) ==
  LET plugin == Entry(stored, id)
      executable == RealPath(disk, plugin.executable) IN
  IF /\ IsStored(stored, id)
     /\ IsArtifact(disk, plugin.executable, TRUE)
     /\ disk[executable].content = plugin.hash
    THEN [executable |-> executable, grants |-> plugin.grants]
    ELSE Rejected

-----------------------------------------------------------------------------
(* McpProfileRegistry.                                                     *)

Artifact(disk, path) == [path |-> path, content |-> disk[path].content]

(* attestExecutionArtifacts: a self-contained command may have flags only; *)
(* a runtime starts the script that is its first argument.                 *)
Attest(disk, argv) ==
  LET command == RealPath(disk, argv.command)
      arguments == argv.arguments
      name == disk[command].name
      runsScript == arguments # <<>> /\ name \in Runtimes
      script == RealPath(disk, arguments[1].path)
      accepted ==
        /\ IsArtifact(disk, argv.command, TRUE) /\ name \notin Wrappers
        /\ IF runsScript
             THEN ~arguments[1].flag /\ IsArtifact(disk, arguments[1].path, FALSE)
             ELSE \A i \in DOMAIN arguments : arguments[i].flag
  IN IF ~accepted THEN Rejected
     ELSE IF runsScript
       THEN [artifacts |-> <<Artifact(disk, command), Artifact(disk, script)>>,
             command |-> command, arguments |-> [arguments EXCEPT ![1].path = script]]
       ELSE [artifacts |-> <<Artifact(disk, command)>>,
             command |-> command, arguments |-> arguments]

(* mcpProfileContentHash: of everything but itself, in JSON.               *)
ProfileHash(p) == <<p.id, p.argv, p.secrets, p.artifacts>>
Hashed(p) == [p EXCEPT !.hash = ProfileHash(p)]

AddProfile(profiles, disk, input) ==
  LET attested == Attest(disk, input.argv) IN
  IF attested = Rejected \/ input.secrets # <<>> \/ IsStored(profiles, input.id)
    THEN profiles
    ELSE Append(profiles,
           Hashed([id |-> input.id, argv |-> input.argv, secrets |-> input.secrets,
                   artifacts |-> attested.artifacts, hash |-> <<>>]))

GrantSecret(profiles, id, name, value) ==
  IF name \in ReservedNames THEN profiles
  ELSE LET p == Entry(profiles, id) IN
       Update(profiles, id, Hashed([p EXCEPT !.secrets = Assign(@, name, value)]))

RevokeSecret(profiles, id, name) ==
  IF name \in ReservedNames THEN profiles
  ELSE LET p == Entry(profiles, id) IN
       Update(profiles, id, Hashed([p EXCEPT !.secrets = Delete(@, name)]))

(* #read throws otherwise, and no operation succeeds any more.             *)
IsReadable(profiles) ==
  \A i \in DOMAIN profiles : profiles[i].hash = ProfileHash(profiles[i])

(* get, and verifyMcpProfileArtifacts.                                     *)
Get(profiles, disk, id) ==
  LET profile == Entry(profiles, id)
      attested == Attest(disk, profile.argv) IN
  IF /\ IsReadable(profiles) /\ IsStored(profiles, id)
     /\ attested # Rejected
     /\ attested.artifacts = profile.artifacts
    THEN [profile |-> profile, launch |-> attested]
    ELSE Rejected

-----------------------------------------------------------------------------
(* What a list holds after any operations on one disk.                     *)

IdsAreUnique(stored) ==
  \A i, j \in DOMAIN stored : stored[i].id = stored[j].id => i = j

PluginsAreSound(stored) ==
  /\ IdsAreUnique(stored)
  /\ \A i \in DOMAIN stored : stored[i].id \notin ReservedIds /\ stored[i].protocol[1] = 1

(* No secret under a reserved name, and, whatever was granted and revoked, *)
(* a file that can be read again.                                          *)
ProfilesAreSound(profiles) ==
  /\ IdsAreUnique(profiles) /\ IsReadable(profiles)
  /\ \A i \in DOMAIN profiles, name \in ReservedNames :
       \A s \in DOMAIN profiles[i].secrets : profiles[i].secrets[s][1] # name

(* A plugin is started iff the file that was installed is, on the disk as  *)
(* it is now, what it was; what is started answers to the plugin's id.     *)
StartsWhatWasInstalled(stored, before, now) ==
  \A i \in DOMAIN stored :
    LET e == stored[i]
        started == ResolveExecution(stored, now, e.id) IN
    /\ started # Rejected <=>
         /\ IsArtifact(now, e.executable, TRUE)
         /\ now[RealPath(now, e.executable)].content = before[e.executable].content
    /\ started # Rejected =>
         now[started.executable].content.id = e.id /\ started.grants = e.grants

(* A server is launched iff command and script resolve to the same files   *)
(* with the same contents; nothing is launched that was not attested.      *)
LaunchesWhatWasAttested(profiles, before, now) ==
  \A i \in DOMAIN profiles :
    LET e == profiles[i]
        got == Get(profiles, now, e.id) IN
    /\ now = before => got # Rejected
    /\ got # Rejected =>
         /\ got.launch.artifacts = Attest(before, e.argv).artifacts
         /\ got.launch.command \in {a.path : a \in {e.artifacts[k] : k \in DOMAIN e.artifacts}}
         /\ \A k \in DOMAIN got.launch.arguments :
              got.launch.arguments[k].flag \/ Len(e.artifacts) = 2

(* A grant to a plugin leaves its identity, to which jobs are pinned; one  *)
(* to a profile makes another of it, and its revocation takes it back if   *)
(* the name was new.                                                       *)
GrantsAndIdentity(plugins, profiles, names) ==
  \A name \in names, value \in names :
    /\ \A i \in DOMAIN plugins :
         LET granted == GrantCredential(plugins, plugins[i].id, name, value) IN
         /\ PluginInventory(granted) = PluginInventory(plugins)
         /\ PluginInventory(RevokeCredential(plugins, plugins[i].id, name)) = PluginInventory(plugins)
    /\ \A i \in DOMAIN profiles :
         LET id == profiles[i].id
             granted == GrantSecret(profiles, id, name, value)
             isNew == \A s \in DOMAIN profiles[i].secrets : profiles[i].secrets[s][1] # name IN
         /\ granted # profiles => granted[i].hash # profiles[i].hash
         /\ isNew => RevokeSecret(granted, id, name) = profiles
=============================================================================
