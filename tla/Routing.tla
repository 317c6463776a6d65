------------------------------- MODULE Routing -------------------------------
(***************************************************************************)
(* The plugins an engine knows and the plugin a launch goes to: DapEngine, *)
(* PluginRegistry and resolve_route of dap-core, the registry, router and  *)
(* StaticPlugin of protocol-gateway, load_from_dir of dap-plugin-api.      *)
(*                                                                         *)
(* The engine's registry is a list without two manifests of one id.  The   *)
(* order of the list decides between plugins that claim the same launch.   *)
(***************************************************************************)
EXTENDS Naturals, Sequences, FiniteSets, SequencesExt

CONSTANTS
  IdOrder,     \* the plugin ids in the order of load_from_dir, alphabetical
  Dirs,        \* plugin directories: sets of manifests
  Launches,    \* the launches asked about
  MaxLoads,    \* bound on the loads and registrations
  None

(* A manifest is [id, types, exts, adapter, origin]: launchTypes,          *)
(* fileExtensions, the command it starts and where it comes from.  A       *)
(* launch is [adapter, type, ext, cargo]: what was asked for, None when it *)
(* was not, the extension of the program and whether its path looks like a *)
(* Cargo binary (without a program: None and FALSE).                       *)

Manifests == UNION Dirs

\* A manifest without what this module does not look at.
WellFormed(manifest) ==
  /\ manifest = [id |-> manifest.id, types |-> manifest.types, exts |-> manifest.exts,
                 adapter |-> manifest.adapter, origin |-> manifest.origin]
  /\ manifest.adapter = [transport |-> manifest.adapter.transport,
                         parts |-> manifest.adapter.parts]
  /\ None \notin {manifest.id} \cup manifest.types \cup manifest.exts

ASSUME RoutingAssumption ==
  /\ MaxLoads \in Nat
  /\ \A dir \in Dirs : IsFiniteSet(dir)
  /\ \A manifest \in Manifests : WellFormed(manifest) /\ Contains(IdOrder, manifest.id)

VARIABLES
  overrides,   \* the ids whose command an environment variable replaces
  plugins,     \* self.plugins of the registry
  latest,      \* id -> the manifest registered last and when, for the properties
  loads        \* loads so far

routesVars == <<overrides, plugins, latest, loads>>

-----------------------------------------------------------------------------
(* The registry *)

IdsOf(list) == {list[i].id : i \in DOMAIN list}

\* find: the first of a list with that id.
Get(list, id) ==
  IF id \in IdsOf(list) THEN list[Min({i \in DOMAIN list : list[i].id = id})] ELSE None

\* retain: a list without what has that id.
Retain(list, id) ==
  FoldLeft(LAMBDA kept, p : IF p.id = id THEN kept ELSE Append(kept, p), <<>>, list)

\* Fault: a manifest takes the place of the one it replaces.
RegisterInPlace(list, manifest) ==
  IF manifest.id \in IdsOf(list)
    THEN [i \in DOMAIN list |-> IF list[i].id = manifest.id THEN manifest ELSE list[i]]
    ELSE Append(list, manifest)

\* Fault: a second manifest of an id is refused, as the gateway refuses it.
RegisterFirst(list, manifest) ==
  IF manifest.id \in IdsOf(list) THEN list ELSE Append(list, manifest)

Register(list, manifest) == Append(Retain(list, manifest.id), manifest)

RegisterAll(list, manifests) == FoldLeft(Register, list, manifests)

\* LLDB_DAP and PYTHON replace the command of the plugins rust and python.
PatchAdapter(manifest) ==
  IF manifest.id \in overrides
    THEN [manifest EXCEPT !.adapter.parts[1] = "from-env"]
    ELSE manifest

PatchRegistry(list) == RegisterAll(<<>>, [i \in DOMAIN list |-> PatchAdapter(list[i])])

\* What load_from_dir may return: sorted by id, the manifests of one id in
\* the order of the directory, which is any.
Listings(dir) ==
  LET place(m) == CHOOSE i \in DOMAIN IdOrder : IdOrder[i] = m.id IN
  {list \in SetToSeqs(dir) :
     \A i \in 1..(Len(list) - 1) : place(list[i]) <= place(list[i + 1])}

-----------------------------------------------------------------------------
(* The route of a launch *)

LaunchType(launch) ==
  IF launch.type /= None
    THEN launch.type
    ELSE IF launch.adapter = None /\ launch.cargo THEN "rust" ELSE None

Matches(manifest, launch) ==
  LaunchType(launch) \in manifest.types \/ launch.ext \in manifest.exts

\* build_gateway_registry: the first manifest of an id stays.
GatewayList(list) ==
  FoldLeft(LAMBDA gw, m : IF m.id \in IdsOf(gw) THEN gw ELSE Append(gw, m), <<>>, list)

DefaultPlugin(gateway) == IF "fake" \in IdsOf(gateway) THEN "fake" ELSE None

\* Router::resolve once no plugin was asked for.
FirstMatch(gateway, launch) ==
  LET matching == {i \in DOMAIN gateway : Matches(gateway[i], launch)} IN
  IF matching /= {} THEN gateway[Min(matching)].id ELSE DefaultPlugin(gateway)

\* The id of the plugin a launch goes to, or None.
Resolve(list, launch) ==
  IF launch.adapter /= None
    THEN IF launch.adapter \in IdsOf(GatewayList(list)) THEN launch.adapter ELSE None
    ELSE FirstMatch(GatewayList(list), launch)

\* resolve_route: the manifest comes from the engine's registry.
Route(list, launch) == Get(list, Resolve(list, launch))

-----------------------------------------------------------------------------
(* The operations of an engine *)

RoutesInit ==
  /\ overrides \in SUBSET {"rust", "python"}
  /\ plugins = <<>> /\ latest = [id \in {} |-> None] /\ loads = 0

\* The manifest of an id that is registered last.
LastOf(list, id) == list[Max({i \in DOMAIN list : list[i].id = id})]

Loaded(list) ==
  /\ loads' = loads + 1
  /\ latest' = [id \in IdsOf(list) \cup DOMAIN latest |->
                  IF id \in IdsOf(list)
                    THEN [manifest |-> LastOf(list, id), load |-> loads']
                    ELSE latest[id]]

\* load_plugins_from_dir, load_builtin_plugins
LoadPlugins ==
  /\ loads < MaxLoads
  /\ \E dir \in Dirs : \E list \in Listings(dir) :
       /\ plugins' = PatchRegistry(RegisterAll(plugins, list))
       /\ Loaded(list)
  /\ UNCHANGED overrides

RegisterPlugin ==
  /\ loads < MaxLoads
  /\ \E manifest \in Manifests :
       /\ plugins' = Register(plugins, PatchAdapter(manifest))
       /\ Loaded(<<manifest>>)
  /\ UNCHANGED overrides

RoutesNext == LoadPlugins \/ RegisterPlugin

RoutesSpec == RoutesInit /\ [][RoutesNext]_routesVars

-----------------------------------------------------------------------------
(* Properties *)

Claims(manifest, launch) ==
  \/ launch.type /= None /\ launch.type \in manifest.types
  \/ launch.type = None /\ launch.cargo /\ "rust" \in manifest.types
  \/ launch.ext /= None /\ launch.ext \in manifest.exts

(* A launch that names a plugin goes to it or fails, as gateway.rs:37 and   *)
(* docs/tui-client.md:73 have it; the help of --adapter says otherwise      *)
(* (dap-proxy/src/main.rs:34: "Ignored when `--program` triggers routing"). *)
(* Another goes to a plugin that claims it by type or extension if there is *)
(* one, and otherwise to fake if it is there.                               *)
RouteFollowsRules ==
  \A launch \in Launches :
    LET manifest == Route(plugins, launch)
        claimants == {p \in ToSet(plugins) : Claims(p, launch)} IN
    IF launch.adapter /= None
      THEN manifest = Get(plugins, launch.adapter)
      ELSE IF claimants /= {}
             THEN manifest \in claimants
             ELSE manifest = Get(plugins, "fake")

(* Whatever was loaded and registered in whatever order, and whatever the   *)
(* environment replaces, the manifest a launch gets is the last one         *)
(* registered under its id, patched.                                        *)
LatestManifestServes ==
  \A launch \in Launches :
    LET manifest == Route(plugins, launch) IN
    manifest /= None => manifest = PatchAdapter(latest[manifest.id].manifest)

(* A launch is served by the plugin the rules name, as it was registered    *)
(* last (engine.rs and registry.rs together).                               *)
LaunchServed == RouteFollowsRules /\ LatestManifestServes

(* Registering manifests never takes a launch from a plugin that claims it  *)
(* and is not among them: a manifest that replaces one goes to the end.     *)
OverrideTakesNothing ==
  [][\A launch \in Launches :
       LET before == Route(plugins, launch) IN
       (before /= None /\ Claims(before, launch)
          /\ latest'[before.id] = latest[before.id])
         => Route(plugins', launch) = before]_routesVars
=============================================================================
