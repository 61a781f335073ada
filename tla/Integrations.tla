------------------------------ MODULE Integrations ------------------------------
(***************************************************************************)
(* What the controller of each kind of custom resource does in one pass,   *)
(* as a sequence of steps.  A step serves a section of the spec and works  *)
(* on a cell of the application (a settings document, or one resource      *)
(* declared in a list).  IntegrationPass says what the steps do; this      *)
(* module only says which controller takes which, in which order.          *)
(*                                                                         *)
(*   secret, needs     resolve a Secret: without it the pass ends, or only *)
(*                     this section is given up                            *)
(*   client            build the HTTP client                               *)
(*   schema            ask which option fields there are                   *)
(*   ping, login, session, probe, lookup, references, wizard               *)
(*                     requests that leave the modelled state alone        *)
(*   read              list the resources of the section                   *)
(*   part, write       send the declared values, whatever is there         *)
(*   settle, merge     compare with what is there, write a difference      *)
(*   replace           update the listed resource or create it             *)
(*   create, add       create unless listed; create in any case            *)
(*   clear             remove what is listed                               *)
(*   nodes, nudge      Tdarr: pick a node, move its worker limit by one    *)
(*   gate, finish      Seerr, Jellyfin: end the setup of a new application *)
(*   threshold, close  FlareSolverr: bound and do the pruning              *)
(***************************************************************************)
EXTENDS IntegrationPass, SequencesExt

On(do, sec, cell) == <<[do |-> do, sec |-> sec, cell |-> cell, setup |-> FALSE]>>
Do(do, sec) == On(do, sec, sec)

(* Only done for an application that has not been set up.                  *)
Setup(steps) == [i \in DOMAIN steps |-> [steps[i] EXCEPT !.setup = TRUE]]

Each(Op(_), secs) == FlattenSeq([i \in DOMAIN secs |-> Op(secs[i])])

Key == Do("secret", Always)
TLS == Do("secret", "tls")
Client == Do("client", Always)
Ping == Do("ping", Always)
Preamble == Key \o TLS \o Client \o Ping

Secret(sec) == Do("secret", sec)
Write(sec) == Do("write", sec)
KeyThenWrite(sec) == Do("needs", sec) \o Do("write", sec)
Torn(sec) == Do("part", sec) \o Do("write", sec)
Setting(sec) == Do("read", sec) \o Do("settle", sec)
Resource(sec) == Do("read", sec) \o Do("merge", sec)
Upsert(sec) == Do("read", sec) \o Do("replace", sec)
CreateOnly(sec) == Do("read", sec) \o Do("create", sec)

-----------------------------------------------------------------------------
(* Sonarr, Radarr, Lidarr, Readarr. Ownership, pruning and stages that do  *)
(* not resolve are in ConfigController. A section with option fields may   *)
(* name one that the application does not have: "unknownFields" is         *)
(* declared with it. ValidateOptionFields reports it, and all is applied   *)
(* as declared.                                                            *)
ServarrSettings == <<"mediaManagement", "naming", "indexerConfig", "downloadClientConfig", "ui">>
ServarrBase ==
  Each(Setting, ServarrSettings) \o CreateOnly("rootFolders")
  \o Each(Resource, <<"remotePathMappings", "downloadClients", "indexers", "customFormats",
                      "notifications">>)
ServarrSync ==
  Resource("tags") \o ServarrBase \o Resource("qualityProfiles") \o Resource("importLists")
ServarrSections ==
  ToSet(ServarrSettings)
    \cup {"tags", "rootFolders", "remotePathMappings", "downloadClients", "indexers",
          "customFormats", "notifications", "qualityProfiles", "importLists"}
ServarrSecrets == {"downloadClients", "indexers", "notifications", "importLists"}
ServarrOptions == {"downloadClients", "indexers", "notifications"}
ValidateOptionFields == Do("schema", "unknownFields")
ServarrPass ==
  Key \o Secret("downloadClients") \o TLS \o Client \o Ping
  \o Each(Secret, <<"indexers", "notifications", "importLists">>)
  \o ValidateOptionFields \o ServarrSync

(* fieldsOnly: sections with a fields list whose valueFrom nobody resolves. *)
Servarr(steps, sections, watched) ==
  [pass |-> steps, sections |-> sections, options |-> ServarrOptions, secrets |-> ServarrSecrets,
   watched |-> watched, fieldsOnly |-> {"downloadClients", "customFormats"}, observes |-> TRUE,
   cleans |-> TRUE, cleanup |-> <<>>]

SonarrPass == ServarrPass
RadarrPass == ServarrPass
LidarrPass == ServarrPass
ReadarrPass == ServarrPass
SonarrConfigSpec == ServarrSections
RadarrConfigSpec == ServarrSections
LidarrConfigSpec == ServarrSections
ReadarrConfigSpec == ServarrSections
SonarrWatches == {Always} \cup ServarrSecrets
RadarrWatches == {Always} \cup ServarrSecrets
LidarrWatches == {Always} \cup ServarrSecrets
ReadarrWatches == {Always} \cup ServarrSecrets

-----------------------------------------------------------------------------
(* The other controllers.                                                  *)

Other(steps, sections, secrets, watched) ==
  [pass |-> steps, sections |-> sections, options |-> {}, secrets |-> secrets,
   watched |-> watched, fieldsOnly |-> {}, observes |-> FALSE, cleans |-> FALSE, cleanup |-> <<>>]
Comparing(integration) == [integration EXCEPT !.observes = TRUE]

ProwlarrConfigSpec ==
  {"tags", "appProfiles", "applications", "indexers", "proxies", "downloadClients",
   "notifications"}
ProwlarrPass ==
  Preamble \o Secret("indexers") \o Each(Resource, <<"tags", "appProfiles">>)
  \o Do("references", Always) \o Secret("applications")
  \o Each(Resource, <<"applications", "indexers", "proxies", "downloadClients",
                      "notifications">>)
ProwlarrWatches == {Always, "applications"}

FlareSolverrSessions == <<"session1", "session2">>
FlareSolverrConfigSpec == ToSet(FlareSolverrSessions)
Open(session) == Do("open", session)
Close(session) == On("close", Always, session)
FlareSolverrPass ==
  TLS \o Client \o Ping \o Do("list", Always) \o Each(Open, FlareSolverrSessions)
  \o Do("threshold", Always) \o Each(Close, FlareSolverrSessions)
FlareSolverrCleanup ==
  TLS \o Client \o Do("list", Always) \o Do("threshold", Always)
  \o Each(Close, FlareSolverrSessions)

SeerrConfigSpec ==
  {"apiKey", "jellyfinAuth", "plexAuth", "main", "sonarr", "radarr", "notifications"}
SeerrSecrets == {"apiKey", "jellyfinAuth", "plexAuth", "sonarr", "radarr"}
SeerrConnection(sec) == Do("needs", sec) \o Do("lookup", sec)
SeerrInitialization ==
  Do("part", "jellyfinAuth") \o Torn("jellyfinAuth") \o Write("plexAuth")
  \o SeerrConnection("sonarr") \o Do("add", "sonarr")
  \o SeerrConnection("radarr") \o Do("add", "radarr")
  \o Write("main") \o Do("gate", Always) \o Do("finish", Always)
SeerrPass ==
  TLS \o Client \o Do("probe", Always) \o Do("session", Always) \o Setup(SeerrInitialization)
  \o SeerrConnection("sonarr") \o Upsert("sonarr")
  \o SeerrConnection("radarr") \o Upsert("radarr")
  \o Write("main") \o Write("notifications")
SeerrWatches == SeerrSecrets \ {"apiKey"}

JellyfinConfigSpec == {"server", "encoding", "libraries"}
JellyfinWizard ==
  Do("wizard", Always) \o Do("wizard", Always) \o Do("wizard", Always) \o Do("finish", Always)
JellyfinPass ==
  Key \o TLS \o Client \o Do("probe", Always) \o Setup(JellyfinWizard) \o Do("login", Always)
  \o Setting("encoding") \o Setting("server") \o CreateOnly("libraries")

TdarrConfigSpec == {"libraries", "flows", "workers"}
TdarrVariables ==
  Do("read", "libraries") \o On("merge", "libraries", "variables")
  \o On("clear", "libraries", "strays")
TdarrPass ==
  Preamble \o Upsert("libraries") \o TdarrVariables \o Upsert("flows")
  \o Do("nodes", "workers") \o Do("nudge", "workers")

PlexConfigSpec == {"preferences", "libraries"}
PlexPass == Preamble \o Write("preferences") \o CreateOnly("libraries")

(* Folders and general share one key, the script directory: FieldSync.     *)
SabnzbdConfigSpec == {"folders", "general", "servers", "categories"}
SabnzbdPass ==
  Preamble \o Torn("folders") \o Torn("general") \o Do("needs", "servers") \o Torn("servers")
  \o Torn("categories")

QBittorrentConfigSpec == {"preferences", "categories"}
QBittorrentPass ==
  Key \o TLS \o Client \o Do("login", Always) \o Ping \o Write("preferences")
  \o Upsert("categories")

BazarrConfigSpec ==
  {"general", "subSync", "sonarrConnection", "radarrConnection", "providers", "languages"}
BazarrPass ==
  Preamble \o Write("general") \o Write("subSync")
  \o Each(KeyThenWrite, <<"sonarrConnection", "radarrConnection", "providers">>)
  \o Write("languages")
BazarrWatches == {Always, "sonarrConnection", "radarrConnection"}

MaintainerrConnections ==
  <<"plexConnection", "sonarrConnection", "radarrConnection", "overseerrConnection">>
MaintainerrConfigSpec == ToSet(MaintainerrConnections) \cup {"settings", "rules"}
MaintainerrPass ==
  Preamble \o Each(KeyThenWrite, MaintainerrConnections) \o Write("settings") \o Upsert("rules")
MaintainerrWatches == {Always} \cup ToSet(MaintainerrConnections)

AutobrrConfigSpec == {"downloadClients", "indexers", "ircNetworks", "feeds", "filters"}
AutobrrItem(sec) == Do("read", sec) \o Do("needs", sec) \o Do("replace", sec)
AutobrrPass ==
  Preamble \o Each(AutobrrItem, <<"downloadClients", "indexers", "ircNetworks", "feeds">>)
  \o Upsert("filters")
AutobrrWatches == {Always} \cup (AutobrrConfigSpec \ {"filters"})

-----------------------------------------------------------------------------
Integration ==
  [sonarr |-> Servarr(SonarrPass, SonarrConfigSpec, SonarrWatches),
   radarr |-> Servarr(RadarrPass, RadarrConfigSpec, RadarrWatches),
   lidarr |-> Servarr(LidarrPass, LidarrConfigSpec, LidarrWatches),
   readarr |-> Servarr(ReadarrPass, ReadarrConfigSpec, ReadarrWatches),
   prowlarr |->
     [Other(ProwlarrPass, ProwlarrConfigSpec, {"indexers", "applications"}, ProwlarrWatches)
        EXCEPT !.fieldsOnly = {"downloadClients", "notifications"}, !.observes = TRUE,
               !.cleans = TRUE],
   flaresolverr |->
     [Other(FlareSolverrPass, FlareSolverrConfigSpec, {}, {})
        EXCEPT !.observes = TRUE, !.cleans = TRUE, !.cleanup = FlareSolverrCleanup],
   seerr |-> Other(SeerrPass, SeerrConfigSpec, SeerrSecrets, SeerrWatches),
   jellyfin |-> Comparing(Other(JellyfinPass, JellyfinConfigSpec, {}, {Always})),
   tdarr |-> Other(TdarrPass, TdarrConfigSpec, {}, {Always}),
   plex |-> Other(PlexPass, PlexConfigSpec, {}, {Always}),
   sabnzbd |-> Other(SabnzbdPass, SabnzbdConfigSpec, {"servers"}, {Always}),
   qbittorrent |-> Comparing(Other(QBittorrentPass, QBittorrentConfigSpec, {}, {Always})),
   bazarr |-> Other(BazarrPass, BazarrConfigSpec,
                    {"sonarrConnection", "radarrConnection", "providers"}, BazarrWatches),
   maintainerr |-> Other(MaintainerrPass, MaintainerrConfigSpec,
                         ToSet(MaintainerrConnections), MaintainerrWatches),
   autobrr |-> Other(AutobrrPass, AutobrrConfigSpec, AutobrrConfigSpec \ {"filters"},
                     AutobrrWatches)]
=============================================================================
