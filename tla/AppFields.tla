------------------------------- MODULE AppFields -------------------------------
(***************************************************************************)
(* The fields of the other integrations: the structs of their api/ groups  *)
(* and the code in their controllers that builds the requests.  A field    *)
(* that names a Secret stands for the value found there.                   *)
(***************************************************************************)
EXTENDS Fields

(* Jellyfin. Settings are marshalled; a library is created, never updated. *)
JellyfinServer ==
  Values({"serverName", "preferredMetadataLanguage", "metadataCountryCode"})
  @@ Pointers({"logFileRetentionDays", "enableGroupingMoviesIntoCollections",
               "displaySpecialsWithinSeasons", "libraryMonitorDelay"})
JellyfinEncoding ==
  Enums({"hardwareAccelerationType"})
  @@ Values({"vaapiDevice", "encoderPreset", "hardwareDecodingCodecs"})
  @@ Pointers({"enableHardwareEncoding", "allowHevcEncoding", "enableTonemapping",
               "enableVppTonemapping", "h264Crf", "h265Crf", "enableIntelLowPowerH264HwEncoder",
               "enableIntelLowPowerHevcHwEncoder", "enableSubtitleExtraction",
               "enableThrottling", "throttleDelaySeconds"})
JellyfinLibrarySwitches ==
  {"enableRealtimeMonitor", "enableTrickplayImageExtraction", "automaticRefreshIntervalDays"}
JellyfinLibrary ==
  Required({"name", "collectionType", "paths"}) @@ Pointers(JellyfinLibrarySwitches)
  @@ Values({"preferredMetadataLanguage", "metadataCountryCode"})
reconcileJellyfinLibrary ==
  Always({"name", "collectionType", "paths"}) @@ Set(JellyfinLibrarySwitches)
  @@ Nonempty({"preferredMetadataLanguage", "metadataCountryCode"})

(* Plex. Preferences go into one query string.                             *)
PlexServer ==
  Values({"friendlyName", "language"})
  @@ Pointers({"enableRemoteAccess", "logDebug", "autoEmptyTrash", "scanMyLibraryAutomatically",
               "scanMyLibraryPeriodically"})
PlexTranscoder ==
  Values({"hardwareAccelerationType", "transcoderTempDirectory"})
  @@ Pointers({"transcodeHwRequested", "maxSimultaneousVideoTranscodes",
               "transcodeHwDecodingEnabled", "transcodeHwEncodingEnabled"})
PlexNetwork ==
  Pointers({"secureConnections", "enableIPv6"})
  @@ Values({"customServerAccessUrls", "allowedNetworks"})
PlexPreferences == PlexServer @@ PlexTranscoder @@ PlexNetwork
buildPlexPreferences ==
  Nonempty({"friendlyName", "language", "hardwareAccelerationType", "transcoderTempDirectory",
            "customServerAccessUrls", "allowedNetworks"})
  @@ Set({"autoEmptyTrash", "scanMyLibraryAutomatically", "scanMyLibraryPeriodically",
          "logDebug", "enableRemoteAccess", "transcodeHwRequested",
          "maxSimultaneousVideoTranscodes", "transcodeHwDecodingEnabled",
          "transcodeHwEncodingEnabled", "secureConnections", "enableIPv6"})
PlexLibrary == Required({"name", "type", "paths"}) @@ Values({"language", "scanner", "agent"})
PlexLibraryPayload ==
  Always({"name", "type", "paths"}) @@ OrDerived({"language", "scanner", "agent"})

-----------------------------------------------------------------------------
(* SABnzbd: one request per value.                                         *)
SabnzbdFolders ==
  Values({"completeDir", "incompleteDir", "tempDownloadDir", "nzbBackupDir", "scriptDir"})
buildSabnzbdFolderValues == Nonempty(DOMAIN SabnzbdFolders)
SabnzbdGeneral ==
  Values({"downloadSpeedLimit", "scriptDir"})
  @@ Pointers({"pauseOnPostProcessing", "autoSort", "preCheck"})
buildSabnzbdGeneralValues ==
  Nonempty({"downloadSpeedLimit", "scriptDir"})
  @@ Set({"preCheck", "pauseOnPostProcessing", "autoSort"})
SabnzbdServer ==
  Required({"name", "host", "port"}) @@ Presets({"enable"})
  @@ Pointers({"ssl", "username", "password", "connections", "priority", "retention"})
sabnzbdServerValues ==
  Always({"name", "host", "port"})
  @@ Set({"ssl", "connections", "priority", "retention", "enable", "username", "password"})
SabnzbdCategory == Required({"name"}) @@ Values({"dir", "script"}) @@ Pointers({"priority"})
SabnzbdCategoryValues == Always({"name"}) @@ Nonempty({"dir", "script"}) @@ Set({"priority"})

(* qBittorrent.                                                            *)
QBittorrentSwitches ==
  {"tempPathEnabled", "dht", "pex", "lsd", "encryption", "maxConnec", "maxConnecPerTorrent",
   "maxUploads", "maxUploadsPerTorrent", "maxRatioEnabled", "maxRatio", "maxSeedingTimeEnabled",
   "maxSeedingTime", "preallocateAll", "webUiPort", "bypassAuthSubnetWhitelistEnabled"}
QBittorrentPreferences ==
  Values({"savePath", "locale", "bypassAuthSubnetWhitelist"}) @@ Pointers(QBittorrentSwitches)
  @@ Enums({"maxRatioAction"})
qbPreferencePayload ==
  Nonempty({"savePath", "locale", "bypassAuthSubnetWhitelist"})
  @@ Set(QBittorrentSwitches \cup {"maxRatioAction"})
QBittorrentCategory == Required({"name"}) @@ Values({"savePath"})
reconcileQBCategory == Always({"name", "savePath"})

-----------------------------------------------------------------------------
(* Seerr.                                                                  *)
SeerrMain ==
  Values({"applicationTitle", "applicationUrl", "locale"})
  @@ Pointers({"hideAvailable", "localLogin", "mediaServerLogin", "defaultPermissions",
               "partialRequestsEnabled"})
reconcileSeerrMainSettings ==
  Nonempty({"applicationTitle", "applicationUrl", "locale"})
  @@ Set({"hideAvailable", "localLogin", "mediaServerLogin", "defaultPermissions",
          "partialRequestsEnabled"})
SeerrNotificationAgent ==
  Required({"agent"}) @@ Pointers({"enabled", "types"}) @@ Values({"options"})
reconcileSeerrNotificationAgent ==
  Always({"agent"}) @@ Set({"enabled", "types"}) @@ Nonempty({"options"})
SeerrServiceConnection ==
  Required({"name", "hostname", "port", "apiKey"})
  @@ Pointers({"useSsl", "activeProfileId", "is4k", "isDefault", "enableSeasonFolders"})
  @@ Values({"baseUrl", "activeProfileName", "activeDirectory", "seriesType"})
  @@ Enums({"minimumAvailability"})
buildServicePayload ==
  Always({"name", "hostname", "port", "apiKey", "useSsl", "activeProfileId", "is4k", "isDefault",
          "activeProfileName", "activeDirectory"})
  @@ Nonempty({"baseUrl", "seriesType"})
SonarrConnection ==
  Always({"enableSeasonFolders"}) @@ Nonempty({"minimumAvailability"}) @@ buildServicePayload
RadarrConnection ==
  OrDefault({"minimumAvailability"}) @@ Set({"enableSeasonFolders"}) @@ buildServicePayload

(* Only used to set up the application; of plexAuth only the token is.     *)
SeerrJellyfinAuth ==
  Required({"hostname", "port", "username", "password"}) @@ Pointers({"useSsl"})
  @@ Values({"urlBase"})
syncJellyfinLibraries == Always({"hostname", "port", "useSsl", "urlBase"})
AuthenticateJellyfin == Always({"username", "password"}) @@ syncJellyfinLibraries
SeerrPlexAuth ==
  Required({"hostname", "token"}) @@ Presets({"port"}) @@ Pointers({"useSsl"})
AuthenticatePlex == Always({"token"})

-----------------------------------------------------------------------------
(* Bazarr. StructToFormData goes through the fields of a struct.           *)
StructToFormData(kinds) ==
  [n \in DOMAIN kinds |-> IF kinds[n] \in {"value", "enum"} THEN "nonempty"
                          ELSE IF kinds[n] = "required" THEN "always" ELSE "set"]
BazarrGeneral ==
  Pointers({"useSonarr", "useRadarr", "minimumScore", "minimumScoreMovie", "useScenename",
            "usePostprocessing", "adaptiveSearching", "multithreading", "chmodEnabled",
            "upgradeSubs", "upgradeFrequency", "wantedSearchFrequency", "utf8Encode",
            "ignorePgsSubs", "ignoreVobsubSubs", "ignoreAssSubs"})
  @@ Values({"embeddedSubtitlesParser", "hiExtension"})
BazarrSubSync ==
  Pointers({"useSubsync", "useSubsyncThreshold", "subsyncThreshold", "useSubsyncMovieThreshold",
            "subsyncMovieThreshold"})
BazarrAppConnection ==
  Required({"apiKey"}) @@ Values({"host", "basePath"}) @@ Enums({"fullUpdate"})
  @@ Pointers({"port", "ssl", "httpTimeout", "onlyMonitored", "syncInterval"})
BazarrProvider == Required({"name"}) @@ Pointers({"enabled"}) @@ Values({"settings"})
reconcileBazarrProviders == Always({"name"}) @@ OrDefault({"enabled"}) @@ Nonempty({"settings"})
BazarrLanguages == Values({"enabled", "profiles"})
ReconcileLanguages == Nonempty({"enabled", "profiles"})
BazarrLanguageProfile == Required({"profileId", "name"}) @@ Values({"items"})
BazarrLanguageItem == Required({"language"}) @@ Pointers({"hi", "forced", "audioExclude"})
buildLanguageProfiles ==
  Always({"profileId", "name", "items", "language", "hi", "forced", "audioExclude"})

-----------------------------------------------------------------------------
(* Maintainerr.                                                            *)
MaintainerrPlexConnection == Required({"url", "token"})
reconcileMaintainerrPlex == Always({"url", "token"})
MaintainerrArrConnection == Required({"url", "apiKey"})
reconcileMaintainerrArr == Always({"url", "apiKey"})
MaintainerrSettings == Enums({"collectionHandling"}) @@ Pointers({"dryRun"})
buildMaintainerrSettings == Nonempty({"collectionHandling"}) @@ Set({"dryRun"})
MaintainerrRule ==
  Required({"name", "libraryName", "mediaType", "action"}) @@ Presets({"enable"})
  @@ Pointers({"deleteFromDisk"}) @@ Values({"conditions"})
reconcileMaintainerrRule ==
  Always({"name", "libraryName", "mediaType", "action"}) @@ OrDefault({"enable"})
  @@ Set({"deleteFromDisk"}) @@ Nonempty({"conditions"})

(* Autobrr.                                                                *)
AutobrrDownloadClientSettings ==
  Values({"category", "savePath", "contentLayout"}) @@ Pointers({"prioritizeProperRepacks"})
AutobrrDownloadClient ==
  Required({"name", "type", "host"}) @@ Presets({"enable"})
  @@ Pointers({"port", "tls", "username", "password", "apiKey"})
reconcileAutobrrDownloadClient ==
  Always({"name", "type", "host"}) @@ OrDefault({"enable"})
  @@ Set({"port", "tls", "username", "password", "apiKey", "prioritizeProperRepacks"})
  @@ Nonempty({"category", "savePath", "contentLayout"})
AutobrrIndexer ==
  Required({"name", "implementation"}) @@ Presets({"enable"}) @@ Values({"baseURL", "feedURL"})
  @@ Pointers({"apiKey"})
reconcileAutobrrIndexer ==
  Always({"name", "implementation"}) @@ OrDefault({"enable"}) @@ Nonempty({"baseURL", "feedURL"})
  @@ Set({"apiKey"})
AutobrrIRCNetwork ==
  Required({"name", "server", "port", "nick"}) @@ Presets({"enable", "authMechanism"})
  @@ Pointers({"tls", "authAccount", "authPassword"}) @@ Values({"inviteCommand", "channels"})
reconcileAutobrrIRCNetwork ==
  Always({"name", "server", "port", "nick"}) @@ OrDefault({"enable"})
  @@ Set({"tls", "authMechanism", "authAccount", "authPassword"})
  @@ Nonempty({"inviteCommand", "channels"})
AutobrrFeed ==
  Required({"name", "type", "url"}) @@ Presets({"enable", "interval"}) @@ Pointers({"apiKey"})
  @@ Values({"indexerRef"})
reconcileAutobrrFeed ==
  Always({"name", "type", "url"}) @@ OrDefault({"enable"}) @@ Set({"interval", "apiKey"})
  @@ Nonempty({"indexerRef"})
AutobrrFilterTerms ==
  {"matchReleases", "exceptReleases", "matchCategories", "resolutions", "sources", "codecs",
   "minSize", "maxSize", "tags", "indexers", "actions"}
AutobrrFilter ==
  Required({"name"}) @@ Presets({"enable"}) @@ Pointers({"priority", "delay", "useRegex"})
  @@ Values(AutobrrFilterTerms)
reconcileAutobrrFilter ==
  Always({"name"}) @@ OrDefault({"enable"}) @@ Set({"priority", "delay", "useRegex"})
  @@ Nonempty(AutobrrFilterTerms)
AutobrrFilterAction ==
  Required({"name", "type"}) @@ Presets({"enable"})
  @@ Values({"clientRef", "category", "savePath", "webhookURL", "execCommand", "execArgs",
             "watchFolder"})
AutobrrFilterActionPayload ==
  Always({"name", "type"}) @@ OrDefault({"enable"})
  @@ Nonempty({"clientRef", "category", "savePath", "webhookURL", "execCommand", "execArgs",
               "watchFolder"})

-----------------------------------------------------------------------------
(* Tdarr.                                                                  *)
TdarrLibrarySwitches ==
  {"folderWatching", "processLibrary", "processTranscodes", "processHealthChecks", "scanOnStart",
   "scheduledScanFindNew", "scannerThreadCount", "ffmpeg", "priority"}
TdarrLibrary ==
  Required({"id", "name", "folder"})
  @@ Values({"cache", "container", "containerFilter", "foldersToIgnore", "flowId", "pluginStack",
             "variables"})
  @@ Enums({"healthCheckMode", "decisionMode"}) @@ Pointers(TdarrLibrarySwitches)
buildTdarrLibraryDoc ==
  Always({"id", "name", "foldersToIgnore"}) @@ Set(TdarrLibrarySwitches)
  @@ Nonempty({"folder", "cache", "container", "containerFilter", "healthCheckMode",
               "decisionMode", "flowId", "pluginStack", "variables"})
TdarrFlow == Required({"id", "name", "flowPlugins", "flowEdges"}) @@ Values({"description"})
reconcileTdarrFlow ==
  Always({"id", "name", "flowPlugins", "flowEdges"}) @@ Nonempty({"description"})
=============================================================================
