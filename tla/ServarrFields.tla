----------------------------- MODULE ServarrFields -----------------------------
(***************************************************************************)
(* The fields of the Servarr family and Prowlarr: the structs of           *)
(* api/common, api/pvr and api/indexers, and the payload builders of       *)
(* internal/client/pvr and internal/client/prowlarr.  Settings sections    *)
(* have no builder: the struct itself is marshalled.                       *)
(***************************************************************************)
EXTENDS Fields

(* Written alike in several of the four applications.                      *)
ExtraFiles == Pointers({"importExtraFiles"}) @@ Values({"extraFileExtensions"})
RecycleBin == Values({"recycleBin"}) @@ Pointers({"recycleBinCleanupDays"})
Importing ==
  Enums({"downloadPropersAndRepacks", "rescanAfterRefresh"})
  @@ Pointers({"minimumFreeSpaceWhenImporting", "setPermissionsLinux"})
DateFormats == Values({"shortDateFormat", "longDateFormat", "timeFormat"})
Limits == Pointers({"minimumAge", "retention", "maximumSize", "rssSyncInterval"})

SonarrMediaManagement ==
  Presets({"copyUsingHardlinks", "deleteEmptyFolders"}) @@ ExtraFiles @@ RecycleBin @@ Importing
  @@ Enums({"episodeTitleRequired"})
  @@ Pointers({"enableMediaInfo", "skipFreeSpaceCheckWhenImporting", "createEmptySeriesFolders"})
SonarrNaming ==
  Pointers({"renameEpisodes", "replaceIllegalCharacters", "colonReplacementFormat",
            "multiEpisodeStyle"})
  @@ Values({"standardEpisodeFormat", "dailyEpisodeFormat", "animeEpisodeFormat",
             "seriesFolderFormat", "seasonFolderFormat", "specialsFolderFormat"})
SonarrIndexerConfig == Limits
SonarrDownloadClientConfig ==
  Presets({"enableCompletedDownloadHandling", "autoRedownloadFailed"})
  @@ Pointers({"autoRedownloadFailedFromInteractiveSearch"})
SonarrUI ==
  Pointers({"firstDayOfWeek", "showRelativeDates", "enableColorImpairedMode", "uiLanguage"})
  @@ DateFormats @@ Enums({"theme"})

RadarrMediaManagement ==
  Presets({"copyUsingHardlinks", "deleteEmptyFolders"}) @@ ExtraFiles @@ RecycleBin @@ Importing
  @@ Pointers({"autoUnmonitorPreviouslyDownloadedMovies", "createEmptyMovieFolders",
               "autoRenameFolders", "pathsDefaultStatic", "enableMediaInfo",
               "skipFreeSpaceCheckWhenImporting"})
RadarrNaming ==
  Pointers({"renameMovies", "replaceIllegalCharacters"}) @@ Enums({"colonReplacementFormat"})
  @@ Values({"standardMovieFormat", "movieFolderFormat"})
RadarrIndexerConfig ==
  Limits @@ Pointers({"preferIndexerFlags", "availabilityDelay", "allowHardcodedSubs"})
  @@ Values({"whitelistedHardcodedSubs"})
RadarrDownloadClientConfig ==
  Presets({"enableCompletedDownloadHandling", "autoRedownloadFailed"})
  @@ Pointers({"autoRedownloadFailedFromInteractiveSearch", "checkForFinishedDownloadInterval"})
RadarrUI ==
  Pointers({"firstDayOfWeek", "showRelativeDates", "enableColorImpairedMode", "uiLanguage",
            "movieInfoLanguage"})
  @@ DateFormats @@ Enums({"theme", "movieRuntimeFormat"})

LidarrMediaManagement ==
  ExtraFiles @@ RecycleBin @@ Importing
  @@ Pointers({"copyUsingHardlinks", "deleteEmptyFolders", "createEmptyArtistFolders"})
LidarrNaming ==
  Pointers({"renameTracks", "replaceIllegalCharacters"})
  @@ Values({"standardTrackFormat", "multiDiscTrackFormat", "artistFolderFormat"})
LidarrIndexerConfig == Limits
LidarrDownloadClientConfig == Pointers({"enableCompletedDownloadHandling", "autoRedownloadFailed"})
LidarrUI == Pointers({"firstDayOfWeek", "uiLanguage"}) @@ DateFormats @@ Enums({"theme"})

ReadarrMediaManagement ==
  ExtraFiles @@ RecycleBin @@ Importing
  @@ Pointers({"copyUsingHardlinks", "deleteEmptyFolders", "createEmptyAuthorFolders"})
ReadarrNaming ==
  Pointers({"renameBooks", "replaceIllegalCharacters"})
  @@ Values({"standardBookFormat", "authorFolderFormat"})
ReadarrIndexerConfig == Limits
ReadarrDownloadClientConfig == Pointers({"enableCompletedDownloadHandling", "autoRedownloadFailed"})
ReadarrUI == Pointers({"firstDayOfWeek", "uiLanguage"}) @@ DateFormats @@ Enums({"theme"})

-----------------------------------------------------------------------------
(* Resources. Tag labels end up in tags, as the identifiers they name. A   *)
(* list that is always sent is sent empty when nothing is declared; only   *)
(* the fields of a download client always have entries of their own. The   *)
(* items of a quality profile are no list of named objects: a quality has  *)
(* its name one level down. An empty Secret is none.                       *)

RootFolder == Required({"path"})
Tag == Required({"label"})
RemotePathMapping == Required({"host", "remotePath", "localPath"})
RemotePathMappingPayload == Always({"host", "remotePath", "localPath"})

ConfigField == Required({"name"}) @@ Pointers({"value"})
FieldsPayload == Always({"name", "value"})

DownloadClient ==
  Required({"name", "protocol", "implementation", "host", "port"})
  @@ Presets({"enable", "priority", "removeCompletedDownloads", "removeFailedDownloads"})
  @@ Pointers({"useSsl"})
  @@ Values({"configContract", "username", "password", "apiKey", "urlBase", "category", "tags",
             "tagLabels"})
  @@ Entries({"fields"})
BuildDownloadClientPayload ==
  Always({"name", "protocol", "implementation", "host", "port", "category", "useSsl", "tags",
          "tagLabels"})
  @@ OrDefault({"enable", "priority", "removeCompletedDownloads", "removeFailedDownloads"})
  @@ OrDerived({"configContract"})
  @@ Nonempty({"username", "password", "apiKey", "urlBase", "fields"})

Indexer ==
  Required({"name", "protocol", "implementation"}) @@ Enums({"priority"})
  @@ Presets({"enable", "enableRss", "enableAutomaticSearch", "enableInteractiveSearch"})
  @@ Values({"configContract", "tags", "tagLabels"}) @@ Entries({"fields"})
BuildIndexerPayload ==
  Always({"name", "protocol", "implementation", "tags", "tagLabels", "fields"}) @@ Set({"priority"})
  @@ OrDefault({"enable", "enableRss", "enableAutomaticSearch", "enableInteractiveSearch"})
  @@ OrDerived({"configContract"})

NotificationTriggers ==
  {"onGrab", "onDownload", "onUpgrade", "onRename", "onHealthIssue", "onHealthRestored",
   "onApplicationUpdate", "onManualInteractionRequired", "includeHealthWarnings",
   "onSeriesAdd", "onSeriesDelete", "onEpisodeFileDelete", "onEpisodeFileDeleteForUpgrade",
   "onMovieAdded", "onMovieDelete", "onMovieFileDelete", "onMovieFileDeleteForUpgrade"}
Notification ==
  Required({"name", "implementation"}) @@ Values({"configContract", "tags", "tagLabels"})
  @@ Entries({"fields"}) @@ Pointers(NotificationTriggers)
BuildNotificationPayload ==
  Always({"name", "implementation", "tags", "tagLabels", "fields"})
  @@ OrDerived({"configContract"}) @@ Set(NotificationTriggers)

ImportListChoices ==
  {"monitor", "rootFolderPath", "seriesType", "minimumAvailability", "qualityProfileName"}
ImportListSwitches ==
  {"enableAutomaticAdd", "shouldMonitor", "seasonFolder", "searchOnAdd", "listOrder"}
ImportList ==
  Required({"name", "implementation"}) @@ Presets({"enable"})
  @@ Values({"configContract", "tags", "tagLabels"} \cup ImportListChoices)
  @@ Entries({"fields"}) @@ Pointers(ImportListSwitches)
BuildImportListPayload ==
  Always({"name", "implementation", "tags", "tagLabels", "fields"}) @@ OrDefault({"enable"})
  @@ OrDerived({"configContract"}) @@ Set(ImportListSwitches) @@ Nonempty(ImportListChoices)

CustomFormat ==
  Required({"name"}) @@ Pointers({"includeCustomFormatWhenRenaming"}) @@ Entries({"specifications"})
BuildCustomFormatPayload ==
  Always({"name", "includeCustomFormatWhenRenaming", "specifications"})
CustomFormatSpecification ==
  Required({"name", "implementation"}) @@ Pointers({"negate", "required"}) @@ Entries({"fields"})
CustomFormatSpecificationPayload ==
  Always({"name", "implementation", "negate", "required", "fields"})

QualityProfileScores ==
  {"upgradeAllowed", "minFormatScore", "cutoffFormatScore", "minUpgradeFormatScore"}
QualityProfile ==
  Required({"name"}) @@ Pointers(QualityProfileScores) @@ Values({"cutoff", "items"})
  @@ Entries({"formatItems"})
BuildQualityProfilePayload ==
  Always({"name"}) @@ Set(QualityProfileScores) @@ Nonempty({"cutoff", "items", "formatItems"})
QualityProfileItem == Values({"name"}) @@ Pointers({"quality", "allowed"}) @@ Values({"items"})
BuildQualityItems == Always({"name", "quality", "items"}) @@ OrDefault({"allowed"})

-----------------------------------------------------------------------------
(* Prowlarr.                                                               *)

AppProfileSwitches ==
  {"enableRss", "enableAutomaticSearch", "enableInteractiveSearch", "minimumSeeders"}
ProwlarrAppProfile == Required({"name"}) @@ Pointers(AppProfileSwitches)
ProwlarrAppProfilePayload == Always({"name"}) @@ Set(AppProfileSwitches)

ProwlarrApplication ==
  Required({"name", "implementation", "configContract", "baseUrl", "apiKey"})
  @@ Enums({"syncLevel"}) @@ Values({"prowlarrUrl", "syncCategories", "tags"})
BuildProwlarrApplicationPayload == Always(DOMAIN ProwlarrApplication)

ProwlarrIndexer ==
  Required({"name", "implementation", "configContract"}) @@ Presets({"enable"})
  @@ Pointers({"appProfileId", "priority"}) @@ Values({"appProfileName", "tags"})
  @@ Entries({"fields"})
BuildProwlarrIndexerPayload ==
  Always({"name", "implementation", "configContract", "fields", "tags"})
  @@ OrDefault({"enable"}) @@ Set({"appProfileId", "priority"}) @@ Nonempty({"appProfileName"})

ProwlarrProxy ==
  Required({"name", "implementation", "configContract", "host"})
  @@ Pointers({"requestTimeout"}) @@ Values({"tags"})
BuildProwlarrProxyPayload ==
  Always({"name", "implementation", "configContract", "host", "tags"}) @@ Set({"requestTimeout"})

ProwlarrDownloadClient ==
  Required({"name", "protocol", "implementation"}) @@ Presets({"enable"})
  @@ Pointers({"priority"}) @@ Values({"configContract", "categories", "tags"})
  @@ Entries({"fields"})
BuildProwlarrDownloadClientPayload ==
  Always({"name", "protocol", "implementation", "categories", "fields", "tags"})
  @@ OrDefault({"enable"}) @@ OrDerived({"configContract"}) @@ Set({"priority"})
=============================================================================
