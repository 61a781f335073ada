------------------------------ MODULE MCFieldSync ------------------------------
(***************************************************************************)
(* The payloads of all integrations, by the way they are written.          *)
(***************************************************************************)
EXTENDS FieldSync, ServarrFields, AppFields

By(mode, observed, kinds, rules) ==
  [kinds |-> kinds, rules |-> rules, mode |-> mode, observed |-> observed, contested |-> {}]
Settings(kinds) == By("overlay", TRUE, kinds, Marshalled(kinds))
Item(kinds, rules) == By("items", TRUE, kinds, rules)
Post(kinds, rules) == By("partial", FALSE, kinds, rules)
Upsert(kinds, rules) == By("upsert", FALSE, kinds, rules)

ServarrSettings ==
  {Settings(s) : s \in
     {SonarrMediaManagement, SonarrNaming, SonarrIndexerConfig, SonarrDownloadClientConfig,
      SonarrUI, RadarrMediaManagement, RadarrNaming, RadarrIndexerConfig,
      RadarrDownloadClientConfig, RadarrUI, LidarrMediaManagement, LidarrNaming,
      LidarrIndexerConfig, LidarrDownloadClientConfig, LidarrUI, ReadarrMediaManagement,
      ReadarrNaming, ReadarrIndexerConfig, ReadarrDownloadClientConfig, ReadarrUI}}

ServarrItems ==
  {Item(RemotePathMapping, RemotePathMappingPayload), Item(Tag, Always({"label"})),
   Item(DownloadClient, BuildDownloadClientPayload), Item(ConfigField, FieldsPayload),
   Item(Indexer, BuildIndexerPayload), Item(Notification, BuildNotificationPayload),
   Item(ImportList, BuildImportListPayload), Item(CustomFormat, BuildCustomFormatPayload),
   Item(CustomFormatSpecification, CustomFormatSpecificationPayload),
   Item(QualityProfile, BuildQualityProfilePayload), Item(QualityProfileItem, BuildQualityItems),
   By("create", TRUE, RootFolder, Always({"path"})),
   Item(ProwlarrAppProfile, ProwlarrAppProfilePayload),
   Item(ProwlarrApplication, BuildProwlarrApplicationPayload),
   Item(ProwlarrIndexer, BuildProwlarrIndexerPayload),
   Item(ProwlarrProxy, BuildProwlarrProxyPayload),
   Item(ProwlarrDownloadClient, BuildProwlarrDownloadClientPayload)}

Media ==
  {Settings(JellyfinServer), Settings(JellyfinEncoding),
   By("create", TRUE, JellyfinLibrary, reconcileJellyfinLibrary),
   Post(PlexPreferences, buildPlexPreferences), By("create", FALSE, PlexLibrary, PlexLibraryPayload)}

(* The general section is sent after the folders, with a script directory  *)
(* of its own for the same key.                                            *)
Downloads ==
  {[Post(SabnzbdFolders, buildSabnzbdFolderValues) EXCEPT !.contested = {"scriptDir"}],
   Post(SabnzbdGeneral, buildSabnzbdGeneralValues),
   Post(SabnzbdServer, sabnzbdServerValues), Post(SabnzbdCategory, SabnzbdCategoryValues),
   By("partial", TRUE, QBittorrentPreferences, qbPreferencePayload),
   By("upsert", TRUE, QBittorrentCategory, reconcileQBCategory)}

Requests ==
  {Post(SeerrMain, reconcileSeerrMainSettings),
   Post(SeerrNotificationAgent, reconcileSeerrNotificationAgent),
   Upsert(SeerrServiceConnection, SonarrConnection),
   Upsert(SeerrServiceConnection, RadarrConnection),
   By("create", FALSE, SeerrJellyfinAuth, AuthenticateJellyfin),
   By("create", FALSE, SeerrPlexAuth, AuthenticatePlex)}

Subtitles ==
  {Post(s, StructToFormData(s)) : s \in {BazarrGeneral, BazarrSubSync, BazarrAppConnection}}
  \cup {Post(BazarrProvider, reconcileBazarrProviders), Post(BazarrLanguages, ReconcileLanguages),
        Post(BazarrLanguageProfile @@ BazarrLanguageItem, buildLanguageProfiles)}

Others ==
  {Post(MaintainerrPlexConnection, reconcileMaintainerrPlex),
   Post(MaintainerrArrConnection, reconcileMaintainerrArr),
   Post(MaintainerrSettings, buildMaintainerrSettings),
   Upsert(MaintainerrRule, reconcileMaintainerrRule),
   Upsert(AutobrrDownloadClient @@ AutobrrDownloadClientSettings, reconcileAutobrrDownloadClient),
   Upsert(AutobrrIndexer, reconcileAutobrrIndexer),
   Upsert(AutobrrIRCNetwork, reconcileAutobrrIRCNetwork),
   Upsert(AutobrrFeed, reconcileAutobrrFeed), Upsert(AutobrrFilter, reconcileAutobrrFilter),
   Upsert(AutobrrFilterAction, AutobrrFilterActionPayload),
   Upsert(TdarrLibrary, buildTdarrLibraryDoc), Upsert(TdarrFlow, reconcileTdarrFlow)}

AllPayloads ==
  ServarrSettings \cup ServarrItems \cup Media \cup Downloads \cup Requests \cup Subtitles
  \cup Others
=============================================================================
