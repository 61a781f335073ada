SPECIFICATION Spec
CONSTANTS
  Table <- Fifteen
  Controllers = {"sonarr", "radarr", "lidarr", "readarr", "prowlarr", "flaresolverr", "seerr", "jellyfin", "tdarr", "plex", "sabnzbd", "qbittorrent", "bazarr", "maintainerr", "autobrr"}
  MaxDeclared <- Sections
  MaxEvents <- Events
  MaxPrune = 1
  UseValueFrom = FALSE
INVARIANTS TypeOK StoppedIsReported DuplicatesAreExplained
PROPERTIES SyncedIsEarned RejectedSpecsTouchNothing SetupIsComplete SessionsOfOthersSurvive SessionsStayOnRecord
CHECK_DEADLOCK FALSE
