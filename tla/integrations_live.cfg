SPECIFICATION FairSpec
CONSTANTS
  Table <- Fifteen
  Controllers = {"sonarr", "radarr", "lidarr", "readarr", "prowlarr", "flaresolverr", "seerr", "jellyfin", "tdarr", "plex", "sabnzbd", "qbittorrent", "bazarr", "maintainerr", "autobrr"}
  MaxDeclared <- One
  MaxEvents <- Deletions
  MaxPrune = 1
  UseValueFrom = FALSE
PROPERTIES Converges DeletionIsNeverBlocked
CHECK_DEADLOCK FALSE
