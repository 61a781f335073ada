----------------------------- MODULE MCIntegrations -----------------------------
(* Instances of IntegrationPass for TLC.                                   *)
EXTENDS IntegrationProps, Integrations

(* The fifteen integrations of the operator.                               *)
Fifteen == Integration

One == [c \in Controllers |-> 1]

(* Seerr needs a way to log in and two connections to have a setup that    *)
(* can be interrupted half-way; two sessions of FlareSolverr have to be    *)
(* withdrawn one by one to be more than the threshold.                     *)
Sections == [c \in Controllers |-> CASE c = "seerr" -> 3 [] c = "flaresolverr" -> 2 [] OTHER -> 1]

(* Two events, but for the passes with most sections.                      *)
Long == {"sonarr", "radarr", "lidarr", "readarr", "prowlarr", "seerr", "autobrr"}
Events == [c \in Controllers |-> IF c \in Long THEN 1 ELSE 2]

(* A deletion that should clean up takes an edit before it: of a controller *)
(* that can, and of some that cannot.                                      *)
Deletions ==
  [c \in Controllers |-> IF c \in {"flaresolverr", "plex", "jellyfin"} THEN 2 ELSE 1]
=============================================================================
