----------------------------- MODULE MCSections -----------------------------
\* Two applications in the log view.  MaxStarting, one, stands for fifteen
\* polls while a cycle starts, and MaxResetPolls, two, for ninety after a reset:
\* the last, and one before it.
EXTENDS Sections

MCApps    == {"sonarr", "radarr"}
MCScenes  == {"forms", "logs", "stats", "home"}
MCMaxActs == [s \in MCScenes |-> IF s \in {"forms", "logs"} THEN 5 ELSE 2]
=============================================================================
