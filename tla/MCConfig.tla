----------------------------- MODULE MCConfig ------------------------------
EXTENDS Config
CONSTANTS dex, page
MCKind == [c \in Clients |-> IF c = dex THEN "dexKillSwitch" ELSE "page"]
MCInputs == {[scope |-> "global", val |-> "halt", active |-> TRUE],
             [scope |-> "env", val |-> "halt", active |-> TRUE],
             [scope |-> "env", val |-> "halt", active |-> FALSE]}
MCEnv == [c \in Clients |-> IF c = page THEN "env" ELSE "global"]
=============================================================================
