-------------------------- MODULE MC_SwarmingRequest --------------------------
(***************************************************************************)
(* Every combination of: -server given or not; no -dimension, one, or     *)
(* three given out of key order; -raw-cmd with or without arguments;     *)
(* -isolated, -task-name and -user given or not; two -expiration values.  *)
(***************************************************************************)
EXTENDS SwarmingRequest

MCKeyRank == ("gpu" :> 1) @@ ("os" :> 2) @@ ("pool" :> 3)

OneDimension == "os" :> "linux"

ThreeDimensions == ("pool" :> "ci") @@ ("os" :> "mac") @@ ("gpu" :> "none")

MCOptions ==
    [server      : {"", "https://swarm"},
     dimensions  : {None, OneDimension, ThreeDimensions},
     rawCmd      : BOOLEAN,
     args        : {<<>>, <<"run">>},
     isolated    : {"", "deadbeef"},
     taskName    : {"", "mytask"},
     user        : {"", "alice"},
     expiration  : {21600, 600},
     hardTimeout : {3600}]
=============================================================================
