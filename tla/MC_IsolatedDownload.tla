------------------------- MODULE MC_IsolatedDownload -------------------------
(***************************************************************************)
(* Two downloader goroutines, a tree of three files or an empty one, and  *)
(* three command lines of `isolated download`: every output asked for     *)
(* (with a cache), only -output-files, and cache policies without         *)
(* -cache-dir, which Parse refuses.                                       *)
(***************************************************************************)
EXTENDS IsolatedDownload

CONSTANTS j1, j2

MCJobs == {j1, j2}

MCTrees == {{}, {"a", "b", "c"}}

MCFlags ==
    { [args |-> FALSE, isolated |-> TRUE, cacheDir |-> TRUE, cacheFlags |-> TRUE,
       outputFiles |-> TRUE, resultJSON |-> TRUE],
      [args |-> FALSE, isolated |-> TRUE, cacheDir |-> FALSE, cacheFlags |-> FALSE,
       outputFiles |-> TRUE, resultJSON |-> FALSE],
      [args |-> FALSE, isolated |-> TRUE, cacheDir |-> FALSE, cacheFlags |-> TRUE,
       outputFiles |-> FALSE, resultJSON |-> FALSE] }
=============================================================================
