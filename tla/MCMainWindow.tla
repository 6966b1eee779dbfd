---------------------------- MODULE MCMainWindow ----------------------------
(* Instances of MainWindow for TLC. *)
EXTENDS MainWindow, TLC

Acts == {"ChangeGame", "Sort", "ApplySort", "DiscardSort", "RefreshContent",
         "RestoreLoadOrder", "FixAmbiguousLoadOrder", "UpdateMasterlist",
         "FilterByOverlap", "EditMetadata", "AcceptEdits", "RejectEdits",
         "Quit"}

\* A user who does, in any order, what can go wrong between two games.
SwitchActs ==
  [mode \in {"idle", "editing", "sorting"} |->
     {"ChangeGame", "Sort", "ApplySort", "DiscardSort", "EditMetadata",
      "RejectEdits", "FilterByOverlap", "UpdateMasterlist"}]

\* A user who decides on a sorted load order, or closes the editor, before
\* editing, filtering by overlap or restoring a backup; what else is not
\* possible then is left to the controls to prevent.
CarefulActs ==
  [mode \in {"idle", "editing", "sorting"} |->
     CASE mode = "idle" -> Acts
       [] mode = "editing" -> Acts \ {"FilterByOverlap", "RestoreLoadOrder"}
       [] mode = "sorting" ->
            Acts \ {"FilterByOverlap", "RestoreLoadOrder", "EditMetadata"}]

Symmetry == Permutations(Slots) \cup Permutations(Orders) \cup Permutations(Games)
=============================================================================
