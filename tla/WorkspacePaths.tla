--------------------------- MODULE WorkspacePaths ---------------------------
(* What WorkspaceSwitch and WorkspaceWatch have in common.                 *)
CONSTANTS
    Workspaces,     \* workspace paths
    None            \* null: no workspace
=============================================================================
