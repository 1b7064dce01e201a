------------------------- MODULE MCWorkspaceSwitch -------------------------
(***************************************************************************)
(* An instance of WorkspaceSwitch: two workspaces, three transitions       *)
(* requested at any time, a refresh under way beside them.                 *)
(***************************************************************************)
EXTENDS WorkspaceSwitch

CONSTANTS a, b, r1

Call(how, w) == [how |-> how, ws |-> w]

Asks == << {Call("switch", a), Call("last", None)},
           {Call("recent", b), Call("switch", None)},
           {Call("switch", b), Call("last", None)} >>
============================================================================
