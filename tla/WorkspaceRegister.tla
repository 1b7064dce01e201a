------------------------ MODULE WorkspaceRegister ------------------------
(***************************************************************************)
(* What the transition queue of the workspace runtime promises: requests   *)
(* to open or close a workspace are served one at a time in the order in   *)
(* which they were made, and each either takes effect whole or leaves no   *)
(* workspace open; one that looks for its directory first may also be      *)
(* refused, and then what was open stays open.  The runtime itself is in   *)
(* WorkspaceSwitch.                                                        *)
(***************************************************************************)
EXTENDS Naturals, Sequences

CONSTANTS
    Workspaces,     \* workspace paths
    None,           \* no workspace; as a request, to close the open one
    Switching,      \* a request is being served
    MaxRequests     \* bound: requests in one behaviour

VARIABLES
    requests,       \* all requests so far, oldest first
    served,         \* how many of them have been served
    current         \* the open workspace, None, or Switching

vars == <<requests, served, current>>

\* By path, from the list of recent ones, or for the last one opened.
Asked == [how : {"switch"}, ws : Workspaces \cup {None}]
            \cup [how : {"recent"}, ws : Workspaces] \cup [how : {"last"}, ws : {None}]

Targets(q) == IF q.how = "last" THEN Workspaces ELSE {q.ws}

Init ==
    /\ requests = <<>>
    /\ served = 0
    /\ current = None

Request ==
    /\ Len(requests) < MaxRequests
    /\ \E q \in Asked : requests' = Append(requests, q)
    /\ UNCHANGED <<served, current>>

Begin ==
    /\ served < Len(requests)
    /\ current # Switching
    /\ current' = Switching
    /\ UNCHANGED <<requests, served>>

\* Only a request that looks first: nothing else has changed.
Refuse ==
    /\ served < Len(requests)
    /\ current # Switching
    /\ served' = served + 1
    /\ requests[served'].how # "switch"
    /\ UNCHANGED <<requests, current>>

\* The request takes effect, or it fails and nothing is open.
End ==
    /\ current = Switching
    /\ served' = served + 1
    /\ current' \in Targets(requests[served']) \cup {None}
    /\ UNCHANGED requests

Next == Request \/ Begin \/ Refuse \/ End

Spec == Init /\ [][Next]_vars

\* Nothing stops the queue: not even a request that failed.
FairSpec == Spec /\ WF_vars(Begin \/ Refuse) /\ WF_vars(End)
==========================================================================
