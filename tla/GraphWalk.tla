----------------------------- MODULE GraphWalk ------------------------------
(***************************************************************************)
(* What an engine promises of the flow it runs, without services, retries  *)
(* or contexts: it walks along the edges of the graph, enters no node      *)
(* twice, and its decision is never anything but what the node it leaves   *)
(* may say.                                                                *)
(***************************************************************************)
VARIABLES
    edges,     \* the edges of the flow, pairs of nodes
    says,      \* for each node, the decisions it may set
    entry,     \* the first node
    walked,    \* the nodes entered so far
    at,        \* the node entered last
    verdict    \* the decision so far
vars == <<edges, says, entry, walked, at, verdict>>

Init == walked = {} /\ at = entry

Enter ==
    /\ walked = {}
    /\ walked' = {entry}
    /\ UNCHANGED <<edges, says, entry, at, verdict>>

\* Leave a node, with what it had to say, for another one or for good.
Leave ==
    /\ walked # {}
    /\ verdict' \in says[at] \cup {verdict}
    /\ \/ UNCHANGED <<walked, at>>
       \/ /\ at' \notin walked /\ <<at, at'>> \in edges
          /\ walked' = walked \cup {at'}
    /\ UNCHANGED <<edges, says, entry>>

Spec == Init /\ [][Enter \/ Leave]_vars
=============================================================================
