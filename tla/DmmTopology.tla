---------------------------- MODULE DmmTopology ----------------------------
(***************************************************************************)
(* What the control messages of DiMMon promise about the monitoring graph: *)
(* NODECREATE adds a node, NODECONNECT one link between two live nodes,    *)
(* NODEDISCONNECT removes exactly that link, and NODERM removes a node     *)
(* with all of its links, at once.  Hooks, reference counts and running    *)
(* handlers do not show.                                                   *)
(***************************************************************************)
CONSTANTS Node, Name

VARIABLES live,  \* the nodes that commands reach
          used,  \* the node identifiers given out so far
          links  \* <<source, its out hook, destination, its in hook>>

topology == <<live, used, links>>

Link == Node \X Name \X Node \X Name

LinksOf(n) == {l \in links : l[1] = n \/ l[3] = n}

Create(n) ==
  /\ n \in Node \ used
  /\ live' = live \cup {n} /\ used' = used \cup {n}
  /\ UNCHANGED links

Connect(l) ==
  /\ l \in Link \ links /\ l[1] \in live /\ l[3] \in live
  /\ links' = links \cup {l}
  /\ UNCHANGED <<live, used>>

Disconnect(l) ==
  /\ l \in links
  /\ links' = links \ {l}
  /\ UNCHANGED <<live, used>>

Remove(n) ==
  /\ n \in live
  /\ live' = live \ {n} /\ links' = links \ LinksOf(n)
  /\ UNCHANGED used

Init == /\ \E n \in Node : live = {n} /\ used = {n}
        /\ links = {}

Next == \/ \E n \in Node : Create(n) \/ Remove(n)
        \/ \E l \in Link : Connect(l)
        \/ \E l \in links : Disconnect(l)

Spec == Init /\ [][Next]_topology
=============================================================================
