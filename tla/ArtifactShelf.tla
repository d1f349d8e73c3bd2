---------------------------- MODULE ArtifactShelf ----------------------------
(***************************************************************************)
(* What the artifact store promises: artifacts become readable one by one, *)
(* the oldest may be evicted, the newest never is, and none comes back.    *)
(* Stops of the server, shared contents and quotas do not show.            *)
(***************************************************************************)
EXTENDS Integers, Sequences

CONSTANTS Commands

VARIABLES
  readable,   \* the artifacts that artifact_read can serve
  published   \* all that ever were, oldest first

shelfVars == <<readable, published>>

ShelfInit == readable = {} /\ published = <<>>

Publish(a) ==
  /\ \A i \in DOMAIN published : published[i] # a
  /\ published' = Append(published, a)
  /\ readable' = readable \cup {a}

Evict(i) ==
  /\ i < Len(published)
  /\ published[i] \in readable
  /\ \A j \in 1 .. (i - 1) : published[j] \notin readable
  /\ readable' = readable \ {published[i]}
  /\ UNCHANGED published

ShelfNext ==
  \/ \E a \in Commands : Publish(a)
  \/ \E i \in DOMAIN published : Evict(i)

ShelfSpec == ShelfInit /\ [][ShelfNext]_shelfVars
=============================================================================
