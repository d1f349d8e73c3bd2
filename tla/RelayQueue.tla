----------------------------- MODULE RelayQueue -----------------------------
(***************************************************************************)
(* What the relay bridge promises its users, without leases, clocks, wake  *)
(* channel or status names: a first-in first-out mailbox that hands each   *)
(* submitted prompt to at most one browser client, at most once, and never *)
(* again after the item is closed.                                         *)
(***************************************************************************)
EXTENDS Sequences, FiniteSets, Integers

CONSTANTS Runs, Clients, NoClient

VARIABLES
  box,      \* "new", "waiting", "out" (with its holder) or "closed"
  line,     \* the submitted runs, in order
  holder    \* the client that has an item which is "out"

queueVars == <<box, line, holder>>

QueueInit ==
  /\ box = [r \in Runs |-> "new"]
  /\ line = <<>>
  /\ holder = [r \in Runs |-> NoClient]

\* Items may be closed (acknowledged, expired, cancelled...) at any time, in
\* any number, also together with a submission or a hand-over.
Closing(S) == \A r \in S : box[r] \in {"waiting", "out"}
After(S, r) == IF r \in S THEN "closed" ELSE box[r]
Release(S)  == [r \in Runs |-> IF r \in S THEN NoClient ELSE holder[r]]

Submit(r, S) ==
  /\ box[r] = "new"
  /\ box' = [q \in Runs |-> IF q = r THEN "waiting" ELSE After(S, q)]
  /\ line' = Append(line, r)
  /\ holder' = Release(S)

\* The oldest item still waiting goes to client c.
HandOver(i, c, S) ==
  /\ box[line[i]] = "waiting" /\ line[i] \notin S
  /\ \A j \in 1 .. (i - 1) : After(S, line[j]) # "waiting"
  /\ box' = [q \in Runs |-> IF q = line[i] THEN "out" ELSE After(S, q)]
  /\ holder' = [Release(S) EXCEPT ![line[i]] = c]
  /\ UNCHANGED line

Close(S) ==
  /\ box' = [q \in Runs |-> After(S, q)]
  /\ holder' = Release(S)
  /\ UNCHANGED line

QueueNext ==
  \E S \in SUBSET Runs :
    /\ Closing(S)
    /\ \/ \E r \in Runs : Submit(r, S)
       \/ \E i \in DOMAIN line, c \in Clients : HandOver(i, c, S)
       \/ Close(S)

QueueSpec == QueueInit /\ [][QueueNext]_queueVars
=============================================================================
