----------------------------- MODULE RelayBridge -----------------------------
(***************************************************************************)
(* relayBridgeManager of relay_bridge.go: the queue between delegate_task  *)
(* and the browser extension that opens worker tabs.  Tool handlers        *)
(* enqueue prompts and mark runs, extension clients long-poll and          *)
(* acknowledge; each action is one critical section of relayBridgeManager.mu *)
(* and begins, where the code does, with cleanupLocked.                    *)
(*                                                                         *)
(* A run has one dispatch (runDispatch), so dispatches are indexed by run. *)
(* Clocks are flags that time may raise: the 45 s lease has lapsed, the    *)
(* dispatch is past ExpiresAt, the record is an hour old.  A flag nobody   *)
(* reads any more is down: the lease matters to a dispatched one, the      *)
(* expiry to a pending one.  The table of clients seen and the error and   *)
(* summary texts only feed displays and are left out.                      *)
(***************************************************************************)
EXTENDS Integers, Sequences, FiniteSets

CONSTANTS Runs, Clients, NoClient

ASSUME ClientAssumption == NoClient \notin Clients

VARIABLES
  dispatch,   \* b.dispatches through b.runDispatch; status "none" when absent
  order,      \* b.order, never pruned
  wake,       \* a token is in the one-place wake channel
  poll        \* each client's next call: "idle", "waiting" or "woken"

bridgeVars == <<dispatch, order, wake, poll>>

----------------------------------------------------------------------------
Pending  == {"queued", "dispatched"}
Settled  == {"sent", "claimed", "completed", "cancelled", "timed_out"}
Marks    == {"claimed", "completed", "failed", "cancelled", "timed_out"}
Statuses == Pending \cup Settled \cup {"none", "failed", "expired"}

Dispatch == [status : Statuses, prompt : BOOLEAN, client : Clients \cup {NoClient},
             attempts : Nat, lapsed : BOOLEAN, expired : BOOLEAN, aged : BOOLEAN]

NoDispatch == [status |-> "none", prompt |-> FALSE, client |-> NoClient,
               attempts |-> 0, lapsed |-> FALSE, expired |-> FALSE, aged |-> FALSE]

BridgeTypeOK ==
  /\ dispatch \in [Runs -> Dispatch]
  /\ order \in Seq(Runs)
  /\ wake \in BOOLEAN
  /\ poll \in [Clients -> {"idle", "waiting", "woken"}]

Exists(r) == dispatch[r].status # "none"
Enqueued  == {order[i] : i \in DOMAIN order}

\* Every assignment of UpdatedAt makes the record young again.
Settle(d, status) ==
  [NoDispatch EXCEPT !.status = status, !.client = d.client, !.attempts = d.attempts]

\* Mutant of Lapse: a lapsed dispatch is queued again.
LapseRequeues(d) ==
  IF d.status = "dispatched" /\ d.lapsed THEN [d EXCEPT !.status = "queued", !.lapsed = FALSE] ELSE d

\* cleanupLocked on one dispatch: a lapsed lease fails it, then ExpiresAt
\* expires it, then an old record without a prompt is deleted.
Lapse(d)  == IF d.status = "dispatched" /\ d.lapsed THEN Settle(d, "failed") ELSE d
Expire(d) == IF d.status \in Pending /\ d.expired THEN Settle(d, "expired") ELSE d
Forget(d) == IF ~d.prompt /\ d.aged THEN NoDispatch ELSE d

\* Mutant of cleanupLocked: leases and deadlines are not looked at.
cleanupOnlyForgets == [r \in Runs |-> Forget(dispatch[r])]

cleanupLocked == [r \in Runs |-> Forget(Expire(Lapse(dispatch[r])))]

----------------------------------------------------------------------------
(* Time *)

LeaseLapses(r) ==
  /\ dispatch[r].status = "dispatched" /\ ~dispatch[r].lapsed
  /\ dispatch' = [dispatch EXCEPT ![r].lapsed = TRUE]
  /\ UNCHANGED <<order, wake, poll>>

PassesExpiresAt(r) ==
  /\ dispatch[r].status \in Pending /\ ~dispatch[r].expired
  /\ dispatch' = [dispatch EXCEPT ![r].expired = TRUE]
  /\ UNCHANGED <<order, wake, poll>>

\* An hour without an update is longer than the 45 s lease and than any
\* timeout, so both have passed where they matter.
HourPasses(r) ==
  /\ Exists(r) /\ ~dispatch[r].aged
  /\ dispatch' = [dispatch EXCEPT
       ![r].aged = TRUE,
       ![r].expired = dispatch[r].status \in Pending,
       ![r].lapsed = dispatch[r].status = "dispatched"]
  /\ UNCHANGED <<order, wake, poll>>

----------------------------------------------------------------------------
(* Tool handlers *)

\* The record enqueue makes.
Queued == [status |-> "queued", prompt |-> TRUE, client |-> NoClient,
           attempts |-> 0, lapsed |-> FALSE, expired |-> FALSE, aged |-> FALSE]

\* Mutant of Enqueue: no poll is woken.
EnqueueSilently(r) ==
  /\ r \notin Enqueued
  /\ dispatch' = [cleanupLocked EXCEPT ![r] = Queued]
  /\ order' = Append(order, r)
  /\ UNCHANGED <<wake, poll>>

\* enqueue; handleDelegateTask calls it once for a run, with the run's prompt.
\* The wake channel holds one token: signalLocked drops the signal when full.
Enqueue(r) ==
  /\ r \notin Enqueued
  /\ dispatch' = [cleanupLocked EXCEPT ![r] = Queued]
  /\ order' = Append(order, r)
  /\ wake' = TRUE
  /\ UNCHANGED poll

\* markRun: whatever the dispatch's status, no cleanup first.
MarkRun(r, status) ==
  /\ Exists(r)
  /\ dispatch' = [dispatch EXCEPT ![r] = Settle(@, status)]
  /\ UNCHANGED <<order, wake, poll>>

\* status, deliveryView, heartbeat, and a duplicate enqueue or a refused
\* acknowledgement: only the cleanup.
Cleanup ==
  /\ dispatch' = cleanupLocked
  /\ UNCHANGED <<order, wake, poll>>

----------------------------------------------------------------------------
(* Extension clients *)

\* nextLocked's candidates: positions of order, oldest first.
Deliverable(i) == cleanupLocked[order[i]].status = "queued" /\ cleanupLocked[order[i]].prompt

\* nextLocked's record for the dispatch it hands to c.
Leased(d, c) ==
  [status |-> "dispatched", prompt |-> d.prompt, client |-> c, attempts |-> d.attempts + 1,
   lapsed |-> FALSE, expired |-> d.expired, aged |-> FALSE]

\* Mutant of Poll: any queued dispatch, not the oldest.
PollAny(c) ==
  /\ poll[c] \in {"idle", "woken"}
  /\ \/ \E i \in DOMAIN order :
          /\ Deliverable(i)
          /\ dispatch' = [cleanupLocked EXCEPT ![order[i]] = Leased(cleanupLocked[order[i]], c)]
          /\ poll' = [poll EXCEPT ![c] = "idle"]
     \/ /\ \A i \in DOMAIN order : ~Deliverable(i)
        /\ dispatch' = cleanupLocked
        /\ poll' = [poll EXCEPT ![c] = "waiting"]
  /\ UNCHANGED <<order, wake>>

\* One turn of next's loop: take the oldest queued dispatch, or wait.
Poll(c) ==
  /\ poll[c] \in {"idle", "woken"}
  /\ \/ \E i \in DOMAIN order :
          /\ Deliverable(i)
          /\ \A j \in 1 .. (i - 1) : ~Deliverable(j)
          /\ dispatch' = [cleanupLocked EXCEPT ![order[i]] = Leased(cleanupLocked[order[i]], c)]
          /\ poll' = [poll EXCEPT ![c] = "idle"]
     \/ /\ \A i \in DOMAIN order : ~Deliverable(i)
        /\ dispatch' = cleanupLocked
        /\ poll' = [poll EXCEPT ![c] = "waiting"]
  /\ UNCHANGED <<order, wake>>

\* The select of next: the wake token, or the timer or the closed request,
\* which return without looking again.
Wake(c) ==
  /\ poll[c] = "waiting" /\ wake
  /\ wake' = FALSE
  /\ poll' = [poll EXCEPT ![c] = "woken"]
  /\ UNCHANGED <<dispatch, order>>

PollEnds(c) ==
  /\ poll[c] = "waiting"
  /\ poll' = [poll EXCEPT ![c] = "idle"]
  /\ UNCHANGED <<dispatch, order, wake>>

\* acknowledge, for the client the dispatch was handed to (a client learns a
\* dispatch id only from next).  It may come late, twice or never.
Acknowledge(c, r, status) ==
  /\ dispatch[r].client = c
  /\ LET clean == cleanupLocked
     IN  /\ clean[r].status # "none"
         /\ dispatch' =
              [clean EXCEPT ![r] = Settle(@, IF @.status \in Settled THEN @.status ELSE status)]
  /\ UNCHANGED <<order, wake, poll>>

----------------------------------------------------------------------------
BridgeInit ==
  /\ dispatch = [r \in Runs |-> NoDispatch]
  /\ order = <<>>
  /\ wake = FALSE
  /\ poll = [c \in Clients |-> "idle"]

Time == \E r \in Runs : LeaseLapses(r) \/ PassesExpiresAt(r) \/ HourPasses(r)

ClientStep(c) ==
  \/ Poll(c) \/ Wake(c) \/ PollEnds(c)
  \/ \E r \in Runs, status \in {"sent", "failed"} : Acknowledge(c, r, status)

BridgeNext ==
  \/ \E r \in Runs : Enqueue(r) \/ (\E status \in Marks : MarkRun(r, status))
  \/ Cleanup
  \/ Time
  \/ \E c \in Clients : ClientStep(c)

BridgeSpec == BridgeInit /\ [][BridgeNext]_bridgeVars

(***************************************************************************)
(* The extension polls for ever: its alarm and its content scripts wake    *)
(* it, a waiting call ends by its timer.  Leases lapse and deadlines pass. *)
(***************************************************************************)
BridgeFairness ==
  /\ \A c \in Clients : WF_bridgeVars(Poll(c)) /\ WF_bridgeVars(PollEnds(c))
  /\ \A r \in Runs : WF_bridgeVars(LeaseLapses(r)) /\ WF_bridgeVars(PassesExpiresAt(r))

FairBridgeSpec == BridgeSpec /\ BridgeFairness

----------------------------------------------------------------------------
(* Properties *)

\* relay_bridge_test.go:64: the prompt, which contains the join code, stays in
\* memory exactly while the dispatch is queued or on its way to a client; it
\* is erased on every path out, whichever of ack, mark, lease and expiry wins.
PromptOnlyWhilePending ==
  \A r \in Runs : dispatch[r].prompt <=> dispatch[r].status \in Pending

\* A dispatch is handed out at most once and only a dispatch that was handed
\* out has a client: no interleaving of polls makes two tabs for one task.
HandedOutOnce ==
  \A r \in Runs :
    /\ dispatch[r].attempts <= 1
    /\ dispatch[r].client # NoClient <=> dispatch[r].attempts = 1
    /\ dispatch[r].status = "queued" => dispatch[r].attempts = 0
    /\ dispatch[r].status \in {"dispatched", "sent"} => dispatch[r].attempts = 1

\* relay_bridge_test.go:58: neither a late acknowledgement nor a lease, an
\* expiry or a poll changes what markRun recorded for a claimed, completed or
\* cancelled run; only another markRun does, or the record is forgotten.
SettledStep(r) ==
  \/ dispatch[r].status \notin Settled
  \/ dispatch'[r].status \in {dispatch[r].status, "none"}
  \/ \E status \in Marks : MarkRun(r, status)

AckNeverDowngrades == [][\A r \in Runs : SettledStep(r)]_bridgeVars

\* A queued dispatch never sits behind polls that all wait: although the wake
\* channel holds one token for any number of waiting polls and enqueues, the
\* token is there or some client is about to look.
NoLostWakeup ==
  (\E r \in Runs : dispatch[r].status = "queued")
    => wake \/ \E c \in Clients : poll[c] # "waiting"

\* A dispatch does not stay queued or dispatched: a polling client takes it, or
\* it expires; an unacknowledged one fails by its lease.
DispatchSettles ==
  \A r \in Runs : dispatch[r].status \in Pending ~> dispatch[r].status \notin Pending

\* The bridge implements the mailbox of RelayQueue: at most one hand-over per
\* prompt, oldest first, and nothing comes back once it is out of the queue.
Box(r) ==
  IF dispatch[r].status = "queued" THEN "waiting"
  ELSE IF dispatch[r].status = "dispatched" THEN "out"
  ELSE IF r \in Enqueued THEN "closed" ELSE "new"

Holder(r) == IF dispatch[r].status = "dispatched" THEN dispatch[r].client ELSE NoClient

Queue == INSTANCE RelayQueue WITH
  box    <- [r \in Runs |-> Box(r)],
  line   <- order,
  holder <- [r \in Runs |-> Holder(r)]

ImplementsQueue == Queue!QueueSpec
=============================================================================
