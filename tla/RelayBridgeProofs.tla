-------------------------- MODULE RelayBridgeProofs --------------------------
(***************************************************************************)
(* Proofs about RelayBridge, for every set of runs and of clients: its type *)
(* invariant, that prompts are kept exactly while they are pending, that a *)
(* dispatch is handed out at most once, that acknowledgements never take   *)
(* back what was marked, that no wake-up is lost, and that the bridge      *)
(* implements RelayQueue.                                                  *)
(*                                                                         *)
(* The invariants speak of one dispatch at a time, so they are collected   *)
(* in Sound(d), a predicate of the record; every operation is shown to     *)
(* produce sound records from sound ones.  Only the refinement relates     *)
(* dispatches to the order: what is in the table was enqueued.             *)
(***************************************************************************)
EXTENDS RelayBridge, TLAPS

Sound(d) ==
  /\ d \in Dispatch
  /\ d.prompt <=> d.status \in Pending
  /\ d.attempts <= 1
  /\ (d.client # NoClient) <=> (d.attempts = 1)
  /\ d.status = "queued" => d.attempts = 0
  /\ d.status \in {"dispatched", "sent"} => d.attempts = 1

AllSound == \A r \in Runs : Sound(dispatch[r])

\* Every dispatch of the table has been enqueued.
OrderInv == \A r \in Runs : Exists(r) => r \in Enqueued

BInv == BridgeTypeOK /\ AllSound /\ OrderInv

----------------------------------------------------------------------------
(* What the operations on one record do *)

\* Settling a dispatch erases the prompt and keeps who has it.
LEMMA SettleSound ==
  ASSUME NEW d, Sound(d), NEW status \in Statuses \ (Pending \cup {"none"}),
         status = "sent" => d.client # NoClient
  PROVE  Sound(Settle(d, status))
  BY ClientAssumption DEF Settle, Sound, NoDispatch, Dispatch, Statuses, Pending, Settled

\* An absent dispatch is sound.
LEMMA NoDispatchSound == Sound(NoDispatch)
  BY DEF Sound, NoDispatch, Dispatch, Statuses, Pending, Settled

Clean(d) == Forget(Expire(Lapse(d)))

\* cleanupLocked leaves a dispatch as it is, settles it as failed or expired,
\* or forgets it; what is still pending afterwards is untouched.
LEMMA CleanSound ==
  ASSUME NEW d, Sound(d)
  PROVE  /\ Sound(Clean(d))
         /\ Clean(d).status \in Pending => Clean(d) = d
         /\ Clean(d).status \in {d.status, "failed", "expired", "none"}
         /\ Clean(d).status # "none" => Clean(d).client = d.client
         /\ d.status \in Settled => Clean(d).status \in {d.status, "none"}
         /\ d.status = "none" => Clean(d).status = "none"
<1>1. Sound(Lapse(d)) /\ Lapse(d).client = d.client
      /\ (Lapse(d) = d \/ (d.status = "dispatched" /\ Lapse(d).status = "failed"))
  BY SettleSound DEF Lapse, Settle, NoDispatch, Statuses, Pending, Settled
<1>2. Sound(Expire(Lapse(d))) /\ Expire(Lapse(d)).client = d.client
      /\ (Expire(Lapse(d)) = Lapse(d)
            \/ (Lapse(d).status \in Pending /\ Expire(Lapse(d)).status = "expired"))
  BY <1>1, SettleSound DEF Expire, Settle, NoDispatch, Statuses, Pending, Settled
<1>3. Forget(Expire(Lapse(d))) = Expire(Lapse(d))
      \/ (Forget(Expire(Lapse(d))) = NoDispatch /\ ~Expire(Lapse(d)).prompt)
  BY DEF Forget
<1>4. NoDispatch.status = "none"
  BY DEF NoDispatch
<1> QED
  BY <1>1, <1>2, <1>3, <1>4, NoDispatchSound DEF Clean, Sound, Pending, Settled

\* The whole table after cleanupLocked.
LEMMA CleanTable ==
  ASSUME BInv
  PROVE  /\ cleanupLocked = [r \in Runs |-> Clean(dispatch[r])]
         /\ \A r \in Runs :
              /\ Sound(cleanupLocked[r])
              /\ cleanupLocked[r].status \in Pending => cleanupLocked[r] = dispatch[r]
              /\ cleanupLocked[r].status # "none" => cleanupLocked[r].client = dispatch[r].client
              /\ dispatch[r].status = "none" => cleanupLocked[r].status = "none"
              /\ dispatch[r].status \in Settled =>
                   cleanupLocked[r].status \in {dispatch[r].status, "none"}
<1>1. cleanupLocked = [r \in Runs |-> Clean(dispatch[r])]
  BY DEF cleanupLocked, Clean
<1> HIDE DEF Clean
<1>2. \A r \in Runs : Sound(dispatch[r])
  BY DEF BInv, AllSound
<1> QED
  BY <1>1, <1>2, CleanSound

----------------------------------------------------------------------------
(* The steps, one lemma per kind *)

\* A step that enqueues nothing is described by what it does to the table:
\* every record is sound afterwards, and none appears that was not there.
LEMMA TableStep ==
  ASSUME BInv, order' = order, wake' \in BOOLEAN,
         poll' \in [Clients -> {"idle", "waiting", "woken"}],
         dispatch' = [r \in Runs |-> dispatch'[r]],
         \A r \in Runs : Sound(dispatch'[r]),
         \A r \in Runs : dispatch[r].status = "none" => dispatch'[r].status = "none"
  PROVE  BInv'
<1>1. BridgeTypeOK'
  BY DEF BInv, BridgeTypeOK, Sound
<1>2. AllSound'
  BY DEF AllSound, Sound
<1>3. OrderInv'
  BY DEF BInv, OrderInv, Exists, Enqueued
<1> QED
  BY <1>1, <1>2, <1>3 DEF BInv

\* Time raises flags, which Sound does not look at.
LEMMA FlagsSound ==
  ASSUME NEW d, Sound(d), NEW l \in BOOLEAN, NEW e \in BOOLEAN, NEW a \in BOOLEAN
  PROVE  Sound([d EXCEPT !.lapsed = l, !.expired = e, !.aged = a])
<1> DEFINE n == [d EXCEPT !.lapsed = l, !.expired = e, !.aged = a]
<1>1. /\ n.status = d.status /\ n.prompt = d.prompt
      /\ n.client = d.client /\ n.attempts = d.attempts
  BY DEF Sound, Dispatch
<1>2. n \in Dispatch
  BY DEF Sound, Dispatch
<1> HIDE DEF n
<1>3. Sound(n)
  BY <1>1, <1>2 DEF Sound
<1> QED
  BY <1>3 DEF n

\* Time changes nothing but flags.
LEMMA TimeStep ==
  ASSUME BInv, Time
  PROVE  /\ order' = order /\ wake' = wake /\ poll' = poll
         /\ dispatch' = [q \in Runs |-> dispatch'[q]]
         /\ \A q \in Runs : Sound(dispatch'[q])
         /\ \A q \in Runs : /\ dispatch'[q].status = dispatch[q].status
                            /\ dispatch'[q].client = dispatch[q].client
<1>1. PICK r \in Runs : LeaseLapses(r) \/ PassesExpiresAt(r) \/ HourPasses(r)
  BY DEF Time
<1>2. dispatch[r] \in Dispatch /\ dispatch \in [Runs -> Dispatch]
  BY DEF BInv, BridgeTypeOK
<1>3. \E l, e, a \in BOOLEAN :
        dispatch' = [dispatch EXCEPT
                       ![r] = [dispatch[r] EXCEPT !.lapsed = l, !.expired = e, !.aged = a]]
  <2>1. CASE LeaseLapses(r)
    <3>1. dispatch' = [dispatch EXCEPT ![r] = [dispatch[r] EXCEPT !.lapsed = TRUE,
                         !.expired = dispatch[r].expired, !.aged = dispatch[r].aged]]
      BY <1>2, <2>1 DEF LeaseLapses, Dispatch
    <3> QED BY <1>2, <3>1 DEF Dispatch
  <2>2. CASE PassesExpiresAt(r)
    <3>1. dispatch' = [dispatch EXCEPT ![r] = [dispatch[r] EXCEPT !.lapsed = dispatch[r].lapsed,
                         !.expired = TRUE, !.aged = dispatch[r].aged]]
      BY <1>2, <2>2 DEF PassesExpiresAt, Dispatch
    <3> QED BY <1>2, <3>1 DEF Dispatch
  <2>3. CASE HourPasses(r)
    <3>1. dispatch' = [dispatch EXCEPT ![r] = [dispatch[r] EXCEPT
                         !.lapsed = dispatch[r].status = "dispatched",
                         !.expired = dispatch[r].status \in Pending, !.aged = TRUE]]
      BY <1>2, <2>3 DEF HourPasses, Dispatch
    <3> WITNESS (dispatch[r].status = "dispatched") \in BOOLEAN,
                (dispatch[r].status \in Pending) \in BOOLEAN, TRUE \in BOOLEAN
    <3> QED BY <3>1
  <2> QED BY <1>1, <2>1, <2>2, <2>3
<1>4. order' = order /\ wake' = wake /\ poll' = poll
  BY <1>1 DEF LeaseLapses, PassesExpiresAt, HourPasses
<1>5. /\ dispatch' = [q \in Runs |-> dispatch'[q]]
      /\ \A q \in Runs : Sound(dispatch'[q])
      /\ \A q \in Runs : /\ dispatch'[q].status = dispatch[q].status
                         /\ dispatch'[q].client = dispatch[q].client
  <2>1. PICK l, e, a \in BOOLEAN :
        dispatch' = [dispatch EXCEPT
                       ![r] = [dispatch[r] EXCEPT !.lapsed = l, !.expired = e, !.aged = a]]
    BY <1>3
  <2>2. Sound([dispatch[r] EXCEPT !.lapsed = l, !.expired = e, !.aged = a])
    BY FlagsSound DEF BInv, AllSound
  <2> DEFINE n == [dispatch[r] EXCEPT !.lapsed = l, !.expired = e, !.aged = a]
  <2>3. n.status = dispatch[r].status /\ n.client = dispatch[r].client
    BY <1>2 DEF Dispatch
  <2>4. dispatch' = [q \in Runs |-> dispatch'[q]]
    BY <1>2, <2>1
  <2>5. \A q \in Runs : q # r => dispatch'[q] = dispatch[q]
    BY <1>2, <2>1
  <2>6. dispatch'[r] = [dispatch[r] EXCEPT !.lapsed = l, !.expired = e, !.aged = a]
    BY <1>2, <2>1
  <2> QED BY <2>2, <2>3, <2>4, <2>5, <2>6 DEF BInv, AllSound
<1> QED
  BY <1>4, <1>5

\* So it preserves the invariant.
LEMMA TimeSound ==
  ASSUME BInv, Time
  PROVE  BInv'
  BY TimeStep, TableStep DEF BInv, BridgeTypeOK

\* What enqueue puts into the table.
LEMMA QueuedSound == Sound(Queued) /\ Queued.status = "queued"
  BY DEF Queued, Sound, Dispatch, Statuses, Pending, Settled

\* enqueue makes a sound record of a run that enters the order.
LEMMA EnqueueSound ==
  ASSUME BInv, NEW r \in Runs, Enqueue(r)
  PROVE  BInv'
<1>1. \A q \in Runs : Sound(cleanupLocked[q])
  BY CleanTable
<1>2. Sound(Queued)
  BY QueuedSound
<1>3. /\ dispatch' = [q \in Runs |-> dispatch'[q]]
      /\ \A q \in Runs : Sound(dispatch'[q])
      /\ \A q \in Runs : q # r => dispatch'[q] = cleanupLocked[q]
  BY <1>1, <1>2, CleanTable DEF Enqueue
<1>4. BridgeTypeOK'
  <2>1. order' \in Seq(Runs) /\ wake' \in BOOLEAN
    BY DEF Enqueue, BInv, BridgeTypeOK
  <2>2. poll' \in [Clients -> {"idle", "waiting", "woken"}]
    BY DEF Enqueue, BInv, BridgeTypeOK
  <2>3. dispatch' \in [Runs -> Dispatch]
    BY <1>3 DEF Sound
  <2> QED BY <2>1, <2>2, <2>3 DEF BridgeTypeOK
<1>5. AllSound'
  BY <1>3 DEF AllSound, Sound
<1>6. OrderInv'
  <2>1. Enqueued' = Enqueued \cup {r}
    BY DEF Enqueue, Enqueued, BInv, BridgeTypeOK
  <2>2. \A q \in Runs : q # r /\ Exists(q)' => Exists(q)
    BY <1>3, CleanTable DEF Exists
  <2> QED
    BY <2>1, <2>2 DEF OrderInv, BInv
<1> QED
  BY <1>4, <1>5, <1>6 DEF BInv

\* markRun settles a dispatch that is there.
LEMMA MarkRunSound ==
  ASSUME BInv, NEW r \in Runs, NEW status \in Marks, MarkRun(r, status)
  PROVE  BInv'
<1>1. Sound(dispatch[r]) /\ dispatch[r].status # "none"
  BY DEF BInv, AllSound, MarkRun, Exists
<1>2. Sound(Settle(dispatch[r], status))
  BY <1>1, SettleSound DEF Marks, Statuses, Pending, Settled
<1>3. dispatch' = [dispatch EXCEPT ![r] = Settle(dispatch[r], status)]
  BY DEF MarkRun
<1>4. /\ dispatch' = [q \in Runs |-> dispatch'[q]]
      /\ \A q \in Runs : q # r => dispatch'[q] = dispatch[q]
      /\ dispatch'[r] = Settle(dispatch[r], status)
  BY <1>3 DEF BInv, BridgeTypeOK
<1> QED
  BY <1>1, <1>2, <1>4, TableStep DEF MarkRun, BInv, AllSound, BridgeTypeOK

\* A step that only cleans up, or also touches the polls.
LEMMA CleanupSound ==
  ASSUME BInv, dispatch' = cleanupLocked, order' = order, wake' \in BOOLEAN,
         poll' \in [Clients -> {"idle", "waiting", "woken"}]
  PROVE  BInv'
  BY CleanTable, TableStep

\* A queued dispatch that is handed out has its one attempt.
LEMMA LeasedSound ==
  ASSUME NEW d, Sound(d), d.status = "queued", NEW c \in Clients
  PROVE  Sound(Leased(d, c))
<1>1. d.attempts = 0 /\ d.prompt /\ d.prompt \in BOOLEAN /\ d.expired \in BOOLEAN
  BY DEF Sound, Dispatch, Pending
<1> QED
  BY <1>1, ClientAssumption DEF Leased, Sound, Dispatch, Statuses, Pending, Settled

\* A poll cleans up, and hands one dispatch out if one is deliverable.
LEMMA PollSound ==
  ASSUME BInv, NEW c \in Clients, Poll(c)
  PROVE  BInv'
<1>1. order' = order /\ wake' \in BOOLEAN /\ poll' \in [Clients -> {"idle", "waiting", "woken"}]
  BY DEF Poll, BInv, BridgeTypeOK
<1>2. CASE dispatch' = cleanupLocked
  BY <1>1, <1>2, CleanupSound
<1>3. CASE \E i \in DOMAIN order :
             /\ Deliverable(i)
             /\ dispatch' = [cleanupLocked EXCEPT ![order[i]] = Leased(cleanupLocked[order[i]], c)]
  <2>1. PICK i \in DOMAIN order :
             /\ Deliverable(i)
             /\ dispatch' = [cleanupLocked EXCEPT ![order[i]] = Leased(cleanupLocked[order[i]], c)]
    BY <1>3
  <2>2. order[i] \in Runs
    BY DEF BInv, BridgeTypeOK
  <2>3. Sound(Leased(cleanupLocked[order[i]], c))
    BY <2>1, <2>2, CleanTable, LeasedSound DEF Deliverable
  <2>4. /\ dispatch' = [q \in Runs |-> dispatch'[q]]
        /\ dispatch'[order[i]] = Leased(cleanupLocked[order[i]], c)
        /\ \A q \in Runs : q # order[i] => dispatch'[q] = cleanupLocked[q]
    BY <2>1, <2>2, CleanTable
  <2>5. dispatch[order[i]].status # "none"
    BY <2>1, <2>2, CleanTable DEF Deliverable, Pending
  <2> QED
    BY <1>1, <2>3, <2>4, <2>5, CleanTable, TableStep
<1> QED
  BY <1>2, <1>3 DEF Poll

\* acknowledge settles a dispatch or leaves its settled status.
LEMMA AcknowledgeSound ==
  ASSUME BInv, NEW c \in Clients, NEW r \in Runs, NEW status \in {"sent", "failed"},
         Acknowledge(c, r, status)
  PROVE  BInv'
<1> DEFINE new == IF cleanupLocked[r].status \in Settled THEN cleanupLocked[r].status ELSE status
<1>1. /\ Sound(cleanupLocked[r])
      /\ cleanupLocked[r].status # "none"
      /\ cleanupLocked[r].client = c /\ c # NoClient
      /\ dispatch[r].status # "none"
  BY CleanTable, ClientAssumption DEF Acknowledge
<1>2. new \in Statuses \ (Pending \cup {"none"})
  BY DEF Statuses, Pending, Settled
<1>3. dispatch' = [cleanupLocked EXCEPT ![r] = Settle(cleanupLocked[r], new)]
  BY DEF Acknowledge
<1> HIDE DEF new
<1>4. Sound(Settle(cleanupLocked[r], new))
  BY <1>1, <1>2, SettleSound
<1>5. /\ dispatch' = [q \in Runs |-> dispatch'[q]]
      /\ dispatch'[r] = Settle(cleanupLocked[r], new)
      /\ \A q \in Runs : q # r => dispatch'[q] = cleanupLocked[q]
  BY <1>3, CleanTable
<1> QED
  BY <1>1, <1>4, <1>5, CleanTable, TableStep DEF Acknowledge, BInv, BridgeTypeOK

----------------------------------------------------------------------------
(* The invariant *)

\* At start the table is empty.
LEMMA InitSound ==
  ASSUME BridgeInit
  PROVE  BInv
<1>1. \A r \in Runs : dispatch[r] = NoDispatch
  BY DEF BridgeInit
<1>2. BridgeTypeOK
  <2>1. dispatch \in [Runs -> Dispatch]
    BY NoDispatchSound DEF BridgeInit, Sound
  <2>2. order \in Seq(Runs)
    BY DEF BridgeInit
  <2>4. wake \in BOOLEAN
    BY DEF BridgeInit
  <2>3. poll \in [Clients -> {"idle", "waiting", "woken"}]
    BY DEF BridgeInit
  <2> QED BY <2>1, <2>2, <2>3, <2>4 DEF BridgeTypeOK
<1>3. AllSound
  BY <1>1, NoDispatchSound DEF AllSound
<1>4. OrderInv
  BY <1>1 DEF OrderInv, Exists, NoDispatch
<1> QED
  BY <1>2, <1>3, <1>4 DEF BInv

\* Every step of the bridge preserves the invariant.
LEMMA NextSound ==
  ASSUME BInv, [BridgeNext]_bridgeVars
  PROVE  BInv'
<1>1. ASSUME NEW r \in Runs, Enqueue(r) PROVE BInv'
  BY <1>1, EnqueueSound
<1>2. ASSUME NEW r \in Runs, NEW status \in Marks, MarkRun(r, status) PROVE BInv'
  BY <1>2, MarkRunSound
<1>3. CASE Cleanup
  BY <1>3, CleanupSound DEF Cleanup, BInv, BridgeTypeOK
<1>4. CASE Time
  BY <1>4, TimeSound
<1>5. ASSUME NEW c \in Clients, Poll(c) PROVE BInv'
  BY <1>5, PollSound
<1>6. ASSUME NEW c \in Clients, Wake(c) \/ PollEnds(c) PROVE BInv'
  <2>1. dispatch' = dispatch /\ order' = order
    BY <1>6 DEF Wake, PollEnds
  <2>2. wake' \in BOOLEAN
    BY <1>6 DEF Wake, PollEnds, BInv, BridgeTypeOK
  <2>3. poll' \in [Clients -> {"idle", "waiting", "woken"}]
    BY <1>6 DEF Wake, PollEnds, BInv, BridgeTypeOK
  <2>4. dispatch' = [q \in Runs |-> dispatch'[q]]
    BY <2>1 DEF BInv, BridgeTypeOK
  <2> QED
    BY <2>1, <2>2, <2>3, <2>4, TableStep DEF BInv, AllSound
<1>7. ASSUME NEW c \in Clients, NEW r \in Runs, NEW status \in {"sent", "failed"},
             Acknowledge(c, r, status)
      PROVE  BInv'
  BY <1>7, AcknowledgeSound
<1>8. CASE UNCHANGED bridgeVars
  BY <1>8 DEF bridgeVars, BInv, BridgeTypeOK, AllSound, OrderInv, Exists, Enqueued
<1> QED
  BY <1>1, <1>2, <1>3, <1>4, <1>5, <1>6, <1>7, <1>8 DEF BridgeNext, ClientStep

(***************************************************************************)
(* Every reachable state is well typed, its dispatches are sound and those *)
(* in the table were enqueued: the inductive invariant of the bridge.      *)
(***************************************************************************)
THEOREM BridgeInvariant == BridgeSpec => []BInv
<1>1. BridgeInit => BInv
  BY InitSound
<1>2. BInv /\ [BridgeNext]_bridgeVars => BInv'
  BY NextSound
<1> QED
  BY <1>1, <1>2, PTL DEF BridgeSpec

(***************************************************************************)
(* The fields of a dispatch keep their types, whatever the number of runs  *)
(* and clients.                                                            *)
(***************************************************************************)
THEOREM BridgeTypeCorrect == BridgeSpec => []BridgeTypeOK
<1>1. BInv => BridgeTypeOK
  BY DEF BInv
<1> QED
  BY <1>1, BridgeInvariant, PTL

(***************************************************************************)
(* A prompt, with its join code, is in memory exactly while its dispatch   *)
(* is queued or on its way to a client, for any number of runs, clients    *)
(* and polls.                                                              *)
(***************************************************************************)
THEOREM PromptErased == BridgeSpec => []PromptOnlyWhilePending
<1>1. BInv => PromptOnlyWhilePending
  BY DEF BInv, AllSound, Sound, PromptOnlyWhilePending
<1> QED
  BY <1>1, BridgeInvariant, PTL

(***************************************************************************)
(* No dispatch is handed out twice, and one that has a client was handed   *)
(* out, for any number of runs, clients and polls.                         *)
(***************************************************************************)
THEOREM OneHandOver == BridgeSpec => []HandedOutOnce
<1>1. BInv => HandedOutOnce
  BY DEF BInv, AllSound, Sound, HandedOutOnce
<1> QED
  BY <1>1, BridgeInvariant, PTL

----------------------------------------------------------------------------
(* What a step does to the dispatches it is not about *)

\* A dispatch that is pending after the step was so before, for the same client.
Keeps(q) ==
  dispatch'[q].status \in Pending =>
    dispatch'[q].status = dispatch[q].status /\ dispatch'[q].client = dispatch[q].client

\* The status a settled dispatch gets.
LEMMA SettleStatus ==
  ASSUME NEW d, NEW status
  PROVE  Settle(d, status).status = status
  BY DEF Settle, NoDispatch

\* markRun leaves no pending dispatch for its run.
LEMMA MarkRunStep ==
  ASSUME BInv, NEW r \in Runs, NEW status \in Marks, MarkRun(r, status)
  PROVE  \A q \in Runs : Keeps(q) /\ SettledStep(q)
<1>1. /\ dispatch'[r] = Settle(dispatch[r], status)
      /\ \A q \in Runs : q # r => dispatch'[q] = dispatch[q]
  BY DEF MarkRun, BInv, BridgeTypeOK
<1>2. dispatch'[r].status \notin Pending
  BY <1>1, SettleStatus DEF Marks, Pending
<1>3. SettledStep(r)
  BY DEF SettledStep
<1>4. Keeps(r)
  BY <1>2 DEF Keeps
<1> QED
  BY <1>1, <1>3, <1>4 DEF Keeps, SettledStep

\* The same for a step that only cleans up some of the dispatches.
LEMMA CleanKeeps ==
  ASSUME BInv, NEW q \in Runs, dispatch'[q] = cleanupLocked[q]
  PROVE  Keeps(q) /\ SettledStep(q)
  BY CleanTable DEF Keeps, SettledStep

\* An acknowledgement respects what is settled.
LEMMA AcknowledgeStep ==
  ASSUME BInv, NEW c \in Clients, NEW r \in Runs, NEW status \in {"sent", "failed"},
         Acknowledge(c, r, status)
  PROVE  \A q \in Runs : Keeps(q) /\ SettledStep(q)
<1> DEFINE new == IF cleanupLocked[r].status \in Settled THEN cleanupLocked[r].status ELSE status
<1>1. cleanupLocked[r].status # "none"
  BY DEF Acknowledge
<1>2. new \notin Pending /\ (cleanupLocked[r].status \in Settled => new = cleanupLocked[r].status)
  BY DEF Pending, Settled
<1>3. dispatch' = [cleanupLocked EXCEPT ![r] = Settle(cleanupLocked[r], new)]
  BY DEF Acknowledge
<1> HIDE DEF new
<1>4. /\ dispatch'[r].status = new
      /\ \A q \in Runs : q # r => dispatch'[q] = cleanupLocked[q]
  BY <1>2, <1>3, CleanTable, SettleStatus
<1>5. Keeps(r)
  BY <1>2, <1>4 DEF Keeps
<1>6. SettledStep(r)
  BY <1>1, <1>2, <1>4, CleanTable DEF SettledStep
<1> QED
  BY <1>4, <1>5, <1>6, CleanKeeps

\* The hand-over of a poll, in the words of the queue.
HandsOver(i, c) ==
  /\ Deliverable(i)
  /\ \A j \in 1 .. (i - 1) : ~Deliverable(j)
  /\ dispatch' = [cleanupLocked EXCEPT ![order[i]] = Leased(cleanupLocked[order[i]], c)]
  /\ order' = order

\* A hand-over leases one queued dispatch and only cleans up the others.
LEMMA HandsOverStep ==
  ASSUME BInv, NEW c \in Clients, NEW i \in DOMAIN order, HandsOver(i, c)
  PROVE  /\ order[i] \in Runs
         /\ dispatch[order[i]].status = "queued"
         /\ dispatch'[order[i]].status = "dispatched"
         /\ dispatch'[order[i]].client = c
         /\ \A q \in Runs : q # order[i] => dispatch'[q] = cleanupLocked[q] /\ Keeps(q)
         /\ \A q \in Runs : SettledStep(q)
<1>1. order[i] \in Runs
  BY DEF BInv, BridgeTypeOK
<1>2. cleanupLocked[order[i]].status = "queued" /\ dispatch[order[i]].status = "queued"
  BY <1>1, CleanTable DEF HandsOver, Deliverable, Pending
<1>3. /\ dispatch'[order[i]] = Leased(cleanupLocked[order[i]], c)
      /\ \A q \in Runs : q # order[i] => dispatch'[q] = cleanupLocked[q]
  BY <1>1, CleanTable DEF HandsOver
<1>4. SettledStep(order[i])
  BY <1>2 DEF SettledStep, Settled
<1> QED
  BY <1>1, <1>2, <1>3, <1>4, CleanKeeps DEF Leased

\* A poll cleans up and waits, or hands over.
LEMMA PollCases ==
  ASSUME NEW c \in Clients, Poll(c)
  PROVE  \/ dispatch' = cleanupLocked /\ order' = order
         \/ \E i \in DOMAIN order : HandsOver(i, c)
  BY DEF Poll, HandsOver

\* enqueue queues a run that had no dispatch, and only cleans up the others.
LEMMA EnqueueStep ==
  ASSUME BInv, NEW r \in Runs, Enqueue(r)
  PROVE  /\ r \notin Enqueued /\ Enqueued' = Enqueued \cup {r}
         /\ dispatch[r].status = "none" /\ dispatch'[r].status = "queued"
         /\ \A q \in Runs : q # r => Keeps(q)
         /\ \A q \in Runs : SettledStep(q)
<1>1. Enqueued' = Enqueued \cup {r}
  BY DEF Enqueue, Enqueued, BInv, BridgeTypeOK
<1>2. r \notin Enqueued /\ dispatch[r].status = "none"
  BY DEF Enqueue, BInv, OrderInv, Exists
<1>3. /\ dispatch'[r] = Queued
      /\ \A q \in Runs : q # r => dispatch'[q] = cleanupLocked[q]
  BY CleanTable DEF Enqueue
<1>4. SettledStep(r)
  BY <1>2 DEF SettledStep, Settled
<1> QED
  BY <1>1, <1>2, <1>3, <1>4, QueuedSound, CleanKeeps

\* Every step respects what is settled.
LEMMA StepSettled ==
  ASSUME BInv, BridgeNext
  PROVE  \A q \in Runs : SettledStep(q)
<1>1. ASSUME NEW r \in Runs, Enqueue(r) PROVE \A q \in Runs : SettledStep(q)
  BY <1>1, EnqueueStep
<1>2. ASSUME NEW r \in Runs, NEW status \in Marks, MarkRun(r, status)
      PROVE  \A q \in Runs : SettledStep(q)
  BY <1>2, MarkRunStep
<1>3. CASE Cleanup
  BY <1>3, CleanKeeps DEF Cleanup
<1>4. CASE Time
  BY <1>4, TimeStep DEF SettledStep
<1>5. ASSUME NEW c \in Clients, Poll(c) PROVE \A q \in Runs : SettledStep(q)
  BY <1>5, PollCases, HandsOverStep, CleanKeeps
<1>6. ASSUME NEW c \in Clients, Wake(c) \/ PollEnds(c) PROVE \A q \in Runs : SettledStep(q)
  BY <1>6 DEF Wake, PollEnds, SettledStep
<1>7. ASSUME NEW c \in Clients, NEW r \in Runs, NEW status \in {"sent", "failed"},
             Acknowledge(c, r, status)
      PROVE  \A q \in Runs : SettledStep(q)
  BY <1>7, AcknowledgeStep
<1> QED
  BY <1>1, <1>2, <1>3, <1>4, <1>5, <1>6, <1>7 DEF BridgeNext, ClientStep

(***************************************************************************)
(* A late acknowledgement, a lapsed lease, an expiry or a poll never       *)
(* changes what markRun recorded for a claimed, completed or cancelled     *)
(* run, for any number of runs and clients.                                *)
(***************************************************************************)
THEOREM MarksLast == BridgeSpec => AckNeverDowngrades
<1>1. BInv /\ [BridgeNext]_bridgeVars => [\A r \in Runs : SettledStep(r)]_bridgeVars
  BY StepSettled
<1> QED
  BY <1>1, BridgeInvariant, PTL DEF BridgeSpec, AckNeverDowngrades

\* A step that raises no token and moves no poll to "waiting" keeps a queued
\* dispatch noticed.
LEMMA StillNoticed ==
  ASSUME NoLostWakeup, \A q \in Runs : Keeps(q), wake => wake',
         \A c \in Clients : poll'[c] = "waiting" => poll[c] = "waiting"
  PROVE  NoLostWakeup'
<1>1. \A q \in Runs : dispatch'[q].status = "queued" => dispatch[q].status = "queued"
  BY DEF Keeps, Pending
<1> QED
  BY <1>1 DEF NoLostWakeup

\* A poll that goes to wait has found nothing queued.
LEMMA PollNotices ==
  ASSUME BInv, NoLostWakeup, NEW c \in Clients, Poll(c)
  PROVE  NoLostWakeup'
<1>1. poll \in [Clients -> {"idle", "waiting", "woken"}]
  BY DEF BInv, BridgeTypeOK
<1>2. CASE poll' = [poll EXCEPT ![c] = "idle"]
  BY <1>1, <1>2 DEF NoLostWakeup
<1>3. CASE dispatch' = cleanupLocked /\ \A i \in DOMAIN order : ~Deliverable(i)
  <2>1. ASSUME NEW q \in Runs, dispatch'[q].status = "queued" PROVE FALSE
    <3>1. cleanupLocked[q].status = "queued" /\ cleanupLocked[q].prompt
      BY <1>3, <2>1, CleanTable DEF Sound, Pending
    <3>2. dispatch[q].status = "queued"
      BY <3>1, CleanTable DEF Pending
    <3>3. q \in Enqueued
      BY <3>2 DEF BInv, OrderInv, Exists
    <3>4. PICK i \in DOMAIN order : order[i] = q
      BY <3>3 DEF Enqueued
    <3>5. Deliverable(i)
      BY <3>1, <3>4 DEF Deliverable
    <3> QED
      BY <1>3, <3>5
  <2> QED
    BY <2>1 DEF NoLostWakeup
<1> QED
  BY <1>2, <1>3 DEF Poll

\* Every step preserves that queued dispatches are noticed.
LEMMA NextNotices ==
  ASSUME BInv, NoLostWakeup, BridgeNext
  PROVE  NoLostWakeup'
<1>1. ASSUME NEW r \in Runs, Enqueue(r) PROVE NoLostWakeup'
  BY <1>1 DEF Enqueue, NoLostWakeup
<1>2. ASSUME NEW r \in Runs, NEW status \in Marks, MarkRun(r, status) PROVE NoLostWakeup'
  BY <1>2, MarkRunStep, StillNoticed DEF MarkRun
<1>3. CASE Cleanup
  BY <1>3, CleanKeeps, StillNoticed DEF Cleanup
<1>4. CASE Time
  BY <1>4, TimeStep, StillNoticed DEF Keeps
<1>5. ASSUME NEW c \in Clients, Poll(c) PROVE NoLostWakeup'
  BY <1>5, PollNotices
<1>6. ASSUME NEW c \in Clients, Wake(c) \/ PollEnds(c) PROVE NoLostWakeup'
  <2>1. poll'[c] \in {"idle", "woken"}
    BY <1>6 DEF Wake, PollEnds, BInv, BridgeTypeOK
  <2> QED
    BY <2>1 DEF NoLostWakeup
<1>7. ASSUME NEW c \in Clients, NEW r \in Runs, NEW status \in {"sent", "failed"},
             Acknowledge(c, r, status)
      PROVE  NoLostWakeup'
  BY <1>7, AcknowledgeStep, StillNoticed DEF Acknowledge
<1> QED
  BY <1>1, <1>2, <1>3, <1>4, <1>5, <1>6, <1>7 DEF BridgeNext, ClientStep

(***************************************************************************)
(* The one-place wake channel of the bridge loses no wake-up: with any     *)
(* number of polls and enqueues, while a dispatch is queued the token is   *)
(* there or some client does not wait.                                     *)
(***************************************************************************)
THEOREM WakeNeverLost == BridgeSpec => []NoLostWakeup
<1>1. BridgeInit => NoLostWakeup
  BY DEF BridgeInit, NoDispatch, NoLostWakeup
<1>2. BInv /\ NoLostWakeup /\ [BridgeNext]_bridgeVars => NoLostWakeup'
  <2>1. NoLostWakeup /\ UNCHANGED bridgeVars => NoLostWakeup'
    BY DEF bridgeVars, NoLostWakeup
  <2> QED
    BY <2>1, NextNotices
<1> QED
  BY <1>1, <1>2, BridgeInvariant, PTL DEF BridgeSpec

----------------------------------------------------------------------------
(* The bridge implements RelayQueue *)

\* The items a step closes.
Gone == {r \in Runs : dispatch[r].status \in Pending /\ dispatch'[r].status \notin Pending}

\* The images of a run that a step keeps: closed if it is gone, else as before.
LEMMA KeptImage ==
  ASSUME BInv, NEW q \in Runs, Keeps(q), (q \in Enqueued)' <=> q \in Enqueued
  PROVE  /\ Box(q)' = IF q \in Gone THEN "closed" ELSE Box(q)
         /\ Holder(q)' = IF q \in Gone THEN NoClient ELSE Holder(q)
<1>1. dispatch[q].status \in Pending => q \in Enqueued
  BY DEF BInv, OrderInv, Exists, Pending
<1>2. CASE dispatch'[q].status \in Pending
  <2>1. dispatch'[q].status = dispatch[q].status /\ dispatch'[q].client = dispatch[q].client
    BY <1>2 DEF Keeps
  <2>2. q \notin Gone
    BY <1>2 DEF Gone
  <2> QED
    BY <2>1, <2>2 DEF Box, Holder
<1>3. CASE dispatch'[q].status \notin Pending
  <2>1. Box(q)' = (IF q \in Enqueued THEN "closed" ELSE "new") /\ Holder(q)' = NoClient
    BY <1>3 DEF Box, Holder, Pending
  <2>2. CASE dispatch[q].status \in Pending
    <3>1. q \in Gone
      BY <1>3, <2>2 DEF Gone
    <3> QED
      BY <1>1, <2>1, <2>2, <3>1
  <2>3. CASE dispatch[q].status \notin Pending
    <3>1. q \notin Gone
      BY <2>3 DEF Gone
    <3>2. Box(q) = (IF q \in Enqueued THEN "closed" ELSE "new") /\ Holder(q) = NoClient
      BY <2>3 DEF Box, Holder, Pending
    <3> QED
      BY <2>1, <3>1, <3>2
  <2> QED
    BY <2>2, <2>3
<1> QED
  BY <1>2, <1>3

\* Items are closed only while they wait or are out.
LEMMA GoneCloses == Gone \in SUBSET Runs /\ Queue!Closing(Gone)
  BY DEF Gone, Queue!Closing, Box, Pending

\* A step that keeps every dispatch closes the items that are gone.
LEMMA CloseImage ==
  ASSUME BInv, order' = order, \A q \in Runs : Keeps(q)
  PROVE  Queue!QueueNext
<1>1. \A q \in Runs : (q \in Enqueued)' <=> q \in Enqueued
  BY DEF Enqueued
<1>2. \A q \in Runs : /\ Box(q)' = IF q \in Gone THEN "closed" ELSE Box(q)
                     /\ Holder(q)' = IF q \in Gone THEN NoClient ELSE Holder(q)
  BY <1>1, KeptImage
<1> HIDE DEF Gone, Box, Holder
<1>3. Queue!Close(Gone)
  BY <1>2 DEF Queue!Close, Queue!After, Queue!Release
<1> QED
  BY <1>3, GoneCloses DEF Queue!QueueNext

\* enqueue submits its run and closes the items its clean-up ends.
LEMMA EnqueueImage ==
  ASSUME BInv, NEW r \in Runs, Enqueue(r)
  PROVE  Queue!QueueNext
<1>1. \A q \in Runs : q # r => ((q \in Enqueued)' <=> q \in Enqueued) /\ Keeps(q)
  BY EnqueueStep
<1>2. \A q \in Runs : q # r =>
        /\ Box(q)' = IF q \in Gone THEN "closed" ELSE Box(q)
        /\ Holder(q)' = IF q \in Gone THEN NoClient ELSE Holder(q)
  BY <1>1, KeptImage
<1>3. Box(r) = "new" /\ Box(r)' = "waiting" /\ Holder(r) = NoClient /\ Holder(r)' = NoClient
  BY EnqueueStep DEF Box, Holder
<1>4. r \notin Gone
  BY EnqueueStep DEF Gone, Pending
<1>5. order' = Append(order, r)
  BY DEF Enqueue
<1> HIDE DEF Gone, Box, Holder
<1>6. Queue!Submit(r, Gone)
  BY <1>2, <1>3, <1>4, <1>5 DEF Queue!Submit, Queue!After, Queue!Release
<1> QED
  BY <1>6, GoneCloses DEF Queue!QueueNext

\* A hand-over takes the oldest waiting item: an older one that was queued
\* has just been closed by the clean-up.
LEMMA HandOverImage ==
  ASSUME BInv, NEW c \in Clients, NEW i \in DOMAIN order, HandsOver(i, c)
  PROVE  Queue!QueueNext
<1>0. PICK h \in Runs : h = order[i]
  BY HandsOverStep
<1>1. \A q \in Runs : q # h => dispatch'[q] = cleanupLocked[q] /\ Keeps(q)
  BY <1>0, HandsOverStep
<1>2. \A q \in Runs : (q \in Enqueued)' <=> q \in Enqueued
  BY DEF HandsOver, Enqueued
<1>3. \A q \in Runs : q # h =>
        /\ Box(q)' = IF q \in Gone THEN "closed" ELSE Box(q)
        /\ Holder(q)' = IF q \in Gone THEN NoClient ELSE Holder(q)
  BY <1>1, <1>2, KeptImage
<1>4. Box(h) = "waiting" /\ Box(h)' = "out" /\ Holder(h)' = c /\ h \notin Gone
  BY <1>0, HandsOverStep DEF Box, Holder, Gone, Pending
<1>5. ASSUME NEW j \in 1 .. (i - 1)
      PROVE  order[j] \in Runs /\ (order[j] \in Gone \/ Box(order[j]) # "waiting")
  <2>1. j \in DOMAIN order /\ order[j] \in Runs
    BY DEF BInv, BridgeTypeOK
  <2>2. ~Deliverable(j) /\ Deliverable(i)
    BY DEF HandsOver
  <2>3. order[j] # h
    BY <1>0, <2>2 DEF Deliverable
  <2>4. cleanupLocked[order[j]].status # "queued"
    BY <2>1, <2>2, CleanTable DEF Deliverable, Sound, Pending
  <2>5. dispatch'[order[j]] = cleanupLocked[order[j]]
    BY <1>1, <2>1, <2>3
  <2>6. CASE dispatch[order[j]].status = "queued"
    <3>1. cleanupLocked[order[j]].status \notin Pending
      BY <2>1, <2>4, <2>6, CleanTable
    <3> QED
      BY <2>1, <2>5, <2>6, <3>1 DEF Gone, Pending
  <2>7. CASE dispatch[order[j]].status # "queued"
    BY <2>1, <2>7 DEF Box
  <2> QED
    BY <2>1, <2>6, <2>7
<1>6. order' = order
  BY DEF HandsOver
<1> HIDE DEF Gone, Box, Holder
<1>7. Queue!HandOver(i, c, Gone)
  <2>1. [r \in Runs |-> Box(r)][h] = "waiting"
    BY <1>4
  <2>2. \A j \in 1 .. (i - 1) : Queue!After(Gone, order[j]) # "waiting"
    BY <1>5 DEF Queue!After
  <2>3. [r \in Runs |-> Box(r)]' = [q \in Runs |-> IF q = h THEN "out" ELSE Queue!After(Gone, q)]
    BY <1>3, <1>4 DEF Queue!After
  <2>4. [r \in Runs |-> Holder(r)]' = [Queue!Release(Gone) EXCEPT ![h] = c]
    BY <1>3, <1>4 DEF Queue!Release
  <2> QED
    BY <1>0, <1>4, <1>6, <2>1, <2>2, <2>3, <2>4 DEF Queue!HandOver
<1> QED
  BY <1>7, GoneCloses DEF Queue!QueueNext

\* Every step of the bridge is a step of the queue.
LEMMA StepImage ==
  ASSUME BInv, BridgeNext
  PROVE  Queue!QueueNext
<1>1. ASSUME NEW r \in Runs, Enqueue(r) PROVE Queue!QueueNext
  BY <1>1, EnqueueImage
<1>2. ASSUME NEW r \in Runs, NEW status \in Marks, MarkRun(r, status) PROVE Queue!QueueNext
  BY <1>2, MarkRunStep, CloseImage DEF MarkRun
<1>3. CASE Cleanup
  BY <1>3, CleanKeeps, CloseImage DEF Cleanup
<1>4. CASE Time
  BY <1>4, TimeStep, CloseImage DEF Keeps
<1>5. ASSUME NEW c \in Clients, Poll(c) PROVE Queue!QueueNext
  BY <1>5, PollCases, HandOverImage, CleanKeeps, CloseImage
<1>6. ASSUME NEW c \in Clients, Wake(c) \/ PollEnds(c) PROVE Queue!QueueNext
  BY <1>6, CloseImage DEF Wake, PollEnds, Keeps
<1>7. ASSUME NEW c \in Clients, NEW r \in Runs, NEW status \in {"sent", "failed"},
             Acknowledge(c, r, status)
      PROVE  Queue!QueueNext
  BY <1>7, AcknowledgeStep, CloseImage DEF Acknowledge
<1> QED
  BY <1>1, <1>2, <1>3, <1>4, <1>5, <1>6, <1>7 DEF BridgeNext, ClientStep

(***************************************************************************)
(* The bridge implements the first-in first-out mailbox of RelayQueue, for *)
(* any number of runs, clients and polls: each step submits a prompt, hands *)
(* the oldest waiting one to one client, or only closes items.             *)
(***************************************************************************)
THEOREM BridgeRefinesQueue == BridgeSpec => ImplementsQueue
<1>1. BridgeInit => Queue!QueueInit
  BY DEF BridgeInit, Queue!QueueInit, Box, Holder, NoDispatch, Enqueued
<1>2. BInv /\ [BridgeNext]_bridgeVars => [Queue!QueueNext]_(Queue!queueVars)
  <2>1. UNCHANGED bridgeVars => UNCHANGED Queue!queueVars
    BY DEF bridgeVars, Queue!queueVars, Box, Holder, Enqueued
  <2> QED
    BY <2>1, StepImage
<1> QED
  BY <1>1, <1>2, BridgeInvariant, PTL DEF BridgeSpec, ImplementsQueue, Queue!QueueSpec
=============================================================================
