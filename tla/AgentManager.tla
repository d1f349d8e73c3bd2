---------------------------- MODULE AgentManager ----------------------------
(***************************************************************************)
(* The sub-agent manager of agents_v2.go and agent_relay.go: capacity      *)
(* slots, delegated runs, their bounded history, and the goroutines and    *)
(* callers that race to finish a run.                                      *)
(*                                                                         *)
(* Every action is one critical section of agentManager.mu (or one step of *)
(* a goroutine between two of them).  Operations that drop the lock in the *)
(* middle -- cancelRun and completeChatGPTRelayTask, which call finishRun  *)
(* after unlocking -- are two actions, with the caller's position kept in  *)
(* `cancelling` and `finishing`.                                           *)
(*                                                                         *)
(* Abstracted data: task, names, model, usage, phase and activity texts,   *)
(* the AllowImages/RTK/Caveman settings of a slot, and the position of a   *)
(* slot in m.slots (the code takes the first eligible slot of the list,    *)
(* the model any eligible one).  Busy and ActiveRunID are always assigned  *)
(* together: a slot is busy when its `run` is not NoRun.                   *)
(***************************************************************************)
EXTENDS Integers, Sequences, FiniteSets

CONSTANTS
  RunIds,          \* the run ids randToken may return, each at most once
  NoRun,           \* the empty ActiveRunID
  MaxCapacity,     \* maximumAgentCapacity
  InitCapacity,    \* cfg.AgentCapacity, slots created on the first start
  MaxAgentRuns     \* maxAgentRuns, the bound trimRunsLocked enforces

ASSUME CapacityAssumption ==
  /\ MaxCapacity \in Nat
  /\ InitCapacity \in 1 .. MaxCapacity
  /\ MaxAgentRuns \in Nat \ {0}

ASSUME RunAssumption == NoRun \notin RunIds

SlotIds == 1 .. MaxCapacity        \* the NN of "slot-NN"

VARIABLES
  slots,       \* m.slots: present in the list, enabled, the run it is busy with
  disk,        \* agents.json: what persistSlots last wrote
  dirty,       \* TRUE after a persistSlots whose failure was reported
  runs,        \* m.runs; kind "none" when the id is not a key of the map
  history,     \* m.history
  used,        \* ids randToken has returned (they never repeat)
  ctx,         \* each run's context: "live", "cancelled" or "deadline"
  go,          \* where each run's goroutine stands
  cancelling,  \* runs with a cancelRun call between its unlock and finishRun
  finishing    \* result a completeChatGPTRelayTask call carries to finishRun

vars == <<slots, disk, dirty, runs, history, used, ctx, go, cancelling, finishing>>

----------------------------------------------------------------------------
(* Types *)

Terminal == {"completed", "failed", "cancelled", "timed_out"}
Status   == {"none", "queued", "waiting_worker", "running", "finishing"} \cup Terminal
Slot     == [present : BOOLEAN, enabled : BOOLEAN, run : RunIds \cup {NoRun}]

Run == [kind   : {"none", "router", "relay"},
        slot   : SlotIds,
        status : Status,
        done   : BOOLEAN,      \* CompletedAt is set
        code   : BOOLEAN,      \* claimCode is set
        token  : BOOLEAN]      \* workerToken is set

NoRunState == [kind |-> "none", slot |-> 1, status |-> "none",
               done |-> FALSE, code |-> FALSE, token |-> FALSE]

TypeOK ==
  /\ slots \in [SlotIds -> Slot]
  /\ disk \in [SlotIds -> [present : BOOLEAN, enabled : BOOLEAN]]
  /\ dirty \in BOOLEAN
  /\ runs \in [RunIds -> Run]
  /\ history \in Seq(RunIds)
  /\ used \in SUBSET RunIds
  /\ ctx \in [RunIds -> {"live", "cancelled", "deadline"}]
  /\ go \in [RunIds -> {"idle", "watch", "exec", "round", "call"}]
  /\ cancelling \in SUBSET RunIds
  /\ finishing \in [RunIds -> {"no", "completed", "failed"}]

----------------------------------------------------------------------------
(* State predicates and helpers *)

Busy(s)       == slots[s].run # NoRun
Exists(r)     == runs[r].kind # "none"
Unfinished(r) == Exists(r) /\ ~runs[r].done

isAgentRunActiveStatus(status) == status \in {"queued", "waiting_worker", "running"}

\* persistSlots clears Busy and ActiveRunID in what it writes.
Config(sl) == [s \in SlotIds |-> [present |-> sl[s].present,
                                  enabled |-> sl[s].present /\ sl[s].enabled]]

\* persistSlots either replaces agents.json (temporary file, then rename) or
\* fails and leaves the old file.
PersistOK(sl) == disk' = Config(sl) /\ dirty' = FALSE
PersistFails  == UNCHANGED disk /\ dirty' = TRUE

\* defaultSlot / normalizeSlots: a slot of the list that nothing runs on.
IdleSlot(enabled) == [present |-> TRUE, enabled |-> enabled, run |-> NoRun]
NoSlot            == [present |-> FALSE, enabled |-> FALSE, run |-> NoRun]
DefaultSlots == [s \in SlotIds |-> IF s <= InitCapacity THEN IdleSlot(TRUE) ELSE NoSlot]

(***************************************************************************)
(* trimRunsLocked.  While the history is too long its head is dropped from *)
(* the map; a head whose status is active is moved to the end instead and  *)
(* the loop stops.                                                         *)
(***************************************************************************)
Excess(h) == IF Len(h) > MaxAgentRuns THEN Len(h) - MaxAgentRuns ELSE 0

DropIndices(h, rs) ==
  {i \in 1 .. Excess(h) :
     \A j \in 1 .. i : ~isAgentRunActiveStatus(rs[h[j]].status)}

Dropped(h, rs) == {h[i] : i \in DropIndices(h, rs)}

TrimHistory(h, rs) ==
  LET n == Cardinality(DropIndices(h, rs))
  IN  IF n < Excess(h)
      THEN SubSeq(h, n + 2, Len(h)) \o <<h[n + 1]>>
      ELSE SubSeq(h, n + 1, Len(h))

TrimRuns(h, rs) ==
  [r \in RunIds |-> IF r \in Dropped(h, rs) THEN NoRunState ELSE rs[r]]

----------------------------------------------------------------------------
(* Slot management (dashboard) *)

AddSlot ==
  /\ \E s \in SlotIds :
       /\ ~slots[s].present
       /\ \A t \in 1 .. (s - 1) : slots[t].present
       /\ slots' = [slots EXCEPT ![s] = IdleSlot(TRUE)]
  /\ PersistOK(slots')        \* a failed write is rolled back: no change
  /\ UNCHANGED <<runs, history, used, ctx, go, cancelling, finishing>>

\* Mutant of RemoveSlot: a busy slot may be removed.
RemoveSlotBusy(s) ==
  /\ slots[s].present
  /\ \E t \in SlotIds \ {s} : slots[t].present
  /\ slots' = [slots EXCEPT ![s] = NoSlot]
  /\ PersistOK(slots') \/ PersistFails
  /\ UNCHANGED <<runs, history, used, ctx, go, cancelling, finishing>>

RemoveSlot(s) ==
  /\ slots[s].present
  /\ \E t \in SlotIds \ {s} : slots[t].present
  /\ ~Busy(s)
  /\ slots' = [slots EXCEPT ![s] = NoSlot]
  /\ PersistOK(slots') \/ PersistFails
  /\ UNCHANGED <<runs, history, used, ctx, go, cancelling, finishing>>

\* Mutant of UpdateSlot: the change is not written to agents.json.
UpdateSlotInMemory(s, enabled) ==
  /\ slots[s].present
  /\ Busy(s) => enabled
  /\ slots' = [slots EXCEPT ![s].enabled = enabled]
  /\ UNCHANGED <<disk, dirty, runs, history, used, ctx, go, cancelling, finishing>>

\* updateSlot: the enabled flag; a busy slot cannot be disabled.
UpdateSlot(s, enabled) ==
  /\ slots[s].present
  /\ Busy(s) => enabled
  /\ slots' = [slots EXCEPT ![s].enabled = enabled]
  /\ PersistOK(slots') \/ PersistFails
  /\ UNCHANGED <<runs, history, used, ctx, go, cancelling, finishing>>

----------------------------------------------------------------------------
(* Creating a run *)

Eligible(s) == slots[s].present /\ slots[s].enabled /\ ~Busy(s)

\* The part delegate and delegateChatGPTRelay share, up to their unlock.
Delegate(r, run, goroutine) ==
  /\ r \notin used
  /\ used' = used \cup {r}
  /\ Eligible(run.slot)
  /\ slots' = [slots EXCEPT ![run.slot].run = r]
  /\ LET added == [runs EXCEPT ![r] = run]
         longer == Append(history, r)
     IN  /\ runs' = TrimRuns(longer, added)
         /\ history' = TrimHistory(longer, added)
  /\ ctx' = [ctx EXCEPT ![r] = "live"]
  /\ go' = [go EXCEPT ![r] = goroutine]
  /\ UNCHANGED <<disk, dirty, cancelling, finishing>>

DelegateRouter(r, s) ==
  Delegate(r, [kind |-> "router", slot |-> s, status |-> "queued",
               done |-> FALSE, code |-> FALSE, token |-> FALSE], "exec")

DelegateRelay(r, s) ==
  Delegate(r, [kind |-> "relay", slot |-> s, status |-> "waiting_worker",
               done |-> FALSE, code |-> TRUE, token |-> FALSE], "watch")

----------------------------------------------------------------------------
(* Finishing a run *)

\* Mutants of finishRun: the secrets stay; a finished run is finished again.
Finished(r, status) == [runs[r] EXCEPT !.status = status, !.done = TRUE,
                                       !.code = FALSE, !.token = FALSE]
EndContext(r) == ctx' = [ctx EXCEPT ![r] = IF @ = "live" THEN "cancelled" ELSE @]
FreeSlot(r) == slots' = [s \in SlotIds |-> IF slots[s].run = r THEN [slots[s] EXCEPT !.run = NoRun]
                                                               ELSE slots[s]]

finishRunKeepsSecrets(r, status) ==
  IF Unfinished(r)
  THEN runs' = [runs EXCEPT ![r] = [@ EXCEPT !.status = status, !.done = TRUE]]
       /\ EndContext(r) /\ FreeSlot(r)
  ELSE UNCHANGED <<runs, ctx, slots>>

finishRunAgain(r, status) ==
  IF Exists(r)
  THEN runs' = [runs EXCEPT ![r] = Finished(r, status)] /\ EndContext(r) /\ FreeSlot(r)
  ELSE UNCHANGED <<runs, ctx, slots>>

\* finishRun: the first caller decides the outcome; a run that is gone or
\* already has CompletedAt is left alone.
finishRun(r, status) ==
  IF Unfinished(r)
  THEN /\ runs' = [runs EXCEPT ![r] = [@ EXCEPT !.status = status, !.done = TRUE,
                                               !.code = FALSE, !.token = FALSE]]
       /\ ctx' = [ctx EXCEPT ![r] = IF @ = "live" THEN "cancelled" ELSE @]
       /\ slots' = [s \in SlotIds |->
                      IF s = runs[r].slot /\ slots[s].run = r
                      THEN [slots[s] EXCEPT !.run = NoRun] ELSE slots[s]]
  ELSE UNCHANGED <<runs, ctx, slots>>

\* The run's context.WithTimeout fires.
Deadline(r) ==
  /\ go[r] # "idle"
  /\ ctx[r] = "live"
  /\ ctx' = [ctx EXCEPT ![r] = "deadline"]
  /\ UNCHANGED <<slots, disk, dirty, runs, history, used, go, cancelling, finishing>>

\* Mutant of Watch: the deadline ends the goroutine, not the run.
WatchForgets(r) ==
  /\ go[r] = "watch"
  /\ ctx[r] # "live"
  /\ go' = [go EXCEPT ![r] = "idle"]
  /\ UNCHANGED <<runs, ctx, slots, disk, dirty, history, used, cancelling, finishing>>

\* watchChatGPTRelayRun: wakes when the context ends, times the run out only
\* when it ended by its deadline.
Watch(r) ==
  /\ go[r] = "watch"
  /\ ctx[r] # "live"
  /\ go' = [go EXCEPT ![r] = "idle"]
  /\ IF ctx[r] = "deadline" THEN finishRun(r, "timed_out")
                            ELSE UNCHANGED <<runs, ctx, slots>>
  /\ UNCHANGED <<disk, dirty, history, used, cancelling, finishing>>

\* cancelRun up to its unlock.
CancelBegin(r) ==
  /\ Exists(r)
  /\ isAgentRunActiveStatus(runs[r].status)
  /\ ctx' = [ctx EXCEPT ![r] = IF @ = "live" THEN "cancelled" ELSE @]
  /\ cancelling' = cancelling \cup {r}
  /\ UNCHANGED <<slots, disk, dirty, runs, history, used, go, finishing>>

\* cancelRun's finishRun, after which it returns nil.
CancelEnd(r) ==
  /\ r \in cancelling
  /\ finishRun(r, "cancelled")
  /\ cancelling' = cancelling \ {r}
  /\ UNCHANGED <<disk, dirty, history, used, go, finishing>>

----------------------------------------------------------------------------
(* The relay worker: a caller holding the join code, then the worker token *)

\* Mutant of Claim: the join code can be used again.
ClaimAgain(r) ==
  /\ Exists(r) /\ runs[r].code
  /\ runs' = [runs EXCEPT ![r] = [@ EXCEPT !.status = "running", !.token = TRUE]]
  /\ UNCHANGED <<slots, disk, dirty, history, used, ctx, go, cancelling, finishing>>

\* claimChatGPTRelayTask with this run's join code.
Claim(r) ==
  /\ Exists(r) /\ runs[r].code
  /\ runs[r].status = "waiting_worker"
  /\ runs' = [runs EXCEPT ![r] = [@ EXCEPT !.status = "running", !.code = FALSE, !.token = TRUE]]
  /\ UNCHANGED <<slots, disk, dirty, history, used, ctx, go, cancelling, finishing>>

\* completeChatGPTRelayTask with this run's worker token, up to its unlock.
CompleteBegin(r, result) ==
  /\ Exists(r) /\ runs[r].token
  /\ runs[r].status = "running"
  /\ runs' = [runs EXCEPT ![r] = [@ EXCEPT !.status = "finishing", !.token = FALSE]]
  /\ finishing' = [finishing EXCEPT ![r] = result]
  /\ UNCHANGED <<slots, disk, dirty, history, used, ctx, go, cancelling>>

\* Its finishRun, with failed or completed.
CompleteEnd(r) ==
  /\ finishing[r] # "no"
  /\ finishRun(r, finishing[r])
  /\ finishing' = [finishing EXCEPT ![r] = "no"]
  /\ UNCHANGED <<disk, dirty, history, used, go, cancelling>>

----------------------------------------------------------------------------
(* The 9Router goroutine: execute *)

\* execute's first updateRun: sets "running" whatever the run's state is.
ExecStart(r) ==
  /\ go[r] = "exec"
  /\ go' = [go EXCEPT ![r] = "round"]
  /\ runs' = IF Exists(r) THEN [runs EXCEPT ![r].status = "running"] ELSE runs
  /\ UNCHANGED <<slots, disk, dirty, history, used, ctx, cancelling, finishing>>

\* Mutant of ExecRound: an ended context ends the goroutine without finishRun.
ExecRoundGivesUp(r) ==
  /\ go[r] = "round"
  /\ go' = [go EXCEPT ![r] = IF Exists(r) /\ ctx[r] = "live" THEN "call" ELSE "idle"]
  /\ UNCHANGED <<slots, disk, dirty, runs, history, used, ctx, cancelling, finishing>>

\* One round: a run that was trimmed ends the goroutine, else the request is
\* sent.  A request on an ended context fails at once.
ExecRound(r) ==
  /\ go[r] = "round"
  /\ \/ /\ ~Exists(r)
        /\ go' = [go EXCEPT ![r] = "idle"]
        /\ UNCHANGED <<runs, ctx, slots>>
     \/ /\ Exists(r) /\ ctx[r] = "live"
        /\ go' = [go EXCEPT ![r] = "call"]
        /\ UNCHANGED <<runs, ctx, slots>>
     \/ /\ Exists(r) /\ ctx[r] # "live"
        /\ go' = [go EXCEPT ![r] = "idle"]
        /\ finishRun(r, "failed")
  /\ UNCHANGED <<disk, dirty, history, used, cancelling, finishing>>

\* router.complete returns: an error or a model outside the allowlist, a final
\* answer, or tool calls that lead to another round.
ExecReply(r) ==
  /\ go[r] = "call"
  /\ \/ /\ go' = [go EXCEPT ![r] = "idle"]
        /\ \E status \in {"failed", "completed"} : finishRun(r, status)
     \/ /\ go' = [go EXCEPT ![r] = "round"]
        /\ UNCHANGED <<runs, ctx, slots>>
  /\ UNCHANGED <<disk, dirty, history, used, cancelling, finishing>>

Execute(r) == ExecStart(r) \/ ExecRound(r) \/ ExecReply(r)

----------------------------------------------------------------------------
\* The process stops and newAgentManager starts: slots come back from
\* agents.json, idle; runs, goroutines and pending calls are gone.
Restart ==
  /\ slots' = [s \in SlotIds |->
                 IF disk[s].present THEN IdleSlot(disk[s].enabled) ELSE NoSlot]
  /\ PersistOK(slots')
  /\ runs' = [r \in RunIds |-> NoRunState]
  /\ history' = <<>>
  /\ ctx' = [r \in RunIds |-> "cancelled"]
  /\ go' = [r \in RunIds |-> "idle"]
  /\ cancelling' = {}
  /\ finishing' = [r \in RunIds |-> "no"]
  /\ UNCHANGED used

----------------------------------------------------------------------------
Init ==
  /\ slots = DefaultSlots
  /\ disk = Config(DefaultSlots)
  /\ dirty = FALSE
  /\ runs = [r \in RunIds |-> NoRunState]
  /\ history = <<>>
  /\ used = {}
  /\ ctx = [r \in RunIds |-> "cancelled"]
  /\ go = [r \in RunIds |-> "idle"]
  /\ cancelling = {}
  /\ finishing = [r \in RunIds |-> "no"]

RunStep(r) ==
  \/ \E s \in SlotIds : DelegateRouter(r, s) \/ DelegateRelay(r, s)
  \/ Deadline(r) \/ Watch(r)
  \/ CancelBegin(r) \/ CancelEnd(r)
  \/ Claim(r)
  \/ \E result \in {"completed", "failed"} : CompleteBegin(r, result)
  \/ CompleteEnd(r)
  \/ Execute(r)

SlotStep ==
  \/ AddSlot
  \/ \E s \in SlotIds : RemoveSlot(s)
  \/ \E s \in SlotIds, enabled \in BOOLEAN : UpdateSlot(s, enabled)

Next == (\E r \in RunIds : RunStep(r)) \/ SlotStep \/ Restart

Spec == Init /\ [][Next]_vars

----------------------------------------------------------------------------
(* Properties *)

\* Every run that has not finished owns the slot it was given, the slot is
\* still in the list, and no two slots serve the same run: the guards of
\* removeSlot, updateSlot, delegate and finishRun keep capacity accounting
\* exact over any interleaving of delegations, finishes and slot edits.
SlotOwnership ==
  /\ \A r \in RunIds : Unfinished(r) =>
       slots[runs[r].slot].run = r /\ slots[runs[r].slot].present
  /\ \A s, t \in SlotIds : Busy(s) /\ slots[s].run = slots[t].run => s = t

\* A busy slot is busy for a reason: its run is unfinished and was given that
\* slot -- or the run was trimmed from the map while it was "finishing", the
\* one way a slot can be left busy for ever.
BusySlotJustified ==
  \A s \in SlotIds : Busy(s) =>
    LET r == slots[s].run
    IN  /\ slots[s].present /\ slots[s].enabled
        /\ r \in used
        /\ Exists(r) => Unfinished(r) /\ runs[r].slot = s

\* Capacity accounting, both ways.
CapacityAccounted == SlotOwnership /\ BusySlotJustified

\* CHANGELOG.md:37: a join code is good only while the run waits for a worker,
\* a worker token only while the worker's run is running, and both are cleared
\* when the run reaches any terminal state, whoever finishes it.
SecretsConfined ==
  \A r \in RunIds :
    /\ runs[r].code  => runs[r].kind = "relay" /\ runs[r].status = "waiting_worker"
    /\ runs[r].token => runs[r].kind = "relay" /\ runs[r].status = "running"
    /\ runs[r].done  => ~runs[r].code /\ ~runs[r].token

\* A relay run only moves forward: waiting_worker, running, finishing, then
\* one terminal state that never changes again.  In particular a join code is
\* claimed once and one result is accepted, whatever cancel, timeout and
\* completion race.
Rank(status) ==
  CASE status = "waiting_worker" -> 1
    [] status = "running"        -> 2
    [] status = "finishing"      -> 3
    [] OTHER                     -> 4

RelayStep(r) ==
  runs[r].kind = "relay" /\ Exists(r)' =>
    /\ runs'[r].status # runs[r].status => Rank(runs'[r].status) > Rank(runs[r].status)
    /\ runs[r].done => runs'[r] = runs[r]

RelayMovesForward == [][\A r \in RunIds : RelayStep(r)]_vars

\* A finished run of either backend keeps its outcome until it is trimmed,
\* with one exception the code has: the first step of a 9Router goroutine
\* that starts late (see CancelledIsFinal).
OutcomeStep(r) ==
  (Exists(r) /\ runs[r].done /\ Exists(r)') =>
    \/ runs'[r] = runs[r]
    \/ runs[r].kind = "router" /\ go[r] = "exec" /\ runs'[r].status = "running"

OutcomeKept == [][\A r \in RunIds : OutcomeStep(r)]_vars

\* The slot list on disk is the one in memory unless a write failed and was
\* reported since the last good one; there is always at least one slot, in
\* memory and on disk, so a restart never comes up without capacity.
SlotsDurable ==
  /\ ~dirty => disk = Config(slots)
  /\ \E s \in SlotIds : slots[s].present
  /\ \E s \in SlotIds : disk[s].present

\* An idle goroutine leaves nothing behind: a relay run whose watcher is gone,
\* or a router run whose execute returned, is finished or about to be by a
\* call that already holds its outcome.  Without this a run whose timeout can
\* no longer fire would wait for ever.
SomeoneWillFinish ==
  \A r \in RunIds : Unfinished(r) =>
    go[r] # "idle" \/ r \in cancelling \/ finishing[r] # "no"

\* v2_test.go:676 "cancelled run was overwritten": once cancelled, a run stays
\* cancelled.
CancelledIsFinal ==
  [][\A r \in RunIds : runs[r].done /\ runs[r].status = "cancelled" /\ Exists(r)'
        => runs'[r].status = "cancelled"]_vars
=============================================================================
