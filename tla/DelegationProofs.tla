-------------------------- MODULE DelegationProofs --------------------------
(***************************************************************************)
(* Proofs about delegated runs: AgentManager, for every set of run ids,    *)
(* every capacity and every length of the history, and RelayDelivery,      *)
(* which composes the manager with the bridge and the extension, for every *)
(* set of clients as well.                                                 *)
(*                                                                         *)
(* The safety invariants of the manager are not inductive one by one: that *)
(* finishRun frees the right slot needs SlotOwnership and                  *)
(* BusySlotJustified together, that a late goroutine cannot disturb a      *)
(* relay run needs to know which goroutine serves which kind of run, and   *)
(* that a watcher may go away needs to know who cancelled its context.     *)
(* IInv adds those three facts and is inductive.                           *)
(*                                                                         *)
(* Every step of the composition is a step of the manager or leaves it     *)
(* alone, so IInv holds there too.  DInv adds what the marks on their way  *)
(* and the dispatches say of their runs (Truthful, which no step of the    *)
(* manager falsifies) and that a prompt gets one tab (TabsInv).            *)
(***************************************************************************)
EXTENDS RelayDelivery, FiniteSetTheorems, TLAPS


\* A watcher serves a relay run, an execute goroutine a router run; only
\* delegated ids are in the map.
GoInv ==
  \A r \in RunIds : Exists(r) =>
    /\ r \in used
    /\ go[r] = "watch" => runs[r].kind = "relay"
    /\ go[r] \in {"exec", "round", "call"} => runs[r].kind = "router"

\* The context of an unfinished run is cancelled only by a cancelRun call that
\* has still to reach finishRun.
CtxInv ==
  \A r \in RunIds : Unfinished(r) /\ ctx[r] = "cancelled" => r \in cancelling

\* CompletedAt and the status of a relay run agree.
RelayStatusInv ==
  \A r \in RunIds : runs[r].kind = "relay" =>
    IF runs[r].done THEN runs[r].status \in Terminal
                    ELSE runs[r].status \in {"waiting_worker", "running", "finishing"}

SafeParts ==
  /\ SlotOwnership
  /\ BusySlotJustified
  /\ SecretsConfined
  /\ SlotsDurable

GoParts ==
  /\ SomeoneWillFinish
  /\ GoInv
  /\ CtxInv
  /\ RelayStatusInv

IInv == TypeOK /\ SafeParts /\ GoParts

----------------------------------------------------------------------------
(* trimRunsLocked *)

\* The trim drops no more than the history has in excess.
LEMMA DropBound ==
  ASSUME NEW h \in Seq(RunIds), NEW rs
  PROVE  Cardinality(DropIndices(h, rs)) \in 0 .. Excess(h)
<1>1. Excess(h) \in 0 .. Len(h)
  BY CapacityAssumption DEF Excess
<1>2. IsFiniteSet(1 .. Excess(h)) /\ Cardinality(1 .. Excess(h)) = Excess(h)
  BY <1>1, FS_Interval
<1>3. DropIndices(h, rs) \subseteq 1 .. Excess(h)
  BY DEF DropIndices
<1>4. IsFiniteSet(DropIndices(h, rs)) /\ Cardinality(DropIndices(h, rs)) <= Excess(h)
  BY <1>2, <1>3, FS_Subset
<1> QED
  BY <1>1, <1>4, FS_CardinalityType

\* trimRunsLocked leaves a history of run ids, and every run it does not
\* remove from the map as it was.
LEMMA TrimTypes ==
  ASSUME NEW h \in Seq(RunIds), NEW rs \in [RunIds -> Run]
  PROVE  /\ TrimHistory(h, rs) \in Seq(RunIds)
         /\ TrimRuns(h, rs) \in [RunIds -> Run]
         /\ \A r \in RunIds : TrimRuns(h, rs)[r] \in {NoRunState, rs[r]}
<1>1. PICK n \in 0 .. Excess(h) : n = Cardinality(DropIndices(h, rs))
  BY DropBound
<1>2. Excess(h) \in 0 .. Len(h)
  BY CapacityAssumption DEF Excess
<1>3. SubSeq(h, n + 1, Len(h)) \in Seq(RunIds)
  BY <1>1, <1>2
<1>4. n < Excess(h) => SubSeq(h, n + 2, Len(h)) \o <<h[n + 1]>> \in Seq(RunIds)
  <2>1. SUFFICES ASSUME n < Excess(h)
                 PROVE  SubSeq(h, n + 2, Len(h)) \o <<h[n + 1]>> \in Seq(RunIds)
    OBVIOUS
  <2>2. h[n + 1] \in RunIds
    BY <1>1, <1>2, <2>1
  <2>3. SubSeq(h, n + 2, Len(h)) \in Seq(RunIds)
    BY <1>1, <1>2
  <2> QED
    BY <2>2, <2>3
<1>5. TrimHistory(h, rs) \in Seq(RunIds)
  BY <1>1, <1>3, <1>4 DEF TrimHistory
<1>6. NoRunState \in Run
  BY CapacityAssumption DEF NoRunState, Run, SlotIds, Status
<1> QED
  BY <1>5, <1>6 DEF TrimRuns

----------------------------------------------------------------------------
(* Initially *)

LEMMA InitIInv == Init => IInv
<1> SUFFICES ASSUME Init PROVE IInv
  OBVIOUS
<1>a. /\ NoRunState \in Run
      /\ \A r \in RunIds : runs[r] = NoRunState
  BY CapacityAssumption DEF Init, NoRunState, Run, SlotIds, Status
<1>b. \A s \in SlotIds :
        /\ slots[s] \in Slot
        /\ slots[s].run = NoRun
        /\ slots[s].present <=> s <= InitCapacity
        /\ disk = Config(slots)
  BY DEF Init, DefaultSlots, IdleSlot, NoSlot, Slot, Config
<1>c. 1 \in SlotIds /\ 1 <= InitCapacity
  BY CapacityAssumption DEF SlotIds
<1>1. TypeOK
  <2>1. slots \in [SlotIds -> Slot] /\ runs \in [RunIds -> Run]
    BY <1>a, <1>b DEF Init, DefaultSlots, IdleSlot, NoSlot
  <2>2. disk \in [SlotIds -> [present : BOOLEAN, enabled : BOOLEAN]]
    BY <1>b DEF Init, Config, Slot
  <2>3. dirty \in BOOLEAN /\ history \in Seq(RunIds)
    <3>1. history = <<>>
      BY DEF Init
    <3>2. dirty \in BOOLEAN
      BY Zenon DEF Init
    <3> QED
      BY <3>1, <3>2
  <2>4. /\ used \in SUBSET RunIds /\ cancelling \in SUBSET RunIds
        /\ ctx \in [RunIds -> {"live", "cancelled", "deadline"}]
        /\ go \in [RunIds -> {"idle", "watch", "exec", "round", "call"}]
        /\ finishing \in [RunIds -> {"no", "completed", "failed"}]
    BY DEF Init
  <2> QED
    BY <2>1, <2>2, <2>3, <2>4 DEF TypeOK
<1>2. SafeParts
  <2>1. SlotOwnership /\ BusySlotJustified /\ SecretsConfined
    BY <1>a, <1>b DEF SlotOwnership, BusySlotJustified, SecretsConfined,
                      Unfinished, Exists, Busy, NoRunState
  <2>2. SlotsDurable
    BY <1>b, <1>c DEF SlotsDurable, Config
  <2> QED
    BY <2>1, <2>2 DEF SafeParts
<1>3. GoParts
  BY <1>a DEF GoParts, SomeoneWillFinish, GoInv, CtxInv, RelayStatusInv,
              Unfinished, Exists, NoRunState
<1> QED
  BY <1>1, <1>2, <1>3 DEF IInv

----------------------------------------------------------------------------
(* finishRun *)

\* What every caller of finishRun may rely on: it frees the run's slot and no
\* other, clears both secrets, touches no other run, and leaves the run
\* finished (or absent).
LEMMA FinishRun ==
  ASSUME TypeOK, SafeParts, RelayStatusInv,
         NEW r \in RunIds, NEW status \in Terminal,
         finishRun(r, status), UNCHANGED used
  PROVE  /\ slots' \in [SlotIds -> Slot]
         /\ runs' \in [RunIds -> Run]
         /\ ctx' \in [RunIds -> {"live", "cancelled", "deadline"}]
         /\ Config(slots') = Config(slots)
         /\ (SlotOwnership /\ BusySlotJustified /\ SecretsConfined /\ RelayStatusInv)'
         /\ \A q \in RunIds \ {r} : runs'[q] = runs[q] /\ ctx'[q] = ctx[q]
         /\ runs'[r].kind = runs[r].kind
         /\ ~Unfinished(r)'
<1>a. /\ slots \in [SlotIds -> Slot] /\ runs \in [RunIds -> Run]
      /\ ctx \in [RunIds -> {"live", "cancelled", "deadline"}]
  BY DEF TypeOK
<1>b. SlotOwnership /\ BusySlotJustified /\ SecretsConfined
  BY DEF SafeParts
<1>1. CASE ~Unfinished(r)
  BY <1>1, <1>a, <1>b DEF finishRun, Unfinished, Exists, SlotOwnership, BusySlotJustified,
              SecretsConfined, RelayStatusInv, Busy
<1>2. CASE Unfinished(r)
  <2>1. /\ runs' = [runs EXCEPT ![r] = [@ EXCEPT !.status = status, !.done = TRUE,
                                                !.code = FALSE, !.token = FALSE]]
        /\ ctx' = [ctx EXCEPT ![r] = IF @ = "live" THEN "cancelled" ELSE @]
        /\ slots' = [s \in SlotIds |->
                      IF s = runs[r].slot /\ slots[s].run = r
                      THEN [slots[s] EXCEPT !.run = NoRun] ELSE slots[s]]
    BY <1>2 DEF finishRun
  <2>2. runs' \in [RunIds -> Run] /\ ctx' \in [RunIds -> {"live", "cancelled", "deadline"}]
    BY <1>a, <2>1 DEF Run, Status
  <2>3. \A s \in SlotIds : slots[s].run = r <=> s = runs[r].slot
    BY <1>a, <1>b, <1>2, RunAssumption DEF SlotOwnership, BusySlotJustified, Busy, Unfinished
  <2>4. \A s \in SlotIds :
          /\ slots'[s] \in Slot
          /\ slots'[s].present = slots[s].present /\ slots'[s].enabled = slots[s].enabled
          /\ slots'[s].run = IF slots[s].run = r THEN NoRun ELSE slots[s].run
    <3> SUFFICES ASSUME NEW s \in SlotIds
                 PROVE  /\ slots'[s] \in Slot
                        /\ slots'[s].present = slots[s].present /\ slots'[s].enabled = slots[s].enabled
                        /\ slots'[s].run = IF slots[s].run = r THEN NoRun ELSE slots[s].run
      OBVIOUS
    <3>1. slots'[s] = IF slots[s].run = r THEN [slots[s] EXCEPT !.run = NoRun] ELSE slots[s]
      BY <2>1, <2>3
    <3>2. slots[s] \in Slot
      BY <1>a
    <3> QED
      BY <3>1, <3>2 DEF Slot
  <2>5. slots' \in [SlotIds -> Slot]
    BY <2>1, <2>4
  <2>6. Config(slots') = Config(slots)
    BY <2>4 DEF Config
  <2>7. /\ \A q \in RunIds \ {r} : runs'[q] = runs[q] /\ ctx'[q] = ctx[q]
        /\ runs'[r].kind = runs[r].kind /\ runs'[r].slot = runs[r].slot
        /\ runs'[r].done /\ runs'[r].status = status
        /\ ~runs'[r].code /\ ~runs'[r].token
    BY <1>a, <2>1 DEF Run
  <2>8. ~Unfinished(r)'
    BY <2>7 DEF Unfinished
  <2>9. SlotOwnership'
    <3>1. ASSUME NEW q \in RunIds, Unfinished(q)'
          PROVE  slots'[runs'[q].slot].run = q /\ slots'[runs'[q].slot].present
      <4>1. q # r /\ Unfinished(q) /\ runs'[q].slot = runs[q].slot
        BY <2>7, <2>8, <3>1 DEF Unfinished, Exists
      <4> QED
        BY <1>a, <1>b, <4>1, <2>4 DEF SlotOwnership, Run
    <3>2. ASSUME NEW s \in SlotIds, NEW t \in SlotIds, Busy(s)', slots'[s].run = slots'[t].run
          PROVE  s = t
      <4>1. slots[s].run # r /\ slots'[s].run = slots[s].run /\ Busy(s)
        BY <2>4, <3>2 DEF Busy
      <4>2. slots'[t].run = slots[t].run
        BY <2>4, <3>2 DEF Busy
      <4> QED
        BY <1>b, <3>2, <4>1, <4>2 DEF SlotOwnership
    <3> QED
      BY <3>1, <3>2 DEF SlotOwnership
  <2>10. BusySlotJustified'
    <3>1. ASSUME NEW s \in SlotIds, Busy(s)'
          PROVE  (/\ slots[s].present /\ slots[s].enabled
                  /\ slots[s].run \in used
                  /\ Exists(slots[s].run) =>
                       Unfinished(slots[s].run) /\ runs[slots[s].run].slot = s)'
      <4>1. slots[s].run # r /\ slots'[s].run = slots[s].run /\ Busy(s)
        BY <2>4, <3>1 DEF Busy
      <4>2. slots[s].run \in RunIds \ {r}
        BY <1>a, <4>1 DEF Busy, Slot
      <4>3. /\ slots[s].present /\ slots[s].enabled
            /\ slots[s].run \in used
            /\ Exists(slots[s].run) =>
                 Unfinished(slots[s].run) /\ runs[slots[s].run].slot = s
        BY <1>b, <4>1 DEF BusySlotJustified
      <4>4. slots'[s].present /\ slots'[s].enabled
        BY <2>4, <4>3
      <4> QED
        BY <2>7, <4>1, <4>2, <4>3, <4>4 DEF Unfinished, Exists
    <3> QED
      BY <3>1 DEF BusySlotJustified, Busy
  <2>11. SecretsConfined' /\ RelayStatusInv'
    BY <1>b, <2>7 DEF SecretsConfined, RelayStatusInv
  <2> QED
    BY <2>2, <2>5, <2>6, <2>7, <2>8, <2>9, <2>10, <2>11
<1> QED
  BY <1>1, <1>2

----------------------------------------------------------------------------
(* The inductive step, by groups of actions *)

\* A step that changes who runs on the slots but not the slot list leaves the
\* file as good as it was.
LEMMA ConfigKept ==
  ASSUME SlotsDurable, Config(slots') = Config(slots), UNCHANGED <<disk, dirty>>
  PROVE  SlotsDurable'
<1>1. PICK s \in SlotIds : slots[s].present
  BY DEF SlotsDurable
<1>2. Config(slots)[s].present /\ Config(slots')[s].present
  BY <1>1 DEF Config
<1>3. slots'[s].present
  BY <1>2 DEF Config
<1> QED
  BY <1>3 DEF SlotsDurable

\* Every caller of finishRun preserves the invariant: it may end its own
\* goroutine and forget its own pending call, since the run is finished.
LEMMA FinishStep ==
  ASSUME IInv, NEW r \in RunIds, NEW status \in Terminal, finishRun(r, status),
         UNCHANGED <<disk, dirty, history, used>>,
         go' \in [RunIds -> {"idle", "watch", "exec", "round", "call"}],
         cancelling' \in SUBSET RunIds,
         finishing' \in [RunIds -> {"no", "completed", "failed"}],
         go'[r] \in {"idle", go[r]},
         \A q \in RunIds \ {r} :
           /\ go'[q] = go[q] /\ finishing'[q] = finishing[q]
           /\ q \in cancelling' <=> q \in cancelling
  PROVE  IInv'
<1>1. TypeOK /\ SafeParts /\ RelayStatusInv /\ SlotsDurable
  BY DEF IInv, GoParts, SafeParts
<1>2. /\ slots' \in [SlotIds -> Slot]
      /\ runs' \in [RunIds -> Run]
      /\ ctx' \in [RunIds -> {"live", "cancelled", "deadline"}]
      /\ Config(slots') = Config(slots)
      /\ (SlotOwnership /\ BusySlotJustified /\ SecretsConfined /\ RelayStatusInv)'
      /\ \A q \in RunIds \ {r} : runs'[q] = runs[q] /\ ctx'[q] = ctx[q]
      /\ runs'[r].kind = runs[r].kind
      /\ ~Unfinished(r)'
  BY <1>1, FinishRun
<1>3. TypeOK'
  BY <1>1, <1>2 DEF TypeOK
<1>4. SafeParts'
  BY <1>1, <1>2, ConfigKept DEF SafeParts
<1>5. SomeoneWillFinish'
  <2>1. ASSUME NEW q \in RunIds, Unfinished(q)'
        PROVE  (go[q] # "idle" \/ q \in cancelling \/ finishing[q] # "no")'
    <3>1. q \in RunIds \ {r} /\ Unfinished(q)
      BY <1>2, <2>1 DEF Unfinished, Exists
    <3> QED
      BY <3>1 DEF IInv, GoParts, SomeoneWillFinish
  <2> QED
    BY <2>1 DEF SomeoneWillFinish
<1>6. CtxInv'
  <2>1. ASSUME NEW q \in RunIds, Unfinished(q)', ctx'[q] = "cancelled"
        PROVE  q \in cancelling'
    <3>1. q \in RunIds \ {r} /\ Unfinished(q) /\ ctx[q] = "cancelled"
      BY <1>2, <2>1 DEF Unfinished, Exists
    <3> QED
      BY <3>1 DEF IInv, GoParts, CtxInv
  <2> QED
    BY <2>1 DEF CtxInv
<1>7. GoInv'
  BY <1>2 DEF IInv, GoParts, GoInv, Exists
<1> QED
  BY <1>2, <1>3, <1>4, <1>5, <1>6, <1>7 DEF IInv, GoParts

\* A goroutine may move on, or end when someone else is finishing its run.
LEMMA GoStep ==
  ASSUME IInv, NEW r \in RunIds, NEW at,
         UNCHANGED <<slots, disk, dirty, runs, history, used, ctx, cancelling, finishing>>,
         go' = [go EXCEPT ![r] = at],
         \/ at \in {"round", "call"} /\ go[r] \in {"exec", "round", "call"}
         \/ at = "idle" /\ (~Unfinished(r) \/ r \in cancelling)
  PROVE  IInv'
<1>1. TypeOK'
  BY DEF IInv, TypeOK
<1>2. SafeParts' /\ CtxInv' /\ RelayStatusInv'
  BY DEF IInv, GoParts, SafeParts, SlotOwnership, BusySlotJustified, SecretsConfined,
         SlotsDurable, CtxInv, RelayStatusInv, Unfinished, Exists, Busy
<1>3. go \in [RunIds -> {"idle", "watch", "exec", "round", "call"}]
  BY DEF IInv, TypeOK
<1>4. SomeoneWillFinish' /\ GoInv'
  BY <1>3 DEF IInv, GoParts, SomeoneWillFinish, GoInv, Unfinished, Exists
<1> QED
  BY <1>1, <1>2, <1>4 DEF IInv, GoParts

\* The callers of finishRun, each with the branches in which it does not call.
LEMMA FinishingActions ==
  ASSUME IInv, NEW r \in RunIds,
         Watch(r) \/ CancelEnd(r) \/ CompleteEnd(r) \/ ExecRound(r) \/ ExecReply(r)
  PROVE  IInv'
<1>a. /\ go \in [RunIds -> {"idle", "watch", "exec", "round", "call"}]
      /\ ctx \in [RunIds -> {"live", "cancelled", "deadline"}]
      /\ finishing \in [RunIds -> {"no", "completed", "failed"}]
      /\ cancelling \in SUBSET RunIds
  BY DEF IInv, TypeOK
<1>1. CASE Watch(r)
  <2>1. CASE ctx[r] = "deadline"
    BY <1>a, <1>1, <2>1, FinishStep DEF Watch, Terminal
  <2>2. CASE ctx[r] # "deadline"
    <3>1. ~Unfinished(r) \/ r \in cancelling
      BY <1>a, <1>1, <2>2 DEF Watch, IInv, GoParts, CtxInv
    <3> QED
      BY <1>1, <2>2, <3>1, GoStep DEF Watch
  <2> QED
    BY <2>1, <2>2
<1>2. CASE CancelEnd(r)
  BY <1>a, <1>2, FinishStep DEF CancelEnd, Terminal
<1>3. CASE CompleteEnd(r)
  <2>1. finishing[r] \in Terminal
    BY <1>a, <1>3 DEF CompleteEnd, Terminal
  <2> QED
    BY <1>a, <1>3, <2>1, FinishStep DEF CompleteEnd
<1>4. CASE ExecRound(r)
  <2>1. CASE ~Exists(r)
    BY <1>4, <2>1, GoStep DEF ExecRound, Unfinished
  <2>2. CASE Exists(r) /\ ctx[r] = "live"
    BY <1>4, <2>2, GoStep DEF ExecRound
  <2>3. CASE Exists(r) /\ ctx[r] # "live"
    BY <1>a, <1>4, <2>3, FinishStep DEF ExecRound, Terminal
  <2> QED
    BY <2>1, <2>2, <2>3
<1>5. CASE ExecReply(r)
  <2>1. CASE go' = [go EXCEPT ![r] = "idle"] /\ \E status \in {"failed", "completed"} : finishRun(r, status)
    <3>1. PICK status \in {"failed", "completed"} : finishRun(r, status)
      BY <2>1
    <3> QED
      BY <1>a, <1>5, <2>1, <3>1, FinishStep DEF ExecReply, Terminal
  <2>2. CASE go' = [go EXCEPT ![r] = "round"] /\ UNCHANGED <<runs, ctx, slots>>
    BY <1>5, <2>2, GoStep DEF ExecReply
  <2> QED
    BY <1>5, <2>1, <2>2 DEF ExecReply
<1> QED
  BY <1>1, <1>2, <1>3, <1>4, <1>5

\* Actions that change one run's status or secrets, or its context.
LEMMA StatusActions ==
  ASSUME IInv, NEW r \in RunIds,
         \/ Deadline(r) \/ CancelBegin(r) \/ Claim(r) \/ ExecStart(r)
         \/ \E result \in {"completed", "failed"} : CompleteBegin(r, result)
  PROVE  IInv'
<1>a. /\ runs \in [RunIds -> Run]
      /\ go \in [RunIds -> {"idle", "watch", "exec", "round", "call"}]
      /\ ctx \in [RunIds -> {"live", "cancelled", "deadline"}]
      /\ finishing \in [RunIds -> {"no", "completed", "failed"}]
      /\ cancelling \in SUBSET RunIds
  BY DEF IInv, TypeOK
<1>b. /\ SlotOwnership /\ BusySlotJustified /\ SecretsConfined /\ SlotsDurable
      /\ SomeoneWillFinish /\ GoInv /\ CtxInv /\ RelayStatusInv
  BY DEF IInv, SafeParts, GoParts
<1>1. CASE Deadline(r) \/ CancelBegin(r)
  <2>1. TypeOK'
    BY <1>a, <1>1 DEF IInv, TypeOK, Deadline, CancelBegin
  <2>2. SafeParts' /\ RelayStatusInv' /\ GoInv'
    BY <1>b, <1>1 DEF Deadline, CancelBegin, SafeParts, SlotOwnership, BusySlotJustified,
                      SecretsConfined, SlotsDurable, RelayStatusInv, GoInv,
                      Unfinished, Exists, Busy
  <2>3. SomeoneWillFinish' /\ CtxInv'
    BY <1>a, <1>b, <1>1 DEF Deadline, CancelBegin, SomeoneWillFinish, CtxInv, Unfinished, Exists
  <2> QED
    BY <2>1, <2>2, <2>3, <1>b DEF IInv, GoParts
<1>2. CASE \/ Claim(r) \/ ExecStart(r)
           \/ \E result \in {"completed", "failed"} : CompleteBegin(r, result)
  <2>1. /\ runs' \in [RunIds -> Run]
        /\ \A q \in RunIds : /\ runs'[q].kind = runs[q].kind
                             /\ runs'[q].slot = runs[q].slot
                             /\ runs'[q].done <=> runs[q].done
    <3>1. CASE Claim(r)
      BY <1>a, <3>1 DEF Claim, Run, Status
    <3>2. CASE ExecStart(r)
      <4>1. CASE ~Exists(r)
        BY <1>a, <3>2, <4>1 DEF ExecStart
      <4>2. CASE Exists(r)
        <5>1. runs' = [runs EXCEPT ![r].status = "running"]
          BY <3>2, <4>2 DEF ExecStart
        <5> QED
          BY <1>a, <5>1 DEF Run, Status
      <4> QED
        BY <4>1, <4>2
    <3>3. CASE \E result \in {"completed", "failed"} : CompleteBegin(r, result)
      <4>1. runs' = [runs EXCEPT ![r] = [@ EXCEPT !.status = "finishing", !.token = FALSE]]
        BY <3>3 DEF CompleteBegin
      <4> QED
        BY <1>a, <4>1 DEF Run, Status
    <3> QED
      BY <1>2, <3>1, <3>2, <3>3
  <2>2. \A q \in RunIds : (Exists(q)' <=> Exists(q)) /\ (Unfinished(q)' <=> Unfinished(q))
    BY <2>1 DEF Exists, Unfinished
  <2>3. /\ UNCHANGED <<slots, disk, dirty, history, used, ctx, cancelling>>
        /\ go' \in [RunIds -> {"idle", "watch", "exec", "round", "call"}]
        /\ finishing' \in [RunIds -> {"no", "completed", "failed"}]
    BY <1>a, <1>2 DEF Claim, ExecStart, CompleteBegin
  <2>4. TypeOK'
    BY <2>1, <2>3 DEF IInv, TypeOK
  <2>5. SlotOwnership' /\ BusySlotJustified' /\ SlotsDurable'
    <3>1. SlotOwnership'
      BY <1>b, <2>1, <2>2, <2>3 DEF SlotOwnership, Busy
    <3>2. ASSUME NEW s \in SlotIds, Busy(s)'
          PROVE  (/\ slots[s].present /\ slots[s].enabled
                  /\ slots[s].run \in used
                  /\ Exists(slots[s].run) =>
                       Unfinished(slots[s].run) /\ runs[slots[s].run].slot = s)'
      <4>1. Busy(s) /\ slots'[s] = slots[s] /\ slots[s].run \in RunIds
        BY <2>3, <3>2 DEF IInv, TypeOK, Slot, Busy
      <4> QED
        BY <1>b, <2>1, <2>2, <2>3, <4>1 DEF BusySlotJustified, Exists, Unfinished
    <3>3. BusySlotJustified'
      BY <3>2 DEF BusySlotJustified, Busy
    <3>4. SlotsDurable'
      BY <1>b, <2>3 DEF SlotsDurable
    <3> QED
      BY <3>1, <3>3, <3>4
  <2>6. SecretsConfined' /\ RelayStatusInv'
    <3>1. CASE Claim(r)
      BY <1>a, <1>b, <3>1 DEF Claim, Exists, SecretsConfined, RelayStatusInv, Run
    <3>2. CASE \E result \in {"completed", "failed"} : CompleteBegin(r, result)
      BY <1>a, <1>b, <3>2 DEF CompleteBegin, Exists, SecretsConfined, RelayStatusInv, Run
    <3>3. CASE ExecStart(r)
      <4>1. CASE ~Exists(r)
        BY <1>b, <3>3, <4>1 DEF ExecStart, SecretsConfined, RelayStatusInv
      <4>2. CASE Exists(r)
        <5>1. runs[r].kind = "router"
          BY <1>b, <3>3, <4>2 DEF ExecStart, GoInv
        <5> QED
          BY <1>a, <1>b, <3>3, <4>2, <5>1 DEF ExecStart, SecretsConfined, RelayStatusInv, Run
      <4> QED
        BY <4>1, <4>2
    <3> QED
      BY <1>2, <3>1, <3>2, <3>3
  <2>7. SomeoneWillFinish' /\ GoInv' /\ CtxInv'
    <3>1. \A q \in RunIds : /\ go[q] # "idle" => go'[q] # "idle"
                            /\ finishing[q] # "no" => finishing'[q] # "no"
      BY <1>a, <1>2 DEF Claim, ExecStart, CompleteBegin
    <3>2. SomeoneWillFinish' /\ CtxInv'
      BY <1>b, <2>2, <2>3, <3>1 DEF SomeoneWillFinish, CtxInv
    <3>3. \A q \in RunIds : go'[q] = go[q] \/ (go[q] = "exec" /\ go'[q] = "round")
      BY <1>a, <1>2 DEF Claim, ExecStart, CompleteBegin
    <3>4. GoInv'
      BY <1>b, <2>1, <2>2, <2>3, <3>3 DEF GoInv
    <3> QED
      BY <3>2, <3>4
  <2> QED
    BY <2>4, <2>5, <2>6, <2>7 DEF IInv, SafeParts, GoParts
<1> QED
  BY <1>1, <1>2

\* Creating a run: its id is fresh, so no slot and no goroutine knows it, and
\* the trim only removes runs that are not waited for.
LEMMA DelegateAction ==
  ASSUME IInv, NEW r \in RunIds, NEW s \in SlotIds, DelegateRouter(r, s) \/ DelegateRelay(r, s)
  PROVE  IInv'
<1>a. /\ slots \in [SlotIds -> Slot]
      /\ runs \in [RunIds -> Run]
      /\ go \in [RunIds -> {"idle", "watch", "exec", "round", "call"}]
      /\ ctx \in [RunIds -> {"live", "cancelled", "deadline"}]
      /\ history \in Seq(RunIds)
      /\ used \in SUBSET RunIds
  BY DEF IInv, TypeOK
<1>b. /\ SlotOwnership /\ BusySlotJustified /\ SecretsConfined /\ SlotsDurable
      /\ SomeoneWillFinish /\ GoInv /\ CtxInv /\ RelayStatusInv
  BY DEF IInv, SafeParts, GoParts
<1>1. PICK run \in Run, goroutine \in {"exec", "watch"} :
        /\ Delegate(r, run, goroutine)
        /\ run.slot = s /\ ~run.done /\ ~run.token
        /\ \/ run.kind = "router" /\ ~run.code /\ goroutine = "exec"
           \/ run.kind = "relay" /\ run.code /\ run.status = "waiting_worker" /\ goroutine = "watch"
  <2>1. CASE DelegateRouter(r, s)
    <3> DEFINE run == [kind |-> "router", slot |-> s, status |-> "queued",
                       done |-> FALSE, code |-> FALSE, token |-> FALSE]
    <3>1. run \in Run
      BY DEF Run, Status
    <3> QED
      BY <2>1, <3>1 DEF DelegateRouter
  <2>2. CASE DelegateRelay(r, s)
    <3> DEFINE run == [kind |-> "relay", slot |-> s, status |-> "waiting_worker",
                       done |-> FALSE, code |-> TRUE, token |-> FALSE]
    <3>1. run \in Run
      BY DEF Run, Status
    <3> QED
      BY <2>2, <3>1 DEF DelegateRelay
  <2> QED
    BY <2>1, <2>2
<1>2. /\ r \notin used /\ used' = used \cup {r}
      /\ slots[s].present /\ slots[s].enabled /\ slots[s].run = NoRun
      /\ slots' = [slots EXCEPT ![s].run = r]
      /\ ctx' = [ctx EXCEPT ![r] = "live"]
      /\ go' = [go EXCEPT ![r] = goroutine]
      /\ UNCHANGED <<disk, dirty, cancelling, finishing>>
  BY <1>1 DEF Delegate, Eligible, Busy
<1>3. /\ runs' = TrimRuns(Append(history, r), [runs EXCEPT ![r] = run])
      /\ history' = TrimHistory(Append(history, r), [runs EXCEPT ![r] = run])
  BY <1>1 DEF Delegate
<1>4. Append(history, r) \in Seq(RunIds) /\ [runs EXCEPT ![r] = run] \in [RunIds -> Run]
  BY <1>a
<1>5. /\ history' \in Seq(RunIds)
      /\ runs' \in [RunIds -> Run]
      /\ \A q \in RunIds \ {r} : runs'[q] \in {NoRunState, runs[q]}
      /\ runs'[r] \in {NoRunState, run}
  <2> DEFINE h == Append(history, r)
             rs == [runs EXCEPT ![r] = run]
  <2>1. h \in Seq(RunIds) /\ rs \in [RunIds -> Run]
    BY <1>4
  <2>2. runs' = TrimRuns(h, rs) /\ history' = TrimHistory(h, rs)
    BY <1>3
  <2>3. rs[r] = run /\ \A q \in RunIds \ {r} : rs[q] = runs[q]
    BY <1>a
  <2> HIDE DEF h, rs
  <2>4. /\ TrimHistory(h, rs) \in Seq(RunIds)
        /\ TrimRuns(h, rs) \in [RunIds -> Run]
        /\ \A q \in RunIds : TrimRuns(h, rs)[q] \in {NoRunState, rs[q]}
    BY <2>1, TrimTypes
  <2> QED
    BY <2>2, <2>3, <2>4
<1>6. /\ slots'[s].run = r /\ slots'[s].present /\ slots'[s].enabled
      /\ \A t \in SlotIds \ {s} : slots'[t] = slots[t]
      /\ slots' \in [SlotIds -> Slot]
  BY <1>a, <1>2 DEF Slot
<1>7. \A q \in RunIds \ {r} : Exists(q)' => runs'[q] = runs[q] /\ Exists(q)
  BY <1>5 DEF Exists, NoRunState
<1>8. Exists(r)' => runs'[r] = run
  BY <1>5 DEF Exists, NoRunState
<1>9. \A t \in SlotIds : slots[t].run # r
  BY <1>a, <1>b, <1>2, RunAssumption DEF BusySlotJustified, Busy
<1>10. TypeOK'
  BY <1>a, <1>2, <1>5, <1>6 DEF IInv, TypeOK
<1>11. SlotOwnership'
  <2>1. ASSUME NEW q \in RunIds, Unfinished(q)'
        PROVE  slots'[runs'[q].slot].run = q /\ slots'[runs'[q].slot].present
    <3>1. CASE q = r
      BY <1>1, <1>6, <1>8, <2>1, <3>1 DEF Unfinished
    <3>2. CASE q # r
      <4>1. runs'[q] = runs[q] /\ Unfinished(q) /\ runs[q].slot \in SlotIds
        BY <1>a, <1>7, <2>1, <3>2 DEF Unfinished, Run
      <4>2. slots[runs[q].slot].run = q /\ slots[runs[q].slot].present
        BY <1>b, <4>1 DEF SlotOwnership
      <4>3. runs[q].slot # s
        BY <1>2, <4>2, RunAssumption
      <4> QED
        BY <1>6, <4>1, <4>2, <4>3
    <3> QED
      BY <3>1, <3>2
  <2>2. ASSUME NEW t \in SlotIds, NEW u \in SlotIds, Busy(t)', slots'[t].run = slots'[u].run
        PROVE  t = u
    BY <1>b, <1>6, <1>9, <2>2 DEF SlotOwnership, Busy
  <2> QED
    BY <2>1, <2>2 DEF SlotOwnership
<1>12. BusySlotJustified'
  <2>1. ASSUME NEW t \in SlotIds, Busy(t)'
        PROVE  (/\ slots[t].present /\ slots[t].enabled
                /\ slots[t].run \in used
                /\ Exists(slots[t].run) =>
                     Unfinished(slots[t].run) /\ runs[slots[t].run].slot = t)'
    <3>1. CASE t = s
      BY <1>1, <1>2, <1>6, <1>8, <3>1 DEF Unfinished
    <3>2. CASE t # s
      <4>1. slots'[t] = slots[t] /\ Busy(t) /\ slots[t].run \in RunIds \ {r}
        BY <1>a, <1>6, <1>9, <2>1, <3>2 DEF Busy, Slot
      <4>2. /\ slots[t].present /\ slots[t].enabled /\ slots[t].run \in used
            /\ Exists(slots[t].run) =>
                 Unfinished(slots[t].run) /\ runs[slots[t].run].slot = t
        BY <1>b, <4>1 DEF BusySlotJustified
      <4>3. PICK q \in RunIds \ {r} : q = slots[t].run /\ q = slots'[t].run
        BY <4>1
      <4>4. Exists(q)' => Unfinished(q)' /\ runs'[q].slot = t
        BY <1>7, <4>2, <4>3 DEF Unfinished
      <4>5. slots'[t].present /\ slots'[t].enabled /\ q \in used'
        BY <1>2, <4>1, <4>2, <4>3
      <4> QED
        BY <4>3, <4>4, <4>5 DEF Unfinished, Exists
    <3> QED
      BY <3>1, <3>2
  <2> QED
    BY <2>1 DEF BusySlotJustified, Busy
<1>13. SecretsConfined' /\ RelayStatusInv'
  <2>1. ASSUME NEW q \in RunIds
        PROVE  \/ runs'[q] = NoRunState
               \/ runs'[q] = runs[q]
               \/ runs'[q] = run
    BY <1>5
  <2>2. ~NoRunState.code /\ ~NoRunState.token /\ NoRunState.kind = "none"
    BY DEF NoRunState
  <2> QED
    BY <1>b, <1>1, <2>1, <2>2 DEF SecretsConfined, RelayStatusInv
<1>14. SlotsDurable'
  <2>1. \A t \in SlotIds : /\ slots'[t].present = slots[t].present
                           /\ slots'[t].enabled = slots[t].enabled
    BY <1>a, <1>2 DEF Slot
  <2>2. Config(slots') = Config(slots)
    BY <2>1 DEF Config
  <2> QED
    BY <1>b, <1>2, <2>2, ConfigKept
<1>15. SomeoneWillFinish' /\ CtxInv'
  BY <1>a, <1>b, <1>2, <1>7 DEF SomeoneWillFinish, CtxInv, Unfinished
<1>16. GoInv'
  BY <1>a, <1>b, <1>1, <1>2, <1>7, <1>8 DEF GoInv
<1> QED
  BY <1>10, <1>11, <1>12, <1>13, <1>14, <1>15, <1>16 DEF IInv, SafeParts, GoParts

\* The dashboard's slot operations.
LEMMA SlotActions ==
  ASSUME IInv, SlotStep
  PROVE  IInv'
<1>a. /\ slots \in [SlotIds -> Slot]
      /\ SlotOwnership /\ BusySlotJustified /\ SlotsDurable
  BY DEF IInv, TypeOK, SafeParts
<1>b. ASSUME UNCHANGED <<runs, history, used, ctx, go, cancelling, finishing>>,
             NEW s \in SlotIds, NEW new \in Slot,
             slots' = [slots EXCEPT ![s] = new],
             new.run = slots[s].run,
             slots[s].run # NoRun => new.present /\ new.enabled,
             new.present \/ \E t \in SlotIds \ {s} : slots[t].present,
             PersistOK(slots') \/ PersistFails
      PROVE  IInv'
  <2>1. /\ slots' \in [SlotIds -> Slot]
        /\ slots'[s] = new
        /\ \A t \in SlotIds \ {s} : slots'[t] = slots[t]
        /\ \A t \in SlotIds : slots'[t].run = slots[t].run
    BY <1>a, <1>b
  <2>2. disk' \in [SlotIds -> [present : BOOLEAN, enabled : BOOLEAN]]
    <3>1. Config(slots') \in [SlotIds -> [present : BOOLEAN, enabled : BOOLEAN]]
      BY <2>1 DEF Config, Slot
    <3>2. disk \in [SlotIds -> [present : BOOLEAN, enabled : BOOLEAN]]
      BY DEF IInv, TypeOK
    <3> QED
      BY <1>b, <3>1, <3>2 DEF PersistOK, PersistFails
  <2>3. dirty' \in BOOLEAN
    BY <1>b, Zenon DEF PersistOK, PersistFails
  <2>4. TypeOK'
    BY <1>b, <2>1, <2>2, <2>3 DEF IInv, TypeOK
  <2>5. SlotOwnership'
    <3>1. ASSUME NEW r \in RunIds, Unfinished(r)'
          PROVE  slots'[runs'[r].slot].run = r /\ slots'[runs'[r].slot].present
      <4>1. Unfinished(r) /\ runs'[r].slot = runs[r].slot /\ runs[r].slot \in SlotIds
        BY <1>b, <3>1 DEF Unfinished, Exists, IInv, TypeOK, Run
      <4>2. slots[runs[r].slot].run = r /\ slots[runs[r].slot].present
        BY <1>a, <4>1 DEF SlotOwnership
      <4>3. slots[runs[r].slot].run # NoRun
        BY <4>2, RunAssumption
      <4> QED
        BY <1>b, <2>1, <4>1, <4>2, <4>3
    <3>2. \A t, u \in SlotIds : Busy(t)' /\ slots'[t].run = slots'[u].run => t = u
      BY <1>a, <2>1 DEF SlotOwnership, Busy
    <3> QED
      BY <3>1, <3>2 DEF SlotOwnership
  <2>6. BusySlotJustified'
    <3>1. ASSUME NEW t \in SlotIds, Busy(t)'
          PROVE  (/\ slots[t].present /\ slots[t].enabled
                  /\ slots[t].run \in used
                  /\ Exists(slots[t].run) =>
                       Unfinished(slots[t].run) /\ runs[slots[t].run].slot = t)'
      <4>1. slots'[t].run = slots[t].run /\ Busy(t)
        BY <2>1, <3>1 DEF Busy
      <4>2. /\ slots[t].present /\ slots[t].enabled /\ slots[t].run \in used
            /\ Exists(slots[t].run) =>
                 Unfinished(slots[t].run) /\ runs[slots[t].run].slot = t
        BY <1>a, <4>1 DEF BusySlotJustified
      <4>3. slots'[t].present /\ slots'[t].enabled
        BY <1>b, <2>1, <4>1, <4>2 DEF Busy
      <4> QED
        BY <1>b, <4>1, <4>2, <4>3 DEF Exists, Unfinished
    <3> QED
      BY <3>1 DEF BusySlotJustified, Busy
  <2>7. SlotsDurable'
    <3>1. PICK t \in SlotIds : slots'[t].present
      BY <1>b, <2>1
    <3>2. Config(slots')[t].present
      BY <3>1 DEF Config
    <3> QED
      BY <1>a, <1>b, <3>1, <3>2 DEF SlotsDurable, PersistOK, PersistFails
  <2>8. SecretsConfined' /\ GoParts'
    BY <1>b DEF IInv, SafeParts, GoParts, SecretsConfined, SomeoneWillFinish,
                GoInv, CtxInv, RelayStatusInv, Unfinished, Exists
  <2> QED
    BY <2>4, <2>5, <2>6, <2>7, <2>8 DEF IInv, SafeParts
<1>1. CASE AddSlot
  <2>1. PICK s \in SlotIds : ~slots[s].present /\ slots' = [slots EXCEPT ![s] = IdleSlot(TRUE)]
    BY <1>1 DEF AddSlot
  <2>2. IdleSlot(TRUE) \in Slot /\ IdleSlot(TRUE).run = NoRun /\ IdleSlot(TRUE).present
    BY DEF IdleSlot, Slot
  <2>3. slots[s].run = NoRun
    BY <1>a, <2>1 DEF BusySlotJustified, Busy
  <2>4. UNCHANGED <<runs, history, used, ctx, go, cancelling, finishing>> /\ PersistOK(slots')
    BY <1>1 DEF AddSlot
  <2> QED
    BY <1>b, <2>1, <2>2, <2>3, <2>4
<1>2. CASE \E s \in SlotIds : RemoveSlot(s)
  <2>1. PICK s \in SlotIds : RemoveSlot(s)
    BY <1>2
  <2>2. NoSlot \in Slot /\ NoSlot.run = NoRun
    BY DEF NoSlot, Slot
  <2> QED
    BY <1>b, <2>1, <2>2 DEF RemoveSlot, Busy
<1>3. CASE \E s \in SlotIds, enabled \in BOOLEAN : UpdateSlot(s, enabled)
  <2>1. PICK s \in SlotIds, enabled \in BOOLEAN : UpdateSlot(s, enabled)
    BY <1>3
  <2> DEFINE new == [slots[s] EXCEPT !.enabled = enabled]
  <2>2. /\ new \in Slot /\ new.run = slots[s].run
        /\ new.present = slots[s].present /\ new.enabled = enabled
    BY <1>a DEF Slot
  <2>3. slots' = [slots EXCEPT ![s] = new]
    BY <1>a, <2>1 DEF UpdateSlot
  <2>4. slots[s].present /\ (slots[s].run # NoRun => enabled)
    BY <2>1 DEF UpdateSlot, Busy
  <2>5. /\ UNCHANGED <<runs, history, used, ctx, go, cancelling, finishing>>
        /\ PersistOK(slots') \/ PersistFails
    BY <2>1 DEF UpdateSlot
  <2> HIDE DEF new
  <2> QED
    BY <1>b, <2>2, <2>3, <2>4, <2>5
<1> QED
  BY <1>1, <1>2, <1>3 DEF SlotStep

\* A restart forgets the runs and brings the slots back from the file.
LEMMA RestartAction == IInv /\ Restart => IInv'
<1> SUFFICES ASSUME IInv, Restart PROVE IInv'
  OBVIOUS
<1>a. /\ NoRunState \in Run
      /\ \A r \in RunIds : runs'[r] = NoRunState
  BY CapacityAssumption DEF Restart, NoRunState, Run, SlotIds, Status
<1>b. disk \in [SlotIds -> [present : BOOLEAN, enabled : BOOLEAN]]
  BY DEF IInv, TypeOK
<1>c. \A s \in SlotIds :
        /\ slots'[s] \in Slot
        /\ slots'[s].run = NoRun
        /\ slots'[s].present <=> disk[s].present
  BY <1>b DEF Restart, IdleSlot, NoSlot, Slot
<1>1. TypeOK'
  <2>1. slots' \in [SlotIds -> Slot] /\ runs' \in [RunIds -> Run]
    BY <1>a, <1>c DEF Restart, IdleSlot, NoSlot
  <2>2. disk' \in [SlotIds -> [present : BOOLEAN, enabled : BOOLEAN]]
    BY <1>c DEF Restart, PersistOK, Config, Slot
  <2>3. dirty' \in BOOLEAN
    BY Zenon DEF Restart, PersistOK
  <2>4. history' \in Seq(RunIds)
    <3>1. history' = <<>>
      BY DEF Restart
    <3> QED
      BY <3>1
  <2>5. /\ used' \in SUBSET RunIds /\ cancelling' \in SUBSET RunIds
        /\ ctx' \in [RunIds -> {"live", "cancelled", "deadline"}]
        /\ go' \in [RunIds -> {"idle", "watch", "exec", "round", "call"}]
        /\ finishing' \in [RunIds -> {"no", "completed", "failed"}]
    BY DEF Restart, IInv, TypeOK
  <2> QED
    BY <2>1, <2>2, <2>3, <2>4, <2>5 DEF TypeOK
<1>2. SlotOwnership' /\ BusySlotJustified' /\ SecretsConfined'
  BY <1>a, <1>c DEF SlotOwnership, BusySlotJustified, SecretsConfined,
                    Unfinished, Exists, Busy, NoRunState
<1>3. SlotsDurable'
  <2>1. PICK s \in SlotIds : disk[s].present
    BY DEF IInv, SafeParts, SlotsDurable
  <2>2. slots'[s].present /\ disk' = Config(slots')
    BY <1>c, <2>1 DEF Restart, PersistOK
  <2>3. disk'[s].present
    BY <2>2 DEF Config
  <2> QED
    BY <2>2, <2>3 DEF SlotsDurable
<1>4. GoParts'
  BY <1>a DEF GoParts, SomeoneWillFinish, GoInv, CtxInv, RelayStatusInv,
              Unfinished, Exists, NoRunState
<1> QED
  BY <1>1, <1>2, <1>3, <1>4 DEF IInv, SafeParts

LEMMA NextIInv == IInv /\ [Next]_vars => IInv'
<1> SUFFICES ASSUME IInv, [Next]_vars PROVE IInv'
  OBVIOUS
<1>1. ASSUME NEW r \in RunIds, RunStep(r) PROVE IInv'
  BY <1>1, DelegateAction, StatusActions, FinishingActions DEF RunStep, Execute
<1>2. CASE SlotStep
  BY <1>2, SlotActions
<1>3. CASE Restart
  BY <1>3, RestartAction
<1>4. CASE UNCHANGED vars
  <2>1. TypeOK'
    BY <1>4 DEF vars, IInv, TypeOK
  <2>2. SafeParts' /\ GoParts'
    BY <1>4 DEF vars, IInv, SafeParts, GoParts, SlotOwnership, BusySlotJustified,
                SecretsConfined, SlotsDurable, SomeoneWillFinish, GoInv, CtxInv,
                RelayStatusInv, Unfinished, Exists, Busy
  <2> QED
    BY <2>1, <2>2 DEF IInv
<1> QED
  BY <1>1, <1>2, <1>3, <1>4 DEF Next

----------------------------------------------------------------------------
(* The theorems *)

\* The inductive invariant holds in every reachable state.
THEOREM Invariant == Spec => []IInv
<1> QED
  BY InitIInv, NextIInv, PTL DEF Spec

\* agents_v2.go, agent_relay.go: the manager's state is always well formed.
THEOREM TypeSafe == Spec => []TypeOK
<1>1. IInv => TypeOK
  BY DEF IInv
<1> QED
  BY <1>1, Invariant, PTL

\* Every unfinished run owns the slot it was given and no slot serves two runs.
THEOREM CapacityAccounting == Spec => []CapacityAccounted
<1>1. IInv => CapacityAccounted
  BY DEF IInv, SafeParts, CapacityAccounted
<1> QED
  BY <1>1, Invariant, PTL

\* CHANGELOG.md:37: join code and worker token are good for one phase each and
\* gone once the run is finished.
THEOREM SecretsAreConfined == Spec => []SecretsConfined
<1>1. IInv => SecretsConfined
  BY DEF IInv, SafeParts
<1> QED
  BY <1>1, Invariant, PTL

\* agents.json holds the slot list unless a failed write was reported, and
\* neither list is ever empty.
THEOREM SlotListDurable == Spec => []SlotsDurable
<1>1. IInv => SlotsDurable
  BY DEF IInv, SafeParts
<1> QED
  BY <1>1, Invariant, PTL

\* An unfinished run always has a goroutine or a call that will finish it.
THEOREM NobodyForgotten == Spec => []SomeoneWillFinish
<1>1. IInv => SomeoneWillFinish
  BY DEF IInv, GoParts
<1> QED
  BY <1>1, Invariant, PTL

----------------------------------------------------------------------------
(* Action properties *)

\* All that one step can do to a run: nothing, create it, remove it, restart
\* a router run whose goroutine is late, or move an unfinished one forward.
RunEffect(q) ==
  \/ runs'[q] = runs[q]
  \/ ~Exists(q) \/ ~Exists(q)'
  \/ runs[q].kind = "router" /\ go[q] = "exec" /\ runs'[q].status = "running"
  \/ /\ ~runs[q].done
     /\ runs[q].kind = "relay" => Rank(runs'[q].status) > Rank(runs[q].status)

LEMMA FinishEffect ==
  ASSUME IInv, NEW r \in RunIds, NEW status \in Terminal, finishRun(r, status)
  PROVE  \A q \in RunIds : RunEffect(q)
<1>1. CASE ~Unfinished(r)
  BY <1>1 DEF finishRun, RunEffect
<1>2. CASE Unfinished(r)
  <2>1. /\ runs'[r].status = status /\ ~runs[r].done
        /\ \A q \in RunIds \ {r} : runs'[q] = runs[q]
    <3>1. runs \in [RunIds -> Run]
      BY DEF IInv, TypeOK
    <3>2. runs' = [runs EXCEPT ![r] = [@ EXCEPT !.status = status, !.done = TRUE,
                                                !.code = FALSE, !.token = FALSE]]
      BY <1>2 DEF finishRun
    <3> QED
      BY <1>2, <3>1, <3>2 DEF Run, Unfinished
  <2>2. runs[r].kind = "relay" => runs[r].status \in {"waiting_worker", "running", "finishing"}
    BY <2>1 DEF IInv, GoParts, RelayStatusInv
  <2>3. runs[r].kind = "relay" => Rank(status) > Rank(runs[r].status)
    BY <2>2 DEF Rank, Terminal
  <2> QED
    BY <2>1, <2>3 DEF RunEffect
<1> QED
  BY <1>1, <1>2

LEMMA StepEffect ==
  ASSUME IInv, Next, NEW q \in RunIds
  PROVE  RunEffect(q)
<1>a. /\ runs \in [RunIds -> Run] /\ history \in Seq(RunIds)
      /\ finishing \in [RunIds -> {"no", "completed", "failed"}]
  BY DEF IInv, TypeOK
<1>1. ASSUME NEW r \in RunIds, RunStep(r) PROVE RunEffect(q)
  <2>1. ASSUME NEW s \in SlotIds, DelegateRouter(r, s) \/ DelegateRelay(r, s) PROVE RunEffect(q)
    <3>1. PICK run \in Run : /\ r \notin used
                             /\ runs' = TrimRuns(Append(history, r), [runs EXCEPT ![r] = run])
      BY <2>1 DEF DelegateRouter, DelegateRelay, Delegate, Run, Status
    <3>2. ~Exists(r)
      BY <3>1 DEF IInv, GoParts, GoInv
    <3>3. CASE q = r
      BY <3>2, <3>3 DEF RunEffect
    <3>4. CASE q # r
      <4> DEFINE h == Append(history, r)
                 rs == [runs EXCEPT ![r] = run]
      <4>1. h \in Seq(RunIds) /\ rs \in [RunIds -> Run] /\ rs[q] = runs[q]
        BY <1>a, <3>4
      <4>2. runs' = TrimRuns(h, rs)
        BY <3>1
      <4> HIDE DEF h, rs
      <4>3. runs'[q] \in {NoRunState, runs[q]}
        BY <4>1, <4>2, TrimTypes
      <4> QED
        BY <4>3 DEF RunEffect, Exists, NoRunState
    <3> QED
      BY <3>3, <3>4
  <2>2. CASE Deadline(r) \/ CancelBegin(r)
    BY <2>2 DEF Deadline, CancelBegin, RunEffect
  <2>3. CASE Watch(r) \/ CancelEnd(r) \/ CompleteEnd(r) \/ ExecRound(r) \/ ExecReply(r)
    <3>1. \/ UNCHANGED runs
          \/ \E status \in Terminal : finishRun(r, status)
      BY <1>a, <2>3 DEF Watch, CancelEnd, CompleteEnd, ExecRound, ExecReply, Terminal
    <3> QED
      BY <3>1, FinishEffect DEF RunEffect
  <2>4. CASE Claim(r)
    <3>1. /\ runs[r].kind = "relay" /\ runs[r].status = "waiting_worker" /\ ~runs[r].done
          /\ runs'[r].status = "running"
          /\ q # r => runs'[q] = runs[q]
      BY <1>a, <2>4 DEF Claim, IInv, SafeParts, SecretsConfined, Run
    <3> QED
      BY <3>1 DEF RunEffect, Rank
  <2>5. CASE \E result \in {"completed", "failed"} : CompleteBegin(r, result)
    <3>1. /\ runs[r].token /\ runs[r].status = "running"
          /\ runs' = [runs EXCEPT ![r] = [@ EXCEPT !.status = "finishing", !.token = FALSE]]
      BY <2>5 DEF CompleteBegin
    <3>2. /\ ~runs[r].done /\ runs'[r].status = "finishing"
          /\ q # r => runs'[q] = runs[q]
      BY <1>a, <3>1 DEF IInv, SafeParts, SecretsConfined, Run
    <3> QED
      BY <3>1, <3>2 DEF RunEffect, Rank
  <2>6. CASE ExecStart(r)
    <3>1. CASE ~Exists(r)
      BY <2>6, <3>1 DEF ExecStart, RunEffect
    <3>2. CASE Exists(r)
      <4>1. /\ go[r] = "exec"
            /\ runs' = [runs EXCEPT ![r].status = "running"]
        BY <2>6, <3>2 DEF ExecStart
      <4>2. runs[r].kind = "router"
        BY <3>2, <4>1 DEF IInv, GoParts, GoInv
      <4> QED
        BY <1>a, <4>1, <4>2 DEF RunEffect, Run
    <3> QED
      BY <3>1, <3>2
  <2> QED
    BY <1>1, <2>1, <2>2, <2>3, <2>4, <2>5, <2>6 DEF RunStep, Execute
<1>2. CASE SlotStep
  BY <1>2 DEF SlotStep, AddSlot, RemoveSlot, UpdateSlot, RunEffect
<1>3. CASE Restart
  BY <1>3 DEF Restart, RunEffect, Exists, NoRunState
<1> QED
  BY <1>1, <1>2, <1>3 DEF Next

\* A relay run only moves forward, to one outcome that never changes: a join
\* code is claimed once, one result is accepted, whoever else races.
THEOREM RelayRunsMoveForward == Spec => RelayMovesForward
<1>1. IInv /\ [Next]_vars => [\A r \in RunIds : RelayStep(r)]_vars
  BY StepEffect DEF RelayStep, RunEffect, Exists
<1> QED
  BY <1>1, Invariant, PTL DEF Spec, RelayMovesForward

\* The outcome of a finished run stays, but for the router run whose goroutine
\* starts after the run was cancelled.
THEOREM OutcomesKept == Spec => OutcomeKept
<1>1. IInv /\ [Next]_vars => [\A r \in RunIds : OutcomeStep(r)]_vars
  BY StepEffect DEF OutcomeStep, RunEffect
<1> QED
  BY <1>1, Invariant, PTL DEF Spec, OutcomeKept

----------------------------------------------------------------------------
(* The composition: its inductive invariant *)

\* What a mark or a dispatch says of a run; the run may have been trimmed, but
\* its id never comes back.
Truthful(r, status) ==
  /\ r \in used
  /\ Exists(r) =>
       /\ status = "claimed"   => runs[r].status # "waiting_worker"
       /\ status = "completed" => /\ runs[r].kind = "relay" /\ runs[r].done
                                  /\ runs[r].status = "completed"
       /\ status = "cancelled" => runs[r].done

\* Calls between two critical sections are about delegated runs; only relay runs
\* are completed, and completeChatGPTRelayTask's getRun comes after finishRun.
CallsInv ==
  /\ cancelling \subseteq used
  /\ \A r \in RunIds : delegating[r] # "none" => r \in used
  /\ \A r \in RunIds : finishing[r] # "no" \/ r \in fetching =>
       r \in used /\ (Exists(r) => runs[r].kind = "relay")
  /\ \A r \in fetching : Exists(r) => runs[r].done

TruthInv ==
  /\ \A mark \in marks : Truthful(mark[1], mark[2])
  /\ \A r \in RunIds : Bridge!Exists(r) => Truthful(r, dispatch[r].status)

\* A prompt is enqueued once and a queued one has no tab yet, so no tab is opened
\* twice and a submitted prompt stays submitted.
TabsInv ==
  /\ \A r \in RunIds : Bridge!Exists(r) \/ tabs[r].state # "none" => delegating[r] = "replied"
  /\ \A r \in RunIds : dispatch[r].status = "queued" => tabs[r].state = "none"
  /\ \A r \in RunIds : tabs[r].state \in {"none", "open"} => ~tabs[r].submitted
  /\ \A r \in RunIds : tabs[r].state # "none" => tabs[r].client \in Clients
  /\ \A ack \in acks : ack[3] = "sent" => tabs[ack[2]].submitted
  /\ SentMeansSubmitted

DInv == IInv /\ DeliveryTypeOK /\ CallsInv /\ TruthInv /\ TabsInv

----------------------------------------------------------------------------
(* The composition implements the manager *)

\* A step of a handler, the extension or the bridge is a step of the manager or
\* leaves it alone.
LEMMA DeliveryStepsManager == [DeliveryNext]_allVars => [Next]_vars
<1>1. ASSUME NEW r \in RunIds, HandlerStep(r) PROVE [Next]_vars
  <2>1. CASE DelegateTask(r) \/ DelegateRouterTask(r)
    <3>1. RunStep(r)
      BY <2>1 DEF DelegateTask, DelegateRouterTask, RunStep
    <3> QED
      BY <3>1 DEF Next
  <2>2. CASE ReadPrompt(r) \/ EnqueuePrompt(r) \/ FetchCompleted(r)
             \/ \E status \in Bridge!Marks : Mark(r, status)
    BY <2>2 DEF ReadPrompt, EnqueuePrompt, FetchCompleted, Mark
  <2>3. CASE ClaimTask(r) \/ \E result \in {"completed", "failed"} : CompleteTask(r, result)
    <3>1. RunStep(r)
      BY <2>3 DEF ClaimTask, CompleteTask, RunStep
    <3> QED
      BY <3>1 DEF Next
  <2>4. CASE CompleteTaskEnd(r) \/ CancelTask(r) \/ CancelTaskEnd(r)
             \/ Timer(r) \/ Watcher(r) \/ Executor(r)
    <3>1. RunStep(r)
      BY <2>4 DEF CompleteTaskEnd, CancelTask, CancelTaskEnd, Timer, Watcher, Executor, RunStep
    <3> QED
      BY <3>1 DEF Next
  <2> QED
    BY <1>1, <2>1, <2>2, <2>3, <2>4 DEF HandlerStep
<1>2. CASE BrowserStep
  <2>1. UNCHANGED vars
    BY <1>2 DEF BrowserStep, BrowserPoll, BrowserWait, ContentScript, DispatchResult,
                TabRemoved, AckArrives
  <2> QED
    BY <2>1
<1>3. CASE BridgeTime
  BY <1>3 DEF BridgeTime
<1>4. CASE RestartAll
  BY <1>4 DEF RestartAll, Next
<1>5. CASE UNCHANGED allVars
  BY <1>5 DEF allVars
<1> QED
  BY <1>1, <1>2, <1>3, <1>4, <1>5 DEF DeliveryNext

(***************************************************************************)
(* Whatever the tool handlers, the bridge and the extension do, the        *)
(* manager they drive is AgentManager: all that is proved of it above      *)
(* holds in the composition.                                               *)
(***************************************************************************)
THEOREM DeliveryImplementsManager == DeliverySpec => Spec
<1>1. DeliveryInit => Init
  BY DEF DeliveryInit
<1> QED
  BY <1>1, DeliveryStepsManager, PTL DEF DeliverySpec, Spec

----------------------------------------------------------------------------
(* What a step of the manager does to a delegated run *)

RunKept(q) ==
  /\ q \in used'
  /\ Exists(q)' =>
       /\ Exists(q)
       /\ runs'[q].kind = runs[q].kind
       /\ runs[q].done => runs'[q].done
       /\ runs'[q].status = "waiting_worker" => runs[q].status = "waiting_worker"
       /\ runs[q].kind = "relay" /\ runs[q].done => runs'[q] = runs[q]

LEMMA FinishKeepsRun ==
  ASSUME IInv, NEW r \in RunIds, NEW status \in Terminal, finishRun(r, status),
         NEW q \in used, used' = used
  PROVE  RunKept(q)
<1>1. runs \in [RunIds -> Run] /\ q \in RunIds
  BY DEF IInv, TypeOK
<1>2. CASE ~Unfinished(r)
  BY <1>2 DEF finishRun, RunKept, Exists
<1>3. CASE Unfinished(r)
  <2>1. runs' = [runs EXCEPT ![r] = [@ EXCEPT !.status = status, !.done = TRUE,
                                              !.code = FALSE, !.token = FALSE]]
    BY <1>3 DEF finishRun
  <2>2. CASE q # r
    BY <1>1, <2>1, <2>2 DEF RunKept, Exists
  <2>3. CASE q = r
    <3>1. runs'[q].status = status /\ runs'[q].done /\ runs'[q].kind = runs[q].kind
      BY <1>1, <2>1, <2>3 DEF Run
    <3>2. status # "waiting_worker"
      BY DEF Terminal
    <3> QED
      BY <1>3, <2>3, <3>1, <3>2 DEF RunKept, Unfinished, Exists
  <2> QED
    BY <2>2, <2>3
<1> QED
  BY <1>2, <1>3

LEMMA StepKeepsRun ==
  ASSUME IInv, [Next]_vars, NEW q \in used
  PROVE  RunKept(q)
<1>a. /\ runs \in [RunIds -> Run] /\ history \in Seq(RunIds) /\ q \in RunIds
      /\ finishing \in [RunIds -> {"no", "completed", "failed"}]
  BY DEF IInv, TypeOK
<1>1. ASSUME NEW r \in RunIds, RunStep(r) PROVE RunKept(q)
  <2>1. ASSUME NEW s \in SlotIds, DelegateRouter(r, s) \/ DelegateRelay(r, s) PROVE RunKept(q)
    <3>1. PICK run \in Run : /\ r \notin used /\ used' = used \cup {r}
                             /\ runs' = TrimRuns(Append(history, r), [runs EXCEPT ![r] = run])
      BY <2>1 DEF DelegateRouter, DelegateRelay, Delegate, Run, Status
    <3> DEFINE h == Append(history, r)
               rs == [runs EXCEPT ![r] = run]
    <3>2. h \in Seq(RunIds) /\ rs \in [RunIds -> Run] /\ rs[q] = runs[q]
      BY <1>a, <3>1
    <3>3. runs' = TrimRuns(h, rs)
      BY <3>1
    <3> HIDE DEF h, rs
    <3>4. runs'[q] \in {NoRunState, runs[q]}
      BY <1>a, <3>2, <3>3, TrimTypes
    <3> QED
      BY <3>1, <3>4 DEF RunKept, Exists, NoRunState
  <2>2. CASE Deadline(r) \/ CancelBegin(r)
    BY <2>2 DEF Deadline, CancelBegin, RunKept, Exists
  <2>3. CASE Watch(r) \/ CancelEnd(r) \/ CompleteEnd(r) \/ ExecRound(r) \/ ExecReply(r)
    <3>1. /\ used' = used
          /\ UNCHANGED runs \/ \E status \in Terminal : finishRun(r, status)
      BY <1>a, <2>3 DEF Watch, CancelEnd, CompleteEnd, ExecRound, ExecReply, Terminal
    <3>2. UNCHANGED runs => RunKept(q)
      BY <3>1 DEF RunKept, Exists
    <3> QED
      BY <3>1, <3>2, FinishKeepsRun
  <2>4. CASE Claim(r)
    <3>1. /\ runs[r].kind = "relay" /\ runs[r].status = "waiting_worker" /\ ~runs[r].done
          /\ runs'[r].status = "running" /\ runs'[r].kind = runs[r].kind
          /\ q # r => runs'[q] = runs[q]
          /\ used' = used
      BY <1>a, <2>4 DEF Claim, IInv, SafeParts, SecretsConfined, Run
    <3> QED
      BY <3>1 DEF RunKept, Exists
  <2>5. CASE \E result \in {"completed", "failed"} : CompleteBegin(r, result)
    <3>1. /\ runs[r].token /\ runs[r].status = "running" /\ used' = used
          /\ runs' = [runs EXCEPT ![r] = [@ EXCEPT !.status = "finishing", !.token = FALSE]]
      BY <2>5 DEF CompleteBegin
    <3>2. /\ ~runs[r].done /\ runs'[r].status = "finishing" /\ runs'[r].kind = runs[r].kind
          /\ q # r => runs'[q] = runs[q]
      BY <1>a, <3>1 DEF IInv, SafeParts, SecretsConfined, Run
    <3> QED
      BY <3>1, <3>2 DEF RunKept, Exists
  <2>6. CASE ExecStart(r)
    <3>1. CASE ~Exists(r)
      BY <2>6, <3>1 DEF ExecStart, RunKept, Exists
    <3>2. CASE Exists(r)
      <4>1. /\ go[r] = "exec" /\ used' = used
            /\ runs' = [runs EXCEPT ![r].status = "running"]
        BY <2>6, <3>2 DEF ExecStart
      <4>2. runs[r].kind = "router"
        BY <3>2, <4>1 DEF IInv, GoParts, GoInv
      <4>3. /\ runs'[r].status = "running" /\ runs'[r].kind = "router"
            /\ runs'[r].done = runs[r].done
            /\ q # r => runs'[q] = runs[q]
        BY <1>a, <4>1, <4>2 DEF Run
      <4> QED
        BY <4>1, <4>2, <4>3 DEF RunKept, Exists
    <3> QED
      BY <3>1, <3>2
  <2> QED
    BY <1>1, <2>1, <2>2, <2>3, <2>4, <2>5, <2>6 DEF RunStep, Execute
<1>2. CASE SlotStep
  BY <1>2 DEF SlotStep, AddSlot, RemoveSlot, UpdateSlot, RunKept, Exists
<1>3. CASE Restart
  BY <1>a, <1>3 DEF Restart, RunKept, Exists, NoRunState
<1>4. CASE UNCHANGED vars
  BY <1>4 DEF vars, RunKept, Exists
<1> QED
  BY <1>1, <1>2, <1>3, <1>4 DEF Next

\* What was true of a run stays true of it.
LEMMA TruthKept ==
  ASSUME IInv, [Next]_vars, NEW q, NEW status, Truthful(q, status)
  PROVE  Truthful(q, status)'
<1>1. RunKept(q)
  BY StepKeepsRun DEF Truthful
<1> QED
  BY <1>1 DEF Truthful, RunKept, Exists

----------------------------------------------------------------------------
(* What a step of the bridge does to a dispatch *)

BridgeDefined == dispatch \in [RunIds -> Bridge!Dispatch]

\* cleanupLocked, time and wake-ups: a dispatch stays, fails, expires or is gone;
\* nobody gets it.
Calm(d, e) ==
  /\ e \in Bridge!Dispatch
  /\ e.status \in {d.status, "failed", "expired", "none"}
  /\ d.status = "none" => e.status = "none"
  /\ d.client = NoClient => e.client = NoClient

LEMMA SettleFits ==
  ASSUME NEW d \in Bridge!Dispatch, NEW status \in Bridge!Statuses
  PROVE  /\ Bridge!Settle(d, status) \in Bridge!Dispatch
         /\ Bridge!Settle(d, status).status = status
         /\ Bridge!Settle(d, status).client = d.client
  BY DEF Bridge!Settle, Bridge!NoDispatch, Bridge!Dispatch

LEMMA NoDispatchFits ==
  /\ Bridge!NoDispatch \in Bridge!Dispatch
  /\ Bridge!NoDispatch.status = "none"
  /\ NoClient = Bridge!NoDispatch.client
  BY DEF Bridge!NoDispatch, Bridge!Dispatch, Bridge!Statuses

LEMMA CleanCalm ==
  ASSUME BridgeDefined
  PROVE  /\ Bridge!cleanupLocked \in [RunIds -> Bridge!Dispatch]
         /\ \A r \in RunIds : /\ Calm(dispatch[r], Bridge!cleanupLocked[r])
                              /\ Bridge!cleanupLocked[r].status = "queued" =>
                                   dispatch[r].status = "queued"
<1> SUFFICES ASSUME NEW r \in RunIds
             PROVE  /\ Calm(dispatch[r], Bridge!Forget(Bridge!Expire(Bridge!Lapse(dispatch[r]))))
                    /\ Bridge!Forget(Bridge!Expire(Bridge!Lapse(dispatch[r]))).status = "queued" =>
                         dispatch[r].status = "queued"
  BY DEF Bridge!cleanupLocked, Calm
<1> DEFINE d == dispatch[r]
           lapsed == Bridge!Lapse(d)
           expired == Bridge!Expire(lapsed)
<1>0. d \in Bridge!Dispatch
  BY DEF BridgeDefined
<1>s. {"failed", "expired"} \subseteq Bridge!Statuses
  BY DEF Bridge!Statuses
<1> HIDE DEF d
<1>1. /\ lapsed \in Bridge!Dispatch /\ lapsed.client = d.client
      /\ lapsed.status \in {d.status, "failed"}
      /\ d.status = "none" => lapsed.status = "none"
  BY <1>0, <1>s, SettleFits DEF Bridge!Lapse
<1> HIDE DEF lapsed
<1>2. /\ expired \in Bridge!Dispatch /\ expired.client = lapsed.client
      /\ expired.status \in {lapsed.status, "expired"}
      /\ lapsed.status = "none" => expired.status = "none"
  BY <1>1, <1>s, SettleFits DEF Bridge!Expire, Bridge!Pending
<1> HIDE DEF expired
<1>3. Bridge!Forget(expired) \in {expired, Bridge!NoDispatch}
  BY DEF Bridge!Forget
<1>4. Calm(d, Bridge!Forget(expired)) /\ (Bridge!Forget(expired).status = "queued" => d.status = "queued")
  BY <1>1, <1>2, <1>3, NoDispatchFits DEF Calm
<1> QED
  BY <1>4 DEF d, lapsed, expired

\* Time only raises flags.
LEMMA FlagsCalm ==
  ASSUME NEW d \in Bridge!Dispatch, NEW l \in BOOLEAN, NEW e \in BOOLEAN, NEW a \in BOOLEAN
  PROVE  Calm(d, [d EXCEPT !.lapsed = l, !.expired = e, !.aged = a])
<1> DEFINE n == [d EXCEPT !.lapsed = l, !.expired = e, !.aged = a]
<1>1. n \in Bridge!Dispatch /\ n.status = d.status /\ n.client = d.client
  BY DEF Bridge!Dispatch
<1> QED
  BY <1>1 DEF Calm

AllCalm == /\ dispatch' \in [RunIds -> Bridge!Dispatch]
           /\ \A r \in RunIds : Calm(dispatch[r], dispatch'[r])

LEMMA SameCalm ==
  ASSUME BridgeDefined, dispatch' = dispatch PROVE AllCalm
  BY DEF BridgeDefined, AllCalm, Calm

LEMMA TimeCalm ==
  ASSUME BridgeDefined, BridgeTime
  PROVE  AllCalm /\ UNCHANGED <<order, wake, poll>>
<1>1. CASE Bridge!Cleanup
  <2>1. dispatch' = Bridge!cleanupLocked /\ UNCHANGED <<order, wake, poll>>
    BY <1>1 DEF Bridge!Cleanup
  <2> QED
    BY <2>1, CleanCalm DEF AllCalm
<1>2. ASSUME NEW r \in RunIds,
             Bridge!LeaseLapses(r) \/ Bridge!PassesExpiresAt(r) \/ Bridge!HourPasses(r)
      PROVE  AllCalm /\ UNCHANGED <<order, wake, poll>>
  <2>1. dispatch[r] \in Bridge!Dispatch
    BY DEF BridgeDefined
  <2>2. PICK l \in BOOLEAN, e \in BOOLEAN, a \in BOOLEAN :
          dispatch' = [dispatch EXCEPT ![r] = [@ EXCEPT !.lapsed = l, !.expired = e, !.aged = a]]
    <3>1. CASE Bridge!LeaseLapses(r)
      <4>1. dispatch' = [dispatch EXCEPT ![r] = [@ EXCEPT !.lapsed = TRUE, !.expired = dispatch[r].expired,
                                                          !.aged = dispatch[r].aged]]
        BY <2>1, <3>1 DEF Bridge!LeaseLapses, BridgeDefined, Bridge!Dispatch
      <4> QED
        BY <2>1, <4>1 DEF Bridge!Dispatch
    <3>2. CASE Bridge!PassesExpiresAt(r)
      <4>1. dispatch' = [dispatch EXCEPT ![r] = [@ EXCEPT !.lapsed = dispatch[r].lapsed, !.expired = TRUE,
                                                          !.aged = dispatch[r].aged]]
        BY <2>1, <3>2 DEF Bridge!PassesExpiresAt, BridgeDefined, Bridge!Dispatch
      <4> QED
        BY <2>1, <4>1 DEF Bridge!Dispatch
    <3>3. CASE Bridge!HourPasses(r)
      <4> DEFINE e == dispatch[r].status \in Bridge!Pending
                 l == dispatch[r].status = "dispatched"
      <4>1. dispatch' = [dispatch EXCEPT ![r] = [@ EXCEPT !.lapsed = l, !.expired = e, !.aged = TRUE]]
        BY <2>1, <3>3 DEF Bridge!HourPasses, BridgeDefined, Bridge!Dispatch
      <4>2. e \in BOOLEAN /\ l \in BOOLEAN
        OBVIOUS
      <4> HIDE DEF e, l
      <4> QED
        BY <4>1, <4>2
    <3> QED
      BY <1>2, <3>1, <3>2, <3>3
  <2> DEFINE n == [dispatch[r] EXCEPT !.lapsed = l, !.expired = e, !.aged = a]
  <2>3. Calm(dispatch[r], n) /\ dispatch' = [dispatch EXCEPT ![r] = n]
    BY <2>1, <2>2, FlagsCalm
  <2> HIDE DEF n
  <2>4. \A q \in RunIds : Calm(dispatch[q], dispatch[q])
    BY DEF Calm, BridgeDefined
  <2>5. AllCalm
    BY <2>3, <2>4 DEF AllCalm, BridgeDefined, Calm
  <2> QED
    BY <1>2, <2>5 DEF Bridge!LeaseLapses, Bridge!PassesExpiresAt, Bridge!HourPasses
<1> QED
  BY <1>1, <1>2 DEF BridgeTime, Bridge!Time

LEMMA EnqueueEffect ==
  ASSUME BridgeDefined, order \in Seq(RunIds), NEW r \in RunIds, Bridge!Enqueue(r)
  PROVE  /\ dispatch' \in [RunIds -> Bridge!Dispatch]
         /\ dispatch'[r].status = "queued"
         /\ \A q \in RunIds \ {r} : Calm(dispatch[q], dispatch'[q])
         /\ order' \in Seq(RunIds) /\ wake' = TRUE /\ UNCHANGED poll
<1>1. Bridge!Queued \in Bridge!Dispatch /\ Bridge!Queued.status = "queued"
  BY DEF Bridge!Queued, Bridge!Dispatch, Bridge!Statuses, Bridge!Pending
<1>2. /\ dispatch' = [Bridge!cleanupLocked EXCEPT ![r] = Bridge!Queued]
      /\ order' = Append(order, r) /\ wake' = TRUE /\ UNCHANGED poll
  BY DEF Bridge!Enqueue
<1> HIDE DEF Bridge!Queued
<1> QED
  BY <1>1, <1>2, CleanCalm

LEMMA MarkRunEffect ==
  ASSUME BridgeDefined, NEW r \in RunIds, NEW status \in Bridge!Marks, Bridge!MarkRun(r, status)
  PROVE  /\ dispatch' \in [RunIds -> Bridge!Dispatch]
         /\ dispatch'[r].status = status /\ Bridge!Exists(r)
         /\ \A q \in RunIds \ {r} : Calm(dispatch[q], dispatch'[q])
         /\ UNCHANGED <<order, wake, poll>>
<1>1. status \in Bridge!Statuses
  BY DEF Bridge!Marks, Bridge!Statuses, Bridge!Settled
<1>2. /\ Bridge!Settle(dispatch[r], status) \in Bridge!Dispatch
      /\ Bridge!Settle(dispatch[r], status).status = status
  BY <1>1, SettleFits DEF BridgeDefined
<1>3. dispatch' = [dispatch EXCEPT ![r] = Bridge!Settle(dispatch[r], status)]
  BY DEF Bridge!MarkRun, BridgeDefined
<1>4. \A q \in RunIds : Calm(dispatch[q], dispatch[q])
  BY DEF Calm, BridgeDefined
<1>5. \A q \in RunIds \ {r} : dispatch'[q] = dispatch[q]
  BY <1>3 DEF BridgeDefined
<1> QED
  BY <1>2, <1>3, <1>4, <1>5 DEF Bridge!MarkRun, BridgeDefined

\* A poll hands out a queued dispatch, or none.
HandedOver(q) == dispatch[q].status = "queued" /\ dispatch'[q].status = "dispatched"

LEMMA PollEffect ==
  ASSUME BridgeDefined, order \in Seq(RunIds), NEW c \in Clients, Bridge!Poll(c),
         poll \in [Clients -> {"idle", "waiting", "woken"}]
  PROVE  /\ dispatch' \in [RunIds -> Bridge!Dispatch]
         /\ \A q \in RunIds : Calm(dispatch[q], dispatch'[q]) \/ HandedOver(q)
         /\ poll' \in [Clients -> {"idle", "waiting", "woken"}]
         /\ UNCHANGED <<order, wake>>
<1>1. UNCHANGED <<order, wake>> /\ poll' \in [Clients -> {"idle", "waiting", "woken"}]
  BY DEF Bridge!Poll
<1>2. CASE dispatch' = Bridge!cleanupLocked
  BY <1>1, <1>2, CleanCalm
<1>3. ASSUME NEW i \in DOMAIN order, Bridge!Deliverable(i),
             dispatch' = [Bridge!cleanupLocked EXCEPT
                            ![order[i]] = Bridge!Leased(Bridge!cleanupLocked[order[i]], c)]
      PROVE  /\ dispatch' \in [RunIds -> Bridge!Dispatch]
             /\ \A q \in RunIds : Calm(dispatch[q], dispatch'[q]) \/ HandedOver(q)
  <2>1. PICK h \in RunIds : h = order[i]
    OBVIOUS
  <2> DEFINE clean == Bridge!cleanupLocked
             leased == Bridge!Leased(clean[h], c)
  <2>2. clean \in [RunIds -> Bridge!Dispatch] /\ clean[h].status = "queued"
    BY <1>3, <2>1, CleanCalm DEF Bridge!Deliverable
  <2>3. leased \in Bridge!Dispatch /\ leased.status = "dispatched"
    BY <2>2 DEF Bridge!Leased, Bridge!Dispatch, Bridge!Statuses, Bridge!Pending
  <2>4. dispatch' = [clean EXCEPT ![h] = leased] /\ dispatch[h].status = "queued"
    BY <1>3, <2>1, <2>2, CleanCalm
  <2>5. \A q \in RunIds : Calm(dispatch[q], clean[q])
    BY CleanCalm
  <2> HIDE DEF clean, leased
  <2> QED
    BY <2>2, <2>3, <2>4, <2>5 DEF HandedOver
<1> QED
  BY <1>1, <1>2, <1>3 DEF Bridge!Poll

LEMMA AcknowledgeEffect ==
  ASSUME BridgeDefined, NEW c, NEW r \in RunIds, NEW status \in {"sent", "failed"},
         Bridge!Acknowledge(c, r, status)
  PROVE  /\ dispatch' \in [RunIds -> Bridge!Dispatch]
         /\ dispatch'[r].status \in {dispatch[r].status, status}
         /\ Bridge!Exists(r)
         /\ \A q \in RunIds \ {r} : Calm(dispatch[q], dispatch'[q])
         /\ UNCHANGED <<order, wake, poll>>
<1> DEFINE clean == Bridge!cleanupLocked
           last == IF clean[r].status \in Bridge!Settled THEN clean[r].status ELSE status
           settled == Bridge!Settle(clean[r], last)
<1>1. /\ clean \in [RunIds -> Bridge!Dispatch]
      /\ \A q \in RunIds : Calm(dispatch[q], clean[q])
  BY CleanCalm
<1>2. last \in Bridge!Statuses /\ last \in {dispatch[r].status, status}
  BY <1>1 DEF Calm, Bridge!Statuses, Bridge!Settled
<1>3. /\ clean[r].status # "none"
      /\ dispatch' = [clean EXCEPT ![r] = settled]
      /\ UNCHANGED <<order, wake, poll>>
  BY <1>1 DEF Bridge!Acknowledge
<1> HIDE DEF clean, last
<1>4. settled \in Bridge!Dispatch /\ settled.status = last
  BY <1>1, <1>2, SettleFits
<1> HIDE DEF settled
<1> QED
  BY <1>1, <1>2, <1>3, <1>4 DEF Calm, Bridge!Exists

----------------------------------------------------------------------------
(* The invariant of the composition *)

Typed == /\ Bridge!BridgeTypeOK
         /\ delegating \in [RunIds -> {"none", "created", "prompted", "replied"}]
         /\ marks \subseteq RunIds \X Bridge!Marks
         /\ fetching \subseteq RunIds
         /\ tabs \in [RunIds -> Tab]
         /\ acks \subseteq Clients \X RunIds \X {"sent", "failed"}

LEMMA InitDInv == DeliveryInit => DInv
<1> SUFFICES ASSUME DeliveryInit PROVE DInv
  OBVIOUS
<1>1. IInv
  BY InitIInv DEF DeliveryInit
<1>2. /\ NoTab \in Tab /\ NoTab.state = "none" /\ ~NoTab.submitted
  BY DEF NoTab, Tab
<1>3. DeliveryTypeOK
  <2>1. Bridge!BridgeTypeOK
    <3>1. order \in Seq(RunIds)
      BY DEF DeliveryInit, Bridge!BridgeInit
    <3>2. dispatch \in [RunIds -> Bridge!Dispatch] /\ wake \in BOOLEAN
          /\ poll \in [Clients -> {"idle", "waiting", "woken"}]
      BY NoDispatchFits DEF DeliveryInit, Bridge!BridgeInit
    <3> QED
      BY <3>1, <3>2 DEF Bridge!BridgeTypeOK
  <2>2. tabs \in [RunIds -> Tab]
    BY <1>2 DEF DeliveryInit
  <2> QED
    BY <1>1, <2>1, <2>2 DEF DeliveryInit, DeliveryTypeOK, IInv
<1>4. CallsInv
  BY DEF DeliveryInit, Init, CallsInv
<1>5. \A r \in RunIds : dispatch[r].status = "none" /\ tabs[r] = NoTab
  BY NoDispatchFits DEF DeliveryInit, Bridge!BridgeInit
<1>6. TruthInv
  BY <1>5 DEF DeliveryInit, TruthInv, Bridge!Exists
<1>7. TabsInv
  BY <1>2, <1>5 DEF DeliveryInit, TabsInv, SentMeansSubmitted, Bridge!Exists
<1> QED
  BY <1>1, <1>3, <1>4, <1>6, <1>7 DEF DInv

\* How far the calls under way may get in a step.
CallsMove ==
  /\ cancelling' \subseteq cancelling \cup {q \in RunIds : Exists(q)}
  /\ \A q \in RunIds : delegating'[q] # "none" => delegating[q] # "none" \/ q \in used'
  /\ \A q \in RunIds : finishing'[q] # "no" =>
       finishing[q] # "no" \/ (Exists(q) /\ runs[q].kind = "relay")
  /\ \A q \in fetching' : q \in fetching \/ (finishing[q] # "no" /\ (Exists(q)' => runs'[q].done))

MarksMove == \A mark \in marks' : mark \in marks \/ Truthful(mark[1], mark[2])'

LEMMA CallsKept ==
  ASSUME DInv, [Next]_vars, CallsMove, fetching' \subseteq RunIds PROVE CallsInv'
<1>1. \A q \in used : RunKept(q)
  BY StepKeepsRun DEF DInv
<1>2. \A q \in RunIds : Exists(q) => q \in used
  BY DEF DInv, IInv, GoParts, GoInv
<1>3. used \subseteq used'
  BY <1>1 DEF RunKept
<1>4. cancelling' \subseteq used'
  BY <1>2, <1>3 DEF CallsMove, DInv, CallsInv
<1>5. \A q \in RunIds : delegating'[q] # "none" => q \in used'
  BY <1>3 DEF CallsMove, DInv, CallsInv
<1>6. \A q \in RunIds : finishing'[q] # "no" \/ q \in fetching' =>
        q \in used' /\ (Exists(q)' => runs'[q].kind = "relay")
  BY <1>1, <1>2, <1>3 DEF CallsMove, DInv, CallsInv, RunKept
<1>7. \A q \in fetching' : Exists(q)' => runs'[q].done
  BY <1>1 DEF CallsMove, DInv, CallsInv, RunKept
<1> QED
  BY <1>4, <1>5, <1>6, <1>7 DEF CallsInv, Exists

\* A dispatch of a delegated run that does not speak of the run's progress is truthful.
LEMMA Neutral ==
  ASSUME NEW q \in used, NEW status,
         status \notin {"claimed", "completed", "cancelled"}
  PROVE  Truthful(q, status)
  BY DEF Truthful

LEMMA CalmTruth ==
  ASSUME DInv, [Next]_vars, NEW q \in RunIds, Calm(dispatch[q], dispatch'[q]), Bridge!Exists(q)'
  PROVE  Truthful(q, dispatch[q].status)'
<1>1. Bridge!Exists(q) /\ Truthful(q, dispatch[q].status)
  BY DEF Calm, Bridge!Exists, DInv, TruthInv
<1>2. RunKept(q)
  BY <1>1, StepKeepsRun DEF DInv, Truthful
<1> QED
  BY <1>1, <1>2 DEF Truthful, RunKept, Exists, Calm, Bridge!Exists

LEMMA TruthStays ==
  ASSUME DInv, [Next]_vars, MarksMove,
         \A q \in RunIds : \/ Calm(dispatch[q], dispatch'[q])
                           \/ Truthful(q, dispatch[q].status)'
  PROVE  TruthInv'
<1>1. \A mark \in marks : Truthful(mark[1], mark[2])'
  <2> SUFFICES ASSUME NEW mark \in marks PROVE Truthful(mark[1], mark[2])'
    OBVIOUS
  <2>1. Truthful(mark[1], mark[2])
    BY DEF DInv, TruthInv
  <2>2. RunKept(mark[1])
    BY <2>1, StepKeepsRun DEF DInv, Truthful
  <2> QED
    BY <2>1, <2>2 DEF Truthful, RunKept, Exists
<1>2. \A q \in RunIds : Bridge!Exists(q)' => Truthful(q, dispatch[q].status)'
  BY CalmTruth
<1> QED
  BY <1>1, <1>2 DEF TruthInv, MarksMove

\* The tabs under a step that opens none, acknowledges nothing and enqueues nothing.
LEMMA TabsKept ==
  ASSUME DInv, UNCHANGED browser,
         \A q \in RunIds : dispatch'[q].status # dispatch[q].status =>
           dispatch[q].status # "none" /\ dispatch'[q].status \notin {"queued", "sent"},
         \A q \in RunIds : delegating[q] = "replied" => delegating'[q] = "replied"
  PROVE  TabsInv'
  BY DEF DInv, TabsInv, SentMeansSubmitted, Bridge!Exists, browser

\* The handlers' and timers' steps, which leave bridge and browser alone.
LEMMA HandlerKeeps ==
  ASSUME DInv, [Next]_vars, UNCHANGED <<bridge, browser>>, CallsMove, MarksMove,
         delegating' \in [RunIds -> {"none", "created", "prompted", "replied"}],
         marks' \subseteq RunIds \X Bridge!Marks, fetching' \subseteq RunIds,
         \A q \in RunIds : delegating[q] = "replied" => delegating'[q] = "replied"
  PROVE  DInv'
<1>1. IInv'
  BY NextIInv DEF DInv
<1>2. Typed'
  BY DEF DInv, DeliveryTypeOK, Typed, Bridge!BridgeTypeOK, bridge, browser
<1>3. CallsInv'
  BY CallsKept
<1>4. TruthInv'
  <2>1. \A q \in RunIds : Calm(dispatch[q], dispatch'[q])
    BY SameCalm DEF bridge, BridgeDefined, DInv, DeliveryTypeOK, Bridge!BridgeTypeOK, AllCalm
  <2> QED
    BY <2>1, TruthStays
<1>5. TabsInv'
  BY TabsKept DEF bridge
<1> QED
  BY <1>1, <1>2, <1>3, <1>4, <1>5 DEF DInv, IInv, DeliveryTypeOK, Typed

----------------------------------------------------------------------------
(* The handlers *)

\* finishRun leaves no unfinished run.
LEMMA FinishedRun ==
  ASSUME IInv, NEW r \in RunIds, NEW status \in Terminal, finishRun(r, status), Exists(r)'
  PROVE  runs'[r].done
<1>1. runs \in [RunIds -> Run]
  BY DEF IInv, TypeOK
<1>2. CASE ~Unfinished(r)
  BY <1>2 DEF finishRun, Unfinished, Exists
<1>3. CASE Unfinished(r)
  <2>1. runs' = [runs EXCEPT ![r] = [@ EXCEPT !.status = status, !.done = TRUE,
                                              !.code = FALSE, !.token = FALSE]]
    BY <1>3 DEF finishRun
  <2> QED
    BY <1>1, <2>1 DEF Run
<1> QED
  BY <1>2, <1>3

LEMMA DelegateKeeps ==
  ASSUME DInv, [Next]_vars, NEW r \in RunIds, DelegateTask(r) \/ DelegateRouterTask(r)
  PROVE  DInv'
<1>1. /\ r \notin used /\ used' = used \cup {r}
      /\ UNCHANGED <<cancelling, finishing, marks, fetching, bridge, browser>>
      /\ delegating' \in {delegating, [delegating EXCEPT ![r] = "created"]}
  BY DEF DelegateTask, DelegateRouterTask, DelegateRelay, DelegateRouter, Delegate, handlers
<1>2. /\ delegating \in [RunIds -> {"none", "created", "prompted", "replied"}]
      /\ marks \subseteq RunIds \X Bridge!Marks /\ fetching \subseteq RunIds
      /\ delegating[r] = "none"
  BY <1>1 DEF DInv, DeliveryTypeOK, CallsInv
<1>3. CallsMove /\ MarksMove
  BY <1>1, <1>2 DEF CallsMove, MarksMove
<1> QED
  BY <1>1, <1>2, <1>3, HandlerKeeps

LEMMA ReadPromptKeeps ==
  ASSUME DInv, [Next]_vars, NEW r \in RunIds, ReadPrompt(r)
  PROVE  DInv'
<1>1. /\ delegating[r] = "created"
      /\ \E place \in {"prompted", "none"} : delegating' = [delegating EXCEPT ![r] = place]
      /\ UNCHANGED <<cancelling, finishing, used, marks, fetching, bridge, browser>>
  BY DEF ReadPrompt, vars
<1>2. /\ delegating \in [RunIds -> {"none", "created", "prompted", "replied"}]
      /\ marks \subseteq RunIds \X Bridge!Marks /\ fetching \subseteq RunIds
  BY DEF DInv, DeliveryTypeOK
<1>3. CallsMove /\ MarksMove
  BY <1>1, <1>2 DEF CallsMove, MarksMove
<1> QED
  BY <1>1, <1>2, <1>3, HandlerKeeps

\* The claim's mark comes after the claim.
LEMMA ClaimTaskKeeps ==
  ASSUME DInv, [Next]_vars, NEW r \in RunIds, ClaimTask(r)
  PROVE  DInv'
<1>1. /\ Claim(r) /\ marks' = marks \cup {<<r, "claimed">>}
      /\ UNCHANGED <<cancelling, finishing, used, delegating, fetching, bridge, browser>>
  BY DEF ClaimTask, Claim
<1>2. /\ delegating \in [RunIds -> {"none", "created", "prompted", "replied"}]
      /\ marks \subseteq RunIds \X Bridge!Marks /\ fetching \subseteq RunIds
      /\ runs \in [RunIds -> Run]
  BY DEF DInv, DeliveryTypeOK, IInv, TypeOK
<1>3. marks' \subseteq RunIds \X Bridge!Marks
  BY <1>1, <1>2 DEF Bridge!Marks
<1>4. Truthful(r, "claimed")'
  <2>1. r \in used' /\ runs'[r].status = "running"
    BY <1>1, <1>2 DEF Claim, DInv, IInv, GoParts, GoInv, Run
  <2> QED
    BY <2>1 DEF Truthful
<1>5. CallsMove /\ MarksMove
  BY <1>1, <1>4 DEF CallsMove, MarksMove
<1> QED
  BY <1>1, <1>2, <1>3, <1>5, HandlerKeeps

\* Only a relay run has the token a completion needs.
LEMMA CompleteTaskKeeps ==
  ASSUME DInv, [Next]_vars, NEW r \in RunIds, NEW result \in {"completed", "failed"},
         CompleteTask(r, result)
  PROVE  DInv'
<1>1. /\ CompleteBegin(r, result)
      /\ UNCHANGED <<cancelling, used, delegating, marks, fetching, bridge, browser>>
  BY DEF CompleteTask, CompleteBegin, handlers
<1>2. /\ delegating \in [RunIds -> {"none", "created", "prompted", "replied"}]
      /\ marks \subseteq RunIds \X Bridge!Marks /\ fetching \subseteq RunIds
      /\ finishing \in [RunIds -> {"no", "completed", "failed"}]
  BY DEF DInv, DeliveryTypeOK, IInv, TypeOK
<1>3. Exists(r) /\ runs[r].kind = "relay"
  BY <1>1 DEF CompleteBegin, DInv, IInv, SafeParts, SecretsConfined
<1>4. \A q \in RunIds : finishing'[q] # "no" => finishing[q] # "no" \/ q = r
  BY <1>1, <1>2 DEF CompleteBegin
<1>5. CallsMove /\ MarksMove
  BY <1>1, <1>3, <1>4 DEF CallsMove, MarksMove
<1> QED
  BY <1>1, <1>2, <1>5, HandlerKeeps

\* completeChatGPTRelayTask reads the run it will report after finishRun.
LEMMA CompleteTaskEndKeeps ==
  ASSUME DInv, [Next]_vars, NEW r \in RunIds, CompleteTaskEnd(r)
  PROVE  DInv'
<1>1. /\ CompleteEnd(r) /\ fetching' = fetching \cup {r}
      /\ UNCHANGED <<cancelling, used, delegating, marks, bridge, browser>>
  BY DEF CompleteTaskEnd, CompleteEnd
<1>2. /\ delegating \in [RunIds -> {"none", "created", "prompted", "replied"}]
      /\ marks \subseteq RunIds \X Bridge!Marks /\ fetching \subseteq RunIds
      /\ finishing \in [RunIds -> {"no", "completed", "failed"}]
  BY DEF DInv, DeliveryTypeOK, IInv, TypeOK
<1>3. finishing[r] \in {"completed", "failed"} /\ finishRun(r, finishing[r])
  BY <1>1, <1>2 DEF CompleteEnd
<1>4. Exists(r)' => runs'[r].done
  BY <1>3, FinishedRun DEF DInv, Terminal
<1>5. \A q \in RunIds : finishing'[q] # "no" => finishing[q] # "no"
  BY <1>1, <1>2 DEF CompleteEnd
<1>6. CallsMove /\ MarksMove
  BY <1>1, <1>3, <1>4, <1>5 DEF CallsMove, MarksMove
<1> QED
  BY <1>1, <1>2, <1>6, HandlerKeeps

\* Its mark is the run's outcome, whoever decided it.
LEMMA FetchCompletedKeeps ==
  ASSUME DInv, [Next]_vars, NEW r \in RunIds, FetchCompleted(r)
  PROVE  DInv'
<1>1. /\ r \in fetching /\ fetching' = fetching \ {r}
      /\ marks' = IF Exists(r) THEN marks \cup {<<r, runs[r].status>>} ELSE marks
      /\ UNCHANGED <<runs, cancelling, finishing, used, delegating, bridge, browser>>
  BY DEF FetchCompleted, vars
<1>2. /\ delegating \in [RunIds -> {"none", "created", "prompted", "replied"}]
      /\ marks \subseteq RunIds \X Bridge!Marks /\ fetching \subseteq RunIds
  BY DEF DInv, DeliveryTypeOK
<1>3. Exists(r) => runs[r].kind = "relay" /\ runs[r].done /\ r \in used
  BY <1>1 DEF DInv, CallsInv
<1>4. Exists(r) => runs[r].status \in Terminal
  BY <1>3 DEF DInv, IInv, GoParts, RelayStatusInv
<1>5. Exists(r) => Truthful(r, runs[r].status)'
  BY <1>1, <1>3, <1>4 DEF Truthful, Terminal, Exists
<1>6. marks' \subseteq RunIds \X Bridge!Marks
  BY <1>1, <1>2, <1>4 DEF Terminal, Bridge!Marks
<1>7. MarksMove
  <2> SUFFICES ASSUME NEW mark \in marks', mark \notin marks PROVE Truthful(mark[1], mark[2])'
    BY DEF MarksMove
  <2>1. Exists(r) /\ mark = <<r, runs[r].status>>
    BY <1>1
  <2> QED
    BY <1>1, <1>5, <2>1 DEF Truthful, Exists
<1>8. CallsMove
  BY <1>1 DEF CallsMove
<1> QED
  BY <1>1, <1>2, <1>6, <1>7, <1>8, HandlerKeeps

LEMMA CancelTaskKeeps ==
  ASSUME DInv, [Next]_vars, NEW r \in RunIds, CancelTask(r)
  PROVE  DInv'
<1>1. /\ Exists(r) /\ cancelling' = cancelling \cup {r}
      /\ UNCHANGED <<finishing, used, delegating, marks, fetching, bridge, browser>>
  BY DEF CancelTask, CancelBegin, handlers
<1>2. /\ delegating \in [RunIds -> {"none", "created", "prompted", "replied"}]
      /\ marks \subseteq RunIds \X Bridge!Marks /\ fetching \subseteq RunIds
  BY DEF DInv, DeliveryTypeOK
<1>3. CallsMove /\ MarksMove
  BY <1>1 DEF CallsMove, MarksMove
<1> QED
  BY <1>1, <1>2, <1>3, HandlerKeeps

\* A cancelled run is finished, by this call or an earlier one, before it is marked.
LEMMA CancelTaskEndKeeps ==
  ASSUME DInv, [Next]_vars, NEW r \in RunIds, CancelTaskEnd(r)
  PROVE  DInv'
<1>1. /\ r \in cancelling /\ finishRun(r, "cancelled") /\ cancelling' = cancelling \ {r}
      /\ marks' = marks \cup {<<r, "cancelled">>}
      /\ UNCHANGED <<finishing, used, delegating, fetching, bridge, browser>>
  BY DEF CancelTaskEnd, CancelEnd
<1>2. /\ delegating \in [RunIds -> {"none", "created", "prompted", "replied"}]
      /\ marks \subseteq RunIds \X Bridge!Marks /\ fetching \subseteq RunIds
  BY DEF DInv, DeliveryTypeOK
<1>3. marks' \subseteq RunIds \X Bridge!Marks
  BY <1>1, <1>2 DEF Bridge!Marks
<1>4. Truthful(r, "cancelled")'
  <2>1. Exists(r)' => runs'[r].done
    BY <1>1, FinishedRun DEF DInv, Terminal
  <2>2. r \in used'
    BY <1>1 DEF DInv, CallsInv
  <2> QED
    BY <2>1, <2>2 DEF Truthful, Exists
<1>5. CallsMove /\ MarksMove
  BY <1>1, <1>4 DEF CallsMove, MarksMove
<1> QED
  BY <1>1, <1>2, <1>3, <1>5, HandlerKeeps

LEMMA GoroutinesKeep ==
  ASSUME DInv, [Next]_vars, NEW r \in RunIds, Timer(r) \/ Watcher(r) \/ Executor(r)
  PROVE  DInv'
<1>1. UNCHANGED <<cancelling, finishing, used, delegating, marks, fetching, bridge, browser>>
  BY DEF Timer, Watcher, Executor, Deadline, Watch, Execute, ExecStart, ExecRound, ExecReply,
         handlers
<1>2. /\ delegating \in [RunIds -> {"none", "created", "prompted", "replied"}]
      /\ marks \subseteq RunIds \X Bridge!Marks /\ fetching \subseteq RunIds
  BY DEF DInv, DeliveryTypeOK
<1>3. CallsMove /\ MarksMove
  BY <1>1 DEF CallsMove, MarksMove
<1> QED
  BY <1>1, <1>2, <1>3, HandlerKeeps

----------------------------------------------------------------------------
(* The bridge's steps, which leave the manager alone *)

LEMMA BridgeKeeps ==
  ASSUME DInv, UNCHANGED vars, UNCHANGED fetching, Typed', MarksMove, TabsInv',
         \A q \in RunIds : delegating'[q] # "none" => delegating[q] # "none",
         \A q \in RunIds : \/ Calm(dispatch[q], dispatch'[q])
                           \/ Truthful(q, dispatch[q].status)'
  PROVE  DInv'
<1>1. IInv'
  BY NextIInv DEF DInv
<1>2. CallsMove
  BY DEF vars, CallsMove
<1>3. CallsInv'
  BY <1>2, CallsKept DEF Typed
<1>4. TruthInv'
  BY TruthStays
<1> QED
  BY <1>1, <1>3, <1>4 DEF DInv, IInv, DeliveryTypeOK, Typed

LEMMA DInvTyped ==
  ASSUME DInv
  PROVE  /\ Typed /\ BridgeDefined /\ order \in Seq(RunIds) /\ wake \in BOOLEAN
         /\ poll \in [Clients -> {"idle", "waiting", "woken"}]
  BY DEF DInv, DeliveryTypeOK, Typed, Bridge!BridgeTypeOK, BridgeDefined

LEMMA EnqueuePromptKeeps ==
  ASSUME DInv, NEW r \in RunIds, EnqueuePrompt(r)
  PROVE  DInv'
<1>1. /\ delegating[r] = "prompted" /\ Bridge!Enqueue(r)
      /\ delegating' = [delegating EXCEPT ![r] = "replied"]
      /\ UNCHANGED <<vars, marks, fetching, browser>>
  BY DEF EnqueuePrompt
<1>2. /\ dispatch' \in [RunIds -> Bridge!Dispatch] /\ dispatch'[r].status = "queued"
      /\ \A q \in RunIds \ {r} : Calm(dispatch[q], dispatch'[q])
      /\ order' \in Seq(RunIds) /\ wake' = TRUE /\ UNCHANGED poll
  BY <1>1, DInvTyped, EnqueueEffect
<1>3. delegating \in [RunIds -> {"none", "created", "prompted", "replied"}]
  BY DInvTyped DEF Typed
<1>4. Typed'
  <2>1. Bridge!BridgeTypeOK'
    BY <1>2, DInvTyped DEF Bridge!BridgeTypeOK
  <2> QED
    BY <1>1, <1>3, <2>1, DInvTyped DEF Typed, browser
<1>5. Truthful(r, dispatch[r].status)'
  <2>1. r \in used'
    BY <1>1 DEF DInv, CallsInv, vars
  <2> QED
    BY <1>2, <2>1 DEF Truthful
<1>6. TabsInv'
  <2>1. tabs' = tabs /\ acks' = acks /\ tabs[r].state = "none" /\ ~Bridge!Exists(r)
    BY <1>1 DEF DInv, TabsInv, browser
  <2>2. \A q \in RunIds \ {r} : delegating'[q] = delegating[q]
    BY <1>1, <1>3
  <2>3. delegating'[r] = "replied"
    BY <1>1, <1>3
  <2>4. \A q \in RunIds : dispatch'[q].status = "sent" => dispatch[q].status = "sent"
    BY <1>2 DEF Calm
  <2>5. SentMeansSubmitted'
    BY <2>1, <2>4 DEF DInv, TabsInv, SentMeansSubmitted
  <2>6. \A q \in RunIds : Bridge!Exists(q)' \/ tabs'[q].state # "none" => delegating'[q] = "replied"
    BY <1>2, <2>1, <2>2, <2>3 DEF DInv, TabsInv, Calm, Bridge!Exists
  <2>7. \A q \in RunIds : dispatch'[q].status = "queued" => tabs'[q].state = "none"
    BY <1>2, <2>1 DEF DInv, TabsInv, Calm
  <2> QED
    BY <2>1, <2>5, <2>6, <2>7 DEF DInv, TabsInv
<1>7. MarksMove
  BY <1>1 DEF MarksMove
<1>8. \A q \in RunIds : delegating'[q] # "none" => delegating[q] # "none"
  BY <1>1, <1>3
<1> QED
  BY <1>1, <1>2, <1>4, <1>5, <1>6, <1>7, <1>8, BridgeKeeps

LEMMA MarkKeeps ==
  ASSUME DInv, NEW r \in RunIds, NEW status \in Bridge!Marks, Mark(r, status)
  PROVE  DInv'
<1>1. /\ <<r, status>> \in marks /\ marks' = marks \ {<<r, status>>}
      /\ UNCHANGED <<vars, delegating, fetching, browser>>
      /\ Bridge!MarkRun(r, status) \/ UNCHANGED bridge
  BY DEF Mark
<1>2. Truthful(r, status)
  BY <1>1 DEF DInv, TruthInv
<1>3. /\ dispatch' \in [RunIds -> Bridge!Dispatch] /\ UNCHANGED <<order, wake, poll>>
      /\ \A q \in RunIds \ {r} : Calm(dispatch[q], dispatch'[q])
      /\ \/ Calm(dispatch[r], dispatch'[r])
         \/ dispatch'[r].status = status /\ Bridge!Exists(r)
  <2>1. CASE Bridge!MarkRun(r, status)
    BY <2>1, DInvTyped, MarkRunEffect
  <2>2. CASE UNCHANGED bridge
    BY <2>2, DInvTyped, SameCalm DEF bridge, AllCalm
  <2> QED
    BY <1>1, <2>1, <2>2
<1>4. Calm(dispatch[r], dispatch'[r]) \/ Truthful(r, dispatch[r].status)'
  BY <1>1, <1>2, <1>3 DEF Truthful, Exists, vars
<1>5. Typed'
  <2>1. Bridge!BridgeTypeOK'
    BY <1>3, DInvTyped DEF Bridge!BridgeTypeOK
  <2> QED
    BY <1>1, <2>1, DInvTyped DEF Typed, browser
<1>6. status \notin {"none", "queued", "sent"}
  BY DEF Bridge!Marks
<1>7. TabsInv'
  <2>1. \A q \in RunIds : dispatch'[q].status # dispatch[q].status =>
          dispatch[q].status # "none" /\ dispatch'[q].status \notin {"queued", "sent"}
    BY <1>3, <1>6 DEF Calm, Bridge!Exists
  <2> QED
    BY <1>1, <2>1, TabsKept
<1>8. MarksMove
  BY <1>1 DEF MarksMove
<1> QED
  BY <1>1, <1>3, <1>4, <1>5, <1>7, <1>8, BridgeKeeps

LEMMA BridgeTimeKeeps ==
  ASSUME DInv, BridgeTime
  PROVE  DInv'
<1>1. UNCHANGED <<vars, handlers, browser>> /\ AllCalm /\ UNCHANGED <<order, wake, poll>>
  BY DInvTyped, TimeCalm DEF BridgeTime
<1>2. Typed'
  <2>1. Bridge!BridgeTypeOK'
    BY <1>1, DInvTyped DEF Bridge!BridgeTypeOK, AllCalm
  <2> QED
    BY <1>1, <2>1, DInvTyped DEF Typed, browser, handlers
<1>3. TabsInv'
  <2>1. \A q \in RunIds : dispatch'[q].status # dispatch[q].status =>
          dispatch[q].status # "none" /\ dispatch'[q].status \notin {"queued", "sent"}
    BY <1>1 DEF AllCalm, Calm
  <2> QED
    BY <1>1, <2>1, TabsKept DEF handlers
<1>4. MarksMove
  BY <1>1 DEF MarksMove, handlers
<1> QED
  BY <1>1, <1>2, <1>3, <1>4, BridgeKeeps DEF AllCalm, handlers

----------------------------------------------------------------------------
(* The extension *)

LEMMA BrowserPollKeeps ==
  ASSUME DInv, NEW c \in Clients, BrowserPoll(c)
  PROVE  DInv'
<1> DEFINE handed == {r \in RunIds : dispatch'[r].client # NoClient /\ dispatch[r].client = NoClient}
           opened == [NoTab EXCEPT !.state = "open", !.client = c]
<1>1. /\ Bridge!Poll(c) /\ UNCHANGED <<vars, handlers>>
      /\ \/ /\ tabs' = [r \in RunIds |-> IF r \in handed THEN opened ELSE tabs[r]]
            /\ UNCHANGED acks
         \/ /\ acks' \in {acks, acks \cup {<<c, r, "failed">> : r \in handed}}
            /\ UNCHANGED tabs
  BY DEF BrowserPoll
<1>2. /\ dispatch' \in [RunIds -> Bridge!Dispatch]
      /\ \A q \in RunIds : Calm(dispatch[q], dispatch'[q]) \/ HandedOver(q)
      /\ poll' \in [Clients -> {"idle", "waiting", "woken"}]
      /\ UNCHANGED <<order, wake>>
  BY <1>1, DInvTyped, PollEffect
<1>3. \A q \in handed : q \in RunIds /\ HandedOver(q)
  BY <1>2 DEF Calm
<1>4. opened \in Tab /\ opened.state = "open" /\ ~opened.submitted /\ opened.client = c
  BY DEF NoTab, Tab
<1> HIDE DEF opened, handed
<1>5. tabs \in [RunIds -> Tab] /\ acks \subseteq Clients \X RunIds \X {"sent", "failed"}
  BY DInvTyped DEF Typed
<1>6. /\ tabs' \in [RunIds -> Tab]
      /\ \A q \in RunIds : tabs'[q] = tabs[q] \/ (HandedOver(q) /\ tabs'[q] = opened)
  BY <1>1, <1>3, <1>4, <1>5
<1>7. \A ack \in acks' : \/ ack \in acks
                         \/ ack[3] = "failed" /\ ack \in Clients \X RunIds \X {"sent", "failed"}
  BY <1>1, <1>3
<1>8. Typed'
  <2>1. Bridge!BridgeTypeOK'
    BY <1>2, DInvTyped DEF Bridge!BridgeTypeOK
  <2>2. acks' \subseteq Clients \X RunIds \X {"sent", "failed"}
    BY <1>5, <1>7
  <2> QED
    BY <1>1, <1>6, <2>1, <2>2, DInvTyped DEF Typed, handlers
<1>9. TabsInv'
  <2>1. \A q \in RunIds : HandedOver(q) =>
          /\ tabs[q].state = "none" /\ ~tabs[q].submitted /\ delegating[q] = "replied"
          /\ dispatch'[q].status = "dispatched"
    BY DEF DInv, TabsInv, HandedOver, Bridge!Exists
  <2>2. \A q \in RunIds : tabs[q].submitted => tabs'[q].submitted
    BY <1>6, <2>1
  <2>3. SentMeansSubmitted'
    BY <1>2, <2>1, <2>2 DEF DInv, TabsInv, SentMeansSubmitted, Calm
  <2>4. delegating' = delegating
    BY <1>1 DEF handlers
  <2>5. \A q \in RunIds : Bridge!Exists(q)' \/ tabs'[q].state # "none" => delegating'[q] = "replied"
    BY <1>2, <1>6, <2>1, <2>4 DEF DInv, TabsInv, Calm, Bridge!Exists
  <2>6. \A q \in RunIds : dispatch'[q].status = "queued" => tabs'[q].state = "none"
    BY <1>2, <1>6, <2>1 DEF DInv, TabsInv, Calm
  <2>7. \A q \in RunIds : tabs'[q].state \in {"none", "open"} => ~tabs'[q].submitted
    BY <1>4, <1>6 DEF DInv, TabsInv
  <2>8. \A ack \in acks' : ack[3] = "sent" => tabs'[ack[2]].submitted
    <3> SUFFICES ASSUME NEW ack \in acks', ack[3] = "sent" PROVE tabs'[ack[2]].submitted
      OBVIOUS
    <3>1. ack \in acks /\ tabs[ack[2]].submitted
      BY <1>7 DEF DInv, TabsInv
    <3>2. ack[2] \in RunIds
      BY <1>5, <3>1
    <3> QED
      BY <2>2, <3>1, <3>2
  <2>9. \A q \in RunIds : tabs'[q].state # "none" => tabs'[q].client \in Clients
    BY <1>4, <1>6 DEF DInv, TabsInv
  <2> QED
    BY <2>3, <2>5, <2>6, <2>7, <2>8, <2>9 DEF TabsInv
<1>10. MarksMove /\ UNCHANGED fetching /\ UNCHANGED vars
  BY <1>1 DEF MarksMove, handlers
<1>11. \A q \in RunIds : Calm(dispatch[q], dispatch'[q]) \/ Truthful(q, dispatch[q].status)'
  <2> SUFFICES ASSUME NEW q \in RunIds, HandedOver(q) PROVE Truthful(q, dispatch[q].status)'
    BY <1>2
  <2>1. q \in used'
    BY <1>10 DEF DInv, TruthInv, HandedOver, Bridge!Exists, Truthful, vars
  <2> QED
    BY <2>1 DEF Truthful, HandedOver
<1>12. \A q \in RunIds : delegating'[q] # "none" => delegating[q] # "none"
  BY <1>1 DEF handlers
<1> QED
  BY <1>8, <1>9, <1>10, <1>11, <1>12, BridgeKeeps

LEMMA BrowserWaitKeeps ==
  ASSUME DInv, NEW c \in Clients, BrowserWait(c)
  PROVE  DInv'
<1>1. /\ UNCHANGED <<vars, handlers, browser, dispatch, order>>
      /\ wake' \in {wake, FALSE}
      /\ \E next \in {"woken", "idle"} : poll' = [poll EXCEPT ![c] = next]
  BY DEF BrowserWait, Bridge!Wake, Bridge!PollEnds
<1>2. AllCalm
  BY <1>1, DInvTyped, SameCalm
<1>3. Typed'
  <2>1. wake' \in BOOLEAN /\ poll' \in [Clients -> {"idle", "waiting", "woken"}]
    BY <1>1, DInvTyped
  <2>2. Bridge!BridgeTypeOK'
    BY <1>1, <2>1, DInvTyped DEF Bridge!BridgeTypeOK, BridgeDefined
  <2> QED
    BY <1>1, <2>2, DInvTyped DEF Typed, browser, handlers
<1>4. TabsInv'
  BY <1>1, TabsKept DEF handlers
<1>5. MarksMove
  BY <1>1 DEF MarksMove, handlers
<1> QED
  BY <1>1, <1>2, <1>3, <1>4, <1>5, BridgeKeeps DEF AllCalm, handlers

\* A tab's progress: it is never open again, what it submitted stays submitted, and
\* it reports as sent only what it submitted.
LEMMA TabMoves ==
  ASSUME DInv, NEW r \in RunIds, tabs[r].state # "none",
         NEW tab \in Tab, tabs' = [tabs EXCEPT ![r] = tab],
         tab.state \in {"decided", "reported", "closed"}, tabs[r].submitted => tab.submitted,
         tab.client = tabs[r].client,
         UNCHANGED <<vars, bridge, handlers>>,
         acks' \subseteq Clients \X RunIds \X {"sent", "failed"},
         \A ack \in acks' : ack \in acks \/ ack[3] = "failed" \/ (ack[2] = r /\ tab.submitted)
  PROVE  DInv'
<1>1. /\ Typed /\ tabs \in [RunIds -> Tab]
      /\ acks \subseteq Clients \X RunIds \X {"sent", "failed"}
  BY DInvTyped DEF Typed
<1>2. Typed'
  <2>1. Bridge!BridgeTypeOK'
    BY <1>1 DEF Typed, Bridge!BridgeTypeOK, bridge
  <2>2. tabs' \in [RunIds -> Tab]
    BY <1>1
  <2> QED
    BY <1>1, <2>1, <2>2 DEF Typed, handlers
<1>3. tabs'[r] = tab /\ \A q \in RunIds \ {r} : tabs'[q] = tabs[q]
  BY <1>1
<1>4. \A q \in RunIds : tabs[q].submitted => tabs'[q].submitted
  BY <1>3
<1>5. TabsInv'
  <2>1. dispatch' = dispatch /\ delegating' = delegating
    BY DEF bridge, handlers
  <2>2. SentMeansSubmitted'
    BY <1>4, <2>1 DEF DInv, TabsInv, SentMeansSubmitted
  <2>3. /\ delegating[r] = "replied" /\ dispatch[r].status # "queued"
    BY DEF DInv, TabsInv
  <2>4. \A q \in RunIds : Bridge!Exists(q)' \/ tabs'[q].state # "none" => delegating'[q] = "replied"
    BY <1>3, <2>1, <2>3 DEF DInv, TabsInv, Bridge!Exists
  <2>5. \A q \in RunIds : dispatch'[q].status = "queued" => tabs'[q].state = "none"
    BY <1>3, <2>1, <2>3 DEF DInv, TabsInv
  <2>6. \A q \in RunIds : tabs'[q].state \in {"none", "open"} => ~tabs'[q].submitted
    BY <1>3 DEF DInv, TabsInv
  <2>7. \A ack \in acks' : ack[3] = "sent" => tabs'[ack[2]].submitted
    <3> SUFFICES ASSUME NEW ack \in acks', ack[3] = "sent" PROVE tabs'[ack[2]].submitted
      OBVIOUS
    <3>1. CASE ack \in acks
      <4>1. ack[2] \in RunIds /\ tabs[ack[2]].submitted
        BY <1>1, <3>1 DEF DInv, TabsInv
      <4> QED
        BY <1>4, <4>1
    <3>2. CASE ack[2] = r /\ tab.submitted
      BY <1>3, <3>2
    <3> QED
      BY <3>1, <3>2
  <2>8. \A q \in RunIds : tabs'[q].state # "none" => tabs'[q].client \in Clients
    BY <1>3 DEF DInv, TabsInv
  <2> QED
    BY <2>2, <2>4, <2>5, <2>6, <2>7, <2>8 DEF TabsInv
<1>6. \A q \in RunIds : Calm(dispatch[q], dispatch'[q])
  BY DInvTyped, SameCalm DEF bridge, AllCalm
<1>7. MarksMove
  BY DEF MarksMove, handlers
<1> QED
  BY <1>2, <1>5, <1>6, <1>7, BridgeKeeps DEF handlers

LEMMA TabsKeep ==
  ASSUME DInv, NEW r \in RunIds, ContentScript(r) \/ DispatchResult(r) \/ TabRemoved(r)
  PROVE  DInv'
<1>0. /\ tabs \in [RunIds -> Tab] /\ acks \subseteq Clients \X RunIds \X {"sent", "failed"}
      /\ UNCHANGED <<vars, bridge, handlers>>
  BY DInvTyped DEF Typed, ContentScript, DispatchResult, TabRemoved
<1>1. CASE ContentScript(r)
  <2>1. PICK submitted \in BOOLEAN :
          tabs' = [tabs EXCEPT ![r] = [@ EXCEPT !.state = "decided", !.submitted = submitted]]
    BY <1>0, <1>1 DEF ContentScript
  <2> DEFINE tab == [tabs[r] EXCEPT !.state = "decided", !.submitted = submitted]
  <2>2. tab \in Tab /\ tab.state = "decided" /\ tab.client = tabs[r].client
      /\ tabs' = [tabs EXCEPT ![r] = tab]
    BY <1>0, <2>1 DEF Tab
  <2>3. tabs[r].state = "open" /\ ~tabs[r].submitted /\ acks' = acks
    BY <1>1 DEF ContentScript, DInv, TabsInv
  <2> HIDE DEF tab
  <2> QED
    BY <1>0, <2>2, <2>3, TabMoves
<1>2. CASE DispatchResult(r)
  <2> DEFINE tab == [tabs[r] EXCEPT !.state = "reported"]
             ack == <<tabs[r].client, r, IF tabs[r].submitted THEN "sent" ELSE "failed">>
  <2>1. tab \in Tab /\ tab.state = "reported" /\ tab.submitted = tabs[r].submitted
      /\ tab.client = tabs[r].client
    BY <1>0 DEF Tab
  <2>2. /\ tabs[r].state = "decided" /\ tabs' = [tabs EXCEPT ![r] = tab]
        /\ acks' = acks \cup {ack}
    BY <1>0, <1>2 DEF DispatchResult
  <2>3. tabs[r].client \in Clients
    BY <1>0, <2>2 DEF DInv, TabsInv
  <2>4. /\ ack \in Clients \X RunIds \X {"sent", "failed"} /\ ack[2] = r
        /\ ack[3] = "failed" \/ tabs[r].submitted
    BY <2>3
  <2> HIDE DEF tab, ack
  <2> QED
    BY <1>0, <2>1, <2>2, <2>4, TabMoves
<1>3. CASE TabRemoved(r)
  <2> DEFINE tab == [tabs[r] EXCEPT !.state = "closed"]
             ack == <<tabs[r].client, r, "failed">>
  <2>1. tab \in Tab /\ tab.state = "closed" /\ tab.submitted = tabs[r].submitted
      /\ tab.client = tabs[r].client
    BY <1>0 DEF Tab
  <2>2. /\ tabs[r].state # "none" /\ tabs' = [tabs EXCEPT ![r] = tab]
        /\ acks' \in {acks, acks \cup {ack}}
    BY <1>0, <1>3 DEF TabRemoved
  <2>3. tabs[r].client \in Clients
    BY <2>2 DEF DInv, TabsInv
  <2>4. ack \in Clients \X RunIds \X {"sent", "failed"} /\ ack[3] = "failed"
    BY <2>3
  <2> HIDE DEF tab, ack
  <2> QED
    BY <1>0, <2>1, <2>2, <2>4, TabMoves
<1> QED
  BY <1>1, <1>2, <1>3

\* An acknowledgement that arrives, late or twice, says no more than the tab did.
LEMMA AckArrivesKeeps ==
  ASSUME DInv, NEW a \in acks, AckArrives(a)
  PROVE  DInv'
<1>1. /\ acks' = acks \ {a} /\ UNCHANGED <<vars, handlers, tabs>>
      /\ Bridge!Acknowledge(a[1], a[2], a[3]) \/ UNCHANGED bridge
  BY DEF AckArrives
<1>2. a[2] \in RunIds /\ a[3] \in {"sent", "failed"}
      /\ acks \subseteq Clients \X RunIds \X {"sent", "failed"}
  BY DInvTyped DEF Typed
<1> DEFINE r == a[2]
           status == a[3]
<1>3. /\ dispatch' \in [RunIds -> Bridge!Dispatch] /\ UNCHANGED <<order, wake, poll>>
      /\ \A q \in RunIds \ {r} : Calm(dispatch[q], dispatch'[q])
      /\ \/ Calm(dispatch[r], dispatch'[r])
         \/ dispatch'[r].status \in {dispatch[r].status, status} /\ Bridge!Exists(r)
  <2>1. CASE Bridge!Acknowledge(a[1], a[2], a[3])
    BY <1>2, <2>1, DInvTyped, AcknowledgeEffect
  <2>2. CASE UNCHANGED bridge
    BY <1>2, <2>2, DInvTyped, SameCalm DEF bridge, AllCalm
  <2> QED
    BY <1>1, <2>1, <2>2
<1>4. status = "sent" => tabs[r].submitted
  BY DEF DInv, TabsInv
<1>5. r \in RunIds /\ status \in {"sent", "failed"}
  BY <1>2
<1> HIDE DEF r, status
<1>6. \A q \in RunIds : Calm(dispatch[q], dispatch'[q]) \/ Truthful(q, dispatch[q].status)'
  <2> SUFFICES ASSUME dispatch'[r].status \in {dispatch[r].status, status}, Bridge!Exists(r)
               PROVE  Truthful(r, dispatch[r].status)'
    BY <1>3
  <2>1. Truthful(r, dispatch[r].status)
    BY <1>5 DEF DInv, TruthInv
  <2> QED
    BY <1>1, <1>5, <2>1 DEF Truthful, Exists, vars
<1>7. Typed'
  <2>1. Bridge!BridgeTypeOK'
    BY <1>3, DInvTyped DEF Bridge!BridgeTypeOK
  <2> QED
    BY <1>1, <2>1, DInvTyped DEF Typed, handlers
<1>8. TabsInv'
  <2>1. \A q \in RunIds : dispatch'[q].status = dispatch[q].status
          \/ /\ dispatch[q].status # "none" /\ dispatch'[q].status # "queued"
             /\ dispatch'[q].status = "sent" => tabs[q].submitted
    BY <1>3, <1>4, <1>5 DEF Calm, Bridge!Exists
  <2> QED
    BY <1>1, <2>1 DEF DInv, TabsInv, SentMeansSubmitted, Bridge!Exists, handlers
<1>9. MarksMove
  BY <1>1 DEF MarksMove, handlers
<1> QED
  BY <1>1, <1>6, <1>7, <1>8, <1>9, BridgeKeeps DEF handlers

----------------------------------------------------------------------------
(* Restarts, and the theorems *)

LEMMA RestartAllKeeps ==
  ASSUME DInv, RestartAll
  PROVE  DInv'
<1>1. IInv'
  BY RestartAction DEF RestartAll, DInv
<1>2. /\ used' = used /\ cancelling' = {} /\ marks' = {} /\ fetching' = {}
      /\ finishing' = [r \in RunIds |-> "no"] /\ UNCHANGED browser
      /\ delegating' = [r \in RunIds |-> IF delegating[r] = "replied" THEN "replied" ELSE "none"]
      /\ dispatch' = [r \in RunIds |-> Bridge!NoDispatch]
  BY DEF RestartAll, Restart
<1>3. Typed'
  <2>1. Bridge!BridgeTypeOK'
    <3>1. order' = <<>> /\ wake' \in BOOLEAN /\ poll' = [c \in Clients |-> "idle"]
      BY DEF RestartAll
    <3>2. dispatch' \in [RunIds -> Bridge!Dispatch]
      BY <1>2, NoDispatchFits
    <3>3. order' \in Seq(RunIds)
      BY <3>1
    <3> QED
      BY <3>1, <3>2, <3>3 DEF Bridge!BridgeTypeOK
  <2> QED
    BY <1>2, <2>1, DInvTyped DEF Typed, browser
<1>4. CallsInv'
  BY <1>2 DEF DInv, CallsInv
<1>5. \A q \in RunIds : dispatch'[q].status = "none"
  BY <1>2, NoDispatchFits
<1>6. TruthInv'
  BY <1>2, <1>5 DEF TruthInv, Bridge!Exists
<1>7. TabsInv'
  <2>1. tabs' = tabs /\ acks' = acks
    BY <1>2 DEF browser
  <2>2. \A q \in RunIds : delegating[q] = "replied" => delegating'[q] = "replied"
    BY <1>2
  <2> QED
    BY <1>5, <2>1, <2>2 DEF DInv, TabsInv, SentMeansSubmitted, Bridge!Exists
<1> QED
  BY <1>1, <1>3, <1>4, <1>6, <1>7 DEF DInv, IInv, DeliveryTypeOK, Typed

LEMMA StutterKeeps ==
  ASSUME DInv, UNCHANGED allVars
  PROVE  DInv'
<1>1. UNCHANGED <<vars, bridge, handlers, browser>>
  BY DEF allVars
<1>2. [Next]_vars
  BY <1>1
<1>3. /\ delegating \in [RunIds -> {"none", "created", "prompted", "replied"}]
      /\ marks \subseteq RunIds \X Bridge!Marks /\ fetching \subseteq RunIds
  BY DInvTyped DEF Typed
<1>4. CallsMove /\ MarksMove
  BY <1>1 DEF CallsMove, MarksMove, vars, handlers
<1> QED
  BY <1>1, <1>2, <1>3, <1>4, HandlerKeeps DEF handlers

LEMMA NextDInv == DInv /\ [DeliveryNext]_allVars => DInv'
<1> SUFFICES ASSUME DInv, [DeliveryNext]_allVars PROVE DInv'
  OBVIOUS
<1>0. [Next]_vars
  BY DeliveryStepsManager
<1>1. ASSUME NEW r \in RunIds, HandlerStep(r) PROVE DInv'
  <2>1. CASE DelegateTask(r) \/ DelegateRouterTask(r) \/ ReadPrompt(r) \/ EnqueuePrompt(r)
    BY <1>0, <2>1, DelegateKeeps, ReadPromptKeeps, EnqueuePromptKeeps
  <2>2. CASE ClaimTask(r) \/ \E result \in {"completed", "failed"} : CompleteTask(r, result)
    BY <1>0, <2>2, ClaimTaskKeeps, CompleteTaskKeeps
  <2>3. CASE CompleteTaskEnd(r) \/ FetchCompleted(r) \/ CancelTask(r) \/ CancelTaskEnd(r)
    BY <1>0, <2>3, CompleteTaskEndKeeps, FetchCompletedKeeps, CancelTaskKeeps, CancelTaskEndKeeps
  <2>4. CASE \/ \E status \in Bridge!Marks : Mark(r, status)
             \/ Timer(r) \/ Watcher(r) \/ Executor(r)
    BY <1>0, <2>4, MarkKeeps, GoroutinesKeep
  <2> QED
    BY <1>1, <2>1, <2>2, <2>3, <2>4 DEF HandlerStep
<1>2. CASE BrowserStep
  BY <1>2, BrowserPollKeeps, BrowserWaitKeeps, TabsKeep, AckArrivesKeeps DEF BrowserStep
<1>3. CASE BridgeTime
  BY <1>3, BridgeTimeKeeps
<1>4. CASE RestartAll
  BY <1>4, RestartAllKeeps
<1>5. CASE UNCHANGED allVars
  BY <1>5, StutterKeeps
<1> QED
  BY <1>1, <1>2, <1>3, <1>4, <1>5 DEF DeliveryNext

\* The inductive invariant of the composition holds in every reachable state.
THEOREM DeliveryInvariant == DeliverySpec => []DInv
  BY InitDInv, NextDInv, PTL DEF DeliverySpec

\* The state of handlers, bridge, browser and manager has its types.
THEOREM DeliveryTyped == DeliverySpec => []DeliveryTypeOK
<1>1. DInv => DeliveryTypeOK
  BY DEF DInv
<1> QED
  BY <1>1, DeliveryInvariant, PTL

(***************************************************************************)
(* The handlers tell the bridge about a run only after they have left the  *)
(* manager, so marks of racing calls arrive in any order; yet through all  *)
(* claims, completions, cancellations, timeouts, trims and restarts the    *)
(* dispatch never says more than the run.                                  *)
(***************************************************************************)
THEOREM DeliveryNeverAhead == DeliverySpec => []BridgeNeverAhead
<1>1. DInv => BridgeNeverAhead
  <2> SUFFICES ASSUME DInv, NEW r \in RunIds, Exists(r)
               PROVE  /\ dispatch[r].status = "claimed"   => runs[r].status # "waiting_worker"
                      /\ dispatch[r].status = "completed" => runs[r].status = "completed"
                      /\ dispatch[r].status = "cancelled" => runs[r].done
    BY DEF BridgeNeverAhead
  <2>1. Bridge!Exists(r) => Truthful(r, dispatch[r].status)
    BY DEF DInv, TruthInv
  <2> QED
    BY <2>1 DEF Truthful, Bridge!Exists
<1> QED
  BY <1>1, DeliveryInvariant, PTL

\* "sent" is recorded only of a prompt that a tab submitted, however late, often or
\* out of order the extension's acknowledgements arrive.
THEOREM SentWasSubmitted == DeliverySpec => []SentMeansSubmitted
<1>1. DInv => SentMeansSubmitted
  BY DEF DInv, TabsInv
<1> QED
  BY <1>1, DeliveryInvariant, PTL

(***************************************************************************)
(* However the handlers, the browser and the restarts interleave, what      *)
(* happens to the bridge is one of its own operations on typed arguments,   *)
(* or a restart.                                                            *)
(***************************************************************************)
LEMMA DeliveryStepsBridge ==
  DeliveryTypeOK /\ [DeliveryNext]_allVars => [Bridge!BridgeNext \/ RestartAll]_bridge
<1> SUFFICES ASSUME DeliveryTypeOK, [DeliveryNext]_allVars
             PROVE  [Bridge!BridgeNext \/ RestartAll]_bridge
  OBVIOUS
<1>1. ASSUME NEW r \in RunIds, HandlerStep(r) PROVE [Bridge!BridgeNext]_bridge
  <2>1. CASE EnqueuePrompt(r)
    BY <2>1 DEF EnqueuePrompt, Bridge!BridgeNext
  <2>2. ASSUME NEW status \in Bridge!Marks, Mark(r, status) PROVE [Bridge!BridgeNext]_bridge
    BY <2>2 DEF Mark, Bridge!BridgeNext
  <2>3. CASE UNCHANGED bridge
    BY <2>3
  <2> QED
    BY <1>1, <2>1, <2>2, <2>3 DEF HandlerStep, DelegateTask, DelegateRouterTask, ReadPrompt,
       ClaimTask, CompleteTask, CompleteTaskEnd, FetchCompleted, CancelTask, CancelTaskEnd,
       Timer, Watcher, Executor
<1>2. ASSUME NEW c \in Clients, BrowserPoll(c) \/ BrowserWait(c) PROVE Bridge!BridgeNext
  BY <1>2 DEF BrowserPoll, BrowserWait, Bridge!BridgeNext, Bridge!ClientStep
<1>3. ASSUME NEW r \in RunIds, ContentScript(r) \/ DispatchResult(r) \/ TabRemoved(r)
      PROVE  UNCHANGED bridge
  BY <1>3 DEF ContentScript, DispatchResult, TabRemoved
<1>4. ASSUME NEW a \in acks, AckArrives(a) PROVE [Bridge!BridgeNext]_bridge
  <2>1. a[1] \in Clients /\ a[2] \in RunIds /\ a[3] \in {"sent", "failed"}
    BY DEF DeliveryTypeOK
  <2> QED
    BY <1>4, <2>1 DEF AckArrives, Bridge!BridgeNext, Bridge!ClientStep
<1>5. CASE BridgeTime
  BY <1>5 DEF BridgeTime, Bridge!BridgeNext
<1>6. CASE UNCHANGED allVars
  BY <1>6 DEF allVars
<1> QED
  BY <1>1, <1>2, <1>3, <1>4, <1>5, <1>6 DEF DeliveryNext, BrowserStep

\* The bridge of the composition is RelayBridge, restarted now and then.
THEOREM DeliveryDrivesBridge == DeliverySpec => DrivesBridge
<1>1. DeliveryInit => Bridge!BridgeInit
  BY DEF DeliveryInit
<1> QED
  BY <1>1, DeliveryTyped, DeliveryStepsBridge, PTL DEF DeliverySpec, DrivesBridge

(***************************************************************************)
(* Who gets a prompt has it alone: a poll hands over only what is queued,   *)
(* and what is queued was never handed over before (TabsInv), not even in   *)
(* an earlier life of the server, as a run's prompt is enqueued only once.  *)
(***************************************************************************)
LEMMA TabSteps == DInv /\ [DeliveryNext]_allVars => [\A r \in RunIds : TabStep(r)]_allVars
<1> SUFFICES ASSUME DInv, [DeliveryNext]_allVars, NEW q \in RunIds PROVE TabStep(q)
  OBVIOUS
<1>1. tabs \in [RunIds -> Tab]
  BY DInvTyped DEF Typed
<1>2. CASE UNCHANGED tabs
  BY <1>2 DEF TabStep
<1>3. ASSUME NEW c \in Clients, BrowserPoll(c) PROVE TabStep(q)
  <2>1. CASE dispatch'[q].client # NoClient /\ dispatch[q].client = NoClient
    <3>1. dispatch[q].status = "queued"
      BY <1>3, <2>1, DInvTyped, PollEffect DEF BrowserPoll, Calm, HandedOver
    <3> QED
      BY <1>3, <2>1, <3>1 DEF TabStep, DInv, TabsInv
  <2>2. CASE ~(dispatch'[q].client # NoClient /\ dispatch[q].client = NoClient)
    BY <1>3, <2>2 DEF BrowserPoll, TabStep
  <2> QED
    BY <2>1, <2>2
<1>4. ASSUME NEW r \in RunIds, ContentScript(r) \/ DispatchResult(r) \/ TabRemoved(r)
      PROVE  TabStep(q)
  <2>1. /\ q # r => tabs'[q] = tabs[q]
        /\ tabs'[r].state # "open"
        /\ tabs[r].submitted => tabs'[r].submitted
    BY <1>1, <1>4 DEF ContentScript, DispatchResult, TabRemoved, DInv, TabsInv, Tab
  <2> QED
    BY <2>1 DEF TabStep
<1> QED
  BY <1>2, <1>3, <1>4 DEF DeliveryNext, HandlerStep, BrowserStep, DelegateTask,
     DelegateRouterTask, ReadPrompt, EnqueuePrompt, ClaimTask, CompleteTask, CompleteTaskEnd,
     FetchCompleted, CancelTask, CancelTaskEnd, Mark, Timer, Watcher, Executor, BrowserWait,
     AckArrives, BridgeTime, RestartAll, allVars, browser

\* No run's prompt is put into two tabs, across restarts too.
THEOREM TabsOpenOnce == DeliverySpec => OneTabPerRun
  BY DeliveryInvariant, TabSteps, PTL DEF DeliverySpec, OneTabPerRun
=============================================================================
