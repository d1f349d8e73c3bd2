---------------------------- MODULE RelayDelivery ----------------------------
(***************************************************************************)
(* How a relay task reaches a worker: the MCP tool handlers of             *)
(* agent_tools_v2.go composed with the agent manager (AgentManager), the   *)
(* bridge (RelayBridge) and the browser extension (background.js,          *)
(* content.js).  No lock spans two of them, so a handler that calls the    *)
(* manager and then the bridge is two steps here, and every other handler, *)
(* timer and browser event may come in between.                            *)
(***************************************************************************)
EXTENDS AgentManager

CONSTANTS Clients, NoClient

VARIABLES
  dispatch, order, wake, poll,   \* the bridge, see RelayBridge
  delegating,   \* handleDelegateTask's position for each run
  marks,        \* markRun calls handlers still owe: <<run, status>>
  fetching,     \* runs whose handleCompleteAgentTask is about to getRun
  tabs,         \* the browser tab opened for a run, and its client
  acks          \* acknowledgements on their way: <<client, run, status>>

Bridge == INSTANCE RelayBridge WITH Runs <- RunIds

bridge   == <<dispatch, order, wake, poll>>
handlers == <<delegating, marks, fetching>>
browser  == <<tabs, acks>>
allVars  == <<vars, bridge, handlers, browser>>

Tab == [state : {"none", "open", "decided", "reported", "closed"},
        submitted : BOOLEAN,      \* content.js clicked the send button
        client : Clients \cup {NoClient}]

NoTab == [state |-> "none", submitted |-> FALSE, client |-> NoClient]

DeliveryTypeOK ==
  /\ TypeOK
  /\ Bridge!BridgeTypeOK
  /\ delegating \in [RunIds -> {"none", "created", "prompted", "replied"}]
  /\ marks \subseteq RunIds \X Bridge!Marks
  /\ fetching \subseteq RunIds
  /\ tabs \in [RunIds -> Tab]
  /\ acks \subseteq Clients \X RunIds \X {"sent", "failed"}

----------------------------------------------------------------------------
(* handleDelegateTask *)

DelegateTask(r) ==
  /\ \E s \in SlotIds : DelegateRelay(r, s)
  /\ delegating' = [delegating EXCEPT ![r] = "created"]
  /\ UNCHANGED <<bridge, marks, fetching, browser>>

\* A run of a 9Router slot has no worker prompt and no dispatch.
DelegateRouterTask(r) ==
  /\ \E s \in SlotIds : DelegateRouter(r, s)
  /\ UNCHANGED <<bridge, handlers, browser>>

\* chatGPTRelayWorkerPrompt: only a run that still waits for its worker has one.
ReadPrompt(r) ==
  /\ delegating[r] = "created"
  /\ delegating' = [delegating EXCEPT ![r] =
       IF Exists(r) /\ runs[r].code /\ runs[r].status = "waiting_worker"
       THEN "prompted" ELSE "none"]
  /\ UNCHANGED <<vars, bridge, marks, fetching, browser>>

\* The prompt goes to the bridge and, in the reply, to the main conversation.
EnqueuePrompt(r) ==
  /\ delegating[r] = "prompted"
  /\ Bridge!Enqueue(r)
  /\ delegating' = [delegating EXCEPT ![r] = "replied"]
  /\ UNCHANGED <<vars, marks, fetching, browser>>

----------------------------------------------------------------------------
(* The worker's tools, cancellation, and the marks they leave in the bridge *)

\* A worker learns the code from the prompt a tab submitted or from a person
\* who pasted worker_prompt of the reply, both after the enqueue.
KnowsCode(r) == delegating[r] = "replied"

ClaimTask(r) ==
  /\ KnowsCode(r)
  /\ Claim(r)
  /\ marks' = marks \cup {<<r, "claimed">>}
  /\ UNCHANGED <<bridge, delegating, fetching, browser>>

\* The worker has its token once handleClaimAgentTask has returned, that is
\* after the claim's markRun.
CompleteTask(r, result) ==
  /\ <<r, "claimed">> \notin marks
  /\ CompleteBegin(r, result)
  /\ UNCHANGED <<bridge, handlers, browser>>

CompleteTaskEnd(r) ==
  /\ CompleteEnd(r)
  /\ fetching' = fetching \cup {r}
  /\ UNCHANGED <<bridge, delegating, marks, browser>>

\* completeChatGPTRelayTask's getRun: a run trimmed meanwhile yields the zero
\* AgentRun, whose markRun finds no dispatch.
FetchCompleted(r) ==
  /\ r \in fetching
  /\ fetching' = fetching \ {r}
  /\ marks' = IF Exists(r) THEN marks \cup {<<r, runs[r].status>>} ELSE marks
  /\ UNCHANGED <<vars, bridge, delegating, browser>>

\* Mutant of CancelTask: the bridge is told before the run is finished.
CancelTaskMarksFirst(r) ==
  /\ CancelBegin(r)
  /\ marks' = marks \cup {<<r, "cancelled">>}
  /\ UNCHANGED <<bridge, delegating, fetching, browser>>

\* handleCancelAgentRun and the dashboard's handleRunItem.
CancelTask(r) ==
  /\ CancelBegin(r)
  /\ UNCHANGED <<bridge, handlers, browser>>

CancelTaskEnd(r) ==
  /\ CancelEnd(r)
  /\ marks' = marks \cup {<<r, "cancelled">>}
  /\ UNCHANGED <<bridge, delegating, fetching, browser>>

Mark(r, status) ==
  /\ <<r, status>> \in marks
  /\ marks' = marks \ {<<r, status>>}
  /\ IF Bridge!Exists(r) THEN Bridge!MarkRun(r, status) ELSE UNCHANGED bridge
  /\ UNCHANGED <<vars, delegating, fetching, browser>>

\* The run's timer and the goroutines of the manager tell the bridge nothing.
Timer(r) == Deadline(r) /\ UNCHANGED <<bridge, handlers, browser>>

Watcher(r) == Watch(r) /\ UNCHANGED <<bridge, handlers, browser>>

Executor(r) == Execute(r) /\ UNCHANGED <<bridge, handlers, browser>>

----------------------------------------------------------------------------
(* The extension *)

\* pollOnce and deliver.  The response or the service worker may be lost after
\* nextLocked has leased the dispatch; opening the tab may fail.
BrowserPoll(c) ==
  /\ Bridge!Poll(c)
  /\ LET handed == {r \in RunIds : dispatch'[r].client # NoClient /\ dispatch[r].client = NoClient}
     IN  \/ /\ tabs' = [r \in RunIds |-> IF r \in handed THEN [NoTab EXCEPT !.state = "open", !.client = c]
                                                         ELSE tabs[r]]
            /\ UNCHANGED acks
         \/ /\ handed # {}
            /\ acks' \in {acks, acks \cup {<<c, r, "failed">> : r \in handed}}
            /\ UNCHANGED tabs
  /\ UNCHANGED <<vars, handlers>>

BrowserWait(c) ==
  /\ Bridge!Wake(c) \/ Bridge!PollEnds(c)
  /\ UNCHANGED <<vars, handlers, browser>>

\* content.js acceptPending: the prompt is submitted, or the attempt fails
\* (no composer, expired prompt).
ContentScript(r) ==
  /\ tabs[r].state = "open"
  /\ \E submitted \in BOOLEAN :
       tabs' = [tabs EXCEPT ![r].state = "decided", ![r].submitted = submitted]
  /\ UNCHANGED <<vars, bridge, handlers, acks>>

\* Mutant of DispatchResult: every attempt is reported as sent.
DispatchResultSent(r) ==
  /\ tabs[r].state = "decided"
  /\ tabs' = [tabs EXCEPT ![r].state = "reported"]
  /\ acks' = acks \cup {<<tabs[r].client, r, "sent">>}
  /\ UNCHANGED <<vars, bridge, handlers>>

\* The tautline-dispatch-result listener.
DispatchResult(r) ==
  /\ tabs[r].state = "decided"
  /\ tabs' = [tabs EXCEPT ![r].state = "reported"]
  /\ acks' = acks \cup {<<tabs[r].client, r, IF tabs[r].submitted THEN "sent" ELSE "failed">>}
  /\ UNCHANGED <<vars, bridge, handlers>>

\* tabs.onRemoved: reads the pending entry before or after a dispatch-result
\* listener has cleared it.
TabRemoved(r) ==
  /\ tabs[r].state \in {"open", "decided", "reported"}
  /\ tabs' = [tabs EXCEPT ![r].state = "closed"]
  /\ \/ acks' = acks \cup {<<tabs[r].client, r, "failed">>}
     \/ tabs[r].state = "reported" /\ UNCHANGED acks
  /\ UNCHANGED <<vars, bridge, handlers>>

\* The POST to /ack arrives (an unknown dispatch is refused) or is lost.
AckArrives(a) ==
  /\ a \in acks
  /\ acks' = acks \ {a}
  /\ \/ Bridge!Acknowledge(a[1], a[2], a[3])
     \/ UNCHANGED bridge
  /\ UNCHANGED <<vars, handlers, tabs>>

----------------------------------------------------------------------------
\* A crash or the hand-off of SWITCH_TO_TAUTLINE restarts manager and bridge
\* with empty memory; open tabs and acknowledgements outlive it.
RestartAll ==
  /\ Restart
  /\ dispatch' = [r \in RunIds |-> Bridge!NoDispatch]
  /\ order' = <<>> /\ wake' = FALSE
  /\ poll' = [c \in Clients |-> "idle"]
  /\ delegating' = [r \in RunIds |-> IF delegating[r] = "replied" THEN "replied" ELSE "none"]
  /\ marks' = {} /\ fetching' = {}
  /\ UNCHANGED browser

BridgeTime ==
  /\ Bridge!Time \/ Bridge!Cleanup
  /\ UNCHANGED <<vars, handlers, browser>>

DeliveryInit ==
  /\ Init
  /\ Bridge!BridgeInit
  /\ delegating = [r \in RunIds |-> "none"]
  /\ marks = {} /\ fetching = {}
  /\ tabs = [r \in RunIds |-> NoTab]
  /\ acks = {}

HandlerStep(r) ==
  \/ DelegateTask(r) \/ DelegateRouterTask(r) \/ ReadPrompt(r) \/ EnqueuePrompt(r)
  \/ ClaimTask(r)
  \/ \E result \in {"completed", "failed"} : CompleteTask(r, result)
  \/ CompleteTaskEnd(r) \/ FetchCompleted(r)
  \/ CancelTask(r) \/ CancelTaskEnd(r)
  \/ \E status \in Bridge!Marks : Mark(r, status)
  \/ Timer(r) \/ Watcher(r) \/ Executor(r)

BrowserStep ==
  \/ \E c \in Clients : BrowserPoll(c) \/ BrowserWait(c)
  \/ \E r \in RunIds : ContentScript(r) \/ DispatchResult(r) \/ TabRemoved(r)
  \/ \E a \in acks : AckArrives(a)

DeliveryNext ==
  \/ \E r \in RunIds : HandlerStep(r)
  \/ BrowserStep
  \/ BridgeTime
  \/ RestartAll

DeliverySpec == DeliveryInit /\ [][DeliveryNext]_allVars

(***************************************************************************)
(* Goroutines that can run do run, timers fire, and a call that is between *)
(* two critical sections reaches the second.  A router request is only     *)
(* sure to return once its context has ended.  Nothing makes anyone        *)
(* delegate, claim, complete or cancel, nor a browser poll or report.      *)
(***************************************************************************)
DeliveryFairness == \A r \in RunIds :
  /\ WF_allVars(Timer(r))
  /\ WF_allVars(Watcher(r))
  /\ WF_allVars((go[r] = "call" => ctx[r] # "live") /\ Executor(r))
  /\ WF_allVars(CancelTaskEnd(r))
  /\ WF_allVars(CompleteTaskEnd(r))

FairDeliverySpec == DeliverySpec /\ DeliveryFairness

----------------------------------------------------------------------------
(* Properties *)

\* What get_agent_run shows as delivery state is never ahead of the run: the
\* bridge says claimed only of a run that no longer waits for its worker (a late
\* mark may say it of one that was cancelled since), completed only of a
\* completed run, cancelled only of a finished one -- in every order in which
\* the marks of racing handlers arrive.
BridgeNeverAhead ==
  \A r \in RunIds : Exists(r) =>
    /\ dispatch[r].status = "claimed"   => runs[r].status # "waiting_worker"
    /\ dispatch[r].status = "completed" => runs[r].status = "completed"
    /\ dispatch[r].status = "cancelled" => runs[r].done

\* "Laju Relay Bridge submitted the worker prompt to a fresh ChatGPT tab" is
\* shown only when a tab did submit it, despite duplicate and late
\* acknowledgements of the dispatch-result and tab-removed listeners.
SentMeansSubmitted ==
  \A r \in RunIds : dispatch[r].status = "sent" => tabs[r].submitted

\* A run's prompt is never put into a second tab and what was submitted is not
\* taken back, although the bridge forgets at a restart what it handed out while
\* tabs, and the conversations that know the prompt, live on.
TabStep(r) ==
  /\ tabs'[r].state = "open" => tabs[r].state = "none" \/ tabs'[r] = tabs[r]
  /\ tabs[r].submitted => tabs'[r].submitted

OneTabPerRun == [][\A r \in RunIds : TabStep(r)]_allVars

\* The bridge is driven only through the operations of RelayBridge: between
\* restarts, all that RelayBridge's runs and proofs show of it applies here.
DrivesBridge == Bridge!BridgeInit /\ [][Bridge!BridgeNext \/ RestartAll]_bridge

\* Every delegated run of either backend ends, whatever the worker, the browser
\* and the callers do or fail to do: silence, hanging router requests, lost
\* prompts and half-done completions all end by the run's timeout at the
\* latest.  (A run that dies with the process is gone.)
RunsFinish == \A r \in RunIds : Unfinished(r) ~> ~Unfinished(r)

=============================================================================
