--------------------------- MODULE ProcessSessions ---------------------------
(***************************************************************************)
(* processSessionManager of process_sessions.go: commands that outlive the *)
(* MCP call that started them.  exec_command and write_stdin calls, the    *)
(* goroutine that waits for each process, the five-minute timers and the   *)
(* server's shutdown share the session map (m.mu), a lock per session      *)
(* (session.mu) and a lock per output buffer; no operation holds two of    *)
(* them, so a call is a sequence of steps and its position is in `calls`.  *)
(*                                                                         *)
(* Output is counted in chunks: the n-th chunk a process writes is the     *)
(* number n, the buffer holds BufferLimit chunks and one reply at most     *)
(* ReplyLimit.  Abstracted: workspace ownership, redaction and texts, exit *)
(* codes, which process tree a shell grows into (a tree is alive while it  *)
(* holds the pipes), and what the process does with its input.             *)
(***************************************************************************)
EXTENDS Integers, FiniteSets

CONSTANTS
  Sessions,      \* ids randomHex returns, each at most once
  Calls,         \* concurrent tool calls
  NoSession,
  Requests,      \* sets of write_stdin arguments, subsets of Arguments
  BufferLimit,   \* processSessionBufferBytes
  ReplyLimit,    \* max_output_bytes
  MaxChunks      \* bound of the model: chunks a process writes

Arguments == {"chars", "close_stdin", "interrupt", "terminate"}

ASSUME SessionAssumption ==
  /\ NoSession \notin Sessions
  /\ Requests \subseteq SUBSET Arguments
  /\ BufferLimit \in Nat \ {0} /\ ReplyLimit \in Nat \ {0} /\ MaxChunks \in Nat

VARIABLES
  sessions,   \* keys of m.sessions
  running,    \* session.running
  stdin,      \* session.stdin is open
  cleanup,    \* session.cleanup is an armed timer
  proc,       \* "none", "alive", "exited", then "reaped" by cmd.Wait
  killed,     \* forceManagedProcess reached the tree
  written,    \* chunks written so far
  buffer,     \* output.data
  dropped,    \* chunks counted by output.dropped since the last drain
  calls,      \* where each tool call stands
  delivered,  \* chunks that replies have returned
  reported,   \* chunks whose loss a reply has reported (Truncated)
  phase,      \* "serving", "killing", "closing" or "exited"
  doomed      \* sessions shutdown has still to visit

procVars   == <<proc, killed, written>>
outputVars == <<buffer, dropped>>
replyVars  == <<delivered, reported>>
stopVars   == <<phase, doomed>>
vars == <<sessions, running, stdin, cleanup, procVars, outputVars, calls, replyVars, stopVars>>

Chunks == 1 .. MaxChunks

Call == [at      : {"idle", "started", "held", "acting", "waiting", "drained", "removing", "stopping"},
         session : Sessions \cup {NoSession},
         todo    : SUBSET Arguments,     \* arguments not acted on yet
         running : BOOLEAN,              \* interact's copy of session.running
         output  : SUBSET Chunks,        \* what the reply will return
         lost    : SUBSET Chunks]        \* what its Truncated flag stands for

NoCall == [at |-> "idle", session |-> NoSession, todo |-> {}, running |-> FALSE,
           output |-> {}, lost |-> {}]

SessionsTypeOK ==
  /\ sessions \subseteq Sessions
  /\ running \in [Sessions -> BOOLEAN]
  /\ stdin \in [Sessions -> BOOLEAN]
  /\ cleanup \in [Sessions -> BOOLEAN]
  /\ proc \in [Sessions -> {"none", "alive", "exited", "reaped"}]
  /\ killed \subseteq Sessions
  /\ written \in [Sessions -> 0 .. MaxChunks]
  /\ buffer \in [Sessions -> SUBSET Chunks]
  /\ dropped \in [Sessions -> SUBSET Chunks]
  /\ calls \in [Calls -> Call]
  /\ delivered \in [Sessions -> SUBSET Chunks]
  /\ reported \in [Sessions -> SUBSET Chunks]
  /\ phase \in {"serving", "killing", "closing", "exited"}
  /\ doomed \subseteq Sessions

----------------------------------------------------------------------------
(* Helpers *)

At(c, at) == calls[c].at = at /\ phase # "exited"
Moves(c, at) == calls' = [calls EXCEPT ![c].at = at]
Returns(c)   == calls' = [calls EXCEPT ![c] = NoCall]

\* The k lowest numbers of a set of chunks: buffers drop and replies keep the
\* oldest output first.
Oldest(S, k) == {n \in S : Cardinality({m \in S : m <= n}) <= k}

----------------------------------------------------------------------------
(* The processes *)

\* Mutant of Write: a full buffer drops the newest output.
WriteDropsNewest(s) ==
  /\ proc[s] = "alive" /\ phase # "exited"
  /\ written[s] < MaxChunks
  /\ written' = [written EXCEPT ![s] = @ + 1]
  /\ LET all  == buffer[s] \cup {written[s] + 1}
         drop == all \ Oldest(all, BufferLimit)
     IN  /\ buffer' = [buffer EXCEPT ![s] = all \ drop]
         /\ dropped' = [dropped EXCEPT ![s] = @ \cup drop]
  /\ UNCHANGED <<sessions, running, stdin, cleanup, proc, killed, calls, replyVars, stopVars>>

\* processOutputBuffer.Write of one chunk: the oldest bytes make room.
Write(s) ==
  /\ proc[s] = "alive" /\ phase # "exited"
  /\ written[s] < MaxChunks
  /\ written' = [written EXCEPT ![s] = @ + 1]
  /\ LET all  == buffer[s] \cup {written[s] + 1}
         drop == Oldest(all, Cardinality(all) - BufferLimit)
     IN  /\ buffer' = [buffer EXCEPT ![s] = all \ drop]
         /\ dropped' = [dropped EXCEPT ![s] = @ \cup drop]
  /\ UNCHANGED <<sessions, running, stdin, cleanup, proc, killed, calls, replyVars, stopVars>>

\* By itself, or because it was interrupted or killed.
Exit(s) ==
  /\ proc[s] = "alive"
  /\ proc' = [proc EXCEPT ![s] = "exited"]
  /\ UNCHANGED <<sessions, running, stdin, cleanup, killed, written, outputVars, calls,
                 replyVars, stopVars>>

\* wait: cmd.Wait returns once the process is reaped and its output copied ...
Reap(s) ==
  /\ proc[s] = "exited" /\ s \in sessions /\ phase # "exited"
  /\ proc' = [proc EXCEPT ![s] = "reaped"]
  /\ UNCHANGED <<sessions, running, stdin, cleanup, killed, written, outputVars, calls,
                 replyVars, stopVars>>

\* Mutant of wait: no timer is armed.
waitWithoutTimer(s) ==
  /\ proc[s] = "reaped" /\ running[s] /\ phase # "exited"
  /\ running' = [running EXCEPT ![s] = FALSE]
  /\ stdin' = [stdin EXCEPT ![s] = FALSE]
  /\ UNCHANGED <<sessions, cleanup, procVars, outputVars, calls, replyVars, stopVars>>

\* ... and then the session is marked finished and its timer armed.
wait(s) ==
  /\ proc[s] = "reaped" /\ running[s] /\ phase # "exited"
  /\ running' = [running EXCEPT ![s] = FALSE]
  /\ stdin' = [stdin EXCEPT ![s] = FALSE]
  /\ cleanup' = [cleanup EXCEPT ![s] = TRUE]
  /\ UNCHANGED <<sessions, procVars, outputVars, calls, replyVars, stopVars>>

\* The timer calls remove, whose second half finds its own timer.
CleanupFires(s) ==
  /\ cleanup[s] /\ phase # "exited"
  /\ sessions' = sessions \ {s}
  /\ cleanup' = [cleanup EXCEPT ![s] = FALSE]
  /\ UNCHANGED <<running, stdin, procVars, outputVars, calls, replyVars, stopVars>>

----------------------------------------------------------------------------
(* exec_command: start *)

\* cmd.Start.  Requests are accepted until httpServer.Shutdown, and one that
\* was accepted may get here even later.
Start(c, s) ==
  /\ At(c, "idle")
  /\ proc[s] = "none"
  /\ proc' = [proc EXCEPT ![s] = "alive"]
  /\ running' = [running EXCEPT ![s] = TRUE]
  /\ stdin' = [stdin EXCEPT ![s] = TRUE]
  /\ calls' = [calls EXCEPT ![c] = [NoCall EXCEPT !.at = "started", !.session = s]]
  /\ UNCHANGED <<sessions, cleanup, killed, written, outputVars, replyVars, stopVars>>

Register(c) ==
  /\ At(c, "started")
  /\ sessions' = sessions \cup {calls[c].session}
  /\ Moves(c, "waiting")
  /\ UNCHANGED <<running, stdin, cleanup, procVars, outputVars, replyVars, stopVars>>

----------------------------------------------------------------------------
(* write_stdin: interact *)

\* getOwned.
GetOwned(c, s, request) ==
  /\ At(c, "idle")
  /\ s \in sessions
  /\ calls' = [calls EXCEPT ![c] = [NoCall EXCEPT !.at = "held", !.session = s, !.todo = request]]
  /\ UNCHANGED <<sessions, running, stdin, cleanup, procVars, outputVars, replyVars, stopVars>>

\* The copy of session.running that the rest of interact relies on.
ReadRunning(c) ==
  /\ At(c, "held")
  /\ calls' = [calls EXCEPT ![c] = [@ EXCEPT !.at = "acting", !.running = running[calls[c].session]]]
  /\ UNCHANGED <<sessions, running, stdin, cleanup, procVars, outputVars, replyVars, stopVars>>

\* The arguments are acted on in this order.
IsNext(c, argument) ==
  /\ At(c, "acting")
  /\ argument \in calls[c].todo
  /\ argument # "chars" => "chars" \notin calls[c].todo
  /\ argument = "interrupt" => "close_stdin" \notin calls[c].todo
  /\ argument = "terminate" => calls[c].todo = {"terminate"}

Acted(c, argument) == calls' = [calls EXCEPT ![c].todo = @ \ {argument}]

Blocked(c) ==
  /\ IsNext(c, "chars") /\ calls[c].running
  /\ proc[calls[c].session] = "alive" /\ stdin[calls[c].session]

\* chars: refused for a finished session; otherwise a write to the pipe, which
\* lasts until the process reads, and fails once the pipe is closed.
WriteChars(c) ==
  /\ IsNext(c, "chars")
  /\ IF Blocked(c) THEN Acted(c, "chars") ELSE Returns(c)
  /\ UNCHANGED <<sessions, running, stdin, cleanup, procVars, outputVars, replyVars, stopVars>>

\* close_stdin: closing twice is an error, forgiven when the session finished.
CloseStdin(c) ==
  LET s == calls[c].session
  IN  /\ IsNext(c, "close_stdin")
      /\ stdin' = [stdin EXCEPT ![s] = FALSE]
      /\ IF ~stdin[s] /\ calls[c].running THEN Returns(c) ELSE Acted(c, "close_stdin")
      /\ UNCHANGED <<sessions, running, cleanup, procVars, outputVars, replyVars, stopVars>>

\* A signal to the process group; no such group is an error.
Signal(c, argument) ==
  LET s == calls[c].session
  IN  /\ IsNext(c, argument)
      /\ IF calls[c].running /\ proc[s] = "reaped" THEN Returns(c) ELSE Acted(c, argument)
      /\ killed' = IF argument = "terminate" /\ calls[c].running /\ proc[s] # "reaped"
                   THEN killed \cup {s} ELSE killed
      /\ UNCHANGED <<sessions, running, stdin, cleanup, proc, written, outputVars,
                     replyVars, stopVars>>

DoneActing(c) ==
  /\ At(c, "acting") /\ calls[c].todo = {}
  /\ Moves(c, "waiting")
  /\ UNCHANGED <<sessions, running, stdin, cleanup, procVars, outputVars, replyVars, stopVars>>

----------------------------------------------------------------------------
(* snapshot and remove, the tail of both calls *)

\* Mutant of Drain: what did not fit in the reply is not reported.
DrainSilently(c) ==
  LET s == calls[c].session
  IN  /\ At(c, "waiting")
      /\ calls' = [calls EXCEPT ![c] = [@ EXCEPT !.at = "drained", !.lost = dropped[s],
                                                 !.output = Oldest(buffer[s], ReplyLimit)]]
      /\ buffer' = [buffer EXCEPT ![s] = {}]
      /\ dropped' = [dropped EXCEPT ![s] = {}]
      /\ UNCHANGED <<sessions, running, stdin, cleanup, procVars, replyVars, stopVars>>

\* waitForProcessSession ends by session.done or by its timer, at any moment;
\* drain then takes the whole buffer and keeps what fits in the reply.
Drain(c) ==
  LET s == calls[c].session
      fits == Oldest(buffer[s], ReplyLimit)
  IN  /\ At(c, "waiting")
      /\ calls' = [calls EXCEPT ![c] = [@ EXCEPT !.at = "drained", !.output = fits,
                                                 !.lost = dropped[s] \cup (buffer[s] \ fits)]]
      /\ buffer' = [buffer EXCEPT ![s] = {}]
      /\ dropped' = [dropped EXCEPT ![s] = {}]
      /\ UNCHANGED <<sessions, running, stdin, cleanup, procVars, replyVars, stopVars>>

\* Mutant of Snapshot: the session is removed whether it runs or not.
SnapshotRemoves(c) ==
  LET s == calls[c].session
  IN  /\ At(c, "drained")
      /\ delivered' = [delivered EXCEPT ![s] = @ \cup calls[c].output]
      /\ reported' = [reported EXCEPT ![s] = @ \cup calls[c].lost]
      /\ calls' = [calls EXCEPT ![c] = [NoCall EXCEPT !.at = "removing", !.session = s]]
      /\ UNCHANGED <<sessions, running, stdin, cleanup, procVars, outputVars, stopVars>>

\* snapshot reads session.running after the drain; the reply is now fixed.
Snapshot(c) ==
  LET s == calls[c].session
  IN  /\ At(c, "drained")
      /\ delivered' = [delivered EXCEPT ![s] = @ \cup calls[c].output]
      /\ reported' = [reported EXCEPT ![s] = @ \cup calls[c].lost]
      /\ IF running[s]
         THEN Returns(c)
         ELSE calls' = [calls EXCEPT ![c] = [NoCall EXCEPT !.at = "removing", !.session = s]]
      /\ UNCHANGED <<sessions, running, stdin, cleanup, procVars, outputVars, stopVars>>

\* Mutant of Remove: the call that comes second does not return.
RemoveExpectsEntry(c) ==
  /\ At(c, "removing")
  /\ calls[c].session \in sessions
  /\ sessions' = sessions \ {calls[c].session}
  /\ Moves(c, "stopping")
  /\ UNCHANGED <<running, stdin, cleanup, procVars, outputVars, replyVars, stopVars>>

\* remove: out of the map ...
Remove(c) ==
  /\ At(c, "removing")
  /\ sessions' = sessions \ {calls[c].session}
  /\ IF calls[c].session \in sessions THEN Moves(c, "stopping") ELSE Returns(c)
  /\ UNCHANGED <<running, stdin, cleanup, procVars, outputVars, replyVars, stopVars>>

\* ... then its timer is stopped.
StopCleanup(c) ==
  /\ At(c, "stopping")
  /\ cleanup' = [cleanup EXCEPT ![calls[c].session] = FALSE]
  /\ Returns(c)
  /\ UNCHANGED <<sessions, running, stdin, procVars, outputVars, replyVars, stopVars>>

----------------------------------------------------------------------------
(* Server shutdown: runtime_v2.go and main.go *)

\* shutdown lists the sessions; requests are still served meanwhile.
ShutdownBegins ==
  /\ phase = "serving"
  /\ phase' = "killing"
  /\ doomed' = sessions
  /\ UNCHANGED <<sessions, running, stdin, cleanup, procVars, outputVars, calls, replyVars>>

ShutdownKills(s) ==
  /\ phase = "killing" /\ s \in doomed
  /\ doomed' = doomed \ {s}
  /\ killed' = IF running[s] /\ proc[s] # "reaped" THEN killed \cup {s} ELSE killed
  /\ UNCHANGED <<sessions, running, stdin, cleanup, proc, written, outputVars, calls,
                 replyVars, phase>>

\* httpServer.Shutdown; the process exits when the requests are through or the
\* ten seconds are over.
ServerCloses ==
  /\ phase = "killing" /\ doomed = {}
  /\ phase' = "closing"
  /\ UNCHANGED <<sessions, running, stdin, cleanup, procVars, outputVars, calls, replyVars,
                 doomed>>

ServerExits ==
  /\ phase = "closing"
  /\ phase' = "exited"
  /\ UNCHANGED <<sessions, running, stdin, cleanup, procVars, outputVars, calls, replyVars,
                 doomed>>

----------------------------------------------------------------------------
SessionsInit ==
  /\ sessions = {} /\ killed = {} /\ doomed = {}
  /\ running = [s \in Sessions |-> FALSE]
  /\ stdin = [s \in Sessions |-> FALSE]
  /\ cleanup = [s \in Sessions |-> FALSE]
  /\ proc = [s \in Sessions |-> "none"]
  /\ written = [s \in Sessions |-> 0]
  /\ buffer = [s \in Sessions |-> {}]
  /\ dropped = [s \in Sessions |-> {}]
  /\ calls = [c \in Calls |-> NoCall]
  /\ delivered = [s \in Sessions |-> {}]
  /\ reported = [s \in Sessions |-> {}]
  /\ phase = "serving"

ProcessStep(s) == Write(s) \/ Exit(s) \/ Reap(s) \/ wait(s) \/ CleanupFires(s)

Act(c) ==
  \/ WriteChars(c) \/ CloseStdin(c)
  \/ \E argument \in {"interrupt", "terminate"} : Signal(c, argument)
  \/ DoneActing(c)

Reply(c) == Drain(c) \/ Snapshot(c) \/ Remove(c) \/ StopCleanup(c)

CallStep(c) ==
  \/ \E s \in Sessions : Start(c, s) \/ \E request \in Requests : GetOwned(c, s, request)
  \/ Register(c) \/ ReadRunning(c) \/ Act(c) \/ Reply(c)

ShutdownStep ==
  ShutdownBegins \/ (\E s \in Sessions : ShutdownKills(s)) \/ ServerCloses \/ ServerExits

SessionsNext ==
  \/ \E s \in Sessions : ProcessStep(s)
  \/ \E c \in Calls : CallStep(c)
  \/ ShutdownStep

SessionsSpec == SessionsInit /\ [][SessionsNext]_vars

(***************************************************************************)
(* The goroutine that waits for a process runs, timers fire, and a call    *)
(* goes on -- except that nothing makes a process read what is written to  *)
(* it: a write to a live process has no fairness.  SIGKILL ends a process. *)
(***************************************************************************)
SessionsFairness ==
  /\ \A s \in Sessions :
       /\ WF_vars(Reap(s)) /\ WF_vars(wait(s)) /\ WF_vars(CleanupFires(s))
       /\ WF_vars(s \in killed /\ Exit(s))
  /\ \A c \in Calls :
       /\ WF_vars(Register(c) \/ ReadRunning(c) \/ Reply(c))
       /\ WF_vars(CloseStdin(c) \/ DoneActing(c)
                    \/ \E argument \in {"interrupt", "terminate"} : Signal(c, argument))
       /\ WF_vars(~Blocked(c) /\ WriteChars(c))

FairSessionsSpec == SessionsSpec /\ SessionsFairness

----------------------------------------------------------------------------
(* Properties *)

InReply(s) == UNION {calls[c].output : c \in {d \in Calls : calls[d].session = s}}
InLoss(s)  == UNION {calls[c].lost : c \in {d \in Calls : calls[d].session = s}}

\* Every chunk a process wrote is in exactly one place: still buffered, counted
\* as dropped, on its way in one reply, delivered, or its loss reported.  Two
\* calls that poll one session never return the same output, and none goes
\* missing without Truncated, however calls, writes and exits interleave.
OutputAccounted ==
  \A s \in Sessions :
    LET places == <<buffer[s], dropped[s], InReply(s), InLoss(s), delivered[s], reported[s]>>
    IN  /\ UNION {places[i] : i \in 1 .. 6} = 1 .. written[s]
        /\ \A i, j \in 1 .. 6 : i # j => places[i] \cap places[j] = {}

\* A reply never holds output that is older than what an earlier drain took:
\* buffered output is always the newest.
OutputInOrder ==
  \A s \in Sessions :
    \A n \in buffer[s], m \in InReply(s) \cup delivered[s] \cup dropped[s] : m < n

\* A running process can always be reached: only finished sessions are removed,
\* and one the map does not hold is still being registered by its call.
RunningIsReachable ==
  \A s \in Sessions : running[s] =>
    s \in sessions \/ \E c \in Calls : calls[c].at = "started" /\ calls[c].session = s

\* A finished session leaves the map, polled or not (unless the server exits).
FinishedForgotten ==
  \A s \in Sessions :
    s \in sessions /\ ~running[s] ~> s \notin sessions \/ phase = "exited"

\* Every call comes back, except one that writes to a process that does not
\* read: nothing bounds io.WriteString (see the README).
CallsReturn ==
  \A c \in Calls :
    calls[c].at # "idle" ~> calls[c].at = "idle" \/ phase = "exited" \/ Blocked(c)

\* process_sessions.go:48: "Completed sessions are removed after their final
\* output is read" -- a call that removes a session leaves no output behind.
FinalOutputRead ==
  [][\A c \in Calls :
       calls[c].at = "removing" /\ calls'[c].at = "stopping" => buffer[calls[c].session] = {}]_vars

=============================================================================
