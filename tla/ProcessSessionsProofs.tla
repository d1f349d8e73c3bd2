------------------------ MODULE ProcessSessionsProofs ------------------------
(***************************************************************************)
(* Proofs about ProcessSessions, for any number of sessions and calls, any *)
(* buffer and reply limits and any amount of output: every chunk a process *)
(* writes is accounted for and comes out in order, and a running process   *)
(* can be reached.                                                         *)
(***************************************************************************)
EXTENDS ProcessSessions, FiniteSetTheorems, TLAPS

Positions == {"idle", "started", "held", "acting", "waiting", "drained", "removing", "stopping"}

\* What a call that has drained a buffer keeps until its reply is fixed.
Carried(c) == calls[c].output \cup calls[c].lost
\* What is in no reply yet, or no longer.
Held(s) == buffer[s] \cup dropped[s] \cup delivered[s] \cup reported[s]
Of(s) == {c \in Calls : calls[c].session = s}

Typed ==
  /\ SessionsTypeOK
  /\ \A c \in Calls : calls[c].at # "idle" => calls[c].session \in Sessions

\* The session map, the flags of a session and the calls about it agree.
Reach ==
  /\ \A s \in Sessions : proc[s] = "none" =>
       s \notin sessions /\ ~running[s] /\ ~cleanup[s] /\ \A c \in Calls : calls[c].session # s
  /\ \A s \in Sessions : cleanup[s] => ~running[s]
  /\ \A c \in Calls : calls[c].at = "removing" => ~running[calls[c].session]
  /\ RunningIsReachable

\* Where the chunks of a session are.
HeldApart(s) ==
  /\ buffer[s] \cap dropped[s] = {} /\ buffer[s] \cap delivered[s] = {}
  /\ buffer[s] \cap reported[s] = {} /\ dropped[s] \cap delivered[s] = {}
  /\ dropped[s] \cap reported[s] = {} /\ delivered[s] \cap reported[s] = {}

Placed(s) ==
  /\ Held(s) \cup UNION {Carried(c) : c \in Of(s)} = 1 .. written[s]
  /\ \A c \in Of(s) : Carried(c) \cap Held(s) = {}
  /\ \A c, d \in Of(s) : c # d => Carried(c) \cap Carried(d) = {}

Places ==
  /\ \A c \in Calls : calls[c].at # "drained" => Carried(c) = {}
  /\ \A c \in Calls : calls[c].output \cap calls[c].lost = {}
  /\ \A s \in Sessions : HeldApart(s) /\ Placed(s)

\* What is buffered is newer than all that left the buffer for a reply or was dropped.
Newer ==
  \A s \in Sessions, n \in Chunks : n \in buffer[s] =>
    /\ \A m \in delivered[s] \cup dropped[s] : m < n
    /\ \A c \in Of(s) : \A m \in calls[c].output : m < n

PInv == Typed /\ Reach /\ Places /\ Newer

----------------------------------------------------------------------------
(* The helpers *)

\* Oldest takes a lower part of a set.
LEMMA OldestIsLower ==
  ASSUME NEW S, IsFiniteSet(S), S \subseteq Int, NEW k \in Int
  PROVE  /\ Oldest(S, k) \subseteq S
         /\ \A n \in Oldest(S, k), m \in S \ Oldest(S, k) : n < m
<1>1. Oldest(S, k) \subseteq S
  BY DEF Oldest
<1>2. ASSUME NEW n \in Oldest(S, k), NEW m \in S \ Oldest(S, k), ~(n < m)
      PROVE  FALSE
  <2> DEFINE upto(x) == {y \in S : y <= x}
  <2>1. Cardinality(upto(n)) <= k /\ ~(Cardinality(upto(m)) <= k) /\ n \in S
    BY <1>2 DEF Oldest
  <2>2. upto(m) \subseteq upto(n) /\ upto(n) \subseteq S
    <3>1. n \in Int /\ m \in Int /\ m <= n
      BY <1>2, <2>1
    <3>2. ASSUME NEW y \in S, y <= m PROVE y <= n
      BY <3>1, <3>2
    <3> QED
      BY <3>2
  <2> HIDE DEF upto
  <2>3. IsFiniteSet(upto(n)) /\ Cardinality(upto(n)) \in Nat
    BY <2>2, FS_Subset, FS_CardinalityType
  <2>4. IsFiniteSet(upto(m)) /\ Cardinality(upto(m)) <= Cardinality(upto(n))
        /\ Cardinality(upto(m)) \in Nat
    BY <2>2, <2>3, FS_Subset, FS_CardinalityType
  <2> QED
    BY <2>1, <2>3, <2>4
<1> QED
  BY <1>1, <1>2

LEMMA ChunksFinite ==
  ASSUME NEW S \in SUBSET Chunks PROVE IsFiniteSet(S) /\ S \subseteq Int
<1>1. IsFiniteSet(Chunks)
  BY SessionAssumption, FS_Interval DEF Chunks
<1>2. IsFiniteSet(S)
  BY <1>1, FS_Subset
<1> QED
  BY <1>2 DEF Chunks

LEMMA NoCallFits ==
  /\ NoCall \in Call /\ NoCall.at = "idle" /\ NoCall.session = NoSession
  /\ NoCall.output = {} /\ NoCall.lost = {}
  BY DEF NoCall, Call

\* The call that takes a step, and the others.
LEMMA OneCall ==
  ASSUME Typed, NEW c \in Calls, NEW new \in Call, calls' = [calls EXCEPT ![c] = new]
  PROVE  /\ calls' \in [Calls -> Call]
         /\ calls'[c] = new /\ \A d \in Calls : d # c => calls'[d] = calls[d]
  BY DEF Typed, SessionsTypeOK

LEMMA MovedCall ==
  ASSUME Typed, NEW c \in Calls, NEW at \in Positions, Moves(c, at)
  PROVE  /\ calls' \in [Calls -> Call]
         /\ calls'[c] = [calls[c] EXCEPT !.at = at]
         /\ calls'[c].at = at /\ calls'[c].session = calls[c].session
         /\ calls'[c].output = calls[c].output /\ calls'[c].lost = calls[c].lost
         /\ \A d \in Calls : d # c => calls'[d] = calls[d]
<1>1. calls[c] \in Call
  BY DEF Typed, SessionsTypeOK
<1>2. [calls[c] EXCEPT !.at = at] \in Call
  BY <1>1 DEF Call, Positions
<1>3. calls' = [calls EXCEPT ![c] = [calls[c] EXCEPT !.at = at]]
  BY DEF Moves
<1> QED
  BY <1>1, <1>2, <1>3, OneCall DEF Call

LEMMA ReturnedCall ==
  ASSUME Typed, NEW c \in Calls, Returns(c)
  PROVE  /\ calls' \in [Calls -> Call]
         /\ calls'[c] = NoCall /\ \A d \in Calls : d # c => calls'[d] = calls[d]
  BY OneCall, NoCallFits DEF Returns

----------------------------------------------------------------------------
(* Types *)

LEMMA ProcessTypes ==
  ASSUME Typed, NEW s \in Sessions, ProcessStep(s) PROVE Typed'
<1>1. CASE Write(s)
  <2>1. written[s] + 1 \in 1 .. MaxChunks
    BY <1>1, SessionAssumption DEF Write, Typed, SessionsTypeOK
  <2>2. written' \in [Sessions -> 0 .. MaxChunks]
    BY <1>1, <2>1, SessionAssumption DEF Write, Typed, SessionsTypeOK
  <2> DEFINE all == buffer[s] \cup {written[s] + 1}
             drop == Oldest(all, Cardinality(all) - BufferLimit)
  <2>3. all \subseteq Chunks
    BY <2>1 DEF Typed, SessionsTypeOK, Chunks
  <2>4. drop \subseteq all
    BY DEF Oldest
  <2>5. buffer' = [buffer EXCEPT ![s] = all \ drop]
        /\ dropped' = [dropped EXCEPT ![s] = dropped[s] \cup drop]
    BY <1>1 DEF Write
  <2> HIDE DEF all, drop
  <2>6. buffer' \in [Sessions -> SUBSET Chunks] /\ dropped' \in [Sessions -> SUBSET Chunks]
    BY <2>3, <2>4, <2>5 DEF Typed, SessionsTypeOK
  <2> QED
    BY <1>1, <2>2, <2>6 DEF Write, Typed, SessionsTypeOK, replyVars, stopVars
<1>2. CASE Exit(s) \/ Reap(s) \/ wait(s) \/ CleanupFires(s)
  BY <1>2 DEF Exit, Reap, wait, CleanupFires, Typed, SessionsTypeOK, procVars, outputVars, replyVars,
              stopVars
<1> QED
  BY <1>1, <1>2 DEF ProcessStep

LEMMA ShutdownTypes == ASSUME Typed, ShutdownStep PROVE Typed'
  BY DEF ShutdownStep, ShutdownBegins, ShutdownKills, ServerCloses, ServerExits,
         Typed, SessionsTypeOK, procVars, outputVars, replyVars, stopVars

----------------------------------------------------------------------------
(* What each step of a call does *)

Others(c) == \A d \in Calls : d # c => calls'[d] = calls[d]
\* The call is the one of a session, and carries no output.
Becomes(c, at, s) == /\ calls'[c].at = at /\ calls'[c].session = s
                     /\ calls'[c].output = {} /\ calls'[c].lost = {}

StartBecomes(c, s) ==
  /\ Becomes(c, "started", s) /\ Others(c) /\ calls[c].at = "idle" /\ proc[s] = "none"
  /\ proc' = [proc EXCEPT ![s] = "alive"] /\ running' = [running EXCEPT ![s] = TRUE]
  /\ UNCHANGED <<sessions, cleanup, written, buffer, dropped, delivered, reported>>

LEMMA StartStep ==
  ASSUME Typed, NEW c \in Calls, NEW s \in Sessions, Start(c, s)
  PROVE  Typed' /\ StartBecomes(c, s)
<1> DEFINE new == [NoCall EXCEPT !.at = "started", !.session = s]
<1>1. /\ new \in Call /\ new.at = "started" /\ new.session = s
      /\ new.output = {} /\ new.lost = {}
  BY NoCallFits DEF Call
<1>2. calls' = [calls EXCEPT ![c] = new]
  BY DEF Start
<1> HIDE DEF new
<1>3. calls' \in [Calls -> Call] /\ Becomes(c, "started", s) /\ Others(c)
  BY <1>1, <1>2, OneCall DEF Becomes, Others
<1> QED
  BY <1>3 DEF Start, At, Typed, SessionsTypeOK, StartBecomes, outputVars, replyVars, stopVars

GetOwnedBecomes(c, s) ==
  /\ Becomes(c, "held", s) /\ Others(c) /\ calls[c].at = "idle" /\ s \in sessions
  /\ UNCHANGED <<sessions, running, cleanup, proc, written, buffer, dropped, delivered, reported>>

LEMMA GetOwnedStep ==
  ASSUME Typed, NEW c \in Calls, NEW s \in Sessions, NEW request \in Requests,
         GetOwned(c, s, request)
  PROVE  Typed' /\ GetOwnedBecomes(c, s)
<1> DEFINE new == [NoCall EXCEPT !.at = "held", !.session = s, !.todo = request]
<1>0. request \in SUBSET Arguments
  BY SessionAssumption
<1>1. /\ new \in Call /\ new.at = "held" /\ new.session = s
      /\ new.output = {} /\ new.lost = {}
  BY <1>0, NoCallFits DEF Call
<1>2. calls' = [calls EXCEPT ![c] = new]
  BY DEF GetOwned
<1> HIDE DEF new
<1>3. calls' \in [Calls -> Call] /\ Becomes(c, "held", s) /\ Others(c)
  BY <1>1, <1>2, OneCall DEF Becomes, Others
<1> QED
  BY <1>3 DEF GetOwned, At, Typed, SessionsTypeOK, GetOwnedBecomes, procVars, outputVars, replyVars, stopVars

\* A call that acts on its session goes on as it was, or returns.
GoesOn(c) ==
  /\ calls' \in [Calls -> Call] /\ Others(c)
  /\ \/ calls'[c] = NoCall
     \/ /\ calls'[c].at \in {"acting", "waiting"} /\ calls'[c].session = calls[c].session
        /\ calls'[c].output = calls[c].output /\ calls'[c].lost = calls[c].lost

ActingBecomes(c) ==
  /\ GoesOn(c) /\ calls[c].at \in {"held", "acting"}
  /\ UNCHANGED <<sessions, running, cleanup, proc, written, buffer, dropped, delivered, reported>>

LEMMA ActingStep ==
  ASSUME Typed, NEW c \in Calls, ReadRunning(c) \/ Act(c)
  PROVE  Typed' /\ ActingBecomes(c)
<1>0. calls[c] \in Call
  BY DEF Typed, SessionsTypeOK
<1>1. ASSUME Returns(c) PROVE GoesOn(c)
  BY <1>1, ReturnedCall DEF Others, GoesOn
<1>2. ASSUME NEW argument, calls[c].at = "acting", Acted(c, argument) PROVE GoesOn(c)
  <2> DEFINE new == [calls[c] EXCEPT !.todo = @ \ {argument}]
  <2>1. /\ new \in Call /\ new.at = "acting" /\ new.session = calls[c].session
        /\ new.output = calls[c].output /\ new.lost = calls[c].lost
    BY <1>0, <1>2 DEF Call
  <2>2. calls' = [calls EXCEPT ![c] = new]
    BY <1>2 DEF Acted
  <2> HIDE DEF new
  <2> QED
    BY <2>1, <2>2, OneCall DEF Others, GoesOn
<1>3. ASSUME GoesOn(c), calls[c].at \in {"held", "acting"},
             stdin' \in [Sessions -> BOOLEAN], killed' \subseteq Sessions,
             UNCHANGED <<sessions, running, cleanup, proc, written, outputVars, replyVars, stopVars>>
      PROVE  Typed' /\ ActingBecomes(c)
  BY <1>3, NoCallFits DEF GoesOn, Others, ActingBecomes, Typed, SessionsTypeOK, outputVars,
                          replyVars, stopVars
<1>4. CASE ReadRunning(c)
  <2> DEFINE new == [calls[c] EXCEPT !.at = "acting", !.running = running[calls[c].session]]
  <2>1. calls' = [calls EXCEPT ![c] = new]
    BY <1>4 DEF ReadRunning
  <2>2. running[calls[c].session] \in BOOLEAN
    BY <1>4 DEF ReadRunning, At, Typed, SessionsTypeOK
  <2>3. /\ new \in Call /\ new.at = "acting" /\ new.session = calls[c].session
        /\ new.output = calls[c].output /\ new.lost = calls[c].lost
    BY <1>0, <2>2 DEF Call
  <2> HIDE DEF new
  <2>4. GoesOn(c)
    BY <2>1, <2>3, OneCall DEF Others, GoesOn
  <2> QED
    BY <1>3, <1>4, <2>4 DEF ReadRunning, At, procVars, Typed, SessionsTypeOK
<1>5. CASE WriteChars(c)
  <2>1. calls[c].at = "acting" /\ GoesOn(c)
    BY <1>1, <1>2, <1>5 DEF WriteChars, IsNext, At
  <2> QED
    BY <1>3, <1>5, <2>1 DEF WriteChars, procVars, Typed, SessionsTypeOK
<1>6. CASE CloseStdin(c)
  <2>1. calls[c].at = "acting" /\ GoesOn(c)
    BY <1>1, <1>2, <1>6 DEF CloseStdin, IsNext, At
  <2>2. stdin' = [stdin EXCEPT ![calls[c].session] = FALSE]
    BY <1>6 DEF CloseStdin
  <2> QED
    BY <1>3, <1>6, <2>1, <2>2 DEF CloseStdin, procVars, Typed, SessionsTypeOK
<1>7. ASSUME NEW argument, Signal(c, argument) PROVE Typed' /\ ActingBecomes(c)
  <2>1. calls[c].at = "acting" /\ GoesOn(c)
    BY <1>1, <1>2, <1>7 DEF Signal, IsNext, At
  <2>2. killed' \subseteq Sessions
    BY <1>7, <2>1 DEF Signal, Typed, SessionsTypeOK
  <2> QED
    BY <1>3, <1>7, <2>1, <2>2 DEF Signal, Typed, SessionsTypeOK
<1>8. CASE DoneActing(c)
  <2>1. calls[c].at = "acting" /\ GoesOn(c)
    BY <1>8, MovedCall DEF DoneActing, At, Others, GoesOn, Positions
  <2> QED
    BY <1>3, <1>8, <2>1 DEF DoneActing, procVars, Typed, SessionsTypeOK
<1> QED
  BY <1>4, <1>5, <1>6, <1>7, <1>8 DEF Act

RegisterBecomes(c) ==
  /\ calls'[c].at = "waiting" /\ calls'[c].session = calls[c].session
  /\ calls'[c].output = calls[c].output /\ calls'[c].lost = calls[c].lost
  /\ Others(c) /\ calls[c].at = "started" /\ sessions' = sessions \cup {calls[c].session}
  /\ UNCHANGED <<running, cleanup, proc, written, buffer, dropped, delivered, reported>>

LEMMA RegisterStep ==
  ASSUME Typed, NEW c \in Calls, Register(c) PROVE Typed' /\ RegisterBecomes(c)
<1>1. /\ Moves(c, "waiting") /\ "waiting" \in Positions /\ calls[c].at = "started"
      /\ sessions' = sessions \cup {calls[c].session}
      /\ UNCHANGED <<running, stdin, cleanup, procVars, outputVars, replyVars, stopVars>>
  BY DEF Register, At, Positions
<1>2. /\ calls' \in [Calls -> Call] /\ Others(c)
      /\ calls'[c].at = "waiting" /\ calls'[c].session = calls[c].session
      /\ calls'[c].output = calls[c].output /\ calls'[c].lost = calls[c].lost
  BY <1>1, MovedCall DEF Others
<1> QED
  BY <1>1, <1>2 DEF RegisterBecomes, Others, Typed, SessionsTypeOK, procVars, outputVars,
                    replyVars, stopVars

DrainBecomes(c) ==
  LET s == calls[c].session
      fits == Oldest(buffer[s], ReplyLimit)
  IN  /\ calls'[c].at = "drained" /\ calls'[c].session = s /\ calls'[c].output = fits
      /\ calls'[c].lost = dropped[s] \cup (buffer[s] \ fits)
      /\ Others(c) /\ calls[c].at = "waiting"
      /\ buffer' = [buffer EXCEPT ![s] = {}] /\ dropped' = [dropped EXCEPT ![s] = {}]
      /\ UNCHANGED <<sessions, running, cleanup, proc, written, delivered, reported>>

LEMMA DrainStep ==
  ASSUME Typed, NEW c \in Calls, Drain(c) PROVE Typed' /\ DrainBecomes(c)
<1> DEFINE s == calls[c].session
           fits == Oldest(buffer[s], ReplyLimit)
           missed == dropped[s] \cup (buffer[s] \ fits)
           new == [calls[c] EXCEPT !.at = "drained", !.output = fits, !.lost = missed]
<1>0. calls[c] \in Call /\ calls[c].at = "waiting" /\ s \in Sessions
  BY DEF Typed, SessionsTypeOK, Drain, At
<1>1. fits \in SUBSET Chunks /\ missed \in SUBSET Chunks
  BY <1>0 DEF Typed, SessionsTypeOK, Oldest
<1>2. calls' = [calls EXCEPT ![c] = new]
  BY DEF Drain
<1>3. /\ buffer' = [buffer EXCEPT ![s] = {}] /\ dropped' = [dropped EXCEPT ![s] = {}]
      /\ UNCHANGED <<sessions, running, stdin, cleanup, procVars, replyVars, stopVars>>
  BY DEF Drain
<1> HIDE DEF fits, missed
<1>4. /\ new \in Call /\ new.at = "drained" /\ new.session = s
      /\ new.output = fits /\ new.lost = missed
  BY <1>0, <1>1 DEF Call
<1> HIDE DEF new
<1>5. /\ calls' \in [Calls -> Call] /\ Others(c)
      /\ calls'[c].at = "drained" /\ calls'[c].session = s
      /\ calls'[c].output = fits /\ calls'[c].lost = missed
  BY <1>2, <1>4, OneCall DEF Others
<1>6. Typed'
  BY <1>0, <1>3, <1>5 DEF Others, Typed, SessionsTypeOK, procVars, replyVars, stopVars
<1> QED
  BY <1>0, <1>3, <1>5, <1>6 DEF DrainBecomes, fits, missed, procVars, replyVars

SnapshotBecomes(c) ==
  LET s == calls[c].session
  IN  /\ \/ calls'[c] = NoCall
         \/ Becomes(c, "removing", s) /\ ~running[s]
      /\ Others(c) /\ calls[c].at = "drained"
      /\ delivered' = [delivered EXCEPT ![s] = @ \cup calls[c].output]
      /\ reported' = [reported EXCEPT ![s] = @ \cup calls[c].lost]
      /\ UNCHANGED <<sessions, running, cleanup, proc, written, buffer, dropped>>

LEMMA SnapshotStep ==
  ASSUME Typed, NEW c \in Calls, Snapshot(c) PROVE Typed' /\ SnapshotBecomes(c)
<1> DEFINE s == calls[c].session
           new == [NoCall EXCEPT !.at = "removing", !.session = s]
<1>0. calls[c] \in Call /\ calls[c].at = "drained" /\ s \in Sessions
  BY DEF Typed, SessionsTypeOK, Snapshot, At
<1>1. /\ new \in Call /\ new.at = "removing" /\ new.session = s
      /\ new.output = {} /\ new.lost = {}
  BY <1>0, NoCallFits DEF Call
<1>2. IF running[s] THEN Returns(c) ELSE calls' = [calls EXCEPT ![c] = new]
  BY DEF Snapshot
<1> HIDE DEF new
<1>3. /\ calls' \in [Calls -> Call] /\ Others(c)
      /\ \/ calls'[c] = NoCall
         \/ Becomes(c, "removing", s) /\ ~running[s]
  BY <1>1, <1>2, OneCall, ReturnedCall DEF Others, Becomes
<1>4. /\ delivered' = [delivered EXCEPT ![s] = delivered[s] \cup calls[c].output]
      /\ reported' = [reported EXCEPT ![s] = reported[s] \cup calls[c].lost]
      /\ UNCHANGED <<sessions, running, stdin, cleanup, procVars, outputVars, stopVars>>
  BY DEF Snapshot
<1>5. calls[c].output \in SUBSET Chunks /\ calls[c].lost \in SUBSET Chunks
  BY <1>0 DEF Call
<1>6. delivered' \in [Sessions -> SUBSET Chunks] /\ reported' \in [Sessions -> SUBSET Chunks]
  BY <1>0, <1>4, <1>5 DEF Typed, SessionsTypeOK
<1>7. Typed'
  BY <1>0, <1>3, <1>4, <1>6, NoCallFits DEF Others, Becomes, Typed, SessionsTypeOK, procVars,
                                            outputVars, stopVars
<1> QED
  BY <1>0, <1>3, <1>4, <1>7 DEF SnapshotBecomes, procVars, outputVars

\* Out of the map, and its timer stopped.
RemovalBecomes(c) ==
  /\ \/ calls'[c] = NoCall
     \/ /\ calls'[c].at = "stopping" /\ calls'[c].session = calls[c].session
        /\ calls'[c].output = calls[c].output /\ calls'[c].lost = calls[c].lost
  /\ Others(c)
  /\ \/ calls[c].at = "removing" /\ sessions' = sessions \ {calls[c].session}
        /\ UNCHANGED cleanup
     \/ /\ calls[c].at = "stopping" /\ cleanup' = [cleanup EXCEPT ![calls[c].session] = FALSE]
        /\ UNCHANGED sessions
  /\ UNCHANGED <<running, proc, written, buffer, dropped, delivered, reported>>

LEMMA RemovalStep ==
  ASSUME Typed, NEW c \in Calls, Remove(c) \/ StopCleanup(c) PROVE Typed' /\ RemovalBecomes(c)
<1>1. CASE Remove(c)
  <2>1. /\ calls[c].at = "removing" /\ (Moves(c, "stopping") \/ Returns(c))
        /\ sessions' = sessions \ {calls[c].session}
        /\ UNCHANGED <<running, stdin, cleanup, procVars, outputVars, replyVars, stopVars>>
    BY <1>1 DEF Remove, At
  <2>2. "stopping" \in Positions
    BY DEF Positions
  <2>3. /\ calls' \in [Calls -> Call] /\ Others(c)
        /\ \/ calls'[c] = NoCall
           \/ /\ calls'[c].at = "stopping" /\ calls'[c].session = calls[c].session
              /\ calls'[c].output = calls[c].output /\ calls'[c].lost = calls[c].lost
    BY <2>1, <2>2, MovedCall, ReturnedCall DEF Others
  <2> QED
    BY <2>1, <2>3, NoCallFits DEF RemovalBecomes, Others, Typed, SessionsTypeOK, procVars,
                                  outputVars, replyVars, stopVars
<1>2. CASE StopCleanup(c)
  <2>1. /\ calls[c].at = "stopping" /\ Returns(c)
        /\ cleanup' = [cleanup EXCEPT ![calls[c].session] = FALSE]
        /\ UNCHANGED <<sessions, running, stdin, procVars, outputVars, replyVars, stopVars>>
    BY <1>2 DEF StopCleanup, At
  <2>2. calls' \in [Calls -> Call] /\ calls'[c] = NoCall /\ Others(c)
    BY <2>1, ReturnedCall DEF Others
  <2> QED
    BY <2>1, <2>2, NoCallFits DEF RemovalBecomes, Others, Typed, SessionsTypeOK, procVars,
                                  outputVars, replyVars, stopVars
<1> QED
  BY <1>1, <1>2

----------------------------------------------------------------------------
(* Sessions that run can be reached *)

LEMMA CallsReach ==
  ASSUME Typed, Reach, NEW c \in Calls,
         \/ \E s \in Sessions : StartBecomes(c, s) \/ GetOwnedBecomes(c, s)
         \/ ActingBecomes(c) \/ RegisterBecomes(c) \/ DrainBecomes(c) \/ SnapshotBecomes(c)
         \/ RemovalBecomes(c)
  PROVE  Reach'
<1>1. CASE \E s \in Sessions : StartBecomes(c, s)
  <2>1. PICK s \in Sessions : StartBecomes(c, s)
    BY <1>1
  <2> QED
    BY <2>1 DEF StartBecomes, Becomes, Others, Typed, SessionsTypeOK, Reach, RunningIsReachable
<1>2. CASE \E s \in Sessions : GetOwnedBecomes(c, s)
  BY <1>2 DEF GetOwnedBecomes, Becomes, Others, Typed, Reach, RunningIsReachable
<1>3. CASE ActingBecomes(c)
  BY <1>3, NoCallFits, SessionAssumption DEF ActingBecomes, GoesOn, Others, Typed, Reach,
                                             RunningIsReachable
<1>4. CASE RegisterBecomes(c)
  BY <1>4 DEF RegisterBecomes, Others, Typed, Reach, RunningIsReachable
<1>5. CASE DrainBecomes(c)
  BY <1>5 DEF DrainBecomes, Others, Typed, Reach, RunningIsReachable
<1>6. CASE SnapshotBecomes(c)
  BY <1>6, NoCallFits, SessionAssumption DEF SnapshotBecomes, Becomes, Others, Typed, Reach,
                                             RunningIsReachable
<1>7. CASE RemovalBecomes(c)
  BY <1>7, NoCallFits, SessionAssumption DEF RemovalBecomes, Others, Typed, SessionsTypeOK, Reach,
                                             RunningIsReachable
<1> QED
  BY <1>1, <1>2, <1>3, <1>4, <1>5, <1>6, <1>7

LEMMA ProcessReaches ==
  ASSUME Typed, Reach, NEW s \in Sessions, ProcessStep(s) PROVE Reach'
<1>1. CASE Write(s)
  BY <1>1 DEF Write, Reach, RunningIsReachable
<1>2. CASE Exit(s) \/ Reap(s)
  BY <1>2 DEF Exit, Reap, Typed, SessionsTypeOK, Reach, RunningIsReachable
<1>3. CASE wait(s)
  BY <1>3 DEF wait, procVars, Typed, SessionsTypeOK, Reach, RunningIsReachable
<1>4. CASE CleanupFires(s)
  BY <1>4 DEF CleanupFires, procVars, Typed, SessionsTypeOK, Reach, RunningIsReachable
<1> QED
  BY <1>1, <1>2, <1>3, <1>4 DEF ProcessStep

LEMMA ShutdownReaches ==
  ASSUME Reach, ShutdownStep PROVE Reach'
  BY DEF ShutdownStep, ShutdownBegins, ShutdownKills, ServerCloses, ServerExits, procVars,
         Reach, RunningIsReachable

----------------------------------------------------------------------------
(* Where the output is *)

\* A step that moves no output: calls about a session that carry none may come
\* and go.
LEMMA OutputStays ==
  ASSUME Typed, Places, Newer,
         UNCHANGED <<written, buffer, dropped, delivered, reported>>,
         \A c \in Calls :
           \/ calls'[c] = calls[c]
           \/ /\ calls'[c].output = {} /\ calls'[c].lost = {}
              /\ calls[c].output = {} /\ calls[c].lost = {}
  PROVE  Places' /\ Newer'
<1>1. \A c \in Calls : /\ calls'[c].output = calls[c].output /\ calls'[c].lost = calls[c].lost
                       /\ Carried(c)' = Carried(c)
                       /\ calls'[c].session = calls[c].session \/ Carried(c) = {}
  BY DEF Carried
<1>2. \A s \in Sessions : Held(s)' = Held(s)
  BY DEF Held
<1>3. \A c \in Calls : calls'[c].at # "drained" => Carried(c)' = {}
  BY <1>1 DEF Carried, Places
<1>4. ASSUME NEW s \in Sessions
      PROVE  /\ (UNION {Carried(c) : c \in Of(s)})' = UNION {Carried(c) : c \in Of(s)}
             /\ (\A c \in Of(s) : Carried(c) \cap Held(s) = {})'
             /\ (\A c, d \in Of(s) : c # d => Carried(c) \cap Carried(d) = {})'
  <2>1. \A n : (\E c \in Calls : calls'[c].session = s /\ n \in Carried(c)')
               <=> (\E c \in Calls : calls[c].session = s /\ n \in Carried(c))
    BY <1>1
  <2>2. (UNION {Carried(c) : c \in Of(s)})' = UNION {Carried(c) : c \in Of(s)}
    BY <2>1 DEF Of
  <2>3. \A c \in Calls : calls'[c].session = s => c \in Of(s) \/ Carried(c)' = {}
    BY <1>1 DEF Of
  <2>4. /\ \A c \in Of(s) : Carried(c) \cap Held(s) = {}
        /\ \A c, d \in Of(s) : c # d => Carried(c) \cap Carried(d) = {}
    BY DEF Places, Placed
  <2>5. (\A c \in Of(s) : Carried(c) \cap Held(s) = {})'
    BY <1>1, <1>2, <2>3, <2>4 DEF Of
  <2>6. (\A c, d \in Of(s) : c # d => Carried(c) \cap Carried(d) = {})'
    BY <1>1, <2>3, <2>4 DEF Of
  <2> QED
    BY <2>2, <2>5, <2>6
<1>5. Places'
  BY <1>1, <1>2, <1>3, <1>4 DEF Places, Placed, HeldApart
<1>6. Newer'
  BY <1>1 DEF Newer, Of, Carried
<1> QED
  BY <1>5, <1>6

\* The sessions a step is not about.
LEMMA OtherPlaced ==
  ASSUME NEW s \in Sessions, Placed(s), HeldApart(s),
         Of(s)' = Of(s), \A c \in Of(s) : calls'[c] = calls[c],
         written'[s] = written[s], buffer'[s] = buffer[s], dropped'[s] = dropped[s],
         delivered'[s] = delivered[s], reported'[s] = reported[s]
  PROVE  Placed(s)' /\ HeldApart(s)'
<1>1. Held(s)' = Held(s) /\ \A c \in Of(s) : Carried(c)' = Carried(c)
  BY DEF Held, Carried
<1>2. (UNION {Carried(c) : c \in Of(s)})' = UNION {Carried(c) : c \in Of(s)}
  BY <1>1
<1> QED
  BY <1>1, <1>2 DEF Placed, HeldApart

LEMMA WritePlaces ==
  ASSUME Typed, Places, Newer, NEW s \in Sessions, Write(s) PROVE Places' /\ Newer'
<1> DEFINE w == written[s]
           all == buffer[s] \cup {w + 1}
           drop == Oldest(all, Cardinality(all) - BufferLimit)
<1>0. w \in Nat /\ w + 1 \in Chunks /\ buffer[s] \subseteq Chunks
  BY SessionAssumption DEF Write, Typed, SessionsTypeOK, Chunks
<1>1. /\ written' = [written EXCEPT ![s] = w + 1]
      /\ buffer' = [buffer EXCEPT ![s] = all \ drop]
      /\ dropped' = [dropped EXCEPT ![s] = dropped[s] \cup drop]
      /\ UNCHANGED <<calls, delivered, reported>>
  BY DEF Write, replyVars
<1>2. drop \subseteq all /\ \A n \in drop, m \in all \ drop : n < m
  <2> DEFINE k == Cardinality(all) - BufferLimit
  <2>1. IsFiniteSet(all) /\ all \subseteq Int
    BY <1>0, ChunksFinite
  <2>2. k \in Int
    BY <2>1, FS_CardinalityType, SessionAssumption
  <2>3. drop = Oldest(all, k)
    OBVIOUS
  <2> HIDE DEF all, drop, k
  <2> QED
    BY <2>1, <2>2, <2>3, OldestIsLower
<1> HIDE DEF drop
<1>3. /\ written'[s] = w + 1 /\ buffer'[s] = all \ drop /\ dropped'[s] = dropped[s] \cup drop
      /\ delivered'[s] = delivered[s] /\ reported'[s] = reported[s]
  BY <1>1 DEF Typed, SessionsTypeOK
<1>4. \A t \in Sessions : t # s =>
        written'[t] = written[t] /\ buffer'[t] = buffer[t] /\ dropped'[t] = dropped[t]
  BY <1>1 DEF Typed, SessionsTypeOK
<1>5. (\A t : Of(t)' = Of(t)) /\ \A c : Carried(c)' = Carried(c)
  BY <1>1 DEF Of, Carried
<1>6. Placed(s) /\ HeldApart(s) /\ Held(s)' = Held(s) \cup {w + 1}
  BY <1>2, <1>3 DEF Places, Held
<1>7. w + 1 \notin Held(s) /\ \A c \in Of(s) : w + 1 \notin Carried(c)
  BY <1>0, <1>6 DEF Placed
<1>8. Placed(s)'
  <2>1. (UNION {Carried(c) : c \in Of(s)})' = UNION {Carried(c) : c \in Of(s)}
    BY <1>5
  <2>2. 1 .. w + 1 = (1 .. w) \cup {w + 1}
    BY <1>0
  <2>3. (Held(s) \cup UNION {Carried(c) : c \in Of(s)})' = 1 .. written'[s]
    BY <1>3, <1>6, <2>1, <2>2 DEF Placed
  <2> QED
    BY <1>5, <1>6, <1>7, <2>3 DEF Placed
<1>9. HeldApart(s)'
  BY <1>2, <1>3, <1>6, <1>7 DEF HeldApart, Held
<1>10. \A t \in Sessions : HeldApart(t)' /\ Placed(t)'
  <2>1. ASSUME NEW t \in Sessions, t # s PROVE HeldApart(t)' /\ Placed(t)'
    BY <1>1, <1>4, <1>5, <2>1, OtherPlaced DEF Places
  <2> QED
    BY <1>8, <1>9, <2>1
<1>11. Places'
  BY <1>1, <1>5, <1>10 DEF Places
<1>12. ASSUME NEW t \in Sessions, NEW n \in Chunks, n \in buffer'[t]
       PROVE  /\ \A m \in delivered'[t] \cup dropped'[t] : m < n
              /\ \A c \in Of(t)' : \A m \in calls'[c].output : m < n
  <2>1. CASE t # s
    BY <1>1, <1>4, <1>5, <1>12, <2>1 DEF Newer
  <2>2. CASE t = s /\ n = w + 1
    <3>1. \A m \in delivered[s] \cup dropped[s] : m \in 1 .. w
      BY <1>6 DEF Placed, Held
    <3>2. \A c \in Of(s) : \A m \in calls[c].output : m \in 1 .. w
      BY <1>6 DEF Placed, Carried
    <3>3. n \notin drop
      BY <1>3, <1>12, <2>2
    <3> QED
      BY <1>0, <1>1, <1>2, <1>3, <1>5, <2>2, <3>1, <3>2, <3>3
  <2>3. CASE t = s /\ n # w + 1
    <3>1. n \in buffer[s] /\ n \notin drop /\ n \in all
      BY <1>3, <1>12, <2>3
    <3>2. /\ \A m \in delivered[s] \cup dropped[s] : m < n
          /\ \A c \in Of(s) : \A m \in calls[c].output : m < n
      BY <3>1 DEF Newer
    <3> QED
      BY <1>1, <1>2, <1>3, <1>5, <2>3, <3>1, <3>2
  <2> QED
    BY <2>1, <2>2, <2>3
<1>13. Newer'
  BY <1>12 DEF Newer
<1> QED
  BY <1>11, <1>13

LEMMA DrainPlaces ==
  ASSUME Typed, Places, Newer, NEW c \in Calls, DrainBecomes(c) PROVE Places' /\ Newer'
<1>a. PICK s \in Sessions : s = calls[c].session
  BY DEF Typed, DrainBecomes
<1> DEFINE fits == Oldest(buffer[s], ReplyLimit)
<1>0. fits \subseteq buffer[s] /\ Placed(s) /\ HeldApart(s) /\ c \in Of(s)
  BY <1>a DEF Oldest, Places, Of
<1>1. /\ buffer'[s] = {} /\ dropped'[s] = {}
      /\ delivered'[s] = delivered[s] /\ reported'[s] = reported[s]
      /\ \A t \in Sessions : t # s => buffer'[t] = buffer[t] /\ dropped'[t] = dropped[t]
  BY <1>a DEF DrainBecomes, Typed, SessionsTypeOK
<1>2. /\ calls'[c].session = s /\ calls'[c].at = "drained" /\ calls'[c].output = fits
      /\ calls'[c].lost = dropped[s] \cup (buffer[s] \ fits)
      /\ \A d \in Calls : d # c => calls'[d] = calls[d]
      /\ UNCHANGED <<written, delivered, reported>> /\ calls[c].at = "waiting"
  BY <1>a DEF DrainBecomes, Others
<1> HIDE DEF fits
<1>3. \A t \in Sessions : Of(t)' = Of(t)
  BY <1>a, <1>2 DEF Of
<1>4. /\ Carried(c) = {} /\ Carried(c)' = buffer[s] \cup dropped[s]
      /\ \A d \in Calls : d # c => Carried(d)' = Carried(d)
      /\ Held(s) = Held(s)' \cup Carried(c)' /\ Held(s)' = delivered[s] \cup reported[s]
  BY <1>0, <1>1, <1>2 DEF Places, Carried, Held
<1>5. Placed(s)'
  <2>1. (UNION {Carried(d) : d \in Of(s)})' = Carried(c)' \cup UNION {Carried(d) : d \in Of(s)}
    <3>1. ASSUME NEW n PROVE n \in (UNION {Carried(d) : d \in Of(s)})' <=>
            n \in Carried(c)' \cup UNION {Carried(d) : d \in Of(s)}
      BY <1>0, <1>3, <1>4 DEF Of
    <3> QED
      BY <3>1
  <2>2. (Held(s) \cup UNION {Carried(d) : d \in Of(s)})' = 1 .. written'[s]
    BY <1>0, <1>2, <1>4, <2>1 DEF Placed
  <2>3. Carried(c)' \cap Held(s)' = {}
    BY <1>0, <1>4 DEF HeldApart
  <2>4. \A d \in Of(s) : d # c => Carried(d)' \cap Held(s)' = {} /\ Carried(d)' \cap Carried(c)' = {}
    BY <1>0, <1>4 DEF Placed, Of
  <2>5. \A d, e \in Of(s) : d # e => Carried(d)' \cap Carried(e)' = {}
    BY <1>0, <1>4, <2>4 DEF Placed, Of
  <2> QED
    BY <1>0, <1>3, <2>2, <2>3, <2>4, <2>5 DEF Placed
<1>6. HeldApart(s)'
  BY <1>0, <1>1 DEF HeldApart
<1>7. ASSUME NEW t \in Sessions, t # s PROVE HeldApart(t)' /\ Placed(t)'
  <2>1. \A d \in Of(t) : calls'[d] = calls[d]
    BY <1>a, <1>2, <1>7 DEF Of
  <2> QED
    BY <1>1, <1>2, <1>3, <1>7, <2>1, OtherPlaced DEF Places
<1>8. calls'[c].output \cap calls'[c].lost = {}
  BY <1>0, <1>2 DEF HeldApart
<1>9. Places'
  BY <1>2, <1>4, <1>5, <1>6, <1>7, <1>8 DEF Places
<1>10. Newer'
  BY <1>0, <1>1, <1>2, <1>3 DEF Newer, Of
<1> QED
  BY <1>9, <1>10

LEMMA SnapshotPlaces ==
  ASSUME Typed, Places, Newer, NEW c \in Calls, SnapshotBecomes(c) PROVE Places' /\ Newer'
<1>a. PICK s \in Sessions : s = calls[c].session
  BY DEF Typed, SnapshotBecomes
<1>0. Placed(s) /\ HeldApart(s) /\ c \in Of(s) /\ calls[c].output \cap calls[c].lost = {}
  BY <1>a DEF Places, Of
<1>1. /\ delivered'[s] = delivered[s] \cup calls[c].output
      /\ reported'[s] = reported[s] \cup calls[c].lost
      /\ \A t \in Sessions : t # s => delivered'[t] = delivered[t] /\ reported'[t] = reported[t]
  BY <1>a DEF SnapshotBecomes, Typed, SessionsTypeOK
<1>2. /\ calls'[c].output = {} /\ calls'[c].lost = {}
      /\ calls'[c].session \in {s, NoSession}
      /\ \A d \in Calls : d # c => calls'[d] = calls[d]
      /\ UNCHANGED <<written, buffer, dropped>>
  BY <1>a, NoCallFits DEF SnapshotBecomes, Becomes, Others
<1>3. \A t \in Sessions : t # s => Of(t)' = Of(t)
  BY <1>a, <1>2, SessionAssumption DEF Of
<1>4. /\ Carried(c)' = {} /\ Held(s)' = Held(s) \cup Carried(c)
      /\ \A d \in Calls : d # c => Carried(d)' = Carried(d)
      /\ Of(s)' \subseteq Of(s) /\ \A d \in Of(s) : d # c => d \in Of(s)'
  BY <1>0, <1>1, <1>2 DEF Carried, Held, Of
<1>5. Placed(s)'
  <2>1. Carried(c) \cup (UNION {Carried(d) : d \in Of(s)})' = UNION {Carried(d) : d \in Of(s)}
    <3>1. ASSUME NEW n PROVE n \in Carried(c) \cup (UNION {Carried(d) : d \in Of(s)})' <=>
                             n \in UNION {Carried(d) : d \in Of(s)}
      BY <1>0, <1>4 DEF Of
    <3> QED
      BY <3>1
  <2>2. (Held(s) \cup UNION {Carried(d) : d \in Of(s)})' = 1 .. written'[s]
    BY <1>0, <1>2, <1>4, <2>1 DEF Placed
  <2>3. \A d \in Of(s)' : Carried(d)' \cap Held(s)' = {}
    BY <1>0, <1>4 DEF Placed, Of
  <2>4. \A d, e \in Of(s)' : d # e => Carried(d)' \cap Carried(e)' = {}
    BY <1>0, <1>4 DEF Placed, Of
  <2> QED
    BY <2>2, <2>3, <2>4 DEF Placed
<1>6. HeldApart(s)'
  BY <1>0, <1>1, <1>2 DEF HeldApart, Placed, Carried, Held
<1>7. ASSUME NEW t \in Sessions, t # s PROVE HeldApart(t)' /\ Placed(t)'
  <2>1. \A d \in Of(t) : calls'[d] = calls[d]
    BY <1>a, <1>2, <1>7 DEF Of
  <2> QED
    BY <1>1, <1>2, <1>3, <1>7, <2>1, OtherPlaced DEF Places
<1>8. Places'
  BY <1>2, <1>4, <1>5, <1>6, <1>7 DEF Places
<1>9. Newer'
  BY <1>0, <1>1, <1>2, <1>3, <1>4 DEF Newer, Of
<1> QED
  BY <1>8, <1>9

----------------------------------------------------------------------------
(* The inductive invariant and the theorems *)

LEMMA PInvInit == SessionsInit => PInv
<1> SUFFICES ASSUME SessionsInit PROVE PInv
  OBVIOUS
<1>1. \A c \in Calls : calls[c] = NoCall
  BY DEF SessionsInit
<1>2. Typed
  BY <1>1, NoCallFits, SessionAssumption DEF SessionsInit, Typed, SessionsTypeOK
<1>3. Reach
  BY <1>1, NoCallFits, SessionAssumption DEF SessionsInit, Reach, RunningIsReachable
<1>4. \A c \in Calls : Carried(c) = {}
  BY <1>1, NoCallFits DEF Carried
<1>5. \A s \in Sessions : Of(s) = {} /\ Held(s) = {}
  BY <1>1, NoCallFits, SessionAssumption DEF Of, Held, SessionsInit
<1>6. Places
  BY <1>1, <1>4, <1>5, NoCallFits DEF Places, Placed, HeldApart, SessionsInit
<1>7. Newer
  BY DEF Newer, SessionsInit
<1> QED
  BY <1>2, <1>3, <1>6, <1>7 DEF PInv

LEMMA CallKeeps == ASSUME PInv, NEW c \in Calls, CallStep(c) PROVE PInv'
<1>1. ASSUME NEW s \in Sessions, Start(c, s) PROVE PInv'
  <2>1. Typed' /\ StartBecomes(c, s)
    BY <1>1, StartStep DEF PInv
  <2>2. Reach'
    BY <2>1, CallsReach DEF PInv
  <2>3. Places' /\ Newer'
    BY <2>1, OutputStays DEF PInv, Places, Carried, StartBecomes, Becomes, Others
  <2> QED
    BY <2>1, <2>2, <2>3 DEF PInv
<1>2. ASSUME NEW s \in Sessions, NEW request \in Requests, GetOwned(c, s, request) PROVE PInv'
  <2>1. Typed' /\ GetOwnedBecomes(c, s)
    BY <1>2, GetOwnedStep DEF PInv
  <2>2. Reach'
    BY <2>1, CallsReach DEF PInv
  <2>3. Places' /\ Newer'
    BY <2>1, OutputStays DEF PInv, Places, Carried, GetOwnedBecomes, Becomes, Others
  <2> QED
    BY <2>1, <2>2, <2>3 DEF PInv
<1>3. CASE ReadRunning(c) \/ Act(c)
  <2>1. Typed' /\ ActingBecomes(c)
    BY <1>3, ActingStep DEF PInv
  <2>2. Reach'
    BY <2>1, CallsReach DEF PInv
  <2>3. Places' /\ Newer'
    BY <2>1, OutputStays, NoCallFits DEF PInv, Places, Carried, ActingBecomes, GoesOn, Others
  <2> QED
    BY <2>1, <2>2, <2>3 DEF PInv
<1>4. CASE Register(c)
  <2>1. Typed' /\ RegisterBecomes(c)
    BY <1>4, RegisterStep DEF PInv
  <2>2. Reach'
    BY <2>1, CallsReach DEF PInv
  <2>3. Places' /\ Newer'
    BY <2>1, OutputStays DEF PInv, Places, Carried, RegisterBecomes, Others
  <2> QED
    BY <2>1, <2>2, <2>3 DEF PInv
<1>5. CASE Drain(c)
  BY <1>5, DrainStep, CallsReach, DrainPlaces DEF PInv
<1>6. CASE Snapshot(c)
  BY <1>6, SnapshotStep, CallsReach, SnapshotPlaces DEF PInv
<1>7. CASE Remove(c) \/ StopCleanup(c)
  <2>1. Typed' /\ RemovalBecomes(c)
    BY <1>7, RemovalStep DEF PInv
  <2>2. Reach'
    BY <2>1, CallsReach DEF PInv
  <2>3. Places' /\ Newer'
    BY <2>1, OutputStays, NoCallFits DEF PInv, Places, Carried, RemovalBecomes, Others
  <2> QED
    BY <2>1, <2>2, <2>3 DEF PInv
<1> QED
  BY <1>1, <1>2, <1>3, <1>4, <1>5, <1>6, <1>7 DEF CallStep, Reply

LEMMA ProcessKeeps == ASSUME PInv, NEW s \in Sessions, ProcessStep(s) PROVE PInv'
<1>1. Typed' /\ Reach'
  BY ProcessTypes, ProcessReaches DEF PInv
<1>2. CASE Write(s)
  BY <1>1, <1>2, WritePlaces DEF PInv
<1>3. CASE Exit(s) \/ Reap(s) \/ wait(s) \/ CleanupFires(s)
  <2>1. UNCHANGED <<calls, written, buffer, dropped, delivered, reported>>
    BY <1>3 DEF Exit, Reap, wait, CleanupFires, procVars, outputVars, replyVars
  <2> QED
    BY <1>1, <2>1, OutputStays DEF PInv
<1> QED
  BY <1>2, <1>3 DEF ProcessStep

\* The inductive invariant of the process sessions holds throughout.
THEOREM SessionsInvariant == SessionsSpec => []PInv
<1>1. PInv /\ [SessionsNext]_vars => PInv'
  <2> SUFFICES ASSUME PInv, [SessionsNext]_vars PROVE PInv'
    OBVIOUS
  <2>1. CASE ShutdownStep
    <3>1. UNCHANGED <<calls, written, buffer, dropped, delivered, reported>>
      BY <2>1 DEF ShutdownStep, ShutdownBegins, ShutdownKills, ServerCloses, ServerExits,
                  procVars, outputVars, replyVars
    <3>2. Typed' /\ Reach'
      BY <2>1, ShutdownTypes, ShutdownReaches DEF PInv
    <3> QED
      BY <3>1, <3>2, OutputStays DEF PInv
  <2>2. CASE UNCHANGED vars
    <3>1. UNCHANGED <<calls, written, buffer, dropped, delivered, reported>>
      BY <2>2 DEF vars, procVars, outputVars, replyVars
    <3>2. Typed' /\ Reach'
      BY <2>2 DEF PInv, vars, procVars, outputVars, replyVars, stopVars, Typed, SessionsTypeOK,
                  Reach, RunningIsReachable
    <3> QED
      BY <3>1, <3>2, OutputStays DEF PInv
  <2> QED
    BY <2>1, <2>2, CallKeeps, ProcessKeeps DEF SessionsNext
<1> QED
  BY <1>1, PInvInit, PTL DEF SessionsSpec

\* A running process can be reached: its session is in the map, or the call that
\* started it is about to put it there.
THEOREM RunningReached == SessionsSpec => []RunningIsReachable
<1>1. PInv => RunningIsReachable
  BY DEF PInv, Reach
<1> QED
  BY <1>1, SessionsInvariant, PTL

\* No reply holds output older than what an earlier drain took.
THEOREM OutputOrdered == SessionsSpec => []OutputInOrder
<1>1. PInv => OutputInOrder
  <2> SUFFICES ASSUME PInv, NEW s \in Sessions, NEW n \in buffer[s],
                      NEW m \in InReply(s) \cup delivered[s] \cup dropped[s]
               PROVE  m < n
    BY DEF OutputInOrder
  <2>1. n \in Chunks
    BY DEF PInv, Typed, SessionsTypeOK
  <2> QED
    BY <2>1 DEF PInv, Newer, InReply, Of
<1> QED
  BY <1>1, SessionsInvariant, PTL

\* Every chunk a process wrote is in exactly one place, the replies that were
\* given and those that are being made included.
THEOREM OutputAllAccounted == SessionsSpec => []OutputAccounted
<1>1. PInv => OutputAccounted
  <2> SUFFICES ASSUME PInv, NEW s \in Sessions
               PROVE  LET places == <<buffer[s], dropped[s], InReply(s), InLoss(s), delivered[s],
                                      reported[s]>>
                      IN  /\ UNION {places[i] : i \in 1 .. 6} = 1 .. written[s]
                          /\ \A i, j \in 1 .. 6 : i # j => places[i] \cap places[j] = {}
    BY DEF OutputAccounted
  <2> DEFINE places == <<buffer[s], dropped[s], InReply(s), InLoss(s), delivered[s], reported[s]>>
  <2>1. /\ places[1] = buffer[s] /\ places[2] = dropped[s] /\ places[3] = InReply(s)
        /\ places[4] = InLoss(s) /\ places[5] = delivered[s] /\ places[6] = reported[s]
    OBVIOUS
  <2> HIDE DEF places
  <2>2. HeldApart(s) /\ Placed(s)
    BY DEF PInv, Places
  <2>3. InReply(s) \cup InLoss(s) = UNION {Carried(c) : c \in Of(s)}
    BY DEF InReply, InLoss, Carried, Of
  <2>4. InReply(s) \cap Held(s) = {} /\ InLoss(s) \cap Held(s) = {}
    BY <2>2 DEF Placed, Carried, InReply, InLoss, Of
  <2>5. InReply(s) \cap InLoss(s) = {}
    BY <2>2 DEF Placed, Carried, InReply, InLoss, Of, PInv, Places
  <2>6. UNION {places[i] : i \in 1 .. 6} = Held(s) \cup InReply(s) \cup InLoss(s)
    <3>1. 1 .. 6 = {1, 2, 3, 4, 5, 6}
      OBVIOUS
    <3> QED
      BY <2>1, <3>1 DEF Held
  <2>7. ASSUME NEW i \in 1 .. 6, NEW j \in 1 .. 6, i # j PROVE places[i] \cap places[j] = {}
    <3>1. i \in {1, 2, 3, 4, 5, 6} /\ j \in {1, 2, 3, 4, 5, 6}
      OBVIOUS
    <3> QED
      BY <2>1, <2>2, <2>4, <2>5, <2>7, <3>1 DEF HeldApart, Held
  <2>8. UNION {places[i] : i \in 1 .. 6} = 1 .. written[s]
    BY <2>2, <2>3, <2>6 DEF Placed
  <2> QED
    BY <2>7, <2>8 DEF places
<1> QED
  BY <1>1, SessionsInvariant, PTL
=============================================================================
