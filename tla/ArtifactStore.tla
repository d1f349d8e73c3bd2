---------------------------- MODULE ArtifactStore ----------------------------
(***************************************************************************)
(* The bash tool's captured output (runShellCaptured) and the artifact     *)
(* store that keeps what is too long to return (context_io.go).            *)
(*                                                                         *)
(* The store is a directory: temporary files, blobs named by the hash of   *)
(* their redacted text, and manifests, one per artifact, that name a blob. *)
(* artifactStoreMutex covers the whole of finalizeCommandCapture, but not  *)
(* a stop of the server, so each file operation under it is an action.     *)
(*                                                                         *)
(* A command becomes at most one artifact, so artifacts are named by their *)
(* commands.  CreatedAt is the position in created.  artifact_read changes *)
(* nothing but stale temporary files; it reads the manifest and then the   *)
(* blob without the mutex, so its promise is that of every single state.   *)
(***************************************************************************)
EXTENDS Integers, Sequences, FiniteSetsExt, Functions

CONSTANTS
  Commands,   \* calls of bash, each for one command
  Contents,   \* redacted outputs longer than the inline limit
  NoContent,
  Bytes,      \* the size of each content
  Quota       \* DEVSPACE_ARTIFACT_QUOTA_BYTES

ASSUME StoreAssumption ==
  /\ NoContent \notin Contents
  /\ Bytes \in [Contents -> Nat]
  /\ Quota \in Nat

VARIABLES
  stage,      \* where each call stands
  held,       \* a process the command left behind still has its output open
  late,       \* the context of the call has ended
  temps,      \* the call's files in tmp
  stale,      \* ... which nobody has written for 30 minutes
  content,    \* what was captured, once redacted
  blobs,      \* contents in blobs/
  manifests,  \* artifacts in manifests/
  created,    \* every manifest written, by CreatedAt
  evicting    \* blob of the manifest that the clean-up has just removed

callVars  == <<stage, held, late, content>>
diskVars  == <<blobs, manifests, created>>
storeVars == <<stage, held, late, temps, stale, content, blobs, manifests, created, evicting>>

----------------------------------------------------------------------------
Waiting    == {"running", "draining"}
Finalizing == {"placing", "recording", "sweeping"}
Returned   == {"stored", "inline", "fallback", "lost", "stopped"}

StoreTypeOK ==
  /\ stage \in [Commands -> {"new", "captured"} \cup Waiting \cup Finalizing \cup Returned]
  /\ held \in [Commands -> BOOLEAN] /\ late \in [Commands -> BOOLEAN]
  /\ temps \in [Commands -> SUBSET {"raw", "redacted"}]
  /\ stale \in SUBSET Commands
  /\ content \in [Commands -> Contents \cup {NoContent}]
  /\ blobs \in SUBSET Contents
  /\ manifests \in SUBSET Commands
  /\ created \in Seq(Commands)
  /\ evicting \in Contents \cup {NoContent}

\* Nobody is inside finalizeCommandCapture.
Unlocked == \A c \in Commands : stage[c] \notin Finalizing

\* What cleanupArtifactStoreLocked adds up, and later subtracts from.
Total == MapThenSumSet(LAMBDA x : Bytes[x], blobs)

\* Mutant of cleanupStaleArtifactTemps: whatever the age.
cleanupAllArtifactTemps == [c \in Commands |-> {}]

cleanupStaleArtifactTemps == [c \in Commands |-> IF c \in stale THEN {} ELSE temps[c]]

\* The deferred removals of temporary files when the call returns.
Return(c, how) ==
  /\ stage' = [stage EXCEPT ![c] = how]
  /\ temps' = [temps EXCEPT ![c] = {}]
  /\ stale' = stale \ {c}

----------------------------------------------------------------------------
(* The command *)

\* ensureArtifactStore, the raw file and the start of the shell, whose command
\* may leave a process behind that has the output pipe; the start may fail.  (A
\* store that cannot be opened means a run without one, which is left out.)
Begin(c) ==
  /\ stage[c] = "new"
  /\ \/ /\ temps' = [cleanupStaleArtifactTemps EXCEPT ![c] = {"raw"}]
        /\ stage' = [stage EXCEPT ![c] = "running"]
        /\ \E keeps \in BOOLEAN : held' = [held EXCEPT ![c] = keeps]
     \/ /\ temps' = cleanupStaleArtifactTemps
        /\ stage' = [stage EXCEPT ![c] = "fallback"]
        /\ UNCHANGED held
  /\ stale' = {}
  /\ UNCHANGED <<late, content, diskVars, evicting>>

ShellExits(c) ==
  /\ stage[c] = "running"
  /\ stage' = [stage EXCEPT ![c] = "draining"]
  /\ UNCHANGED <<held, late, temps, stale, content, diskVars, evicting>>

BackgroundEnds(c) ==
  /\ held[c]
  /\ held' = [held EXCEPT ![c] = FALSE]
  /\ UNCHANGED <<stage, late, temps, stale, content, diskVars, evicting>>

\* Mutant of TimeOut: nothing is killed.
TimeOutQuietly(c) ==
  /\ stage[c] \in Waiting /\ ~late[c]
  /\ late' = [late EXCEPT ![c] = TRUE]
  /\ UNCHANGED <<stage, held, temps, stale, content, diskVars, evicting>>

\* The deadline, or the client has gone: killProcessTree, which kills the shell
\* and nothing else outside Windows.
TimeOut(c) ==
  /\ stage[c] \in Waiting /\ ~late[c]
  /\ late' = [late EXCEPT ![c] = TRUE]
  /\ stage' = [stage EXCEPT ![c] = "draining"]
  /\ UNCHANGED <<held, temps, stale, content, diskVars, evicting>>

\* cmd.Wait returns when the shell has ended and nobody has the pipe; a late
\* call writes its message, which makes the file young if it is still there.
WaitReturns(c) ==
  /\ stage[c] = "draining" /\ ~held[c]
  /\ stage' = [stage EXCEPT ![c] = "captured"]
  /\ stale' = IF late[c] THEN stale \ {c} ELSE stale
  /\ UNCHANGED <<held, late, temps, content, diskVars, evicting>>

\* Thirty minutes: for files a stopped server left, and for those of a call that
\* waits for a background process long after its deadline of at most five.
GrowsStale(c) ==
  /\ temps[c] # {} /\ c \notin stale
  /\ stage[c] = "stopped" \/ (stage[c] = "draining" /\ late[c] /\ held[c])
  /\ stale' = stale \cup {c}
  /\ UNCHANGED <<callVars, temps, diskVars, evicting>>

\* artifact_read, as far as it changes anything: ensureArtifactStore.
ArtifactRead ==
  /\ temps' = cleanupStaleArtifactTemps
  /\ stale' = {}
  /\ UNCHANGED <<callVars, diskVars, evicting>>

----------------------------------------------------------------------------
(* finalizeCommandCapture *)

\* With the mutex: a raw file that is gone loses the output, a failed write or a
\* short output needs no store, a long one is redacted into a second file.
Redact(c) ==
  /\ stage[c] = "captured" /\ Unlocked
  /\ \/ temps[c] = {} /\ Return(c, "lost") /\ UNCHANGED content
     \/ /\ temps[c] # {}
        /\ \E how \in {"inline", "fallback"} : Return(c, how)
        /\ UNCHANGED content
     \/ /\ temps[c] # {}
        /\ stage' = [stage EXCEPT ![c] = "placing"]
        /\ temps' = [temps EXCEPT ![c] = {"raw", "redacted"}]
        /\ \E x \in Contents : content' = [content EXCEPT ![c] = x]
        /\ UNCHANGED stale
  /\ UNCHANGED <<held, late, diskVars, evicting>>

\* The redacted file becomes the blob, unless the store has that blob.
PlaceBlob(c) ==
  /\ stage[c] = "placing"
  /\ stage' = [stage EXCEPT ![c] = "recording"]
  /\ temps' = IF content[c] \in blobs THEN temps ELSE [temps EXCEPT ![c] = {"raw"}]
  /\ blobs' = blobs \cup {content[c]}
  /\ UNCHANGED <<held, late, stale, content, manifests, created, evicting>>

\* writeArtifactManifest, an atomic replacement.
WriteManifest(c) ==
  /\ stage[c] = "recording"
  /\ stage' = [stage EXCEPT ![c] = "sweeping"]
  /\ manifests' = manifests \cup {c}
  /\ created' = Append(created, c)
  /\ UNCHANGED <<held, late, temps, stale, content, blobs, evicting>>

\* A failed rename, id or manifest: the text is read from the raw file, and the
\* blob stays where it is.
StorageFails(c) ==
  /\ stage[c] \in {"placing", "recording"}
  /\ Return(c, "fallback")
  /\ UNCHANGED <<held, late, content, diskVars, evicting>>

----------------------------------------------------------------------------
(* cleanupArtifactStoreLocked, for the call that has just stored c *)

\* The oldest artifact other than c.
Oldest(c, a) ==
  /\ a \in manifests \ {c}
  /\ \E i \in DOMAIN created :
       /\ created[i] = a
       /\ \A j \in 1 .. (i - 1) : created[j] \notin manifests \ {c}

\* Mutant of RemoveManifest: the artifact just stored is not protected.
RemoveAnyManifest(c) ==
  /\ stage[c] = "sweeping" /\ evicting = NoContent
  /\ Total > Quota
  /\ \E a \in manifests : manifests' = manifests \ {a} /\ evicting' = content[a]
  /\ UNCHANGED <<callVars, temps, stale, blobs, created>>

RemoveManifest(c) ==
  /\ stage[c] = "sweeping" /\ evicting = NoContent
  /\ Total > Quota
  /\ \E a \in Commands :
       /\ Oldest(c, a)
       /\ manifests' = manifests \ {a}
       /\ evicting' = content[a]
  /\ UNCHANGED <<callVars, temps, stale, blobs, created>>

\* Mutant of RemoveBlob: other manifests are not looked at.
RemoveBlobAlways(c) ==
  /\ stage[c] = "sweeping" /\ evicting # NoContent
  /\ blobs' = blobs \ {evicting}
  /\ evicting' = NoContent
  /\ UNCHANGED <<callVars, temps, stale, manifests, created>>

\* The blob goes too unless another manifest names it.
RemoveBlob(c) ==
  /\ stage[c] = "sweeping" /\ evicting # NoContent
  /\ blobs' = IF \E a \in manifests : content[a] = evicting THEN blobs ELSE blobs \ {evicting}
  /\ evicting' = NoContent
  /\ UNCHANGED <<callVars, temps, stale, manifests, created>>

\* Within the quota, or nothing left to evict: the call returns its reference.
SweepEnds(c) ==
  /\ stage[c] = "sweeping" /\ evicting = NoContent
  /\ Total <= Quota \/ manifests \subseteq {c}
  /\ Return(c, "stored")
  /\ UNCHANGED <<held, late, content, diskVars, evicting>>

----------------------------------------------------------------------------
\* The server stops wherever it is, and is started again; files stay.
Restart ==
  /\ stage' = [c \in Commands |->
       IF stage[c] \in Waiting \cup Finalizing \cup {"captured"} THEN "stopped" ELSE stage[c]]
  /\ evicting' = NoContent
  /\ UNCHANGED <<held, late, temps, stale, content, diskVars>>

StoreInit ==
  /\ stage = [c \in Commands |-> "new"]
  /\ held = [c \in Commands |-> FALSE]
  /\ late = [c \in Commands |-> FALSE]
  /\ temps = [c \in Commands |-> {}]
  /\ stale = {}
  /\ content = [c \in Commands |-> NoContent]
  /\ blobs = {}
  /\ manifests = {}
  /\ created = <<>>
  /\ evicting = NoContent

\* What the server does by itself with a call.
CallStep(c) ==
  \/ TimeOut(c) \/ WaitReturns(c)
  \/ Redact(c) \/ PlaceBlob(c) \/ WriteManifest(c)
  \/ RemoveManifest(c) \/ RemoveBlob(c) \/ SweepEnds(c)

StoreNext ==
  \/ \E c \in Commands :
       Begin(c) \/ ShellExits(c) \/ BackgroundEnds(c) \/ GrowsStale(c) \/ StorageFails(c)
         \/ CallStep(c)
  \/ ArtifactRead \/ Restart

StoreSpec == StoreInit /\ [][StoreNext]_storeVars

\* Deadlines pass and the server's goroutines run.  Nothing in the code ends a
\* process the command left behind, so nothing is assumed of it.
FairStoreSpec == StoreSpec /\ \A c \in Commands : WF_storeVars(CallStep(c))

----------------------------------------------------------------------------
(* Properties *)

\* Every manifest's blob is there in every state, between any two file
\* operations and wherever the server stops, also when artifacts share a blob:
\* artifact_read, which takes no lock, misses a blob only if the artifact has
\* been evicted since it read the manifest.
ManifestHasBlob == \A a \in manifests : content[a] \in blobs

\* Clearing tmp, which every other call does without the mutex, takes nothing
\* from a call that is within its deadline.
OutputLostOnlyLate == \A c \in Commands : stage[c] = "lost" => late[c]

\* The store implements ArtifactShelf: artifacts go oldest first, one at a time,
\* never the newest, and none comes back, with any sharing of blobs and stops.
Shelf == INSTANCE ArtifactShelf WITH
  readable  <- {a \in manifests : content[a] \in blobs},
  published <- created

ImplementsShelf == Shelf!ShelfSpec

\* A call whose output nobody else holds returns, through its deadline, the wait
\* for the mutex, failed storage and eviction, unless the server stops.
UnheldBashReturns ==
  \A c \in Commands : stage[c] \in Waiting /\ ~held[c] ~> stage[c] \in Returned

\* tools.go:283: a call of bash ends, at the latest some time after its deadline
\* ("default 120 and maximum 300 seconds"), whatever its command left behind.
BashReturns ==
  \A c \in Commands : stage[c] \in Waiting ~> stage[c] \in Returned
=============================================================================
