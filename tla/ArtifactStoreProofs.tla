------------------------- MODULE ArtifactStoreProofs -------------------------
(***************************************************************************)
(* Proofs about ArtifactStore, for every number of commands, set of        *)
(* contents, sizes and quota: its type invariant, that a manifest always   *)
(* has its blob, that clearing tmp takes nothing from a call within its    *)
(* deadline, and that the store implements ArtifactShelf.                  *)
(*                                                                         *)
(* The inductive invariant has a part for the calls and their temporary    *)
(* files and a part for the directory.  The second says who may be inside  *)
(* the mutex and what he has done so far, which is what is left of the     *)
(* store's state when the file operations of one call are separate steps.  *)
(***************************************************************************)
EXTENDS ArtifactStore, TLAPS

\* The output of a call whose raw file is gone, or may be cleared, is late.
TempInv ==
  \A c \in Commands :
    stage[c] \in Waiting \cup {"captured"} /\ (temps[c] = {} \/ c \in stale) => late[c]

OneInside ==
  \A c, d \in Commands : stage[c] \in Finalizing /\ stage[d] \in Finalizing => c = d

Written == {created[i] : i \in DOMAIN created}

\* What a call has done, by its stage.
Progress(c) ==
  /\ stage[c] \in {"new", "captured", "placing", "recording"} \cup Waiting => c \notin Written
  /\ stage[c] = "placing" => content[c] \in Contents
  /\ stage[c] = "recording" => content[c] \in blobs
  /\ stage[c] = "sweeping" =>
       /\ c \in manifests
       /\ Len(created) > 0
       /\ created[Len(created)] = c

DirectoryInv ==
  /\ OneInside
  /\ \A c \in Commands : Progress(c)
  /\ evicting # NoContent => \E c \in Commands : stage[c] = "sweeping"
  /\ manifests \subseteq Written
  /\ \A i, j \in DOMAIN created : created[i] = created[j] => i = j
  /\ ManifestHasBlob

SInv == StoreTypeOK /\ TempInv /\ OutputLostOnlyLate /\ DirectoryInv

----------------------------------------------------------------------------
(* Steps that leave the directory alone *)

\* Such a step moves calls before they enter the mutex, or makes them return;
\* the one that evicts does not return half-way.
LEMMA QuietStep ==
  ASSUME DirectoryInv, UNCHANGED <<blobs, manifests, created, content>>,
         \A c \in Commands :
           \/ stage'[c] = stage[c]
           \/ stage[c] \in {"new"} \cup Waiting /\ stage'[c] \in {"captured"} \cup Waiting
           \/ stage'[c] \in Returned,
         evicting' = NoContent \/ (evicting' = evicting /\ \A c \in Commands :
           stage[c] = "sweeping" => stage'[c] = "sweeping")
  PROVE  DirectoryInv'
<1>1. OneInside'
  BY DEF DirectoryInv, OneInside, Finalizing, Waiting, Returned
<1>2. \A c \in Commands : Progress(c)'
  <2> TAKE c \in Commands
  <2>1. Progress(c)
    BY DEF DirectoryInv
  <2>2. Written' = Written
    BY DEF Written
  <2> QED
    BY <2>1, <2>2 DEF Progress, Waiting, Returned
<1>3. evicting' # NoContent => \E c \in Commands : stage'[c] = "sweeping"
  BY DEF DirectoryInv
<1>4. (manifests \subseteq Written)' /\ ManifestHasBlob'
      /\ (\A i, j \in DOMAIN created : created[i] = created[j] => i = j)'
  BY DEF DirectoryInv, Written, ManifestHasBlob
<1> QED
  BY <1>1, <1>2, <1>3, <1>4 DEF DirectoryInv

\* The calls' side of a step inside the mutex, and of a return.
LEMMA InsideTemps ==
  ASSUME SInv, NEW c \in Commands, NEW s, s \in Finalizing \cup (Returned \ {"lost"}),
         stage' = [stage EXCEPT ![c] = s],
         late' = late, stale' \subseteq stale, \A d \in Commands : d # c => temps'[d] = temps[d]
  PROVE  TempInv' /\ OutputLostOnlyLate'
<1>1. stage' \in [Commands -> {stage'[d] : d \in Commands}]
      /\ stage'[c] = s /\ \A d \in Commands : d # c => stage'[d] = stage[d]
  BY DEF SInv, StoreTypeOK
<1>2. s \notin Waiting \cup {"captured", "lost"}
  BY DEF Finalizing, Returned, Waiting
<1> QED
  BY <1>1, <1>2 DEF SInv, TempInv, OutputLostOnlyLate

----------------------------------------------------------------------------
(* The command *)

LEMMA BeginStep ==
  ASSUME SInv, NEW c \in Commands, Begin(c)
  PROVE  SInv'
<1> USE DEF SInv
<1>1. /\ stage[c] = "new" /\ late' = late /\ stale' = {}
      /\ UNCHANGED <<content, blobs, manifests, created, evicting>>
      /\ \E s \in {"running", "fallback"} : stage' = [stage EXCEPT ![c] = s]
      /\ held' = held \/ \E keeps \in BOOLEAN : held' = [held EXCEPT ![c] = keeps]
      /\ \/ temps' = [cleanupStaleArtifactTemps EXCEPT ![c] = {"raw"}]
         \/ temps' = cleanupStaleArtifactTemps /\ stage'[c] = "fallback"
  BY DEF Begin, diskVars, StoreTypeOK
<1>2. /\ stage'[c] \in {"running", "fallback"}
      /\ \A d \in Commands : d # c => stage'[d] = stage[d]
  BY <1>1 DEF StoreTypeOK
<1>3. cleanupStaleArtifactTemps \in [Commands -> SUBSET {"raw", "redacted"}]
  BY DEF StoreTypeOK, cleanupStaleArtifactTemps
<1>4. StoreTypeOK'
  <2>1. stage' \in [Commands -> {"new", "captured"} \cup Waiting \cup Finalizing \cup Returned]
    BY <1>1 DEF StoreTypeOK, Waiting, Returned
  <2>2. held' \in [Commands -> BOOLEAN]
    BY <1>1 DEF StoreTypeOK
  <2>3. temps' \in [Commands -> SUBSET {"raw", "redacted"}]
    BY <1>1, <1>3
  <2> QED
    BY <1>1, <2>1, <2>2, <2>3 DEF StoreTypeOK
<1>5. TempInv' /\ OutputLostOnlyLate'
  <2>1. \A d \in Commands : d # c /\ temps'[d] = {} => temps[d] = {} \/ d \in stale
    BY <1>1, <1>3 DEF cleanupStaleArtifactTemps, StoreTypeOK
  <2>2. stage'[c] = "running" => temps'[c] # {}
    BY <1>1, <1>2, <1>3
  <2> QED
    BY <1>1, <1>2, <2>1, <2>2 DEF TempInv, OutputLostOnlyLate, Waiting
<1>6. DirectoryInv'
  BY <1>1, <1>2, QuietStep DEF Waiting, Returned
<1> QED
  BY <1>4, <1>5, <1>6

LEMMA ShellExitsStep ==
  ASSUME SInv, NEW c \in Commands, ShellExits(c)
  PROVE  SInv'
<1> USE DEF SInv
<1>1. /\ stage[c] = "running" /\ stage' = [stage EXCEPT ![c] = "draining"]
      /\ UNCHANGED <<held, late, temps, stale, content, blobs, manifests, created, evicting>>
  BY DEF ShellExits, diskVars
<1>2. stage'[c] = "draining" /\ \A d \in Commands : d # c => stage'[d] = stage[d]
  BY <1>1 DEF StoreTypeOK
<1>3. StoreTypeOK'
  BY <1>1 DEF StoreTypeOK, Waiting
<1>4. TempInv' /\ OutputLostOnlyLate'
  BY <1>1, <1>2 DEF TempInv, OutputLostOnlyLate, Waiting
<1>5. DirectoryInv'
  BY <1>1, <1>2, QuietStep DEF Waiting
<1> QED
  BY <1>3, <1>4, <1>5

LEMMA BackgroundEndsStep ==
  ASSUME SInv, NEW c \in Commands, BackgroundEnds(c)
  PROVE  SInv'
<1> USE DEF SInv
<1>1. /\ held' = [held EXCEPT ![c] = FALSE]
      /\ UNCHANGED <<stage, late, temps, stale, content, blobs, manifests, created, evicting>>
  BY DEF BackgroundEnds, diskVars
<1>2. StoreTypeOK'
  BY <1>1 DEF StoreTypeOK
<1>3. TempInv' /\ OutputLostOnlyLate'
  BY <1>1 DEF TempInv, OutputLostOnlyLate
<1>4. DirectoryInv'
  BY <1>1, QuietStep
<1> QED
  BY <1>2, <1>3, <1>4

LEMMA TimeOutStep ==
  ASSUME SInv, NEW c \in Commands, TimeOut(c)
  PROVE  SInv'
<1> USE DEF SInv
<1>1. /\ stage[c] \in Waiting /\ stage' = [stage EXCEPT ![c] = "draining"]
      /\ late' = [late EXCEPT ![c] = TRUE]
      /\ UNCHANGED <<held, temps, stale, content, blobs, manifests, created, evicting>>
  BY DEF TimeOut, diskVars
<1>2. /\ stage'[c] = "draining" /\ \A d \in Commands : d # c => stage'[d] = stage[d]
      /\ late'[c] /\ \A d \in Commands : d # c => late'[d] = late[d]
  BY <1>1 DEF StoreTypeOK
<1>3. StoreTypeOK'
  BY <1>1 DEF StoreTypeOK, Waiting
<1>4. TempInv' /\ OutputLostOnlyLate'
  BY <1>1, <1>2 DEF TempInv, OutputLostOnlyLate, Waiting
<1>5. DirectoryInv'
  BY <1>1, <1>2, QuietStep DEF Waiting
<1> QED
  BY <1>3, <1>4, <1>5

LEMMA WaitReturnsStep ==
  ASSUME SInv, NEW c \in Commands, WaitReturns(c)
  PROVE  SInv'
<1> USE DEF SInv
<1>1. /\ stage[c] = "draining" /\ stage' = [stage EXCEPT ![c] = "captured"]
      /\ stale' \subseteq stale
      /\ UNCHANGED <<held, late, temps, content, blobs, manifests, created, evicting>>
  BY DEF WaitReturns, diskVars
<1>2. stage'[c] = "captured" /\ \A d \in Commands : d # c => stage'[d] = stage[d]
  BY <1>1 DEF StoreTypeOK
<1>3. StoreTypeOK'
  BY <1>1 DEF StoreTypeOK
<1>4. TempInv' /\ OutputLostOnlyLate'
  BY <1>1, <1>2 DEF TempInv, OutputLostOnlyLate, Waiting
<1>5. DirectoryInv'
  BY <1>1, <1>2, QuietStep DEF Waiting
<1> QED
  BY <1>3, <1>4, <1>5

LEMMA GrowsStaleStep ==
  ASSUME SInv, NEW c \in Commands, GrowsStale(c)
  PROVE  SInv'
<1> USE DEF SInv
<1>1. /\ stale' = stale \cup {c} /\ (stage[c] = "stopped" \/ late[c])
      /\ UNCHANGED <<stage, held, late, content, temps, blobs, manifests, created, evicting>>
  BY DEF GrowsStale, callVars, diskVars
<1>2. StoreTypeOK'
  BY <1>1 DEF StoreTypeOK
<1>3. TempInv' /\ OutputLostOnlyLate'
  BY <1>1 DEF TempInv, OutputLostOnlyLate, Waiting
<1>4. DirectoryInv'
  BY <1>1, QuietStep
<1> QED
  BY <1>2, <1>3, <1>4

LEMMA ArtifactReadStep ==
  ASSUME SInv, ArtifactRead
  PROVE  SInv'
<1> USE DEF SInv
<1>1. /\ temps' = cleanupStaleArtifactTemps /\ stale' = {}
      /\ UNCHANGED <<stage, held, late, content, blobs, manifests, created, evicting>>
  BY DEF ArtifactRead, callVars, diskVars
<1>2. /\ temps' \in [Commands -> SUBSET {"raw", "redacted"}]
      /\ \A d \in Commands : temps'[d] = {} => temps[d] = {} \/ d \in stale
  BY <1>1 DEF StoreTypeOK, cleanupStaleArtifactTemps
<1>3. StoreTypeOK'
  BY <1>1, <1>2 DEF StoreTypeOK
<1>4. TempInv' /\ OutputLostOnlyLate'
  BY <1>1, <1>2 DEF TempInv, OutputLostOnlyLate
<1>5. DirectoryInv'
  BY <1>1, QuietStep
<1> QED
  BY <1>3, <1>4, <1>5

----------------------------------------------------------------------------
(* finalizeCommandCapture and the clean-up *)

\* A call that returns: the directory stays, its own files go.
LEMMA ReturnStep ==
  ASSUME SInv, NEW c \in Commands, NEW how \in Returned, Return(c, how),
         how = "lost" => late[c],
         evicting = NoContent \/ stage[c] # "sweeping",
         UNCHANGED <<held, late, content, blobs, manifests, created, evicting>>
  PROVE  SInv'
<1> USE DEF SInv
<1>1. /\ stage' = [stage EXCEPT ![c] = how] /\ temps' = [temps EXCEPT ![c] = {}]
      /\ stale' = stale \ {c}
  BY DEF Return
<1>2. /\ stage'[c] = how /\ \A d \in Commands : d # c => stage'[d] = stage[d]
      /\ \A d \in Commands : d # c => temps'[d] = temps[d]
  BY <1>1 DEF StoreTypeOK
<1>3. StoreTypeOK'
  BY <1>1 DEF StoreTypeOK
<1>4. TempInv' /\ OutputLostOnlyLate'
  BY <1>1, <1>2 DEF TempInv, OutputLostOnlyLate, Waiting, Returned
<1>5. DirectoryInv'
  BY <1>2, QuietStep
<1> QED
  BY <1>3, <1>4, <1>5

LEMMA RedactStep ==
  ASSUME SInv, NEW c \in Commands, Redact(c)
  PROVE  SInv'
<1> USE DEF SInv
<1>1. /\ stage[c] = "captured" /\ Unlocked
      /\ UNCHANGED <<held, late, blobs, manifests, created, evicting>>
  BY DEF Redact, diskVars
<1>2. CASE temps[c] = {} /\ Return(c, "lost") /\ UNCHANGED content
  <2>1. late[c]
    BY <1>1, <1>2 DEF TempInv
  <2> QED
    BY <1>1, <1>2, <2>1, ReturnStep DEF Returned
<1>3. CASE \E how \in {"inline", "fallback"} : Return(c, how) /\ UNCHANGED content
  BY <1>1, <1>3, ReturnStep DEF Returned
<1>4. CASE /\ stage' = [stage EXCEPT ![c] = "placing"]
           /\ temps' = [temps EXCEPT ![c] = {"raw", "redacted"}]
           /\ \E x \in Contents : content' = [content EXCEPT ![c] = x]
           /\ UNCHANGED stale
  <2>1. PICK x \in Contents : content' = [content EXCEPT ![c] = x]
    BY <1>4
  <2>2. /\ stage'[c] = "placing" /\ \A d \in Commands : d # c => stage'[d] = stage[d]
        /\ content'[c] = x /\ \A d \in Commands : d # c => content'[d] = content[d]
    BY <1>4, <2>1 DEF StoreTypeOK
  <2>3. StoreTypeOK'
    BY <1>1, <1>4, <2>1 DEF StoreTypeOK, Finalizing
  <2>4. TempInv' /\ OutputLostOnlyLate'
    <3>1. "placing" \in Finalizing \cup (Returned \ {"lost"})
      BY DEF Finalizing
    <3>2. \A d \in Commands : d # c => temps'[d] = temps[d]
      BY <1>4 DEF StoreTypeOK
    <3> QED
      BY <1>1, <1>4, <3>1, <3>2, InsideTemps
  <2>5. c \notin Written /\ c \notin manifests
    BY <1>1 DEF DirectoryInv, Progress
  <2>6. Written' = Written
    BY <1>1 DEF Written
  <2>7. OneInside'
    BY <1>1, <2>2 DEF OneInside, Unlocked
  <2>8. \A d \in Commands : Progress(d)'
    <3>1. Progress(c)'
      BY <2>2, <2>5, <2>6 DEF Progress
    <3>2. ASSUME NEW d \in Commands, d # c PROVE Progress(d)'
      BY <1>1, <2>2, <2>6, <3>2 DEF Progress, DirectoryInv
    <3> QED BY <3>1, <3>2
  <2>9. evicting' # NoContent => \E d \in Commands : stage'[d] = "sweeping"
    BY <1>1, <2>2 DEF DirectoryInv
  <2>10. ManifestHasBlob'
    BY <1>1, <2>2, <2>5 DEF DirectoryInv, ManifestHasBlob, StoreTypeOK
  <2>11. (manifests \subseteq Written)' /\ (\A i, j \in DOMAIN created : created[i] = created[j] => i = j)'
    BY <1>1, <2>6 DEF DirectoryInv
  <2> QED
    BY <2>3, <2>4, <2>7, <2>8, <2>9, <2>10, <2>11 DEF DirectoryInv
<1> QED
  BY <1>2, <1>3, <1>4 DEF Redact

LEMMA PlaceBlobStep ==
  ASSUME SInv, NEW c \in Commands, PlaceBlob(c)
  PROVE  SInv'
<1> USE DEF SInv
<1>1. /\ stage[c] = "placing" /\ stage' = [stage EXCEPT ![c] = "recording"]
      /\ blobs' = blobs \cup {content[c]}
      /\ temps' = temps \/ temps' = [temps EXCEPT ![c] = {"raw"}]
      /\ UNCHANGED <<held, late, stale, content, manifests, created, evicting>>
  BY DEF PlaceBlob
<1>2. stage'[c] = "recording" /\ \A d \in Commands : d # c => stage'[d] = stage[d]
  BY <1>1 DEF StoreTypeOK
<1>3. content[c] \in Contents
  BY <1>1 DEF DirectoryInv, Progress
<1>4. StoreTypeOK'
  BY <1>1, <1>3 DEF StoreTypeOK, Finalizing
<1>5. TempInv' /\ OutputLostOnlyLate'
  <2>1. "recording" \in Finalizing \cup (Returned \ {"lost"})
    BY DEF Finalizing
  <2>2. \A d \in Commands : d # c => temps'[d] = temps[d]
    BY <1>1 DEF StoreTypeOK
  <2> QED
    BY <1>1, <2>1, <2>2, InsideTemps
<1>6. OneInside'
  BY <1>1, <1>2 DEF DirectoryInv, OneInside, Finalizing
<1>7. \A d \in Commands : Progress(d)'
  <2>1. Written' = Written
    BY <1>1 DEF Written
  <2> QED
    BY <1>1, <1>2, <2>1 DEF DirectoryInv, Progress, Waiting
<1>8. evicting' # NoContent => \E d \in Commands : stage'[d] = "sweeping"
  BY <1>1, <1>2 DEF DirectoryInv
<1>9. (manifests \subseteq Written)' /\ ManifestHasBlob'
      /\ (\A i, j \in DOMAIN created : created[i] = created[j] => i = j)'
  BY <1>1 DEF DirectoryInv, Written, ManifestHasBlob
<1> QED
  BY <1>4, <1>5, <1>6, <1>7, <1>8, <1>9 DEF DirectoryInv

LEMMA WriteManifestStep ==
  ASSUME SInv, NEW c \in Commands, WriteManifest(c)
  PROVE  SInv'
<1> USE DEF SInv
<1>1. /\ stage[c] = "recording" /\ stage' = [stage EXCEPT ![c] = "sweeping"]
      /\ manifests' = manifests \cup {c} /\ created' = Append(created, c)
      /\ UNCHANGED <<held, late, temps, stale, content, blobs, evicting>>
  BY DEF WriteManifest
<1>2. stage'[c] = "sweeping" /\ \A d \in Commands : d # c => stage'[d] = stage[d]
  BY <1>1 DEF StoreTypeOK
<1>3. created \in Seq(Commands) /\ created' \in Seq(Commands)
  BY <1>1 DEF StoreTypeOK
<1>4. StoreTypeOK'
  BY <1>1, <1>3 DEF StoreTypeOK, Finalizing
<1>5. TempInv' /\ OutputLostOnlyLate'
  <2>1. "sweeping" \in Finalizing \cup (Returned \ {"lost"})
    BY DEF Finalizing
  <2> QED
    BY <1>1, <2>1, InsideTemps
<1>6. OneInside'
  BY <1>1, <1>2 DEF DirectoryInv, OneInside, Finalizing
<1>7. /\ Len(created') = Len(created) + 1 /\ Len(created) \in Nat
      /\ created'[Len(created')] = c
      /\ \A i \in DOMAIN created : created'[i] = created[i]
      /\ DOMAIN created' = DOMAIN created \cup {Len(created')}
  BY <1>1, <1>3
<1>8. Written' = Written \cup {c}
  BY <1>7 DEF Written
<1>9. c \notin Written /\ content[c] \in blobs
  BY <1>1 DEF DirectoryInv, Progress
<1>10. \A d \in Commands : Progress(d)'
  <2>1. Progress(c)'
    BY <1>1, <1>2, <1>7 DEF Progress, Waiting
  <2>2. ASSUME NEW d \in Commands, d # c PROVE Progress(d)'
    <3>1. stage[d] \notin Finalizing
      BY <1>1, <2>2 DEF DirectoryInv, OneInside, Finalizing
    <3> QED
      BY <1>1, <1>2, <1>8, <2>2, <3>1 DEF DirectoryInv, Progress, Finalizing
  <2> QED
    BY <2>1, <2>2
<1>11. evicting' # NoContent => \E d \in Commands : stage'[d] = "sweeping"
  BY <1>2
<1>12. (manifests \subseteq Written)' /\ ManifestHasBlob'
  BY <1>1, <1>8, <1>9 DEF DirectoryInv, ManifestHasBlob
<1>13. (\A i, j \in DOMAIN created : created[i] = created[j] => i = j)'
  <2>1. \A i \in DOMAIN created : created[i] # c
    BY <1>9 DEF Written
  <2> QED
    BY <1>7, <2>1 DEF DirectoryInv
<1> QED
  BY <1>4, <1>5, <1>6, <1>10, <1>11, <1>12, <1>13 DEF DirectoryInv

LEMMA StorageFailsStep ==
  ASSUME SInv, NEW c \in Commands, StorageFails(c)
  PROVE  SInv'
<1>1. /\ stage[c] \in {"placing", "recording"} /\ Return(c, "fallback")
      /\ UNCHANGED <<held, late, content, blobs, manifests, created, evicting>>
  BY DEF StorageFails, diskVars
<1> QED
  BY <1>1, ReturnStep DEF Returned

LEMMA SweepEndsStep ==
  ASSUME SInv, NEW c \in Commands, SweepEnds(c)
  PROVE  SInv'
<1>1. /\ evicting = NoContent /\ Return(c, "stored")
      /\ UNCHANGED <<held, late, content, blobs, manifests, created, evicting>>
  BY DEF SweepEnds, diskVars
<1> QED
  BY <1>1, ReturnStep DEF Returned

\* A step of the clean-up: the calls stay, and c is the newest artifact.
LEMMA SweepStep ==
  ASSUME SInv, NEW c \in Commands, stage[c] = "sweeping",
         UNCHANGED <<stage, held, late, content, temps, stale, created>>,
         manifests' \subseteq manifests, c \in manifests',
         blobs' \subseteq blobs, ManifestHasBlob',
         evicting' \in Contents \cup {NoContent}
  PROVE  SInv'
<1> USE DEF SInv
<1>1. StoreTypeOK'
  BY DEF StoreTypeOK
<1>2. TempInv' /\ OutputLostOnlyLate'
  BY DEF TempInv, OutputLostOnlyLate
<1>3. OneInside'
  BY DEF DirectoryInv, OneInside
<1>4. \A d \in Commands : Progress(d)'
  <2> TAKE d \in Commands
  <2>1. Written' = Written /\ Progress(d)
    BY DEF Written, DirectoryInv
  <2>2. d # c => stage[d] \notin Finalizing
    BY DEF DirectoryInv, OneInside, Finalizing
  <2> QED
    BY <2>1, <2>2 DEF Progress, Finalizing, Waiting
<1>5. (manifests \subseteq Written)'
      /\ (\A i, j \in DOMAIN created : created[i] = created[j] => i = j)'
  BY DEF DirectoryInv, Written
<1> QED
  BY <1>1, <1>2, <1>3, <1>4, <1>5 DEF DirectoryInv

LEMMA RemoveManifestStep ==
  ASSUME SInv, NEW c \in Commands, RemoveManifest(c)
  PROVE  SInv'
<1>1. PICK a \in Commands : Oldest(c, a) /\ manifests' = manifests \ {a} /\ evicting' = content[a]
  BY DEF RemoveManifest
<1>2. /\ stage[c] = "sweeping"
      /\ UNCHANGED <<stage, held, late, content, temps, stale, blobs, created>>
  BY DEF RemoveManifest, callVars
<1>3. a # c
  BY <1>1 DEF Oldest
<1>4. c \in manifests /\ ManifestHasBlob
  BY <1>2 DEF SInv, DirectoryInv, Progress
<1>5. ManifestHasBlob'
  BY <1>1, <1>2, <1>4 DEF ManifestHasBlob
<1>6. evicting' \in Contents \cup {NoContent}
  BY <1>1 DEF SInv, StoreTypeOK
<1> QED
  BY <1>1, <1>2, <1>3, <1>4, <1>5, <1>6, SweepStep

LEMMA RemoveBlobStep ==
  ASSUME SInv, NEW c \in Commands, RemoveBlob(c)
  PROVE  SInv'
<1>1. /\ stage[c] = "sweeping" /\ evicting' = NoContent
      /\ blobs' = IF \E a \in manifests : content[a] = evicting THEN blobs ELSE blobs \ {evicting}
      /\ UNCHANGED <<stage, held, late, content, temps, stale, manifests, created>>
  BY DEF RemoveBlob, callVars
<1>2. c \in manifests /\ ManifestHasBlob
  BY <1>1 DEF SInv, DirectoryInv, Progress
<1>3. ManifestHasBlob'
  BY <1>1, <1>2 DEF ManifestHasBlob
<1> QED
  BY <1>1, <1>2, <1>3, SweepStep

LEMMA RestartStep ==
  ASSUME SInv, Restart
  PROVE  SInv'
<1> USE DEF SInv
<1>1. /\ \A d \in Commands : stage'[d] = stage[d] \/ stage'[d] = "stopped"
      /\ \A d \in Commands : stage'[d] \notin Waiting \cup {"captured"}
      /\ stage' = [d \in Commands |-> stage'[d]]
      /\ evicting' = NoContent
      /\ UNCHANGED <<held, late, content, temps, stale, blobs, manifests, created>>
  BY DEF Restart, diskVars, Waiting, Finalizing
<1>2. StoreTypeOK'
  BY <1>1 DEF StoreTypeOK, Returned
<1>3. TempInv' /\ OutputLostOnlyLate'
  BY <1>1 DEF TempInv, OutputLostOnlyLate
<1>4. DirectoryInv'
  BY <1>1, QuietStep DEF Returned
<1> QED
  BY <1>2, <1>3, <1>4

----------------------------------------------------------------------------
(* The invariant *)

LEMMA InitSInv ==
  ASSUME StoreInit
  PROVE  SInv
<1>1. stage \in [Commands -> {"new", "captured"} \cup Waiting \cup Finalizing \cup Returned]
  BY DEF StoreInit
<1>2. \A c \in Commands : stage[c] = "new"
  BY DEF StoreInit
<1>3. created = <<>> /\ created \in Seq(Commands)
  BY DEF StoreInit
<1>4. StoreTypeOK
  BY <1>1, <1>3 DEF StoreInit, StoreTypeOK
<1>5. TempInv /\ OutputLostOnlyLate
  BY <1>2 DEF TempInv, OutputLostOnlyLate, Waiting
<1>6. DirectoryInv
  BY <1>2, <1>3
  DEF StoreInit, DirectoryInv, OneInside, Progress, Written, ManifestHasBlob, Finalizing
<1> QED
  BY <1>4, <1>5, <1>6 DEF SInv

LEMMA StutterSInv ==
  ASSUME SInv, UNCHANGED storeVars
  PROVE  SInv'
<1>1. UNCHANGED <<stage, held, late, temps, stale, content, blobs, manifests, created, evicting>>
  BY DEF storeVars
<1> QED
  BY <1>1, QuietStep DEF SInv, StoreTypeOK, TempInv, OutputLostOnlyLate

LEMMA NextSInv ==
  ASSUME SInv, [StoreNext]_storeVars
  PROVE  SInv'
<1>1. ASSUME NEW c \in Commands, Begin(c) \/ ShellExits(c) \/ BackgroundEnds(c) \/ GrowsStale(c)
      PROVE  SInv'
  BY <1>1, BeginStep, ShellExitsStep, BackgroundEndsStep, GrowsStaleStep
<1>2. ASSUME NEW c \in Commands, StorageFails(c)
      PROVE  SInv'
  BY <1>2, StorageFailsStep
<1>3. ASSUME NEW c \in Commands, CallStep(c)
      PROVE  SInv'
  BY <1>3, TimeOutStep, WaitReturnsStep, RedactStep, PlaceBlobStep, WriteManifestStep,
     RemoveManifestStep, RemoveBlobStep, SweepEndsStep DEF CallStep
<1>4. CASE ArtifactRead
  BY <1>4, ArtifactReadStep
<1>5. CASE Restart
  BY <1>5, RestartStep
<1>6. CASE UNCHANGED storeVars
  BY <1>6, StutterSInv
<1> QED
  BY <1>1, <1>2, <1>3, <1>4, <1>5, <1>6 DEF StoreNext

(***************************************************************************)
(* Every reachable state satisfies SInv: at most one call is inside the    *)
(* mutex, and the directory is as far as that call has come.               *)
(***************************************************************************)
THEOREM StoreInvariant == StoreSpec => []SInv
<1>1. StoreInit => SInv
  BY InitSInv
<1>2. SInv /\ [StoreNext]_storeVars => SInv'
  BY NextSInv
<1> QED
  BY <1>1, <1>2, PTL DEF StoreSpec

(***************************************************************************)
(* Type correctness of the artifact store, for any number of calls.        *)
(***************************************************************************)
THEOREM StoreTypeCorrect == StoreSpec => []StoreTypeOK
<1>1. SInv => StoreTypeOK
  BY DEF SInv
<1> QED
  BY <1>1, StoreInvariant, PTL

(***************************************************************************)
(* A manifest never names a blob that is not there, between any two file   *)
(* operations of captures, clean-ups and stops of the server: what         *)
(* artifact_read needs, as it takes no lock.                               *)
(***************************************************************************)
THEOREM BlobsBehindManifests == StoreSpec => []ManifestHasBlob
<1>1. SInv => ManifestHasBlob
  BY DEF SInv, DirectoryInv
<1> QED
  BY <1>1, StoreInvariant, PTL

(***************************************************************************)
(* Clearing stale temporary files, which other calls do at any time, never *)
(* takes the output of a call within its deadline.                         *)
(***************************************************************************)
THEOREM TempsSurvive == StoreSpec => []OutputLostOnlyLate
<1>1. SInv => OutputLostOnlyLate
  BY DEF SInv
<1> QED
  BY <1>1, StoreInvariant, PTL

----------------------------------------------------------------------------
(* The store implements ArtifactShelf *)

\* With their blobs there, the readable artifacts are those with a manifest.
LEMMA ReadableManifests ==
  ASSUME SInv
  PROVE  {a \in manifests : content[a] \in blobs} = manifests
  BY DEF SInv, DirectoryInv, ManifestHasBlob

LEMMA PublishImage ==
  ASSUME SInv, SInv', NEW c \in Commands, WriteManifest(c)
  PROVE  Shelf!ShelfNext
<1>1. c \notin Written
  BY DEF WriteManifest, SInv, DirectoryInv, Progress
<1>2. \A i \in DOMAIN created : created[i] # c
  BY <1>1 DEF Written
<1>3. {a \in manifests : content[a] \in blobs}' = manifests'
  BY DEF SInv, DirectoryInv, ManifestHasBlob
<1>4. Shelf!Publish(c)
  BY <1>2, <1>3, ReadableManifests DEF WriteManifest, Shelf!Publish
<1> QED
  BY <1>4 DEF Shelf!ShelfNext

LEMMA EvictImage ==
  ASSUME SInv, SInv', NEW c \in Commands, RemoveManifest(c)
  PROVE  Shelf!ShelfNext
<1>1. PICK a \in Commands : Oldest(c, a) /\ manifests' = manifests \ {a}
  BY DEF RemoveManifest
<1>2. PICK i \in DOMAIN created :
        /\ created[i] = a
        /\ \A j \in 1 .. (i - 1) : created[j] \notin manifests \ {c}
  BY <1>1 DEF Oldest
<1>3. a \in manifests /\ a # c
  BY <1>1 DEF Oldest
<1>4. created \in Seq(Commands) /\ Len(created) \in DOMAIN created /\ created[Len(created)] = c
  BY DEF RemoveManifest, SInv, DirectoryInv, Progress, StoreTypeOK
<1>5. i < Len(created)
  BY <1>2, <1>3, <1>4
<1>6. \A j \in 1 .. (i - 1) : created[j] # c
  BY <1>4, <1>5 DEF SInv, DirectoryInv
<1>7. {b \in manifests : content[b] \in blobs}' = manifests'
  BY DEF SInv, DirectoryInv, ManifestHasBlob
<1>8. created' = created
  BY DEF RemoveManifest
<1>9. Shelf!Evict(i)
  BY <1>1, <1>2, <1>3, <1>5, <1>6, <1>7, <1>8, ReadableManifests DEF Shelf!Evict
<1> QED
  BY <1>9 DEF Shelf!ShelfNext

\* Every other step leaves manifests and their order.
LEMMA HiddenImage ==
  ASSUME SInv, SInv', UNCHANGED <<manifests, created>>
  PROVE  UNCHANGED Shelf!shelfVars
<1>1. {a \in manifests : content[a] \in blobs}' = manifests'
  BY DEF SInv, DirectoryInv, ManifestHasBlob
<1> QED
  BY <1>1, ReadableManifests DEF Shelf!shelfVars

LEMMA StoreStepImage ==
  ASSUME SInv, SInv', StoreNext
  PROVE  [Shelf!ShelfNext]_(Shelf!shelfVars)
<1>1. ASSUME NEW c \in Commands, WriteManifest(c) PROVE Shelf!ShelfNext
  BY <1>1, PublishImage
<1>2. ASSUME NEW c \in Commands, RemoveManifest(c) PROVE Shelf!ShelfNext
  BY <1>2, EvictImage
<1>3. ASSUME NEW c \in Commands,
             Begin(c) \/ ShellExits(c) \/ BackgroundEnds(c) \/ GrowsStale(c) \/ StorageFails(c)
      PROVE  UNCHANGED <<manifests, created>>
  BY <1>3 DEF Begin, ShellExits, BackgroundEnds, GrowsStale, StorageFails, diskVars
<1>4. ASSUME NEW c \in Commands,
             \/ TimeOut(c) \/ WaitReturns(c) \/ Redact(c) \/ PlaceBlob(c)
             \/ RemoveBlob(c) \/ SweepEnds(c)
      PROVE  UNCHANGED <<manifests, created>>
  BY <1>4 DEF TimeOut, WaitReturns, Redact, PlaceBlob, RemoveBlob, SweepEnds, diskVars
<1>5. ArtifactRead \/ Restart => UNCHANGED <<manifests, created>>
  BY DEF ArtifactRead, Restart, diskVars
<1> QED
  BY <1>1, <1>2, <1>3, <1>4, <1>5, HiddenImage DEF StoreNext, CallStep

(***************************************************************************)
(* The store implements ArtifactShelf for any number of calls, contents    *)
(* that artifacts share, sizes and quota: the clean-up evicts oldest first, *)
(* never the artifact it was run for, and nothing evicted comes back.      *)
(***************************************************************************)
THEOREM StoreRefinesShelf == StoreSpec => ImplementsShelf
<1>1. StoreInit => Shelf!ShelfInit
  BY DEF StoreInit, Shelf!ShelfInit
<1>2. SInv /\ SInv' /\ [StoreNext]_storeVars => [Shelf!ShelfNext]_(Shelf!shelfVars)
  <2>1. UNCHANGED storeVars => UNCHANGED Shelf!shelfVars
    BY DEF storeVars, Shelf!shelfVars
  <2> QED
    BY <2>1, StoreStepImage
<1> QED
  BY <1>1, <1>2, StoreInvariant, PTL DEF StoreSpec, ImplementsShelf, Shelf!ShelfSpec
=============================================================================
