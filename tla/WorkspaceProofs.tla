-------------------------- MODULE WorkspaceProofs ---------------------------
(***************************************************************************)
(* Proofs about what the gateway keeps of its workspaces.                  *)
(*                                                                         *)
(* First WorkspaceFiles, for any number of writers and readers, any        *)
(* contents, line counts and page size: the next review is complete unless *)
(* a review overlapped a write, and what a cursor was followed through is  *)
(* of one version.                                                         *)
(*                                                                         *)
(* Then ToolCalls, for any number of callers, roots and monitors: the      *)
(* registry on disk is the registry whenever nothing disturbed it, every   *)
(* worktree has an owner, and prompts of two workspaces are kept apart.    *)
(***************************************************************************)
EXTENDS WorkspaceFiles, ToolCalls, FiniteSetTheorems, SequenceTheorems,
        WellFoundedInduction, TLAPS

Writer == [at : {"idle", "stat_write", "stat_edit", "record", "put"},
           before : OnDisk, existed : BOOLEAN]

WritersShape ==
  /\ file \in OnDisk /\ reviewed \in OnDisk
  /\ writers \in [Writers -> Writer]
  /\ review \in [busy : BOOLEAN, seen : OnDisk]

\* As long as no review overlapped a write, a review has the file to itself; who
\* is about to replace the file has an original; and until there is one, file and
\* writers have what the last review saw.
Undisturbed ==
  /\ \A w \in Writers : review.busy => ~Writing(w)
  /\ \A w \in Writers : writers[w].at = "put" => originals.noted
  /\ pending => originals.noted
  /\ originals.noted /\ ~outside => originals = Snapshot(reviewed # Absent, reviewed)
  /\ ~originals.noted /\ ~outside =>
       /\ file = reviewed
       /\ \A w \in Writers :
            /\ Writing(w) => writers[w].before = reviewed
            /\ writers[w].at = "record" => writers[w].existed = (reviewed # Absent)

WInv == WritersShape /\ (~overlapped => Undisturbed)

----------------------------------------------------------------------------
(* Writers and reviews *)

LEMMA WInvInit == FilesInit => WInv
<1> SUFFICES ASSUME FilesInit PROVE WInv
  OBVIOUS
<1>1. Absent \in OnDisk /\ IdleWriter \in Writer
  BY DEF OnDisk, IdleWriter, Writer
<1>2. WritersShape
  BY <1>1 DEF FilesInit, WritersShape
<1>3. \A w \in Writers : writers[w].at = "idle"
  BY DEF FilesInit, IdleWriter
<1>4. Undisturbed
  BY <1>3 DEF FilesInit, Undisturbed, Writing, NoSnapshot
<1> QED
  BY <1>2, <1>4 DEF WInv

LEMMA ReadBeforeKeeps ==
  ASSUME WInv, NEW w \in Writers, ReadBefore(w) PROVE WInv'
<1>1. PICK place \in {"stat_write", "stat_edit"} :
        writers' = [writers EXCEPT ![w] = [at |-> place, before |-> file, existed |-> FALSE]]
  BY DEF ReadBefore
<1>2. writers'[w] = [at |-> place, before |-> file, existed |-> FALSE]
      /\ \A v \in Writers : v # w => writers'[v] = writers[v]
  BY <1>1 DEF WInv, WritersShape
<1>3. UNCHANGED <<file, originals, review, reviewed, pending, outside>>
      /\ overlapped' = (overlapped \/ review.busy)
  BY DEF ReadBefore, Overlap
<1>4. WritersShape'
  BY <1>1, <1>3 DEF WInv, WritersShape, Writer
<1>5. ASSUME ~overlapped' PROVE Undisturbed'
  <2>1. ~overlapped /\ ~review.busy /\ Undisturbed
    BY <1>3, <1>5 DEF WInv
  <2>2. writers'[w].at = place /\ writers'[w].before = file
    BY <1>2
  <2> QED
    BY <1>2, <1>3, <2>1, <2>2 DEF Undisturbed, Writing
<1> QED
  BY <1>4, <1>5 DEF WInv

LEMMA StatBeforeKeeps ==
  ASSUME WInv, NEW w \in Writers, StatBefore(w) PROVE WInv'
<1>1. UNCHANGED <<file, originals, review, reviewed, pending, outside>>
      /\ overlapped' = (overlapped \/ review.busy)
  BY DEF StatBefore, Overlap
<1>2. /\ writers'[w] = IdleWriter
         \/ writers'[w] = [writers[w] EXCEPT !.at = "record", !.existed = file # Absent]
      /\ \A v \in Writers : v # w => writers'[v] = writers[v]
      /\ writers' \in [Writers -> Writer]
  BY DEF StatBefore, WInv, WritersShape, Writer, IdleWriter, OnDisk
<1>3. \/ writers'[w] = IdleWriter
      \/ /\ writers'[w].at = "record" /\ writers'[w].before = writers[w].before
         /\ writers'[w].existed = (file # Absent)
  BY <1>2 DEF WInv, WritersShape, Writer
<1>4. WritersShape'
  BY <1>1, <1>2 DEF WInv, WritersShape
<1>5. ASSUME ~overlapped' PROVE Undisturbed'
  <2>1. ~overlapped /\ ~review.busy /\ Undisturbed /\ Writing(w)
    BY <1>1, <1>5 DEF WInv, StatBefore, Writing
  <2>2. IdleWriter.at = "idle"
    BY DEF IdleWriter
  <2> QED
    BY <1>1, <1>2, <1>3, <2>1, <2>2 DEF Undisturbed, Writing
<1> QED
  BY <1>4, <1>5 DEF WInv

LEMMA RecordOriginalKeeps ==
  ASSUME WInv, NEW w \in Writers, RecordOriginal(w) PROVE WInv'
<1>1. UNCHANGED <<file, review, reviewed, pending, outside, overlapped>>
      /\ writers[w].at = "record" /\ ~review.busy
  BY DEF RecordOriginal
<1>2. /\ writers'[w].at = "put"
      /\ \A v \in Writers : v # w => writers'[v] = writers[v]
      /\ writers' \in [Writers -> Writer]
  BY DEF RecordOriginal, WInv, WritersShape, Writer, IdleWriter, OnDisk
<1>3. originals' = (IF originals.noted THEN originals
                    ELSE Snapshot(writers[w].existed, writers[w].before))
      /\ originals'.noted
  BY DEF RecordOriginal, Snapshot
<1>4. WritersShape'
  BY <1>1, <1>2 DEF WInv, WritersShape
<1>5. ~overlapped => Undisturbed'
  BY <1>1, <1>2, <1>3 DEF WInv, Undisturbed, Writing
<1> QED
  BY <1>1, <1>4, <1>5 DEF WInv

LEMMA PutFileKeeps ==
  ASSUME WInv, NEW w \in Writers, PutFile(w) PROVE WInv'
<1>1. UNCHANGED <<originals, review, reviewed, outside>>
      /\ overlapped' = (overlapped \/ review.busy) /\ writers[w].at = "put"
  BY DEF PutFile, Overlap
<1>2. /\ writers'[w] = IdleWriter
      /\ \A v \in Writers : v # w => writers'[v] = writers[v]
      /\ writers' \in [Writers -> Writer]
  BY DEF PutFile, WInv, WritersShape, Writer, IdleWriter, OnDisk
<1>3. WritersShape'
  BY <1>1, <1>2 DEF WInv, WritersShape, PutFile, OnDisk
<1>4. ~overlapped' => Undisturbed'
  BY <1>1, <1>2 DEF WInv, Undisturbed, Writing, IdleWriter
<1> QED
  BY <1>3, <1>4 DEF WInv

LEMMA ReviewsKeep ==
  ASSUME WInv, ReviewRead \/ ReviewReset \/ ReviewFails \/ ChangeOutside PROVE WInv'
<1>1. WritersShape'
  <2>1. Absent \in OnDisk /\ file' \in OnDisk
    BY DEF WInv, WritersShape, ReviewRead, ReviewReset, ReviewFails, ChangeOutside, OnDisk
  <2>2. review' \in [busy : BOOLEAN, seen : OnDisk]
    <3>1. CASE ReviewRead
      <4>1. file \in OnDisk /\ review' = [busy |-> TRUE, seen |-> file]
        BY <3>1 DEF ReviewRead, WInv, WritersShape
      <4> QED
        BY <4>1
    <3>2. CASE ReviewReset \/ ReviewFails
      <4>1. review' = [busy |-> FALSE, seen |-> Absent]
        BY <3>2 DEF ReviewReset, ReviewFails
      <4> QED
        BY <2>1, <4>1
    <3>3. CASE ChangeOutside
      BY <3>3 DEF ChangeOutside, WInv, WritersShape
    <3> QED
      BY <3>1, <3>2, <3>3
  <2>3. reviewed' \in OnDisk /\ writers' = writers
    BY DEF WInv, WritersShape, ReviewRead, ReviewReset, ReviewFails, ChangeOutside
  <2> QED
    BY <2>1, <2>2, <2>3 DEF WInv, WritersShape
<1>2. CASE ReviewRead
  BY <1>1, <1>2 DEF WInv, Undisturbed, ReviewRead, Writing
<1>3. CASE ReviewReset
  BY <1>1, <1>3 DEF WInv, WritersShape, Undisturbed, ReviewReset, Writing, NoSnapshot
<1>4. CASE ReviewFails
  BY <1>1, <1>4 DEF WInv, Undisturbed, ReviewFails, Writing
<1>5. CASE ChangeOutside
  BY <1>1, <1>5 DEF WInv, Undisturbed, ChangeOutside, Writing
<1> QED
  BY <1>2, <1>3, <1>4, <1>5

LEMMA WInvStutter ==
  ASSUME WInv,
         UNCHANGED <<file, originals, writers, review, reviewed, pending, outside, overlapped>>
  PROVE  WInv'
  BY DEF WInv, WritersShape, Undisturbed, Writing

LEMMA WInvNext == WInv /\ [FilesNext]_fileVars => WInv'
<1>1. ASSUME WInv, NEW r \in Readers,
             ReadPlain(r) \/ HashPlain(r) \/ ReadFirst(r) \/ ReadNext(r) \/ ReadAgain(r)
      PROVE  WInv'
  BY <1>1, WInvStutter DEF ReadPlain, HashPlain, ReadFirst, ReadNext, ReadAgain
<1>2. ASSUME WInv, UNCHANGED fileVars PROVE WInv'
  BY <1>2, WInvStutter DEF fileVars
<1> QED
  BY <1>1, <1>2, ReadBeforeKeeps, StatBeforeKeeps, RecordOriginalKeeps, PutFileKeeps,
     ReviewsKeep DEF FilesNext

\* show_changes reports every change since the last review, unless a review
\* overlapped a write or a command changed the file.
THEOREM ReviewsComplete == FilesSpec => []NextReviewComplete
<1>1. WInv => NextReviewComplete
  BY DEF WInv, Undisturbed, NextReviewComplete
<1> QED
  BY <1>1, WInvInit, WInvNext, PTL DEF FilesSpec

----------------------------------------------------------------------------
(* Readers *)

Reader == [at : {"idle", "hash", "page", "complete", "changed"}, sha : OnDisk,
           cursor : Nat, shown : SUBSET (Contents \X Nat), flawed : BOOLEAN]

\* What a reader that is not flawed was shown, by where it stands: nothing, the
\* lines before its cursor of the version its hash is of, or all of one version.
FollowsOneVersion(reader) ==
  /\ reader.at = "idle" => reader.shown = {}
  /\ reader.at \in {"page", "hash"} /\ reader.cursor # NoCursor =>
       /\ reader.sha \in Contents /\ reader.cursor \in 1 .. LineCount[reader.sha]
       /\ reader.shown = Shows(reader.sha, 1, reader.cursor - 1)
  /\ reader.at = "page" => reader.cursor # NoCursor
  /\ reader.at = "hash" /\ reader.cursor = NoCursor =>
       /\ reader.sha \in Contents
       /\ reader.shown = Shows(reader.sha, 1, LineCount[reader.sha])
  /\ reader.at = "complete" =>
       \E content \in Contents : reader.shown = Shows(content, 1, LineCount[content])

Fits(reader) ==
  /\ reader.at = "page" =>
       reader.sha \in Contents /\ reader.cursor \in 1 .. LineCount[reader.sha]
  /\ ~reader.flawed => FollowsOneVersion(reader)

RInv == /\ file \in OnDisk /\ readers \in [Readers -> Reader]
        /\ \A r \in Readers : Fits(readers[r])

LEMMA ShowsMore ==
  ASSUME NEW c, NEW k \in Nat, k >= 1, NEW l \in Nat, l >= k
  PROVE  Shows(c, 1, k - 1) \cup Shows(c, k, l) = Shows(c, 1, l)
<1>1. (1 .. k - 1) \cup (k .. l) = 1 .. l
  OBVIOUS
<1> QED
  BY <1>1 DEF Shows

LEMMA ShowsTyped ==
  ASSUME NEW c \in Contents, NEW k \in Nat, NEW l \in Nat
  PROVE  Shows(c, k, l) \in SUBSET (Contents \X Nat)
  BY DEF Shows

\* One more page, of the version that was shown so far.
LEMMA PageFits ==
  ASSUME NEW reader \in Reader, NEW first \in Nat, file \in Contents,
         first \in 1 .. LineCount[file],
         ~reader.flawed => reader.shown = Shows(file, 1, first - 1),
         NEW next \in Page(reader, first)
  PROVE  next \in Reader /\ Fits(next)
<1>0. LineCount[file] \in Nat \ {0} /\ file # Absent /\ file \in OnDisk
  BY FilesAssumption DEF OnDisk
<1>1. PICK last \in first .. LineCount[file] :
        next = IF last < LineCount[file]
               THEN [reader EXCEPT !.at = "page", !.sha = file, !.cursor = last + 1,
                                   !.shown = @ \cup Shows(file, first, last)]
               ELSE [reader EXCEPT !.at = "complete", !.sha = Absent, !.cursor = NoCursor,
                                   !.shown = @ \cup Shows(file, first, last)]
  BY DEF Page
<1>2. last \in Nat /\ last >= first /\ first >= 1 /\ last <= LineCount[file]
  BY <1>0
<1>3. ~reader.flawed => reader.shown \cup Shows(file, first, last) = Shows(file, 1, last)
  BY <1>2, ShowsMore
<1>4. reader.shown \cup Shows(file, first, last) \in SUBSET (Contents \X Nat)
  <2>1. Shows(file, first, last) \in SUBSET (Contents \X Nat)
    BY <1>2, ShowsTyped
  <2> QED
    BY <2>1 DEF Reader
<1>5. CASE last < LineCount[file]
  <2>1. /\ next.at = "page" /\ next.sha = file /\ next.cursor = last + 1
        /\ next.shown = reader.shown \cup Shows(file, first, last)
        /\ next.flawed = reader.flawed
    BY <1>1, <1>5 DEF Reader
  <2>2. next \in Reader
    <3> DEFINE shown == reader.shown \cup Shows(file, first, last)
    <3>1. next = [at |-> "page", sha |-> file, cursor |-> last + 1, shown |-> shown,
                  flawed |-> reader.flawed]
      BY <1>1, <1>5 DEF Reader
    <3> HIDE DEF shown
    <3>2. last + 1 \in Nat /\ reader.flawed \in BOOLEAN
      BY <1>2 DEF Reader
    <3>3. shown \in SUBSET (Contents \X Nat)
      BY <1>4 DEF shown
    <3> QED
      BY <1>0, <3>1, <3>2, <3>3 DEF Reader
  <2>3. last + 1 \in 1 .. LineCount[file] /\ (last + 1) - 1 = last /\ last + 1 # NoCursor
    BY <1>0, <1>2, <1>5 DEF NoCursor
  <2> QED
    BY <1>3, <2>1, <2>2, <2>3 DEF Fits, FollowsOneVersion
<1>6. CASE ~(last < LineCount[file])
  <2>1. /\ next.at = "complete" /\ next.shown = reader.shown \cup Shows(file, first, last)
        /\ next.flawed = reader.flawed
    BY <1>1, <1>6 DEF Reader
  <2>2. next \in Reader
    BY <1>1, <1>4, <1>6 DEF Reader, OnDisk, NoCursor
  <2>3. last = LineCount[file]
    BY <1>0, <1>2, <1>6
  <2> QED
    BY <1>3, <2>1, <2>2, <2>3 DEF Fits, FollowsOneVersion
<1> QED
  BY <1>5, <1>6

\* Who replaces one reader by one that fits keeps the invariant.
LEMMA OneReader ==
  ASSUME RInv, NEW r \in Readers, NEW next \in Reader, file' = file, Fits(next),
         readers' = [readers EXCEPT ![r] = next]
  PROVE  RInv'
<1>1. readers'[r] = next /\ \A q \in Readers : q # r => readers'[q] = readers[q]
  BY DEF RInv
<1>2. \A q \in Readers : Fits(readers'[q])
  BY <1>1 DEF RInv
<1>3. file' \in OnDisk /\ readers' \in [Readers -> Reader]
  BY DEF RInv
<1> QED
  BY <1>2, <1>3 DEF RInv, Fits, FollowsOneVersion, Shows

LEMMA NewReaderFits == NewReader \in Reader /\ Fits(NewReader)
  BY DEF NewReader, Fits, Reader, FollowsOneVersion, OnDisk, NoCursor

LEMMA ReadPlainKeeps ==
  ASSUME RInv, NEW r \in Readers, ReadPlain(r) PROVE RInv'
<1>0. file \in Contents /\ file \in OnDisk /\ LineCount[file] \in Nat \ {0} /\ file' = file
  BY FilesAssumption DEF RInv, ReadPlain, OnDisk
<1>1. PICK last \in 0 .. LineCount[file], cut \in BOOLEAN :
        /\ cut => last \in 1 .. LineCount[file]
        /\ readers' = [readers EXCEPT ![r] =
             [at |-> "hash", sha |-> file,
              cursor |-> IF cut \/ last < LineCount[file] THEN last + 1 ELSE NoCursor,
              shown |-> Shows(file, 1, IF cut THEN last - 1 ELSE last), flawed |-> cut]]
  BY DEF ReadPlain
<1> DEFINE next == [at |-> "hash", sha |-> file,
              cursor |-> IF cut \/ last < LineCount[file] THEN last + 1 ELSE NoCursor,
              shown |-> Shows(file, 1, IF cut THEN last - 1 ELSE last), flawed |-> cut]
<1>2. (IF cut THEN last - 1 ELSE last) \in Nat
      /\ (IF cut \/ last < LineCount[file] THEN last + 1 ELSE NoCursor) \in Nat
  BY <1>0, <1>1 DEF NoCursor
<1>3. next \in Reader
  <2> DEFINE end == IF cut THEN last - 1 ELSE last
             shown == Shows(file, 1, end)
             cursor == IF cut \/ last < LineCount[file] THEN last + 1 ELSE NoCursor
  <2>1. end \in Nat /\ cursor \in Nat
    BY <1>2
  <2> HIDE DEF end, cursor
  <2>2. shown \in SUBSET (Contents \X Nat)
    BY <1>0, <2>1, ShowsTyped
  <2> HIDE DEF shown
  <2>3. [at |-> "hash", sha |-> file, cursor |-> cursor, shown |-> shown, flawed |-> cut]
        \in Reader
    BY <1>0, <2>1, <2>2 DEF Reader
  <2> QED
    BY <2>3 DEF shown, end, cursor
<1>4. ASSUME ~cut PROVE FollowsOneVersion(next)
  <2>1. CASE last < LineCount[file]
    <3>1. /\ next.at = "hash" /\ next.sha = file /\ next.cursor = last + 1
          /\ next.shown = Shows(file, 1, last)
      BY <1>4, <2>1
    <3>2. last + 1 \in 1 .. LineCount[file] /\ (last + 1) - 1 = last /\ last + 1 # NoCursor
      BY <1>0, <2>1 DEF NoCursor
    <3> QED
      BY <1>0, <3>1, <3>2 DEF FollowsOneVersion
  <2>2. CASE ~(last < LineCount[file])
    <3>1. /\ next.at = "hash" /\ next.sha = file /\ next.cursor = NoCursor
          /\ next.shown = Shows(file, 1, LineCount[file])
      BY <1>0, <1>4, <2>2
    <3> QED
      BY <1>0, <3>1 DEF FollowsOneVersion
  <2> QED
    BY <2>1, <2>2
<1>5. next.flawed = cut /\ next.at = "hash" /\ readers' = [readers EXCEPT ![r] = next]
  BY <1>1
<1> HIDE DEF next
<1>6. Fits(next)
  BY <1>4, <1>5 DEF Fits
<1> QED
  BY <1>0, <1>3, <1>5, <1>6, OneReader

LEMMA HashPlainKeeps ==
  ASSUME RInv, NEW r \in Readers, HashPlain(r) PROVE RInv'
<1> DEFINE old == readers[r]
           over == old.cursor = NoCursor \/ old.cursor > LineCount[file]
           next == [at |-> IF over THEN "complete" ELSE "page",
                    sha |-> IF over THEN Absent ELSE file,
                    cursor |-> IF over THEN NoCursor ELSE old.cursor,
                    shown |-> old.shown, flawed |-> old.flawed \/ old.sha # file]
<1>0. file \in Contents /\ file \in OnDisk /\ LineCount[file] \in Nat \ {0} /\ file' = file
  BY FilesAssumption DEF RInv, HashPlain, OnDisk
<1>1. old \in Reader /\ old.at = "hash" /\ readers' = [readers EXCEPT ![r] = next]
  BY DEF RInv, HashPlain
<1>2. next \in Reader
  BY <1>0, <1>1 DEF Reader, OnDisk, NoCursor
<1>3. /\ next.flawed = (old.flawed \/ old.sha # file) /\ next.shown = old.shown
      /\ next.at = IF over THEN "complete" ELSE "page"
      /\ ~over => next.sha = file /\ next.cursor = old.cursor
  BY <1>1 DEF Reader
<1>4. ~old.flawed => FollowsOneVersion(old)
  BY DEF RInv, Fits
<1> HIDE DEF next, old
<1>5. ASSUME ~next.flawed PROVE FollowsOneVersion(next)
  <2>1. old.sha = file /\ FollowsOneVersion(old)
    BY <1>3, <1>4, <1>5
  <2>2. CASE over
    <3>1. old.cursor = NoCursor
      BY <1>0, <1>1, <2>1, <2>2 DEF FollowsOneVersion
    <3> QED
      BY <1>1, <1>3, <2>1, <2>2, <3>1 DEF FollowsOneVersion
  <2>3. CASE ~over
    BY <1>1, <1>3, <2>1, <2>3 DEF FollowsOneVersion
  <2> QED
    BY <2>2, <2>3
<1>6. next.at = "page" => next.sha \in Contents /\ next.cursor \in 1 .. LineCount[next.sha]
  BY <1>0, <1>1, <1>3 DEF Reader, NoCursor
<1>7. Fits(next)
  BY <1>5, <1>6 DEF Fits
<1> QED
  BY <1>0, <1>1, <1>2, <1>7, OneReader

LEMMA ReadFirstKeeps ==
  ASSUME RInv, NEW r \in Readers, ReadFirst(r) PROVE RInv'
<1>1. file \in Contents /\ LineCount[file] \in Nat \ {0} /\ file' = file
  BY FilesAssumption DEF RInv, ReadFirst, OnDisk
<1>2. readers[r] \in Reader /\ readers[r].at = "idle"
  BY DEF RInv, ReadFirst
<1>3. PICK next \in Page(readers[r], 1) : readers' = [readers EXCEPT ![r] = next]
  BY DEF ReadFirst
<1>4. ~readers[r].flawed => readers[r].shown = Shows(file, 1, 1 - 1)
  BY <1>2 DEF RInv, Fits, FollowsOneVersion, Shows
<1>5. next \in Reader /\ Fits(next)
  BY <1>1, <1>2, <1>3, <1>4, PageFits
<1> QED
  BY <1>1, <1>3, <1>5, OneReader

LEMMA ReadNextKeeps ==
  ASSUME RInv, NEW r \in Readers, ReadNext(r) PROVE RInv'
<1>1. file' = file /\ readers[r] \in Reader /\ Fits(readers[r]) /\ readers[r].at = "page"
  BY DEF RInv, ReadNext
<1>2. CASE file # readers[r].sha
  <2> DEFINE next == [NewReader EXCEPT !.at = "changed"]
  <2>1. next \in Reader /\ next.at = "changed"
    BY NewReaderFits DEF Reader
  <2>2. readers' = [readers EXCEPT ![r] = next]
    BY <1>2 DEF ReadNext
  <2> HIDE DEF next
  <2>3. Fits(next)
    BY <2>1 DEF Fits, FollowsOneVersion
  <2> QED
    BY <1>1, <2>1, <2>2, <2>3, OneReader
<1>3. CASE file = readers[r].sha
  <2>1. PICK next \in Page(readers[r], readers[r].cursor) :
          readers' = [readers EXCEPT ![r] = next]
    BY <1>3 DEF ReadNext
  <2>2. /\ file \in Contents /\ readers[r].cursor \in Nat
        /\ readers[r].cursor \in 1 .. LineCount[file]
    BY <1>1, <1>3 DEF Fits, Reader
  <2>3. ~readers[r].flawed => readers[r].shown = Shows(file, 1, readers[r].cursor - 1)
    BY <1>1, <1>3 DEF Fits, FollowsOneVersion
  <2>4. next \in Reader /\ Fits(next)
    BY <1>1, <2>1, <2>2, <2>3, PageFits
  <2> QED
    BY <1>1, <2>1, <2>4, OneReader
<1> QED
  BY <1>2, <1>3

LEMMA RInvInit == FilesInit => RInv
  BY NewReaderFits DEF FilesInit, RInv

LEMMA RInvNext == RInv /\ [FilesNext]_fileVars => RInv'
<1> SUFFICES ASSUME RInv, [FilesNext]_fileVars PROVE RInv'
  OBVIOUS
<1>1. ASSUME NEW r \in Readers, ReadAgain(r) PROVE RInv'
  <2>1. file' = file /\ readers' = [readers EXCEPT ![r] = NewReader]
    BY <1>1 DEF ReadAgain
  <2> QED
    BY <2>1, NewReaderFits, OneReader
<1>2. ASSUME file' \in OnDisk, readers' = readers PROVE RInv'
  BY <1>2 DEF RInv, Fits, FollowsOneVersion, Shows, OnDisk, Reader
<1>3. ASSUME NEW w \in Writers,
             ReadBefore(w) \/ StatBefore(w) \/ RecordOriginal(w) \/ PutFile(w)
      PROVE  RInv'
  BY <1>2, <1>3 DEF RInv, ReadBefore, StatBefore, RecordOriginal, PutFile, OnDisk
<1>4. ASSUME ReviewRead \/ ReviewReset \/ ReviewFails \/ ChangeOutside PROVE RInv'
  BY <1>2, <1>4 DEF RInv, ReviewRead, ReviewReset, ReviewFails, ChangeOutside
<1>5. ASSUME UNCHANGED fileVars PROVE RInv'
  BY <1>2, <1>5 DEF RInv, fileVars
<1> QED
  BY <1>1, <1>3, <1>4, <1>5, ReadPlainKeeps, HashPlainKeeps, ReadFirstKeeps, ReadNextKeeps
     DEF FilesNext

\* A read of all pages that ends was shown one version whole.
THEOREM PagesFollowed == FilesSpec => []PagesOfOneVersion
<1>1. RInv => PagesOfOneVersion
  BY DEF RInv, Fits, FollowsOneVersion, PagesOfOneVersion
<1> QED
  BY <1>1, RInvInit, RInvNext, PTL DEF FilesSpec

\* What is noted of the file, and the flags of the history.
NotesInv == /\ originals \in [exists : BOOLEAN, content : OnDisk, noted : BOOLEAN]
            /\ {pending, outside, overlapped} \subseteq BOOLEAN

LEMMA NotesKept ==
  ASSUME WInv, NotesInv, [FilesNext]_fileVars PROVE NotesInv'
<1>1. /\ NoSnapshot \in [exists : BOOLEAN, content : OnDisk, noted : BOOLEAN]
      /\ \A exists \in BOOLEAN, content \in OnDisk :
           Snapshot(exists, content) \in [exists : BOOLEAN, content : OnDisk, noted : BOOLEAN]
  BY DEF NoSnapshot, Snapshot, OnDisk
<1>2. originals' \in [exists : BOOLEAN, content : OnDisk, noted : BOOLEAN]
  <2>1. ASSUME NEW w \in Writers, RecordOriginal(w)
        PROVE  originals' \in [exists : BOOLEAN, content : OnDisk, noted : BOOLEAN]
    <3>1. writers[w].existed \in BOOLEAN /\ writers[w].before \in OnDisk
      BY DEF WInv, WritersShape, Writer
    <3> QED
      BY <1>1, <2>1, <3>1 DEF RecordOriginal, NotesInv
  <2>2. CASE ReviewReset
    BY <1>1, <2>2 DEF ReviewReset
  <2>3. CASE UNCHANGED originals
    BY <2>3 DEF NotesInv
  <2> QED
    BY <2>1, <2>2, <2>3 DEF FilesNext, fileVars, ReadBefore, StatBefore, PutFile, ReviewRead,
       ReviewFails, ReadPlain, HashPlain, ReadFirst, ReadNext, ReadAgain, ChangeOutside
<1>3. {pending', outside', overlapped'} \subseteq BOOLEAN
  <2>1. pending \in BOOLEAN /\ outside \in BOOLEAN /\ overlapped \in BOOLEAN
    BY DEF NotesInv
  <2>2. pending' \in BOOLEAN
    BY <2>1, Zenon DEF FilesNext, fileVars, ReadBefore, StatBefore, RecordOriginal, PutFile,
       ReviewRead, ReviewReset, ReviewFails, ReadPlain, HashPlain, ReadFirst, ReadNext,
       ReadAgain, ChangeOutside
  <2>3. outside' \in BOOLEAN
    BY <2>1, Zenon DEF FilesNext, fileVars, ReadBefore, StatBefore, RecordOriginal, PutFile,
       ReviewRead, ReviewReset, ReviewFails, ReadPlain, HashPlain, ReadFirst, ReadNext,
       ReadAgain, ChangeOutside
  <2>4. overlapped' \in BOOLEAN
    BY <2>1, Zenon DEF FilesNext, fileVars, ReadBefore, StatBefore, RecordOriginal, PutFile,
       ReviewRead, ReviewReset, ReviewFails, ReadPlain, HashPlain, ReadFirst, ReadNext,
       ReadAgain, ChangeOutside, Overlap
  <2> QED
    BY <2>2, <2>3, <2>4
<1> QED
  BY <1>2, <1>3 DEF NotesInv

\* The state of the file, its originals, writers, readers and review has its types.
THEOREM FilesTyped == FilesSpec => []FilesTypeOK
<1>1. FilesInit => NotesInv
  <2> SUFFICES ASSUME FilesInit PROVE NotesInv
    OBVIOUS
  <2>1. originals \in [exists : BOOLEAN, content : OnDisk, noted : BOOLEAN]
    BY DEF FilesInit, NoSnapshot, OnDisk
  <2>2. pending \in BOOLEAN /\ outside \in BOOLEAN /\ overlapped \in BOOLEAN
    BY Zenon DEF FilesInit
  <2> QED
    BY <2>1, <2>2 DEF NotesInv
<1>2. WInv /\ RInv /\ NotesInv => FilesTypeOK
  BY DEF WInv, WritersShape, Writer, RInv, Reader, NotesInv, FilesTypeOK
<1> QED
  BY <1>1, <1>2, WInvInit, WInvNext, RInvInit, RInvNext, NotesKept, PTL DEF FilesSpec

----------------------------------------------------------------------------
(* The registry and the monitors: the invariant *)

ToolCall == [at : Places, tool : Tools \cup {"none"}, root : Roots \cup {NoRoot},
             monitor : 0 .. MaxMonitors, copy : Copies, then : Places]

\* The registry grows by one workspace at a time, so its copies have a greatest root.
RegistryInv ==
  /\ RegistryTypeOK
  /\ IsFiniteSet(registered) /\ IsFiniteSet(workspacesFile.workspaces)

ActivityInv ==
  /\ ActivityTypeOK
  /\ \A i \in DOMAIN monitorOrder : monitorOrder[i] \in DOMAIN monitors
  /\ started <= MaxMonitors

\* Only a call that copies or writes the registry has something to return to, and
\* who registers or removes a root has one.
Returns(call) ==
  /\ call.at \in {"copy", "write"} => call.then \in {"tree", "remove", "bind"}
  /\ call.at \notin {"copy", "write"} => call.then = "idle"
  /\ call.at = "register" => call.root \in Roots
  /\ call.at = "remove" \/ call.then = "remove" => call.root \in Worktrees
  /\ IsFiniteSet(call.copy.workspaces)

CallsInv ==
  /\ calls \in [Callers -> ToolCall] /\ left \subseteq Worktrees /\ disturbed \in BOOLEAN
  /\ \A c \in Callers : Returns(calls[c])

\* While nothing disturbs it, one call at a time changes the registry, and what it
\* is about to write is the registry as it is.
OneChange ==
  /\ \A c, d \in Callers : Changing(c) /\ Changing(d) => c = d
  /\ \A c \in Callers : calls[c].at = "write" => calls[c].copy = RegistryCopy
  /\ (\A c \in Callers : ~Changing(c)) => workspacesFile = RegistryCopy

RunsInv == CallsInv /\ (~disturbed => OneChange) /\ WorktreesOwned

ToolsInv == RegistryInv /\ ActivityInv /\ RunsInv

----------------------------------------------------------------------------
(* Numbers and sequences *)

\* A finite set of numbers has a greatest one ...
LEMMA MaxIsGreatest ==
  ASSUME NEW S \in SUBSET Nat, IsFiniteSet(S), S # {}
  PROVE  Max(S) \in S /\ \A n \in S : n <= Max(S)
<1> DEFINE Bad == {X \in SUBSET S : X # {} /\ \A m \in X : \E n \in X : m < n}
<1>1. SUFFICES Bad = {}
  <2>1. SUFFICES ASSUME Bad = {} PROVE Max(S) \in S /\ \A n \in S : n <= Max(S)
    OBVIOUS
  <2>2. PICK m \in S : \A n \in S : ~(m < n)
    BY <2>1
  <2>3. \A n \in S : m >= n
    BY <2>2
  <2> QED
    BY <2>3 DEF Max
<1>2. SUFFICES ASSUME Bad # {} PROVE FALSE
  OBVIOUS
<1>3. Bad \subseteq FiniteSubsetsOf(S)
  BY FS_Subset DEF FiniteSubsetsOf
<1>4. PICK X \in Bad : \A Y \in Bad : ~(<<Y, X>> \in StrictSubsetOrdering(S))
  BY <1>2, <1>3, FS_StrictSubsetOrderingWellFounded, WFMin
<1>5. PICK x \in X : TRUE
  OBVIOUS
<1>6. PICK y \in X : x < y
  BY <1>5
<1>7. X \ {x} \notin Bad
  BY <1>4 DEF StrictSubsetOrdering
<1>8. PICK m \in X \ {x} : \A n \in X \ {x} : ~(m < n)
  BY <1>6, <1>7
<1>9. PICK n \in X : m < n
  BY <1>8
<1>10. n = x /\ m < x /\ m \in Nat /\ x \in Nat /\ y \in Nat /\ y \in X \ {x}
  BY <1>5, <1>6, <1>8, <1>9
<1> QED
  BY <1>6, <1>8, <1>10
\* ... and a least one.
LEMMA MinIsLeast ==
  ASSUME NEW S \in SUBSET Nat, IsFiniteSet(S), S # {}
  PROVE  Min(S) \in S /\ \A n \in S : Min(S) <= n
<1> DEFINE Bad == {X \in SUBSET S : X # {} /\ \A m \in X : \E n \in X : n < m}
<1>1. SUFFICES Bad = {}
  <2>1. SUFFICES ASSUME Bad = {} PROVE Min(S) \in S /\ \A n \in S : Min(S) <= n
    OBVIOUS
  <2>2. PICK m \in S : \A n \in S : ~(n < m)
    BY <2>1
  <2>3. \A n \in S : m <= n
    BY <2>2
  <2> QED
    BY <2>3 DEF Min
<1>2. SUFFICES ASSUME Bad # {} PROVE FALSE
  OBVIOUS
<1>3. Bad \subseteq FiniteSubsetsOf(S)
  BY FS_Subset DEF FiniteSubsetsOf
<1>4. PICK X \in Bad : \A Y \in Bad : ~(<<Y, X>> \in StrictSubsetOrdering(S))
  BY <1>2, <1>3, FS_StrictSubsetOrderingWellFounded, WFMin
<1>5. PICK x \in X : TRUE
  OBVIOUS
<1>6. PICK y \in X : y < x
  BY <1>5
<1>7. X \ {x} \notin Bad
  BY <1>4 DEF StrictSubsetOrdering
<1>8. PICK m \in X \ {x} : \A n \in X \ {x} : ~(n < m)
  BY <1>6, <1>7
<1>9. PICK n \in X : n < m
  BY <1>8
<1>10. n = x /\ x < m /\ m \in Nat /\ x \in Nat /\ y \in Nat /\ y \in X \ {x}
  BY <1>5, <1>6, <1>8, <1>9
<1> QED
  BY <1>6, <1>8, <1>10
LEMMA NewestFits ==
  ASSUME NEW S, NEW s \in Seq(S), NEW n \in Nat
  PROVE  /\ Newest(s, n) \in Seq(S) /\ Len(Newest(s, n)) <= n
         /\ \A i \in DOMAIN Newest(s, n) : \E j \in DOMAIN s : Newest(s, n)[i] = s[j]
<1>1. Len(s) \in Nat /\ DOMAIN s = 1 .. Len(s)
  BY LenProperties
<1>2. CASE Len(s) <= n
  BY <1>1, <1>2 DEF Newest
<1>3. CASE Len(s) > n
  <2> DEFINE first == Len(s) - n + 1
             t == SubSeq(s, first, Len(s))
  <2>1. first \in Int /\ Len(s) \in Int /\ Len(s) - first + 1 = n
    BY <1>1, <1>3
  <2>2. \A i \in first .. Len(s) : s[i] \in S
    BY <1>1, <1>3, LenProperties
  <2>3. /\ t \in Seq(S) /\ Len(t) = (IF first <= Len(s) THEN Len(s) - first + 1 ELSE 0)
        /\ \A i \in 1 .. Len(s) - first + 1 : t[i] = s[first + i - 1]
    <3> HIDE DEF first
    <3> QED
      BY <2>1, <2>2, SubSeqProperties
  <2>4. Newest(s, n) = t
    BY <1>1, <1>3 DEF Newest
  <2>5. Len(t) = n /\ DOMAIN t = 1 .. n
    <3>1. Len(t) = n
      BY <1>1, <1>3, <2>1, <2>3
    <3> HIDE DEF t
    <3> QED
      BY <3>1, <2>3, LenProperties
  <2>6. \A i \in 1 .. n : t[i] = s[first + i - 1] /\ first + i - 1 \in DOMAIN s
    <3>1. \A i \in 1 .. n : first + i - 1 \in 1 .. Len(s)
      BY <1>1, <1>3
    <3> HIDE DEF t, first
    <3> QED
      BY <1>1, <2>1, <2>3, <3>1
  <2> HIDE DEF t
  <2> QED
    BY <2>3, <2>4, <2>5, <2>6
<1> QED
  BY <1>1, <1>2, <1>3

----------------------------------------------------------------------------
(* The monitors *)

\* What PromptsKeptApart says of a step.
KeepsApart ==
  \A m \in DOMAIN monitors : m # activeMonitorID =>
    /\ activeMonitorID' # m
    /\ m \in DOMAIN monitors' => monitors'[m] = monitors[m]

\* startMonitorLocked: the monitors kept are those in monitorOrder.
LEMMA StartFits ==
  ASSUME ActivityInv, NEW workspace \in Workspaces \cup {NoWorkspace}, started < MaxMonitors,
         StartMonitor(workspace)
  PROVE  ActivityInv' /\ KeepsApart /\ activeMonitorID' = started'
<1> DEFINE id == started + 1
           order == Newest(Append(monitorOrder, id), ActivityMonitorLimit)
<1>1. /\ started \in Nat /\ activeMonitorID \in 0 .. started /\ monitorOrder \in Seq(1 .. started)
      /\ DOMAIN monitors \subseteq 1 .. started /\ MaxMonitors \in Nat /\ ActivityMonitorLimit \in Nat
  BY ToolCallsAssumption, ActivityAssumption DEF ActivityInv, ActivityTypeOK
<1>2. /\ started' = id /\ activeMonitorID' = id /\ monitorOrder' = order /\ sequence' = sequence
      /\ monitors' = [m \in {order[i] : i \in DOMAIN order} |->
                        IF m = id THEN [workspace |-> workspace, events |-> <<>>] ELSE monitors[m]]
  BY DEF StartMonitor
<1>3. Append(monitorOrder, id) \in Seq(1 .. id)
  <2>1. monitorOrder \in Seq(1 .. id)
    BY <1>1
  <2> QED
    BY <1>1, <2>1, AppendProperties
<1>4. /\ order \in Seq(1 .. id)
      /\ \A i \in DOMAIN order : \E j \in DOMAIN Append(monitorOrder, id) :
           order[i] = Append(monitorOrder, id)[j]
  <2> DEFINE added == Append(monitorOrder, id)
  <2>1. added \in Seq(1 .. id)
    BY <1>3
  <2> HIDE DEF added
  <2>2. /\ Newest(added, ActivityMonitorLimit) \in Seq(1 .. id)
        /\ \A i \in DOMAIN Newest(added, ActivityMonitorLimit) :
             \E j \in DOMAIN added : Newest(added, ActivityMonitorLimit)[i] = added[j]
    BY <1>1, <2>1, NewestFits
  <2> QED
    BY <2>2 DEF added
<1>5. \A j \in DOMAIN Append(monitorOrder, id) :
        Append(monitorOrder, id)[j] = id \/ Append(monitorOrder, id)[j] \in DOMAIN monitors
  <2>1. /\ Len(monitorOrder) \in Nat /\ DOMAIN monitorOrder = 1 .. Len(monitorOrder)
        /\ DOMAIN Append(monitorOrder, id) = 1 .. Len(monitorOrder) + 1
    BY <1>1
  <2>2. \A j \in 1 .. Len(monitorOrder) : Append(monitorOrder, id)[j] = monitorOrder[j]
    BY <1>1
  <2>3. Append(monitorOrder, id)[Len(monitorOrder) + 1] = id
    BY <1>1
  <2> QED
    BY <2>1, <2>2, <2>3 DEF ActivityInv
<1>6. \A m \in DOMAIN monitors' : m \in 1 .. id /\ (m # id => m \in DOMAIN monitors)
  <2>1. \A i \in DOMAIN order : order[i] \in 1 .. id /\ (order[i] # id => order[i] \in DOMAIN monitors)
    <3> HIDE DEF order, id
    <3>1. \A i \in DOMAIN order : order[i] \in 1 .. id
      BY <1>4, LenProperties
    <3> QED
      BY <1>4, <1>5, <3>1
  <2> HIDE DEF order, id
  <2> QED
    BY <1>2, <2>1
<1>7. [workspace |-> workspace, events |-> <<>>] \in MonitorRecord
      /\ [workspace |-> workspace, events |-> <<>>].events = <<>>
  BY DEF MonitorRecord
<1>8. ActivityTypeOK'
  <2>1. \A m \in DOMAIN monitors' : monitors'[m] \in MonitorRecord /\ Len(monitors'[m].events) <= ActivityLimit
    <3>1. SUFFICES ASSUME NEW m \in DOMAIN monitors'
                   PROVE  monitors'[m] \in MonitorRecord /\ Len(monitors'[m].events) <= ActivityLimit
      OBVIOUS
    <3>2. CASE m = id
      <4>1. monitors'[m] = [workspace |-> workspace, events |-> <<>>]
        BY <1>2, <3>2
      <4> QED
        BY <1>7, <4>1, ActivityAssumption
    <3>3. CASE m # id
      <4>1. monitors'[m] = monitors[m] /\ m \in DOMAIN monitors
        BY <1>2, <1>6, <3>3
      <4> QED
        BY <4>1 DEF ActivityInv, ActivityTypeOK
    <3> QED
      BY <3>2, <3>3
  <2>2. monitorOrder' \in Seq(1 .. started') /\ activeMonitorID' \in 0 .. started' /\ started' \in Nat
    BY <1>1, <1>2, <1>4
  <2>3. DOMAIN monitors' \subseteq 1 .. started'
    BY <1>2, <1>6
  <2> QED
    BY <1>2, <2>1, <2>2, <2>3 DEF ActivityTypeOK, ActivityInv
<1>9. \A i \in DOMAIN monitorOrder' : monitorOrder'[i] \in DOMAIN monitors'
  BY <1>2
<1>10. KeepsApart
  <2>1. \A m \in DOMAIN monitors : m # id
    BY <1>1
  <2>2. \A m \in DOMAIN monitors : m \in DOMAIN monitors' => monitors'[m] = monitors[m]
    BY <1>2, <2>1
  <2> QED
    BY <1>2, <2>1, <2>2 DEF KeepsApart
<1>11. started' <= MaxMonitors
  BY <1>1, <1>2
<1> QED
  BY <1>2, <1>8, <1>9, <1>10, <1>11 DEF ActivityInv

LEMMA ActivityStays ==
  ASSUME ActivityInv, UNCHANGED activityVars PROVE ActivityInv' /\ KeepsApart
  BY DEF activityVars, ActivityInv, ActivityTypeOK, KeepsApart, MonitorRecord

\* captureActiveMonitorID
LEMMA CaptureFits ==
  ASSUME ActivityInv, MayStart, CaptureActive
  PROVE  ActivityInv' /\ KeepsApart /\ activeMonitorID' \in 0 .. MaxMonitors
<1>1. ActivityInv' /\ KeepsApart
  <2>1. NoWorkspace \in Workspaces \cup {NoWorkspace}
    OBVIOUS
  <2> QED
    BY <2>1, ActivityStays, StartFits DEF CaptureActive, MayStart
<1>2. activeMonitorID' \in 0 .. MaxMonitors
  BY <1>1, ToolCallsAssumption DEF ActivityInv, ActivityTypeOK
<1> QED
  BY <1>1, <1>2

\* A step that changes one monitor, which is the active one.
LEMMA OneMonitor ==
  ASSUME ActivityInv, NEW record \in MonitorRecord, Len(record.events) <= ActivityLimit,
         monitors' = [monitors EXCEPT ![activeMonitorID] = record], sequence' \in Nat,
         UNCHANGED <<activeMonitorID, monitorOrder, started>>
  PROVE  ActivityInv' /\ KeepsApart
<1>1. /\ DOMAIN monitors' = DOMAIN monitors
      /\ \A m \in DOMAIN monitors : monitors'[m] = IF m = activeMonitorID THEN record ELSE monitors[m]
  OBVIOUS
<1>2. ActivityTypeOK'
  <2>1. \A m \in DOMAIN monitors' : monitors'[m] \in MonitorRecord /\ Len(monitors'[m].events) <= ActivityLimit
    BY <1>1 DEF ActivityInv, ActivityTypeOK
  <2> QED
    BY <1>1, <2>1 DEF ActivityInv, ActivityTypeOK
<1> QED
  BY <1>1, <1>2 DEF ActivityInv, KeepsApart

\* bindWorkspace
LEMMA BindFits ==
  ASSUME ActivityInv, MayStart, NEW workspace \in Workspaces \cup {NoWorkspace}, BindWorkspace(workspace)
  PROVE  ActivityInv' /\ KeepsApart
<1>1. CASE activeMonitorID \in DOMAIN monitors
  <2>1. monitors[activeMonitorID] \in MonitorRecord /\ Len(monitors[activeMonitorID].events) <= ActivityLimit
    BY <1>1 DEF ActivityInv, ActivityTypeOK
  <2>2. PICK record \in MonitorRecord : record = [monitors[activeMonitorID] EXCEPT !.workspace = workspace]
    BY <2>1 DEF MonitorRecord
  <2>3. record.events = monitors[activeMonitorID].events
    BY <2>1, <2>2 DEF MonitorRecord
  <2>4. /\ monitors' = [monitors EXCEPT ![activeMonitorID] = record]
        /\ UNCHANGED <<activeMonitorID, monitorOrder, started, sequence>>
    BY <1>1, <2>2 DEF BindWorkspace
  <2>5. sequence' \in Nat
    BY <2>4 DEF ActivityInv, ActivityTypeOK
  <2> QED
    BY <2>1, <2>3, <2>4, <2>5, OneMonitor
<1>2. CASE activeMonitorID \notin DOMAIN monitors
  BY <1>2, StartFits DEF BindWorkspace, MayStart
<1> QED
  BY <1>1, <1>2

\* recordForMonitor
LEMMA RecordFits ==
  ASSUME ActivityInv, NEW id, NEW workspace \in Workspaces \cup {NoWorkspace}, RecordForMonitor(id, workspace)
  PROVE  ActivityInv' /\ KeepsApart
<1>1. CASE id \in DOMAIN monitors /\ id = activeMonitorID
  <2>1. monitors[id] \in MonitorRecord /\ sequence \in Nat
    BY <1>1 DEF ActivityInv, ActivityTypeOK
  <2>2. PICK ws \in Workspaces \cup {NoWorkspace} :
          ws = IF workspace = NoWorkspace THEN monitors[id].workspace ELSE workspace
    BY <2>1 DEF MonitorRecord
  <2> DEFINE Event == [sequence : Nat, workspace : Workspaces \cup {NoWorkspace}]
             added == Append(monitors[id].events, [sequence |-> sequence + 1, workspace |-> ws])
  <2>3. [sequence |-> sequence + 1, workspace |-> ws] \in Event
    BY <2>1
  <2>4. monitors[id].events \in Seq(Event)
    BY <2>1 DEF MonitorRecord
  <2>5. added \in Seq(Event)
    BY <2>3, <2>4, AppendProperties
  <2>6. Newest(added, ActivityLimit) \in Seq(Event) /\ Len(Newest(added, ActivityLimit)) <= ActivityLimit
    <3> HIDE DEF added, Event
    <3> QED
      BY <2>5, NewestFits, ActivityAssumption
  <2>7. PICK record \in MonitorRecord :
          record = [workspace |-> ws, events |-> Newest(added, ActivityLimit)]
    BY <2>6 DEF MonitorRecord
  <2>8. Len(record.events) <= ActivityLimit
    BY <2>6, <2>7
  <2>9. record = Recorded(monitors[id], workspace)
    BY <2>2, <2>7 DEF Recorded
  <2>10. /\ monitors' = [monitors EXCEPT ![activeMonitorID] = record] /\ sequence' = sequence + 1
         /\ UNCHANGED <<activeMonitorID, monitorOrder, started>>
    BY <1>1, <2>9 DEF RecordForMonitor
  <2>11. sequence' \in Nat
    BY <2>1, <2>10
  <2> QED
    BY <2>8, <2>10, <2>11, OneMonitor
<1>2. CASE ~(id \in DOMAIN monitors /\ id = activeMonitorID)
  BY <1>2, ActivityStays DEF RecordForMonitor
<1> QED
  BY <1>1, <1>2

----------------------------------------------------------------------------
(* The registry *)

LEMMA RootsAreNumbers == Roots \in SUBSET Nat /\ NoRoot \notin Roots /\ Worktrees \subseteq Roots
  BY WorkspaceAssumption DEF Roots, NoRoot

LEMMA NothingFits == Nothing \in Copies /\ Nothing.workspaces = {} /\ Nothing.active = NoRoot
  BY DEF Nothing, Copies

LEMMA CopyFits ==
  ASSUME RegistryInv
  PROVE  /\ RegistryCopy \in Copies
         /\ RegistryCopy.workspaces = registered /\ RegistryCopy.active = activeID
  BY DEF RegistryInv, RegistryTypeOK, RegistryCopy, Copies

\* defaultWorkspace answers with a workspace that is registered, or none.
LEMMA DefaultFits ==
  ASSUME RegistryInv PROVE DefaultWorkspace \in Roots \cup {NoRoot}
<1>1. registered \in SUBSET Nat /\ registered \subseteq Roots
  BY RootsAreNumbers DEF RegistryInv, RegistryTypeOK
<1>2. registered # {} => Min(registered) \in registered
  BY <1>1, MinIsLeast DEF RegistryInv
<1>3. DefaultWorkspace \in registered \cup {NoRoot}
  BY <1>2, CopyFits DEF DefaultWorkspace, DefaultOf
<1> QED
  BY <1>1, <1>3

\* What restorePersistedWorkspace lets through is a registry of its own.
LEMMA RestoredFits ==
  ASSUME RegistryInv
  PROVE  /\ Restored \in Copies /\ IsFiniteSet(Restored.workspaces)
         /\ Restored.active \in Restored.workspaces \cup {NoRoot}
<1> DEFINE kept == workspacesFile.workspaces \cap dirs
           active == IF workspacesFile.active \in kept THEN workspacesFile.active
                     ELSE IF kept = {} THEN NoRoot ELSE Max(kept)
<1>1. kept \subseteq Roots /\ kept \in SUBSET Nat /\ IsFiniteSet(kept)
  <2>1. kept \subseteq workspacesFile.workspaces /\ workspacesFile.workspaces \subseteq Roots
    BY DEF RegistryInv, RegistryTypeOK, Copies
  <2>2. IsFiniteSet(kept)
    BY <2>1, FS_Subset DEF RegistryInv
  <2> QED
    BY <2>1, <2>2, RootsAreNumbers
<1>2. kept # {} => Max(kept) \in kept
  BY <1>1, MaxIsGreatest
<1>3. active \in kept \cup {NoRoot}
  BY <1>2
<1>4. Restored = [workspaces |-> kept, active |-> active]
  BY DEF Restored
<1> HIDE DEF kept, active
<1> QED
  BY <1>1, <1>3, <1>4 DEF Copies

\* Steps that replace registered and activeID in memory.
LEMMA MemoryFits ==
  ASSUME RegistryInv, registered' \subseteq Roots, IsFiniteSet(registered'),
         activeID' \in registered' \cup {NoRoot}, UNCHANGED <<workspacesFile, dirs, created>>
  PROVE  RegistryInv'
  BY DEF RegistryInv, RegistryTypeOK, Copies

LEMMA RegisterFits ==
  ASSUME RegistryInv, NEW root \in Roots, Register(root)
  PROVE  RegistryInv' /\ registered' = registered \cup {root} /\ UNCHANGED <<workspacesFile, dirs, created>>
<1>1. IsFiniteSet(registered \cup {root})
  BY FS_AddElement DEF RegistryInv
<1>2. registered \cup {root} \subseteq Roots
  BY DEF RegistryInv, RegistryTypeOK
<1> QED
  BY <1>1, <1>2, MemoryFits DEF Register

LEMMA UnregisterFits ==
  ASSUME RegistryInv, NEW root \in Roots, Unregister(root)
  PROVE  RegistryInv' /\ registered' = registered \ {root} /\ UNCHANGED <<workspacesFile, dirs, created>>
<1>1. IsFiniteSet(registered \ {root})
  BY FS_RemoveElement DEF RegistryInv
<1>2. registered \ {root} \subseteq Roots /\ activeID \in registered \cup {NoRoot}
  BY DEF RegistryInv, RegistryTypeOK
<1>3. activeID' \in registered' \cup {NoRoot}
  BY <1>2 DEF Unregister
<1> QED
  BY <1>1, <1>2, <1>3, MemoryFits DEF Unregister

LEMMA ActivateFits ==
  ASSUME RegistryInv, NEW root \in registered, Activate(root)
  PROVE  RegistryInv' /\ registered' = registered /\ UNCHANGED <<workspacesFile, dirs, created>>
  BY MemoryFits DEF Activate, RegistryInv, RegistryTypeOK

\* Steps on the disk.
LEMMA DiskFits ==
  ASSUME RegistryInv, UNCHANGED <<registered, activeID>>, dirs' \subseteq Roots, created' \subseteq Worktrees,
         workspacesFile' \in Copies, IsFiniteSet(workspacesFile'.workspaces)
  PROVE  RegistryInv'
  BY DEF RegistryInv, RegistryTypeOK

LEMMA RegistryStays ==
  ASSUME RegistryInv, UNCHANGED registryVars PROVE RegistryInv'
  BY DEF registryVars, RegistryInv, RegistryTypeOK, Copies

----------------------------------------------------------------------------
(* Calls: what one step does to one call *)

\* A call that only notes what it is about to do: it has nothing to return to.
Quiet(call) ==
  /\ call.at \notin {"copy", "write", "remove"} /\ call.then = "idle"
  /\ call.at = "register" => call.root \in Roots
  /\ IsFiniteSet(call.copy.workspaces)

LEMMA IdleFits ==
  /\ Idle \in ToolCall /\ Idle.at = "idle" /\ Idle.then = "idle" /\ Idle.copy = Nothing
  /\ Quiet(Idle)
<1>1. 0 \in 0 .. MaxMonitors /\ NoMonitor = 0
  BY ToolCallsAssumption DEF NoMonitor
<1>2. Idle \in ToolCall /\ Idle.at = "idle" /\ Idle.then = "idle" /\ Idle.copy = Nothing
  BY <1>1, NothingFits DEF Idle, ToolCall, Places
<1> QED
  BY <1>2, NothingFits, FS_EmptySet DEF Quiet

LEMMA OneCall ==
  ASSUME CallsInv, NEW c \in Callers, NEW new \in ToolCall, calls' = [calls EXCEPT ![c] = new]
  PROVE  /\ calls' \in [Callers -> ToolCall]
         /\ calls'[c] = new /\ \A d \in Callers : d # c => calls'[d] = calls[d]
         /\ \A d \in Callers : d # c => (Changing(d)' <=> Changing(d))
  BY DEF CallsInv, Changing

\* A call that changes nothing but itself.
LEMMA QuietKeeps ==
  ASSUME RunsInv, NEW c \in Callers, NEW new \in ToolCall, calls' = [calls EXCEPT ![c] = new], Quiet(new),
         ~Changing(c), calls[c].at # "remove", calls[c].at = "register" => calls[c].root \in registered,
         UNCHANGED <<registered, activeID, workspacesFile, dirs, disturbed, left>>
  PROVE  RunsInv'
<1>1. CallsInv /\ (~disturbed => OneChange) /\ WorktreesOwned
  BY DEF RunsInv
<1>2. /\ calls' \in [Callers -> ToolCall]
      /\ calls'[c] = new /\ \A d \in Callers : d # c => calls'[d] = calls[d]
      /\ \A d \in Callers : d # c => (Changing(d)' <=> Changing(d))
  BY <1>1, OneCall
<1>3. calls[c].then = "idle"
  BY <1>1 DEF CallsInv, Returns, Changing
<1>4. CallsInv'
  <2>1. Returns(new)
    BY DEF Quiet, Returns
  <2> QED
    BY <1>1, <1>2, <2>1 DEF CallsInv
<1>5. ASSUME ~disturbed' PROVE OneChange'
  <2>1. OneChange /\ \A d \in Callers : (Changing(d)' <=> Changing(d)) /\ calls'[c].at # "write"
    BY <1>1, <1>2, <1>5 DEF Changing, Quiet
  <2>2. RegistryCopy' = RegistryCopy
    BY DEF RegistryCopy
  <2> QED
    BY <1>2, <2>1, <2>2 DEF OneChange
<1>6. WorktreesOwned'
  <2>1. SUFFICES ASSUME NEW w \in (Worktrees \cap dirs) \ (registered \cup left)
                 PROVE  \E d \in Callers : /\ calls'[d].root = w
                                           /\ \/ calls'[d].at = "register" \/ calls'[d].then = "remove"
                                              \/ calls'[d].at = "remove"
    BY DEF WorktreesOwned
  <2>2. PICK d \in Callers : /\ calls[d].root = w
                             /\ calls[d].at = "register" \/ calls[d].then = "remove" \/ calls[d].at = "remove"
    BY <1>1 DEF WorktreesOwned
  <2>3. d # c
    BY <1>3, <2>2
  <2> QED
    BY <1>2, <2>2, <2>3
<1> QED
  BY <1>4, <1>5, <1>6 DEF RunsInv

\* A call that has changed the registry and is to write it.
LEMMA PersistKeeps ==
  ASSUME RegistryInv', RunsInv, NEW c \in Callers, NEW then \in {"tree", "remove", "bind"},
         ~Changing(c), calls[c].at # "remove", calls[c].at = "register" => calls[c].root \in registered',
         Persist(c, then), UNCHANGED <<workspacesFile, dirs, left>>,
         then = "remove" => calls[c].root \in Worktrees,
         \A w \in Worktrees : w \in registered /\ w \notin registered' =>
           then = "remove" /\ calls[c].root = w
  PROVE  RunsInv'
<1>1. CallsInv /\ (~disturbed => OneChange) /\ WorktreesOwned
  BY DEF RunsInv
<1>2. PICK new \in ToolCall : /\ calls' = [calls EXCEPT ![c] = new] /\ new.at = "copy" /\ new.then = then
                              /\ new.root = calls[c].root /\ new.copy = calls[c].copy
  <2>1. calls[c] \in ToolCall
    BY <1>1 DEF CallsInv
  <2>2. PICK new \in ToolCall : new = [calls[c] EXCEPT !.at = "copy", !.then = then]
    BY <2>1 DEF ToolCall, Places
  <2>3. calls' = [calls EXCEPT ![c] = new]
    BY <1>1, <2>2 DEF Persist, CallsInv
  <2>4. new.at = "copy" /\ new.then = then /\ new.root = calls[c].root /\ new.copy = calls[c].copy
    BY <2>1, <2>2 DEF ToolCall
  <2> QED
    BY <2>3, <2>4
<1>3. /\ calls' \in [Callers -> ToolCall]
      /\ calls'[c] = new /\ \A d \in Callers : d # c => calls'[d] = calls[d]
      /\ \A d \in Callers : d # c => (Changing(d)' <=> Changing(d))
  BY <1>1, <1>2, OneCall
<1>4. disturbed' = (disturbed \/ ~Alone(c)) /\ calls[c].then = "idle"
  BY <1>1 DEF Persist, CallsInv, Returns, Changing
<1>5. CallsInv'
  <2>1. Returns(new)
    BY <1>1, <1>2 DEF CallsInv, Returns
  <2> QED
    BY <1>1, <1>3, <1>4, <2>1 DEF CallsInv
<1>6. ASSUME ~disturbed' PROVE OneChange'
  <2>1. \A d \in Callers : d # c => ~Changing(d) /\ ~Changing(d)'
    BY <1>3, <1>4, <1>6 DEF Alone
  <2>2. Changing(c)' /\ calls'[c].at # "write" /\ \A d \in Callers : d # c => calls'[d].at # "write"
    BY <1>2, <1>3, <2>1 DEF Changing
  <2> QED
    BY <2>1, <2>2 DEF OneChange
<1>7. WorktreesOwned'
  <2>1. SUFFICES ASSUME NEW w \in (Worktrees \cap dirs) \ (registered' \cup left)
                 PROVE  \E d \in Callers : /\ calls'[d].root = w
                                           /\ \/ calls'[d].at = "register" \/ calls'[d].then = "remove"
                                              \/ calls'[d].at = "remove"
    BY DEF WorktreesOwned
  <2>2. CASE w \in registered
    <3>1. then = "remove" /\ calls[c].root = w
      BY <2>2
    <3> QED
      BY <1>2, <1>3, <3>1
  <2>3. CASE w \notin registered
    <3>1. PICK d \in Callers : /\ calls[d].root = w
                               /\ calls[d].at = "register" \/ calls[d].then = "remove" \/ calls[d].at = "remove"
      BY <1>1, <2>3 DEF WorktreesOwned
    <3>2. d # c
      BY <1>4, <2>1, <3>1
    <3> QED
      BY <1>3, <3>1, <3>2
  <2> QED
    BY <2>2, <2>3
<1> QED
  BY <1>5, <1>6, <1>7 DEF RunsInv

----------------------------------------------------------------------------
(* Calls: the steps that leave the registry alone *)

LEMMA BeginToolKeeps ==
  ASSUME ToolsInv, NEW c \in Callers, BeginTool(c) PROVE ToolsInv' /\ KeepsApart
<1>1. ActivityInv' /\ KeepsApart /\ activeMonitorID' \in 0 .. MaxMonitors
  BY CaptureFits DEF ToolsInv, BeginTool
<1>2. RegistryInv'
  BY RegistryStays DEF ToolsInv, BeginTool
<1>3. PICK new \in ToolCall : calls' = [calls EXCEPT ![c] = new] /\ Quiet(new)
  <2>1. CASE calls' = [calls EXCEPT ![c] = [Idle EXCEPT !.at = "handler", !.tool = "open",
                                                         !.monitor = activeMonitorID']]
    <3>1. PICK new \in ToolCall : new = [Idle EXCEPT !.at = "handler", !.tool = "open",
                                                      !.monitor = activeMonitorID']
      BY <1>1, IdleFits DEF ToolCall, Places, Tools
    <3>2. new.at = "handler" /\ new.then = Idle.then /\ new.copy = Idle.copy
      BY <3>1, IdleFits DEF ToolCall
    <3> QED
      BY <2>1, <3>1, <3>2, IdleFits DEF Quiet
  <2>2. ASSUME NEW root \in registered \cup created \cup {NoRoot},
               calls' = [calls EXCEPT ![c] = [Idle EXCEPT !.at = "record", !.root = root,
                                                          !.monitor = activeMonitorID']]
        PROVE  \E new \in ToolCall : calls' = [calls EXCEPT ![c] = new] /\ Quiet(new)
    <3>1. root \in Roots \cup {NoRoot}
      BY RootsAreNumbers DEF ToolsInv, RegistryInv, RegistryTypeOK
    <3>2. PICK new \in ToolCall : new = [Idle EXCEPT !.at = "record", !.root = root,
                                                      !.monitor = activeMonitorID']
      BY <1>1, <3>1, IdleFits DEF ToolCall, Places
    <3>3. new.at = "record" /\ new.then = Idle.then /\ new.copy = Idle.copy
      BY <3>2, IdleFits DEF ToolCall
    <3> QED
      BY <2>2, <3>2, <3>3, IdleFits DEF Quiet
  <2> QED
    BY <2>1, <2>2 DEF BeginTool
<1>4. ~Changing(c) /\ calls[c].at = "idle"
  BY DEF BeginTool, Changing
<1>5. UNCHANGED <<registered, activeID, workspacesFile, dirs, disturbed, left>>
  BY DEF BeginTool, registryVars
<1>6. RunsInv'
  BY <1>3, <1>4, <1>5, QuietKeeps DEF ToolsInv
<1> QED
  BY <1>1, <1>2, <1>6 DEF ToolsInv

\* A call that touches neither registry nor monitors.
LEMMA ThinkKeeps ==
  ASSUME ToolsInv, NEW c \in Callers, NEW new \in ToolCall, calls' = [calls EXCEPT ![c] = new], Quiet(new),
         ~Changing(c), calls[c].at # "remove", calls[c].at = "register" => calls[c].root \in registered,
         UNCHANGED <<registryVars, activityVars, disturbed, left>>
  PROVE  ToolsInv' /\ KeepsApart
<1>1. RegistryInv' /\ ActivityInv' /\ KeepsApart
  BY RegistryStays, ActivityStays DEF ToolsInv
<1>2. RunsInv'
  BY QuietKeeps DEF ToolsInv, registryVars
<1> QED
  BY <1>1, <1>2 DEF ToolsInv

LEMMA BeginLookupKeeps ==
  ASSUME ToolsInv, NEW c \in Callers, BeginLookup(c) PROVE ToolsInv' /\ KeepsApart
<1>1. PICK new \in ToolCall : new = [Idle EXCEPT !.at = "handler", !.tool = "lookup"]
  BY IdleFits DEF ToolCall, Places, Tools
<1>2. new.at = "handler" /\ new.then = Idle.then /\ new.copy = Idle.copy
  BY <1>1, IdleFits DEF ToolCall
<1>3. Quiet(new)
  BY <1>2, IdleFits DEF Quiet
<1> QED
  BY <1>1, <1>3, ThinkKeeps DEF BeginLookup, Changing

LEMMA BeginPromptKeeps ==
  ASSUME ToolsInv, NEW c \in Callers, BeginPrompt(c) PROVE ToolsInv' /\ KeepsApart
<1>1. PICK tool \in {"skills_search", "activity"} :
        calls' = [calls EXCEPT ![c] = [Idle EXCEPT !.at = "start", !.tool = tool, !.root = DefaultWorkspace]]
  BY DEF BeginPrompt
<1>2. DefaultWorkspace \in Roots \cup {NoRoot}
  BY DefaultFits DEF ToolsInv
<1>3. PICK new \in ToolCall : new = [Idle EXCEPT !.at = "start", !.tool = tool, !.root = DefaultWorkspace]
  BY <1>2, IdleFits DEF ToolCall, Places, Tools
<1>4. new.at = "start" /\ new.then = Idle.then /\ new.copy = Idle.copy
  BY <1>3, IdleFits DEF ToolCall
<1>5. Quiet(new)
  BY <1>4, IdleFits DEF Quiet
<1> QED
  BY <1>1, <1>3, <1>5, ThinkKeeps DEF BeginPrompt, Changing

\* A step that touches the monitors only.
LEMMA ShowKeeps ==
  ASSUME ToolsInv, ActivityInv', KeepsApart,
         NEW c \in Callers, NEW new \in ToolCall, calls' = [calls EXCEPT ![c] = new], Quiet(new),
         ~Changing(c), calls[c].at \notin {"register", "remove"},
         UNCHANGED <<registryVars, disturbed, left>>
  PROVE  ToolsInv' /\ KeepsApart
<1>1. RegistryInv'
  BY RegistryStays DEF ToolsInv
<1>2. RunsInv'
  BY QuietKeeps DEF ToolsInv, registryVars
<1> QED
  BY <1>1, <1>2 DEF ToolsInv

LEMMA StartPromptKeeps ==
  ASSUME ToolsInv, NEW c \in Callers, StartPrompt(c) PROVE ToolsInv' /\ KeepsApart
<1>1. calls[c].root \in Workspaces \cup {NoWorkspace}
  BY ToolCallsAssumption DEF ToolsInv, RunsInv, CallsInv, ToolCall
<1>2. ActivityInv' /\ KeepsApart
  BY <1>1, StartFits DEF ToolsInv, StartPrompt
<1>3. started' \in 0 .. MaxMonitors
  BY <1>2, ToolCallsAssumption DEF ActivityInv, ActivityTypeOK
<1>4. PICK new \in ToolCall : calls' = [calls EXCEPT ![c] = new] /\ Quiet(new)
  <2>1. CASE calls[c].tool = "activity"
    BY <2>1, IdleFits DEF StartPrompt, End
  <2>2. CASE calls[c].tool # "activity"
    <3>1. PICK new \in ToolCall : new = [Idle EXCEPT !.at = "record", !.monitor = started']
      BY <1>3, IdleFits DEF ToolCall, Places
    <3>2. new.at = "record" /\ new.then = Idle.then /\ new.copy = Idle.copy
      BY <3>1, IdleFits DEF ToolCall
    <3> QED
      BY <2>2, <3>1, <3>2, IdleFits DEF StartPrompt, Quiet
  <2> QED
    BY <2>1, <2>2
<1> QED
  BY <1>2, <1>4, ShowKeeps DEF StartPrompt, Changing

LEMMA RecordKeeps ==
  ASSUME ToolsInv, NEW c \in Callers, Record(c) PROVE ToolsInv' /\ KeepsApart
<1>1. calls[c].root \in Workspaces \cup {NoWorkspace}
  BY ToolCallsAssumption DEF ToolsInv, RunsInv, CallsInv, ToolCall
<1>2. ActivityInv' /\ KeepsApart
  BY <1>1, RecordFits DEF ToolsInv, Record
<1> QED
  BY <1>2, IdleFits, ShowKeeps DEF Record, End, Changing

LEMMA BindKeeps ==
  ASSUME ToolsInv, NEW c \in Callers, Bind(c) PROVE ToolsInv' /\ KeepsApart
<1>1. calls[c].root \in Workspaces \cup {NoWorkspace}
  BY ToolCallsAssumption DEF ToolsInv, RunsInv, CallsInv, ToolCall
<1>2. ActivityInv' /\ KeepsApart
  BY <1>1, BindFits DEF ToolsInv, Bind
<1> QED
  BY <1>2, IdleFits, ShowKeeps DEF Bind, End, Changing

\* The place a call moves to, with its tool and root.
Moved(call, at, tool, root) == [call EXCEPT !.at = at, !.tool = tool, !.root = root]

LEMMA Moves ==
  ASSUME ToolsInv, NEW c \in Callers, ~Changing(c),
         NEW at \in {"record", "register", "tree", "bind", "activate"},
         NEW tool \in Tools \cup {"none"}, NEW root \in Roots \cup {NoRoot},
         at = "register" => root \in Roots
  PROVE  /\ Moved(calls[c], at, tool, root) \in ToolCall
         /\ Moved(calls[c], at, tool, root).at = at /\ Moved(calls[c], at, tool, root).root = root
         /\ Quiet(Moved(calls[c], at, tool, root))
<1>1. calls[c] \in ToolCall /\ Returns(calls[c])
  BY DEF ToolsInv, RunsInv, CallsInv
<1>2. PICK new \in ToolCall : new = Moved(calls[c], at, tool, root)
  BY <1>1 DEF ToolCall, Places, Moved
<1>3. new.at = at /\ new.root = root /\ new.then = calls[c].then /\ new.copy = calls[c].copy
  BY <1>1, <1>2 DEF ToolCall, Moved
<1>4. Quiet(new)
  BY <1>1, <1>3 DEF Quiet, Returns, Changing
<1> QED
  BY <1>2, <1>3, <1>4

LEMMA RefuseMoves ==
  ASSUME ToolsInv, NEW c \in Callers, ~Changing(c), Refuse(c)
  PROVE  \E new \in ToolCall : calls' = [calls EXCEPT ![c] = new] /\ Quiet(new) /\ new.at = "record"
<1>1. PICK new \in ToolCall : new = Moved(calls[c], "record", "none", NoRoot)
                              /\ new.at = "record" /\ Quiet(new)
  BY Moves
<1>2. calls' = [calls EXCEPT ![c] = new]
  BY <1>1 DEF Refuse, ToolsInv, RunsInv, CallsInv, Moved
<1> QED
  BY <1>1, <1>2

LEMMA MoveToMoves ==
  ASSUME ToolsInv, NEW c \in Callers, ~Changing(c), NEW at \in {"tree", "bind"}, MoveTo(c, at)
  PROVE  \E new \in ToolCall : calls' = [calls EXCEPT ![c] = new] /\ Quiet(new)
<1>1. calls[c] \in ToolCall
  BY DEF ToolsInv, RunsInv, CallsInv
<1>2. calls[c].tool \in Tools \cup {"none"} /\ calls[c].root \in Roots \cup {NoRoot}
  BY <1>1 DEF ToolCall
<1>3. PICK new \in ToolCall : new = Moved(calls[c], at, calls[c].tool, calls[c].root) /\ Quiet(new)
  BY <1>2, Moves
<1>4. new = [calls[c] EXCEPT !.at = at]
  BY <1>1, <1>3 DEF ToolCall, Moved
<1> QED
  BY <1>3, <1>4 DEF MoveTo

LEMMA OpenCheckoutKeeps ==
  ASSUME ToolsInv, NEW c \in Callers, OpenCheckout(c) PROVE ToolsInv' /\ KeepsApart
<1>1. ~Changing(c) /\ calls[c].at = "handler"
      /\ UNCHANGED <<registryVars, activityVars, disturbed, left>>
  BY DEF OpenCheckout, Changing
<1>2. CASE Refuse(c)
  <2>1. PICK new \in ToolCall : calls' = [calls EXCEPT ![c] = new] /\ Quiet(new)
    BY <1>1, <1>2, RefuseMoves
  <2> QED
    BY <1>1, <2>1, ThinkKeeps
<1>3. ASSUME NEW root \in Checkouts,
             calls' = [calls EXCEPT ![c].at = "register", ![c].tool = "none", ![c].root = root]
      PROVE  ToolsInv' /\ KeepsApart
  <2>1. PICK new \in ToolCall : new = Moved(calls[c], "register", "none", root) /\ Quiet(new)
    <3>1. root \in Roots /\ root \in Roots \cup {NoRoot}
      BY DEF Roots
    <3> QED
      BY <1>1, <3>1, Moves
  <2>2. calls' = [calls EXCEPT ![c] = new]
    BY <1>3, <2>1 DEF ToolsInv, RunsInv, CallsInv, Moved
  <2> QED
    BY <1>1, <2>1, <2>2, ThinkKeeps
<1> QED
  BY <1>2, <1>3 DEF OpenCheckout

LEMMA OpenRefusedKeeps ==
  ASSUME ToolsInv, NEW c \in Callers, OpenRefused(c) PROVE ToolsInv' /\ KeepsApart
<1>1. ~Changing(c)
  BY DEF OpenRefused, Changing
<1>2. PICK new \in ToolCall : calls' = [calls EXCEPT ![c] = new] /\ Quiet(new)
  BY <1>1, RefuseMoves DEF OpenRefused
<1> QED
  BY <1>1, <1>2, ThinkKeeps DEF OpenRefused

LEMMA LookUpKeeps ==
  ASSUME ToolsInv, NEW c \in Callers, LookUp(c) PROVE ToolsInv' /\ KeepsApart
<1>1. ~Changing(c) /\ calls[c].at = "handler"
      /\ UNCHANGED <<registryVars, activityVars, disturbed, left>>
  BY DEF LookUp, Changing
<1>2. CASE End(c)
  BY <1>1, <1>2, IdleFits, ThinkKeeps DEF End
<1>3. ASSUME NEW root \in registered, calls' = [calls EXCEPT ![c].at = "activate", ![c].root = root]
      PROVE  ToolsInv' /\ KeepsApart
  <2>1. calls[c] \in ToolCall /\ root \in Roots
    BY DEF ToolsInv, RunsInv, CallsInv, RegistryInv, RegistryTypeOK
  <2>2. PICK new \in ToolCall : new = Moved(calls[c], "activate", calls[c].tool, root) /\ Quiet(new)
    <3>1. calls[c].tool \in Tools \cup {"none"} /\ root \in Roots \cup {NoRoot}
      BY <2>1 DEF ToolCall
    <3> QED
      BY <1>1, <3>1, Moves
  <2>3. new = [calls[c] EXCEPT !.at = "activate", !.root = root]
    BY <2>1, <2>2 DEF ToolCall, Moved
  <2>4. calls' = [calls EXCEPT ![c] = new]
    BY <1>3, <2>3 DEF ToolsInv, RunsInv, CallsInv
  <2> QED
    BY <1>1, <2>2, <2>4, ThinkKeeps
<1> QED
  BY <1>2, <1>3 DEF LookUp

----------------------------------------------------------------------------
(* Calls: the steps that change the registry or the disk *)

LEMMA OpenWorktreeKeeps ==
  ASSUME ToolsInv, NEW c \in Callers, OpenWorktree(c) PROVE ToolsInv' /\ KeepsApart
<1>1. PICK root \in Worktrees :
        /\ CreateWorktree(root)
        /\ calls' = [calls EXCEPT ![c].at = "register", ![c].tool = "none", ![c].root = root]
  BY DEF OpenWorktree
<1>2. /\ dirs' = dirs \cup {root} /\ created' = created \cup {root}
      /\ UNCHANGED <<registered, activeID, workspacesFile>>
  BY <1>1 DEF CreateWorktree
<1>3. /\ ~Changing(c) /\ calls[c].at = "handler"
      /\ UNCHANGED <<activityVars, disturbed, left>>
  BY DEF OpenWorktree, Changing
<1>4. RegistryInv'
  BY <1>2, RootsAreNumbers, DiskFits DEF ToolsInv, RegistryInv, RegistryTypeOK
<1>5. PICK new \in ToolCall : /\ calls' = [calls EXCEPT ![c] = new] /\ Quiet(new)
                              /\ new.at = "register" /\ new.root = root
  <2>1. root \in Roots /\ root \in Roots \cup {NoRoot}
    BY RootsAreNumbers
  <2>2. PICK new \in ToolCall : /\ new = Moved(calls[c], "register", "none", root)
                                /\ new.at = "register" /\ new.root = root /\ Quiet(new)
    BY <1>3, <2>1, Moves
  <2>3. calls' = [calls EXCEPT ![c] = new]
    BY <1>1, <2>2 DEF ToolsInv, RunsInv, CallsInv, Moved
  <2> QED
    BY <2>2, <2>3
<1>6. CallsInv /\ (~disturbed => OneChange) /\ WorktreesOwned
  BY DEF ToolsInv, RunsInv
<1>7. /\ calls' \in [Callers -> ToolCall]
      /\ calls'[c] = new /\ \A d \in Callers : d # c => calls'[d] = calls[d]
      /\ \A d \in Callers : d # c => (Changing(d)' <=> Changing(d))
  BY <1>5, <1>6, OneCall
<1>8. CallsInv'
  <2>1. Returns(new)
    BY <1>5 DEF Quiet, Returns
  <2> QED
    BY <1>3, <1>6, <1>7, <2>1 DEF CallsInv
<1>9. ASSUME ~disturbed' PROVE OneChange'
  <2>1. OneChange /\ \A d \in Callers : (Changing(d)' <=> Changing(d)) /\ calls'[c].at # "write"
    BY <1>3, <1>5, <1>6, <1>7, <1>9 DEF Changing
  <2>2. RegistryCopy' = RegistryCopy
    BY <1>2 DEF RegistryCopy
  <2> QED
    BY <1>2, <1>7, <2>1, <2>2 DEF OneChange
<1>10. WorktreesOwned'
  <2>1. SUFFICES ASSUME NEW w \in (Worktrees \cap dirs') \ (registered' \cup left')
                 PROVE  \E d \in Callers : /\ calls'[d].root = w
                                           /\ \/ calls'[d].at = "register" \/ calls'[d].then = "remove"
                                              \/ calls'[d].at = "remove"
    BY DEF WorktreesOwned
  <2>2. CASE w = root
    BY <1>5, <1>7, <2>2
  <2>3. CASE w # root
    <3>1. PICK d \in Callers : /\ calls[d].root = w
                               /\ calls[d].at = "register" \/ calls[d].then = "remove" \/ calls[d].at = "remove"
      BY <1>2, <1>3, <1>6, <2>3 DEF WorktreesOwned
    <3>2. d # c
      BY <1>3, <1>6, <3>1 DEF CallsInv, Returns
    <3> QED
      BY <1>7, <3>1, <3>2
  <2> QED
    BY <2>2, <2>3
<1>11. ActivityInv' /\ KeepsApart
  BY <1>3, ActivityStays DEF ToolsInv
<1> QED
  BY <1>4, <1>8, <1>9, <1>10, <1>11 DEF ToolsInv, RunsInv

LEMMA RegisterWorkspaceKeeps ==
  ASSUME ToolsInv, NEW c \in Callers, RegisterWorkspace(c) PROVE ToolsInv' /\ KeepsApart
<1>1. ~Changing(c) /\ calls[c].at = "register" /\ calls[c].root \in Roots /\ UNCHANGED <<activityVars, left>>
  BY DEF RegisterWorkspace, Changing, ToolsInv, RunsInv, CallsInv, Returns
<1>2. CASE calls[c].root \in registered
  <2>1. PICK new \in ToolCall : calls' = [calls EXCEPT ![c] = new] /\ Quiet(new)
    BY <1>1, <1>2, MoveToMoves DEF RegisterWorkspace
  <2> QED
    BY <1>1, <1>2, <2>1, ThinkKeeps DEF RegisterWorkspace
<1>3. CASE calls[c].root \notin registered
  <2>1. Register(calls[c].root) /\ Persist(c, "tree")
    BY <1>3 DEF RegisterWorkspace
  <2>2. RegistryInv' /\ registered' = registered \cup {calls[c].root} /\ UNCHANGED <<workspacesFile, dirs>>
    BY <1>1, <2>1, RegisterFits DEF ToolsInv
  <2>3. RunsInv'
    BY <1>1, <2>1, <2>2, PersistKeeps DEF ToolsInv
  <2>4. ActivityInv' /\ KeepsApart
    BY <1>1, ActivityStays DEF ToolsInv
  <2> QED
    BY <2>2, <2>3, <2>4 DEF ToolsInv
<1> QED
  BY <1>2, <1>3

LEMMA TreeFailsKeeps ==
  ASSUME ToolsInv, NEW c \in Callers, TreeFails(c) PROVE ToolsInv' /\ KeepsApart
<1>1. ~Changing(c) /\ calls[c].at = "tree" /\ UNCHANGED <<activityVars, left>>
  BY DEF TreeFails, Changing
<1>2. CASE calls[c].root \notin Worktrees \cap registered
  <2>1. PICK new \in ToolCall : calls' = [calls EXCEPT ![c] = new] /\ Quiet(new)
    BY <1>1, <1>2, RefuseMoves DEF TreeFails
  <2> QED
    BY <1>1, <1>2, <2>1, ThinkKeeps DEF TreeFails
<1>3. CASE calls[c].root \in Worktrees \cap registered
  <2>1. Unregister(calls[c].root) /\ Persist(c, "remove")
    BY <1>3 DEF TreeFails
  <2>2. RegistryInv' /\ registered' = registered \ {calls[c].root} /\ UNCHANGED <<workspacesFile, dirs>>
    BY <1>3, <2>1, RootsAreNumbers, UnregisterFits DEF ToolsInv
  <2>3. RunsInv'
    BY <1>1, <1>3, <2>1, <2>2, PersistKeeps DEF ToolsInv
  <2>4. ActivityInv' /\ KeepsApart
    BY <1>1, ActivityStays DEF ToolsInv
  <2> QED
    BY <2>2, <2>3, <2>4 DEF ToolsInv
<1> QED
  BY <1>2, <1>3

LEMMA ActivateWorkspaceKeeps ==
  ASSUME ToolsInv, NEW c \in Callers, ActivateWorkspace(c) PROVE ToolsInv' /\ KeepsApart
<1>1. ~Changing(c) /\ calls[c].at = "activate" /\ UNCHANGED <<activityVars, left>>
  BY DEF ActivateWorkspace, Changing
<1>2. CASE calls[c].root \notin registered
  <2>1. PICK new \in ToolCall : calls' = [calls EXCEPT ![c] = new] /\ Quiet(new)
    BY <1>1, <1>2, MoveToMoves DEF ActivateWorkspace
  <2> QED
    BY <1>1, <1>2, <2>1, ThinkKeeps DEF ActivateWorkspace
<1>3. CASE calls[c].root \in registered
  <2>1. Activate(calls[c].root) /\ Persist(c, "bind")
    BY <1>3 DEF ActivateWorkspace
  <2>2. RegistryInv' /\ registered' = registered /\ UNCHANGED <<workspacesFile, dirs>>
    BY <1>3, <2>1, ActivateFits DEF ToolsInv
  <2>3. RunsInv'
    BY <1>1, <2>1, <2>2, PersistKeeps DEF ToolsInv
  <2>4. ActivityInv' /\ KeepsApart
    BY <1>1, ActivityStays DEF ToolsInv
  <2> QED
    BY <2>2, <2>3, <2>4 DEF ToolsInv
<1> QED
  BY <1>2, <1>3

LEMMA RemoveKeeps ==
  ASSUME ToolsInv, NEW c \in Callers, Remove(c) PROVE ToolsInv' /\ KeepsApart
<1>1. /\ ~Changing(c) /\ calls[c].at = "remove" /\ calls[c].root \in Worktrees
      /\ UNCHANGED <<registered, activeID, workspacesFile, created, activityVars, disturbed>>
  BY DEF Remove, RemoveWorktree, registryVars, Changing, ToolsInv, RunsInv, CallsInv, Returns
<1>2. /\ dirs' \subseteq dirs /\ left \subseteq left' /\ left' \subseteq left \cup {calls[c].root}
      /\ calls[c].root \notin dirs' \/ calls[c].root \in left'
  BY DEF Remove, RemoveWorktree, registryVars
<1>3. RegistryInv'
  BY <1>1, <1>2, DiskFits DEF ToolsInv, RegistryInv, RegistryTypeOK
<1>4. PICK new \in ToolCall : calls' = [calls EXCEPT ![c] = new] /\ Quiet(new) /\ new.at = "record"
  BY <1>1, RefuseMoves DEF Remove
<1>5. CallsInv /\ (~disturbed => OneChange) /\ WorktreesOwned
  BY DEF ToolsInv, RunsInv
<1>6. /\ calls' \in [Callers -> ToolCall]
      /\ calls'[c] = new /\ \A d \in Callers : d # c => calls'[d] = calls[d]
      /\ \A d \in Callers : d # c => (Changing(d)' <=> Changing(d))
  BY <1>4, <1>5, OneCall
<1>7. CallsInv'
  <2>1. Returns(new)
    BY <1>4 DEF Quiet, Returns
  <2> QED
    BY <1>1, <1>2, <1>5, <1>6, <2>1 DEF CallsInv
<1>8. ASSUME ~disturbed' PROVE OneChange'
  <2>1. OneChange /\ \A d \in Callers : (Changing(d)' <=> Changing(d)) /\ calls'[c].at # "write"
    BY <1>1, <1>4, <1>5, <1>6, <1>8 DEF Changing
  <2>2. RegistryCopy' = RegistryCopy
    BY <1>1 DEF RegistryCopy
  <2> QED
    BY <1>1, <1>6, <2>1, <2>2 DEF OneChange
<1>9. WorktreesOwned'
  <2>1. SUFFICES ASSUME NEW w \in (Worktrees \cap dirs') \ (registered' \cup left')
                 PROVE  \E d \in Callers : /\ calls'[d].root = w
                                           /\ \/ calls'[d].at = "register" \/ calls'[d].then = "remove"
                                              \/ calls'[d].at = "remove"
    BY DEF WorktreesOwned
  <2>2. PICK d \in Callers : /\ calls[d].root = w
                             /\ calls[d].at = "register" \/ calls[d].then = "remove" \/ calls[d].at = "remove"
    BY <1>1, <1>2, <1>5 DEF WorktreesOwned
  <2>3. d # c
    BY <1>2, <2>1, <2>2
  <2> QED
    BY <1>6, <2>2, <2>3
<1>10. ActivityInv' /\ KeepsApart
  BY <1>1, ActivityStays DEF ToolsInv
<1> QED
  BY <1>3, <1>7, <1>8, <1>9, <1>10 DEF ToolsInv, RunsInv

LEMMA CopyRegistryKeeps ==
  ASSUME ToolsInv, NEW c \in Callers, CopyRegistry(c) PROVE ToolsInv' /\ KeepsApart
<1>1. /\ Changing(c) /\ calls[c].at = "copy" /\ disturbed' = (disturbed /\ ~Alone(c))
      /\ UNCHANGED <<registered, activeID, workspacesFile, dirs, created, left>>
  BY DEF CopyRegistry, Changing, registryVars
<1>2. CallsInv /\ (~disturbed => OneChange) /\ WorktreesOwned
  BY DEF ToolsInv, RunsInv
<1>3. PICK new \in ToolCall : /\ calls' = [calls EXCEPT ![c] = new] /\ new.at = "write"
                              /\ new.copy = RegistryCopy /\ new.then = calls[c].then /\ new.root = calls[c].root
  <2>1. calls[c] \in ToolCall /\ RegistryCopy \in Copies
    BY <1>2, CopyFits DEF CallsInv, ToolsInv
  <2>2. PICK new \in ToolCall : new = [calls[c] EXCEPT !.at = "write", !.copy = RegistryCopy]
    BY <2>1 DEF ToolCall, Places
  <2>3. calls' = [calls EXCEPT ![c] = new]
    BY <1>2, <2>2 DEF CopyRegistry, CallsInv
  <2>4. new.at = "write" /\ new.copy = RegistryCopy /\ new.then = calls[c].then /\ new.root = calls[c].root
    BY <2>1, <2>2 DEF ToolCall
  <2> QED
    BY <2>3, <2>4
<1>4. /\ calls' \in [Callers -> ToolCall]
      /\ calls'[c] = new /\ \A d \in Callers : d # c => calls'[d] = calls[d]
      /\ \A d \in Callers : d # c => (Changing(d)' <=> Changing(d))
  BY <1>2, <1>3, OneCall
<1>5. CallsInv'
  <2>1. IsFiniteSet(new.copy.workspaces)
    BY <1>3, CopyFits DEF ToolsInv, RegistryInv
  <2>2. Returns(new)
    BY <1>1, <1>2, <1>3, <2>1 DEF CallsInv, Returns
  <2>3. disturbed' \in BOOLEAN
    BY <1>1
  <2> QED
    BY <1>1, <1>2, <1>4, <2>2, <2>3 DEF CallsInv
<1>6. ASSUME ~disturbed' PROVE OneChange'
  <2>1. \A d \in Callers : d # c => ~Changing(d)
    <3>1. CASE Alone(c)
      BY <3>1 DEF Alone
    <3>2. CASE ~disturbed
      BY <1>1, <1>2, <3>2 DEF OneChange
    <3> QED
      BY <1>1, <1>6, <3>1, <3>2
  <2>2. Changing(c)' /\ \A d \in Callers : d # c => ~Changing(d)' /\ calls'[d].at # "write"
    BY <1>3, <1>4, <2>1 DEF Changing
  <2>3. calls'[c].copy = RegistryCopy'
    BY <1>1, <1>3, <1>4 DEF RegistryCopy
  <2> QED
    BY <2>2, <2>3 DEF OneChange
<1>7. WorktreesOwned'
  <2>1. \A d \in Callers : /\ calls'[d].root = calls[d].root /\ calls'[d].then = calls[d].then
                           /\ calls[d].at \in {"register", "remove"} => calls'[d] = calls[d]
    BY <1>1, <1>3, <1>4
  <2> QED
    BY <1>1, <1>2, <2>1 DEF WorktreesOwned
<1>8. RegistryInv' /\ ActivityInv' /\ KeepsApart
  BY RegistryStays, ActivityStays DEF ToolsInv, CopyRegistry
<1> QED
  BY <1>5, <1>6, <1>7, <1>8 DEF ToolsInv, RunsInv

LEMMA WriteCopyKeeps ==
  ASSUME ToolsInv, NEW c \in Callers, WriteCopy(c) PROVE ToolsInv' /\ KeepsApart
<1>1. /\ Changing(c) /\ calls[c].at = "write"
      /\ UNCHANGED <<registered, activeID, dirs, created, activityVars, left>>
  BY DEF WriteCopy, WriteRegistry, WriteFails, Changing
<1>2. \/ workspacesFile' = calls[c].copy /\ disturbed' = disturbed
      \/ workspacesFile' \in {workspacesFile, Nothing} /\ disturbed' = TRUE
  BY DEF WriteCopy, WriteRegistry, WriteFails
<1>3. CallsInv /\ (~disturbed => OneChange) /\ WorktreesOwned
  BY DEF ToolsInv, RunsInv
<1>4. calls[c] \in ToolCall /\ Returns(calls[c]) /\ calls[c].then \in {"tree", "remove", "bind"}
  BY <1>1, <1>3 DEF CallsInv, Returns
<1>5. RegistryInv'
  <2>1. workspacesFile' \in Copies /\ IsFiniteSet(workspacesFile'.workspaces)
    <3>1. calls[c].copy \in Copies /\ IsFiniteSet(calls[c].copy.workspaces)
      BY <1>4 DEF ToolCall, Returns
    <3> QED
      BY <1>2, <3>1, NothingFits, FS_EmptySet DEF ToolsInv, RegistryInv, RegistryTypeOK
  <2> QED
    BY <1>1, <2>1, DiskFits DEF ToolsInv, RegistryInv, RegistryTypeOK
<1>6. PICK new \in ToolCall : /\ calls' = [calls EXCEPT ![c] = new] /\ new.at = calls[c].then
                              /\ new.copy = Nothing /\ new.then = "idle" /\ new.root = calls[c].root
  <2>1. PICK new \in ToolCall : new = [calls[c] EXCEPT !.at = calls[c].then, !.copy = Nothing, !.then = "idle"]
    BY <1>4, NothingFits DEF ToolCall, Places
  <2>2. calls' = [calls EXCEPT ![c] = new]
    BY <1>3, <2>1 DEF WriteCopy, CallsInv
  <2>3. new.at = calls[c].then /\ new.copy = Nothing /\ new.then = "idle" /\ new.root = calls[c].root
    BY <1>4, <2>1 DEF ToolCall
  <2> QED
    BY <2>2, <2>3
<1>7. /\ calls' \in [Callers -> ToolCall]
      /\ calls'[c] = new /\ \A d \in Callers : d # c => calls'[d] = calls[d]
      /\ \A d \in Callers : d # c => (Changing(d)' <=> Changing(d))
  BY <1>3, <1>6, OneCall
<1>8. CallsInv'
  <2>1. Returns(new)
    BY <1>4, <1>6, NothingFits, FS_EmptySet DEF Returns
  <2>2. disturbed' \in BOOLEAN
    BY <1>2, <1>3 DEF CallsInv
  <2> QED
    BY <1>1, <1>3, <1>7, <2>1, <2>2 DEF CallsInv
<1>9. ASSUME ~disturbed' PROVE OneChange'
  <2>1. OneChange /\ workspacesFile' = calls[c].copy
    BY <1>2, <1>3, <1>9
  <2>2. workspacesFile' = RegistryCopy'
    BY <1>1, <2>1 DEF OneChange, RegistryCopy
  <2>3. \A d \in Callers : ~Changing(d)' /\ calls'[d].at # "write"
    BY <1>1, <1>4, <1>6, <1>7, <2>1 DEF OneChange, Changing
  <2> QED
    BY <2>2, <2>3 DEF OneChange
<1>10. WorktreesOwned'
  <2>1. \A d \in Callers : /\ calls'[d].root = calls[d].root
                           /\ calls[d].at \in {"register", "remove"} => calls'[d].at = calls[d].at
                           /\ calls[d].then = "remove" => calls'[d].then = "remove" \/ calls'[d].at = "remove"
    BY <1>1, <1>6, <1>7
  <2> QED
    BY <1>1, <1>3, <2>1 DEF WorktreesOwned
<1>11. ActivityInv' /\ KeepsApart
  BY <1>1, ActivityStays DEF ToolsInv
<1> QED
  BY <1>5, <1>8, <1>9, <1>10, <1>11 DEF ToolsInv, RunsInv

----------------------------------------------------------------------------
(* A restart, and the user *)

LEMMA RestartKeeps ==
  ASSUME ToolsInv, Restart PROVE ToolsInv' /\ started' = 0
<1>1. /\ calls' = [c \in Callers |-> Idle] /\ disturbed' = FALSE /\ UNCHANGED <<dirs, created>>
      /\ left' = left \cup ((Worktrees \cap dirs) \ registered')
      /\ sequence' = 0 /\ activeMonitorID' = 0 /\ monitorOrder' = <<>> /\ monitors' = <<>> /\ started' = 0
  BY DEF Restart, Restore, RestoreNothing, NoMonitor
<1>2. PICK copy \in Copies :
        /\ IsFiniteSet(copy.workspaces) /\ copy.active \in copy.workspaces \cup {NoRoot}
        /\ registered' = copy.workspaces /\ activeID' = copy.active /\ workspacesFile' = copy
  <2>1. CASE Restore
    BY <2>1, RestoredFits DEF Restore, ToolsInv
  <2>2. CASE RestoreNothing
    BY <2>2, NothingFits, FS_EmptySet DEF RestoreNothing
  <2> QED
    BY <2>1, <2>2 DEF Restart
<1>3. RegistryInv'
  BY <1>1, <1>2 DEF ToolsInv, RegistryInv, RegistryTypeOK, Copies
<1>4. ActivityInv'
  <2>1. 0 \in 0 .. 0 /\ <<>> \in Seq(1 .. 0) /\ DOMAIN <<>> = {} /\ 0 <= MaxMonitors
    BY ToolCallsAssumption
  <2> QED
    BY <1>1, <2>1 DEF ActivityInv, ActivityTypeOK
<1>5. \A c \in Callers : calls'[c] = Idle /\ ~Changing(c)' /\ calls'[c].at # "write"
  BY <1>1, IdleFits DEF Changing
<1>6. CallsInv'
  <2>1. Returns(Idle)
    BY IdleFits DEF Quiet, Returns
  <2> QED
    BY <1>1, <1>5, <2>1, IdleFits DEF CallsInv, ToolsInv, RunsInv
<1>7. OneChange'
  <2>1. RegistryCopy' = workspacesFile'
    BY <1>2 DEF RegistryCopy, Copies
  <2> QED
    BY <1>5, <2>1 DEF OneChange
<1>8. WorktreesOwned'
  BY <1>1 DEF WorktreesOwned
<1> QED
  BY <1>1, <1>3, <1>4, <1>6, <1>7, <1>8 DEF ToolsInv, RunsInv

LEMMA RunsStay ==
  ASSUME RunsInv, UNCHANGED callVars, UNCHANGED <<registered, activeID, workspacesFile>>, dirs' \subseteq dirs
  PROVE  RunsInv'
<1>1. UNCHANGED <<calls, disturbed, left>>
  BY DEF callVars
<1>2. CallsInv'
  BY <1>1 DEF RunsInv, CallsInv, Returns
<1>3. ASSUME ~disturbed' PROVE OneChange'
  <2>1. OneChange /\ RegistryCopy' = RegistryCopy
    BY <1>1, <1>3 DEF RunsInv, RegistryCopy
  <2> QED
    BY <1>1, <2>1 DEF OneChange, Changing
<1>4. WorktreesOwned'
  BY <1>1 DEF RunsInv, WorktreesOwned
<1> QED
  BY <1>2, <1>3, <1>4 DEF RunsInv

LEMMA UserDeletesKeeps ==
  ASSUME ToolsInv, UserDeletes PROVE ToolsInv' /\ KeepsApart
<1>1. /\ dirs' \subseteq dirs /\ UNCHANGED <<registered, activeID, workspacesFile, created>>
      /\ UNCHANGED activityVars /\ UNCHANGED callVars
  BY DEF UserDeletes, DeleteDirectory
<1>2. RegistryInv'
  BY <1>1, DiskFits DEF ToolsInv, RegistryInv, RegistryTypeOK
<1>3. RunsInv'
  BY <1>1, RunsStay DEF ToolsInv
<1>4. ActivityInv' /\ KeepsApart
  BY <1>1, ActivityStays DEF ToolsInv
<1> QED
  BY <1>2, <1>3, <1>4 DEF ToolsInv

LEMMA ToolsStay ==
  ASSUME ToolsInv, UNCHANGED toolVars PROVE ToolsInv' /\ KeepsApart
<1>1. UNCHANGED registryVars /\ UNCHANGED activityVars /\ UNCHANGED callVars
  BY DEF toolVars
<1>2. RegistryInv' /\ ActivityInv' /\ KeepsApart
  BY <1>1, RegistryStays, ActivityStays DEF ToolsInv
<1>3. RunsInv'
  BY <1>1, RunsStay DEF ToolsInv, registryVars
<1> QED
  BY <1>2, <1>3 DEF ToolsInv

----------------------------------------------------------------------------
(* The specification *)

LEMMA ToolsInit == ToolCallsInit => ToolsInv
<1> SUFFICES ASSUME ToolCallsInit PROVE ToolsInv
  OBVIOUS
<1>1. RegistryInv
  BY NothingFits, FS_EmptySet, RootsAreNumbers
     DEF ToolCallsInit, RegistryInit, RegistryInv, RegistryTypeOK, Roots
<1>2. ActivityInv
  <2>1. 0 \in 0 .. 0 /\ <<>> \in Seq(1 .. 0) /\ DOMAIN <<>> = {} /\ 0 <= MaxMonitors
    BY ToolCallsAssumption
  <2> QED
    BY <2>1 DEF ToolCallsInit, ActivityInit, ActivityInv, ActivityTypeOK, NoMonitor
<1>3. \A c \in Callers : calls[c] = Idle /\ ~Changing(c) /\ calls[c].at # "write"
  BY IdleFits DEF ToolCallsInit, Changing
<1>4. CallsInv
  <2>1. Returns(Idle)
    BY IdleFits DEF Quiet, Returns
  <2> QED
    BY <1>3, <2>1, IdleFits DEF ToolCallsInit, CallsInv
<1>5. OneChange
  <2>1. workspacesFile = RegistryCopy
    BY DEF ToolCallsInit, RegistryInit, RegistryCopy, Nothing
  <2> QED
    BY <1>3, <2>1 DEF OneChange
<1>6. WorktreesOwned
  <2>1. Worktrees \cap dirs = {}
    BY WorkspaceAssumption DEF ToolCallsInit, RegistryInit
  <2> QED
    BY <2>1 DEF WorktreesOwned
<1> QED
  BY <1>1, <1>2, <1>4, <1>5, <1>6 DEF ToolsInv, RunsInv

LEMMA ToolsNext ==
  ASSUME ToolsInv, [ToolCallsNext]_toolVars PROVE ToolsInv' /\ (KeepsApart \/ started' = 0)
<1>1. CASE UNCHANGED toolVars
  BY <1>1, ToolsStay
<1>2. CASE Restart
  BY <1>2, RestartKeeps
<1>3. CASE UserDeletes
  BY <1>3, UserDeletesKeeps
<1>4. ASSUME NEW c \in Callers,
             \/ BeginTool(c) \/ BeginLookup(c) \/ BeginPrompt(c) \/ StartPrompt(c) \/ Record(c)
             \/ OpenCheckout(c) \/ OpenWorktree(c) \/ OpenRefused(c)
             \/ RegisterWorkspace(c) \/ TreeFails(c) \/ Remove(c)
             \/ LookUp(c) \/ ActivateWorkspace(c) \/ Bind(c) \/ CopyRegistry(c) \/ WriteCopy(c)
      PROVE  ToolsInv' /\ KeepsApart
  BY <1>4, BeginToolKeeps, BeginLookupKeeps, BeginPromptKeeps, StartPromptKeeps, RecordKeeps,
     OpenCheckoutKeeps, OpenWorktreeKeeps, OpenRefusedKeeps, RegisterWorkspaceKeeps, TreeFailsKeeps,
     RemoveKeeps, LookUpKeeps, ActivateWorkspaceKeeps, BindKeeps, CopyRegistryKeeps, WriteCopyKeeps
<1> QED
  BY <1>1, <1>2, <1>3, <1>4 DEF ToolCallsNext

\* However tool calls, crashes and deletions interleave, the registry, its file
\* and the monitors are well formed and every call knows what it goes on to.
THEOREM ToolsInvariant == ToolCallsSpec => []ToolsInv
  BY ToolsInit, ToolsNext, PTL DEF ToolCallsSpec

\* The state of persistWorkspaceRegistry, the monitors and the calls has its types.
THEOREM ToolsTyped == ToolCallsSpec => []ToolCallsTypeOK
<1>1. ToolsInv => ToolCallsTypeOK
  BY DEF ToolsInv, RegistryInv, ActivityInv, RunsInv, CallsInv, ToolCall, ToolCallsTypeOK
<1> QED
  BY <1>1, ToolsInvariant, PTL

\* persistWorkspaceRegistry, although it writes its copy without the lock, leaves
\* the registry in the file unless two changes overlap or a write fails.
THEOREM RegistryInFile == ToolCallsSpec => []RegistryDurable
<1>1. ToolsInv => RegistryDurable
  BY DEF ToolsInv, RunsInv, OneChange, RegistryDurable
<1> QED
  BY <1>1, ToolsInvariant, PTL

\* open_workspace leaves no worktree behind that nobody would remove, but after a
\* crash or a removal that failed.
THEOREM WorktreesHaveOwners == ToolCallsSpec => []WorktreesOwned
<1>1. ToolsInv => WorktreesOwned
  BY DEF ToolsInv, RunsInv
<1> QED
  BY <1>1, ToolsInvariant, PTL

\* A new prompt's monitor takes over for good: no call still under way writes to an
\* earlier one (captureActiveMonitorID, recordForMonitor).
THEOREM PromptsApart == ToolCallsSpec => PromptsKeptApart
<1> DEFINE Apart == \A m \in DOMAIN monitors : started' >= started /\ m # activeMonitorID =>
                      /\ activeMonitorID' # m
                      /\ m \in DOMAIN monitors' => monitors'[m] = monitors[m]
<1>1. ToolsInv /\ [ToolCallsNext]_toolVars => [Apart]_toolVars
  <2> SUFFICES ASSUME ToolsInv, [ToolCallsNext]_toolVars PROVE Apart
    OBVIOUS
  <2>1. CASE KeepsApart
    BY <2>1 DEF KeepsApart
  <2>2. CASE started' = 0
    <3>1. \A m \in DOMAIN monitors : m \in 1 .. started /\ started \in Nat
      BY DEF ToolsInv, ActivityInv, ActivityTypeOK
    <3>2. \A m \in DOMAIN monitors : ~(started' >= started)
      BY <2>2, <3>1
    <3> QED
      BY <3>2
  <2> QED
    BY <2>1, <2>2, ToolsNext
<1> QED
  BY <1>1, ToolsInvariant, PTL DEF ToolCallsSpec, PromptsKeptApart
=============================================================================
