--------------------------- MODULE WorkspaceFiles ----------------------------
(***************************************************************************)
(* One file of a workspace under concurrent tool calls: write and edit     *)
(* (tools.go), which read it, note the original, and replace it without a  *)
(* lock; show_changes (changes.go), which compares the originals with the  *)
(* disk and forgets them; read (context_io.go), page by page with cursors; *)
(* and commands that change the file behind their back.                    *)
(*                                                                         *)
(* A content is a number, which stands for its SHA-256 too.  Each path has *)
(* its own original, and one is enough.  Diffs and languages are left out; *)
(* so is the width of lines: a page may end at any line, where its byte    *)
(* budget does, and a line counts as shown although readLineWindow elides  *)
(* the middle of one over 2048 bytes.  A restart of the server, which      *)
(* loses the originals with the memory, is not modelled.                   *)
(***************************************************************************)
EXTENDS Naturals

CONSTANTS
  Contents,     \* what the file may hold
  LineCount,    \* its lines, the empty one after a last newline included; an empty
                \* file has nothing to page through
  Writers, Readers,
  PageLines     \* max_lines of a read

Absent  == 0
NoCursor == 0

ASSUME FilesAssumption ==
  /\ Contents \subseteq Nat \ {Absent} /\ LineCount \in [Contents -> Nat \ {0}]
  /\ PageLines \in Nat \ {0}

VARIABLES
  file,         \* the content on disk, or Absent
  originals,    \* state.originals of the path
  writers,      \* where each write or edit stands
  review,       \* where show_changes stands: it holds state.mu
  readers,      \* where each read by pages stands
  reviewed,     \* history: the file as the last review saw it, ...
  pending,      \* ... whether a tool has written it since, ...
  outside,      \* ... whether a command has changed it since, and ...
  overlapped    \* ... whether a review and a write or edit overlapped

fileVars == <<file, originals, writers, review, readers, reviewed, pending, outside, overlapped>>

NoSnapshot == [exists |-> FALSE, content |-> Absent, noted |-> FALSE]
Snapshot(exists, content) == [exists |-> exists, content |-> content, noted |-> TRUE]
OnDisk == Contents \cup {Absent}

IdleWriter == [at |-> "idle", before |-> Absent, existed |-> FALSE]
NewReader  == [at |-> "idle", sha |-> Absent, cursor |-> NoCursor, shown |-> {}, flawed |-> FALSE]

FilesTypeOK ==
  /\ file \in OnDisk /\ reviewed \in OnDisk
  /\ originals \in [exists : BOOLEAN, content : OnDisk, noted : BOOLEAN]
  /\ writers \in [Writers -> [at : {"idle", "stat_write", "stat_edit", "record", "put"},
                              before : OnDisk, existed : BOOLEAN]]
  /\ review \in [busy : BOOLEAN, seen : OnDisk]
  /\ \A r \in Readers :
       /\ readers[r].at \in {"idle", "hash", "page", "complete", "changed"}
       /\ readers[r].sha \in OnDisk /\ readers[r].cursor \in Nat
       /\ readers[r].shown \subseteq Contents \X Nat
  /\ {pending, outside, overlapped} \subseteq BOOLEAN

----------------------------------------------------------------------------
(* write and edit *)

Writing(w) == writers[w].at # "idle"
\* A step of a write while a review is under way.
Overlap == overlapped' = (overlapped \/ review.busy)

\* handleWrite reads the file if there is one, handleEdit must find it and its
\* old_string in it.
ReadBefore(w) ==
  /\ writers[w].at = "idle"
  /\ \E place \in {"stat_write", "stat_edit"} :
       /\ place = "stat_edit" => file # Absent
       /\ writers' = [writers EXCEPT ![w] = [at |-> place, before |-> file, existed |-> FALSE]]
  /\ Overlap
  /\ UNCHANGED <<file, originals, review, readers, reviewed, pending, outside>>

\* os.Stat comes after the file was read: an edit fails if it is gone.
StatBefore(w) ==
  /\ writers[w].at \in {"stat_write", "stat_edit"}
  /\ writers' = [writers EXCEPT ![w] =
       IF @.at = "stat_edit" /\ file = Absent THEN IdleWriter
       ELSE [@ EXCEPT !.at = "record", !.existed = file # Absent]]
  /\ Overlap
  /\ UNCHANGED <<file, originals, review, readers, reviewed, pending, outside>>

\* Mutant of RecordOriginal: every write notes what it replaces.
RecordLatest(w) ==
  /\ writers[w].at = "record" /\ ~review.busy
  /\ originals' = Snapshot(writers[w].existed, writers[w].before)
  /\ writers' = [writers EXCEPT ![w] = [IdleWriter EXCEPT !.at = "put"]]
  /\ UNCHANGED <<file, review, readers, reviewed, pending, outside, overlapped>>

\* recordOriginal under state.mu: the first original since the last review stays.
RecordOriginal(w) ==
  /\ writers[w].at = "record" /\ ~review.busy
  /\ originals' = IF originals.noted THEN originals
                  ELSE Snapshot(writers[w].existed, writers[w].before)
  /\ writers' = [writers EXCEPT ![w] = [IdleWriter EXCEPT !.at = "put"]]
  /\ UNCHANGED <<file, review, readers, reviewed, pending, outside, overlapped>>

\* atomicWriteFile replaces the file whole, or fails and leaves it.  What an edit
\* writes was made from what it read, which the file may no longer hold.
PutFile(w) ==
  /\ writers[w].at = "put"
  /\ \/ file' \in Contents /\ pending' = TRUE
     \/ UNCHANGED <<file, pending>>
  /\ writers' = [writers EXCEPT ![w] = IdleWriter]
  /\ Overlap
  /\ UNCHANGED <<originals, review, readers, reviewed, outside>>

\* A command, or the user, replaces or removes the file.
ChangeOutside ==
  /\ \E content \in OnDisk \ {file} : file' = content
  /\ outside' = TRUE
  /\ UNCHANGED <<originals, writers, review, readers, reviewed, pending, overlapped>>

----------------------------------------------------------------------------
(* show_changes *)

ReviewRead ==
  /\ ~review.busy
  /\ review' = [busy |-> TRUE, seen |-> file]
  /\ overlapped' = (overlapped \/ \E w \in Writers : Writing(w))
  /\ UNCHANGED <<file, originals, writers, readers, reviewed, pending, outside>>

\* The originals are forgotten and state.mu is given back.
ReviewReset ==
  /\ review.busy
  /\ review' = [busy |-> FALSE, seen |-> Absent]
  /\ originals' = NoSnapshot
  /\ reviewed' = review.seen
  /\ pending' = FALSE /\ outside' = (file # review.seen)
  /\ UNCHANGED <<file, writers, readers, overlapped>>

\* This file, or another one with an original, cannot be read as text.
ReviewFails ==
  /\ review.busy
  /\ review' = [busy |-> FALSE, seen |-> Absent]
  /\ UNCHANGED <<file, originals, writers, readers, reviewed, pending, outside, overlapped>>

----------------------------------------------------------------------------
(* read: readWorkspaceFileWindow *)

Shows(content, first, last) == {content} \X (first .. last)

\* A read without a window: readTextBounded stops at a byte, perhaps within a line.
ReadPlain(r) ==
  /\ readers[r].at = "idle" /\ file # Absent
  /\ \E last \in 0 .. LineCount[file], cut \in BOOLEAN :
       /\ cut => last \in 1 .. LineCount[file]
       /\ readers' = [readers EXCEPT ![r] =
            [at |-> "hash", sha |-> file,
             cursor |-> IF cut \/ last < LineCount[file] THEN last + 1 ELSE NoCursor,
             shown |-> Shows(file, 1, IF cut THEN last - 1 ELSE last), flawed |-> cut]]
  /\ UNCHANGED <<file, originals, writers, review, reviewed, pending, outside, overlapped>>

\* provenanceForFile opens the file again: its hash and line count are of the file
\* as it is now.
HashPlain(r) ==
  LET complete == readers[r].cursor = NoCursor \/ readers[r].cursor > LineCount[file] IN
  /\ readers[r].at = "hash" /\ file # Absent
  /\ readers' = [readers EXCEPT ![r] =
       [at |-> IF complete THEN "complete" ELSE "page",
        sha |-> IF complete THEN Absent ELSE file,
        cursor |-> IF complete THEN NoCursor ELSE @.cursor,
        shown |-> @.shown, flawed |-> @.flawed \/ @.sha # file]]
  /\ UNCHANGED <<file, originals, writers, review, reviewed, pending, outside, overlapped>>

\* readLineWindow from line first of the file as it is, for at most PageLines lines:
\* the next cursor, when lines remain, carries the hash.
Page(reader, first) ==
  {IF last < LineCount[file]
   THEN [reader EXCEPT !.at = "page", !.sha = file, !.cursor = last + 1,
                       !.shown = @ \cup Shows(file, first, last)]
   ELSE [reader EXCEPT !.at = "complete", !.sha = Absent, !.cursor = NoCursor,
                       !.shown = @ \cup Shows(file, first, last)] :
     last \in {l \in first .. LineCount[file] : l < first + PageLines}}

ReadFirst(r) ==
  /\ readers[r].at = "idle" /\ file # Absent
  /\ \E next \in Page(readers[r], 1) : readers' = [readers EXCEPT ![r] = next]
  /\ UNCHANGED <<file, originals, writers, review, reviewed, pending, outside, overlapped>>

\* Mutant of ReadNext: the hash of the cursor is not compared.
ReadNextAnyway(r) ==
  /\ readers[r].at = "page" /\ file # Absent
  /\ \E next \in Page(readers[r], readers[r].cursor) : readers' = [readers EXCEPT ![r] = next]
  /\ UNCHANGED <<file, originals, writers, review, reviewed, pending, outside, overlapped>>

\* "file changed": the cursor's hash is no longer that of the file.
ReadNext(r) ==
  /\ readers[r].at = "page"
  /\ IF file # readers[r].sha
     THEN readers' = [readers EXCEPT ![r] = [NewReader EXCEPT !.at = "changed"]]
     ELSE \E next \in Page(readers[r], readers[r].cursor) :
            readers' = [readers EXCEPT ![r] = next]
  /\ UNCHANGED <<file, originals, writers, review, reviewed, pending, outside, overlapped>>

ReadAgain(r) ==
  /\ readers[r].at \in {"complete", "changed"} \/ (readers[r].at = "hash" /\ file = Absent)
  /\ readers' = [readers EXCEPT ![r] = NewReader]
  /\ UNCHANGED <<file, originals, writers, review, reviewed, pending, outside, overlapped>>

----------------------------------------------------------------------------

FilesInit ==
  /\ file \in OnDisk /\ reviewed = file
  /\ originals = NoSnapshot
  /\ writers = [w \in Writers |-> IdleWriter]
  /\ review = [busy |-> FALSE, seen |-> Absent]
  /\ readers = [r \in Readers |-> NewReader]
  /\ pending = FALSE /\ outside = FALSE /\ overlapped = FALSE

FilesNext ==
  \/ \E w \in Writers : ReadBefore(w) \/ StatBefore(w) \/ RecordOriginal(w) \/ PutFile(w)
  \/ ReviewRead \/ ReviewReset \/ ReviewFails
  \/ \E r \in Readers : ReadPlain(r) \/ HashPlain(r) \/ ReadFirst(r) \/ ReadNext(r) \/ ReadAgain(r)
  \/ ChangeOutside

FilesSpec == FilesInit /\ [][FilesNext]_fileVars

----------------------------------------------------------------------------
(* Properties *)

\* However writes and edits race each other, the next show_changes reports every
\* change from where the last one ended: an unreviewed write has an original, and
\* it is the file the last review saw.  Only a review that overlaps a write, or a
\* command that changes the file, hides or repeats part of a change; within one
\* life of the server.
NextReviewComplete ==
  ~overlapped =>
    /\ pending => originals.noted
    /\ originals.noted /\ ~outside => originals = Snapshot(reviewed # Absent, reviewed)

\* A file read to its last page with cursors had each of its lines shown, all of
\* one version, whatever was written between the pages; except after a read without a
\* window that cut a line, or took its cursor's hash from a newer file.
PagesOfOneVersion ==
  \A r \in Readers : readers[r].at = "complete" /\ ~readers[r].flawed =>
    \E content \in Contents : readers[r].shown = Shows(content, 1, LineCount[content])
=============================================================================
