---------------------------- MODULE LabArtifacts ----------------------------
(* The review of an artifact that a lab refers to (lab/artifacts.py): the       *)
(* reference's own checksum and provenance, then the file under the lab root,   *)
(* read in chunks while others may write, replace or remove it.                 *)
EXTENDS Naturals, Sequences

CONSTANTS
    Unread,         \* no value yet, or None in the code
    Chunks,         \* what a chunk of a file may be
    MaxChunks,      \* 32 MiB, in chunks
    MaxFileEdits    \* bound: changes of the reference and of the file

VARIABLES
    reference,      \* the reference on disk
    place,          \* what is at the artifact's path: a file, a link to one within or out of the root, ...
    content,        \* of the file: the inode that the path names
    review,         \* the reviewer
    fileEdits       \* bound counter

artifactVars == <<reference, place, content, review, fileEdits>>

\* The fields that a review reads; the rest of parse is one bit.
Body(ref) ==
    [formed |-> ref.formed, content |-> ref.content, size |-> ref.size, type |-> ref.type,
     status |-> ref.status]

\* artifact_reference_digest: injective.
Digested(ref) == [ref EXCEPT !.digest = Body(ref)]

\* parse_lab_artifact_reference; the provenance is parsed with it.
ReferenceOk(ref) == ref.formed /\ ref.digest = Body(ref)

Files == UNION {[1 .. n -> Chunks] : n \in 0 .. MaxChunks + 1}

Idling == [pc |-> "idle", ref |-> Unread, target |-> Unread, open |-> <<>>, same |-> FALSE, stat |-> 0, read |-> <<>>, findings |-> {}]

ArtifactInit ==
    /\ content \in {f \in Files : Len(f) = 1}
    /\ reference = Digested([formed |-> TRUE, content |-> content, size |-> Len(content), type |-> "data",
                             status |-> "pending", digest |-> Unread])
    /\ place = "file" /\ review = Idling /\ fileEdits = 0

-----------------------------------------------------------------------------
(* The author of the reference, and whoever has the lab's directory.           *)

EditReference(field, value) ==
    /\ fileEdits < MaxFileEdits
    /\ reference[field] # value
    /\ \E digested \in BOOLEAN :
          LET edited == [reference EXCEPT ![field] = value]
          IN  reference' = IF digested THEN Digested(edited) ELSE edited
    /\ fileEdits' = fileEdits + 1
    /\ UNCHANGED <<place, content, review>>

\* The file is written in place: an open reader sees it.
Overwrite(file) ==
    /\ fileEdits < MaxFileEdits /\ place = "file" /\ file # content
    /\ content' = file
    /\ review' = IF review.same THEN [review EXCEPT !.open = file] ELSE review
    /\ fileEdits' = fileEdits + 1
    /\ UNCHANGED <<reference, place>>

\* Another file, a link or nothing takes its place: an open reader keeps what it has.
Replace(kind, file) ==
    /\ fileEdits < MaxFileEdits
    /\ place' = kind
    /\ content' = file
    /\ review' = [review EXCEPT !.same = FALSE]
    /\ fileEdits' = fileEdits + 1
    /\ UNCHANGED reference

-----------------------------------------------------------------------------
(* review_lab_artifact, step by step.                                          *)

Finds(found, pc) == [review EXCEPT !.findings = @ \union found, !.pc = pc]

ReadReference ==
    /\ review.pc = "idle"
    /\ review' = IF ~ReferenceOk(reference)
                 THEN Finds({<<"block", "reference_invalid">>}, "done")
                 ELSE [review EXCEPT
                          !.ref = reference, !.pc = "path",
                          !.findings = IF reference.status = "approved" THEN {}
                                       ELSE {<<IF reference.status = "rejected" THEN "block" ELSE "review",
                                               "artifact_review_status">>}]
    /\ UNCHANGED <<reference, place, content, fileEdits>>

\* The root, then the path up to it, are looked at.
CheckPath ==
    /\ review.pc = "path"
    /\ review' = CASE place = "no_root" -> Finds({<<"block", "lab_root_invalid">>}, "done")
                   [] place \in {"link", "escape"} -> Finds({<<"block", "symlink_rejected">>}, "done")
                   [] OTHER -> [review EXCEPT !.pc = "resolve"]
    /\ UNCHANGED <<reference, place, content, fileEdits>>

\* From here a link that has come since is its target, which is left alone.
Resolve ==
    /\ review.pc = "resolve"
    /\ review' = CASE place = "escape" -> Finds({<<"block", "path_escape">>}, "done")
                   [] place = "link"   -> [review EXCEPT !.pc = "file", !.target = content]
                   [] OTHER            -> [review EXCEPT !.pc = "file"]
    /\ UNCHANGED <<reference, place, content, fileEdits>>

\* What the resolved path leads to.
Readable == review.target # Unread \/ place \in {"file", "link", "escape"}

Resolved == IF review.target # Unread THEN review.target ELSE content

CheckFile ==
    /\ review.pc = "file"
    /\ review' = IF Readable THEN [review EXCEPT !.pc = "stat"]
                 ELSE Finds({<<"block", "artifact_missing">>}, "done")
    /\ UNCHANGED <<reference, place, content, fileEdits>>

\* stat follows what is there by now; if nothing is, the review ends in an error.
Stat ==
    /\ review.pc = "stat"
    /\ review' = CASE ~Readable -> [review EXCEPT !.pc = "error"]
                   [] Readable /\ Len(Resolved) > MaxChunks ->
                         [Finds({<<"block", "artifact_too_large">>}, "done") EXCEPT !.stat = Len(Resolved)]
                   [] OTHER -> [review EXCEPT !.stat = Len(Resolved), !.pc = "open"]
    /\ UNCHANGED <<reference, place, content, fileEdits>>

Open ==
    /\ review.pc = "open"
    /\ review' = IF Readable
                 THEN [review EXCEPT !.open = Resolved, !.same = review.target = Unread, !.pc = "read"]
                 ELSE [review EXCEPT !.pc = "error"]
    /\ UNCHANGED <<reference, place, content, fileEdits>>

ReadChunk ==
    /\ review.pc = "read" /\ Len(review.read) < Len(review.open)
    /\ review' = IF Len(review.read) + 1 > MaxChunks
                 THEN Finds({<<"block", "artifact_too_large">>}, "done")
                 ELSE [review EXCEPT !.read = Append(@, review.open[Len(@) + 1])]
    /\ UNCHANGED <<reference, place, content, fileEdits>>

\* Deviation: a file of the right size is not digested.
MismatchesBySize(r) ==
    IF Len(r.read) # r.ref.size THEN {<<"block", "size_mismatch">>} ELSE {}

\* What was read is compared with the reference.
Mismatches(r) ==
    (IF Len(r.read) # r.ref.size THEN {<<"block", "size_mismatch">>} ELSE {})
    \union (IF r.read # r.ref.content THEN {<<"block", "digest_mismatch">>} ELSE {})

Compare ==
    /\ review.pc = "read" /\ Len(review.read) >= Len(review.open)
    /\ review' = Finds(Mismatches(review)
                       \union (IF review.ref.type \in {"executable", "script"}
                               THEN {<<"review", "executable_inspection_only">>} ELSE {}),
                       "done")
    /\ UNCHANGED <<reference, place, content, fileEdits>>

\* LabArtifactReview.verdict.
ReviewVerdict(findings) ==
    IF \E f \in findings : f[1] = "block" THEN "blocked"
    ELSE IF \E f \in findings : f[1] = "review" THEN "review" ELSE "approved"

\* The next review is of what is on disk by then.
ReviewAgain ==
    /\ review.pc \in {"done", "error"} /\ fileEdits < MaxFileEdits
    /\ review' = Idling
    /\ UNCHANGED <<reference, place, content, fileEdits>>

ArtifactNext ==
    \/ \E s \in {"approved", "pending", "rejected"} : EditReference("status", s)
    \/ \E k \in {"data", "script"} : EditReference("type", k)
    \/ \E f \in {f \in Files : Len(f) \in 1 .. 2} : EditReference("content", f)
    \/ EditReference("size", 2)
    \/ EditReference("formed", FALSE)
    \/ EditReference("digest", Unread)
    \/ \E f \in Files : Overwrite(f)
    \/ \E f \in Files : Replace("file", f)
    \/ \E k \in {"link", "escape", "missing", "no_root"} : Replace(k, content)
    \/ ReadReference \/ CheckPath \/ Resolve \/ CheckFile \/ Stat \/ Open \/ ReadChunk \/ Compare \/ ReviewAgain

-----------------------------------------------------------------------------
(* Property.                                                                   *)

\* A review that approves, whatever happened to the file between its steps and while it
\* was read, has read to the end the bytes that an approved reference names, the reference
\* is as it was made, and the artifact is not one to run.
ApprovedWasRead ==
    review.pc = "done" /\ ReviewVerdict(review.findings) = "approved" =>
        /\ review.ref.digest = Body(review.ref)
        /\ review.ref.status = "approved" /\ review.ref.type \notin {"executable", "script"}
        /\ review.read = review.ref.content /\ Len(review.read) = review.ref.size
=============================================================================
