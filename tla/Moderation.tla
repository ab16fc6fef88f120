----------------------------- MODULE Moderation -----------------------------
(***************************************************************************)
(* How a puzzle gets into the public catalogue: the parent submits it, an  *)
(* administrator approves or rejects it, and the parent is told.           *)
(*                                                                         *)
(*   internal/store/moderation.go            the statements                *)
(*   internal/handler/moderation_parent.go   submit, notifications         *)
(*   internal/handler/moderation_admin.go    queue, approve, reject        *)
(*                                                                         *)
(* A handler that issues several statements outside a transaction takes    *)
(* one step per statement, so requests interleave between them.  A puzzle  *)
(* has at most one row in catalog_submissions (puzzle_id is UNIQUE) and    *)
(* the row is named by it.  Reviews are numbered per puzzle; the number is *)
(* not in the database, it tells the reviews of one row apart.             *)
(***************************************************************************)
EXTENDS Naturals

CONSTANTS
    Puzzle,      \* the puzzles that may ever be created
    Submitter,   \* submit requests that may be served at the same time
    Reader,      \* notification requests that may be served at the same time
    NoPuzzle,    \* the puzzle of an idle submit request
    MaxReviews,  \* bound: reviews of one puzzle
    MaxEdits,    \* bound: edits of one puzzle
    MaxFaults    \* bound: failed MarkNotified calls and lost responses

ASSUME ModerationAssumption ==
    /\ NoPuzzle \notin Puzzle
    /\ MaxReviews \in Nat
    /\ MaxEdits \in Nat
    /\ MaxFaults \in Nat

VARIABLES
    puzzle,      \* "none" before the INSERT, "live", "deleted"
    content,     \* version of its title, category and layers, from 1
    public,      \* the puzzles with puzzles.visibility = 'public'
    catalog,     \* the puzzles with a row in catalog_puzzles
    sub,         \* catalog_submissions.status, "none" without a row
    comment,     \* the review that left catalog_submissions.admin_comment, or 0
    notified,    \* the puzzles with catalog_submissions.notified_at set
    reviews,     \* reviews so far
    submits,     \* times the row became pending
    cleared,     \* version of the content when it was last approved, or 0
    at,          \* next statement of each submit request
    subject,     \* its puzzle
    listed,      \* per notification request, the review it lists for a puzzle, or 0
    todo,        \* the puzzles it has still to mark
    told,        \* the last review of a puzzle a response has told the parent
    stale,       \* puzzles on which a statement acted on an outdated read
    lost,        \* puzzles of a response that never arrived
    faults       \* failures so far

rowVars == <<puzzle, content, public, catalog, sub, comment, notified>>
countVars == <<reviews, submits, cleared>>
submitVars == <<at, subject>>
noticeVars == <<listed, todo, told, lost, faults>>
vars == <<rowVars, countVars, submitVars, noticeVars, stale>>

Decided == {"approved", "rejected"}

\* Mutant of Submitted: the status as the product description calls it.
SubmittedForReview == "pending_review"

\* The DEFAULT of catalog_submissions.status and the value of a reset.
Submitted == "pending"

TypeOK ==
    /\ puzzle \in [Puzzle -> {"none", "live", "deleted"}]
    /\ content \in [Puzzle -> 1..(MaxEdits + 1)]
    /\ public \subseteq Puzzle
    /\ catalog \subseteq Puzzle
    /\ sub \in [Puzzle -> {"none", "pending"} \cup Decided]
    /\ comment \in [Puzzle -> 0..MaxReviews]
    /\ notified \subseteq Puzzle
    /\ reviews \in [Puzzle -> 0..MaxReviews]
    /\ submits \in [Puzzle -> Nat]
    /\ cleared \in [Puzzle -> 0..(MaxEdits + 1)]
    /\ at \in [Submitter -> {"idle", "insert", "read", "reset"}]
    /\ subject \in [Submitter -> Puzzle \cup {NoPuzzle}]
    /\ listed \in [Reader -> [Puzzle -> 0..MaxReviews]]
    /\ todo \in [Reader -> SUBSET Puzzle]
    /\ told \in [Puzzle -> 0..MaxReviews]
    /\ stale \subseteq Puzzle
    /\ lost \subseteq Puzzle
    /\ faults \in 0..MaxFaults

NoReview == [p \in Puzzle |-> 0]

Init ==
    /\ puzzle = [p \in Puzzle |-> "none"]
    /\ content = [p \in Puzzle |-> 1]
    /\ public = {}
    /\ catalog = {}
    /\ sub = [p \in Puzzle |-> "none"]
    /\ comment = NoReview
    /\ notified = {}
    /\ reviews = NoReview
    /\ submits = NoReview
    /\ cleared = NoReview
    /\ at = [r \in Submitter |-> "idle"]
    /\ subject = [r \in Submitter |-> NoPuzzle]
    /\ listed = [t \in Reader |-> NoReview]
    /\ todo = [t \in Reader |-> {}]
    /\ told = NoReview
    /\ stale = {}
    /\ lost = {}
    /\ faults = 0

-----------------------------------------------------------------------------
(* Puzzles come, change and go.                                            *)

\* CreateParentPuzzle, private; or CreateCatalogPuzzle of an administrator,
\* which adds a catalog_puzzles row and leaves visibility at its default.
CreatePuzzle(p) ==
    /\ puzzle[p] = "none"
    /\ puzzle' = [puzzle EXCEPT ![p] = "live"]
    /\ catalog' \in {catalog, catalog \cup {p}}
    /\ UNCHANGED <<content, public, sub, comment, notified, countVars, submitVars,
                   noticeVars, stale>>

\* UpdateParentPuzzle and the layer handlers: none of them looks at the
\* submission.
EditPuzzle(p) ==
    /\ puzzle[p] = "live"
    /\ content[p] <= MaxEdits
    /\ content' = [content EXCEPT ![p] = @ + 1]
    /\ UNCHANGED <<puzzle, public, catalog, sub, comment, notified, countVars, submitVars,
                   noticeVars, stale>>

\* DeleteParentPuzzle or DeleteCatalogPuzzle, with every row that references
\* the puzzle (ON DELETE CASCADE).  What only the model remembers of it goes
\* too: its identifier is never used again.
DeletePuzzle(p) ==
    /\ puzzle[p] = "live"
    /\ puzzle' = [puzzle EXCEPT ![p] = "deleted"]
    /\ public' = public \ {p}
    /\ catalog' = catalog \ {p}
    /\ sub' = [sub EXCEPT ![p] = "none"]
    /\ comment' = [comment EXCEPT ![p] = 0]
    /\ notified' = notified \ {p}
    /\ content' = [content EXCEPT ![p] = 1]
    /\ reviews' = [reviews EXCEPT ![p] = 0]
    /\ submits' = [submits EXCEPT ![p] = 0]
    /\ cleared' = [cleared EXCEPT ![p] = 0]
    /\ told' = [told EXCEPT ![p] = 0]
    /\ lost' = lost \ {p}
    /\ stale' = stale \ {p}
    /\ UNCHANGED <<submitVars, listed, todo, faults>>

-----------------------------------------------------------------------------
(* SubmitPuzzle, four statements and no transaction.                       *)

Goto(r, s) == at' = [at EXCEPT ![r] = s]

Finish(r) ==
    /\ Goto(r, "idle")
    /\ subject' = [subject EXCEPT ![r] = NoPuzzle]

\* 1. SELECT EXISTS: the parent's own puzzle, or 404 and nothing changes.
CheckOwner(r, p) ==
    /\ at[r] = "idle"
    /\ puzzle[p] = "live"
    /\ Goto(r, "insert")
    /\ subject' = [subject EXCEPT ![r] = p]
    /\ UNCHANGED <<rowVars, countVars, noticeVars, stale>>

\* Mutant of ForeignKeyRefuses: the column is not declared as a reference.
ForeignKeyMissing(p) == FALSE

ForeignKeyRefuses(p) == puzzle[p] # "live"

\* 2. INSERT: refused by the foreign key when the puzzle is gone, by the
\* unique constraint when there is a row.
InsertSubmission(r) ==
    LET p == subject[r]
    IN  /\ at[r] = "insert"
        /\ \/ /\ ForeignKeyRefuses(p)
              /\ Finish(r)
              /\ UNCHANGED <<sub, submits>>
           \/ /\ ~ForeignKeyRefuses(p)
              /\ sub[p] = "none"
              /\ sub' = [sub EXCEPT ![p] = Submitted]
              /\ submits' = [submits EXCEPT ![p] = @ + 1]
              /\ Finish(r)
           \/ /\ ~ForeignKeyRefuses(p)
              /\ sub[p] # "none"
              /\ Goto(r, "read")
              /\ UNCHANGED <<sub, submits, subject>>
        /\ UNCHANGED <<puzzle, content, public, catalog, comment, notified, reviews,
                       cleared, noticeVars, stale>>

\* Mutant of Resubmittable: only pending is a conflict.
ResubmittableApproved(s) == s \in Decided

Resubmittable(s) == s = "rejected"

\* 3. SELECT: only a rejected row goes on, pending and approved are
\* ErrConflict and a row deleted meanwhile is an error.
ReadSubmission(r) ==
    /\ at[r] = "read"
    /\ IF Resubmittable(sub[subject[r]])
       THEN Goto(r, "reset") /\ UNCHANGED subject
       ELSE Finish(r)
    /\ UNCHANGED <<rowVars, countVars, noticeVars, stale>>

\* Mutants of Reopen: the old comment, the old notified_at stay.
ReopenKeepsComment(p) == notified' = notified \ {p} /\ UNCHANGED comment
ReopenKeepsNotified(p) == comment' = [comment EXCEPT ![p] = 0] /\ UNCHANGED notified

Reopen(p) ==
    /\ comment' = [comment EXCEPT ![p] = 0]
    /\ notified' = notified \ {p}

\* 4. UPDATE ... WHERE id: whatever the status is by now.
ResetSubmission(r) ==
    LET p == subject[r]
    IN  /\ at[r] = "reset"
        /\ \/ /\ sub[p] # "none"
              /\ sub' = [sub EXCEPT ![p] = Submitted]
              /\ Reopen(p)
              /\ submits' = [submits EXCEPT ![p] = @ + 1]
              /\ stale' = IF sub[p] = "pending" \/ Resubmittable(sub[p])
                           THEN stale ELSE stale \cup {p}
           \/ /\ sub[p] = "none"
              /\ UNCHANGED <<sub, comment, notified, submits, stale>>
        /\ Finish(r)
        /\ UNCHANGED <<puzzle, content, public, catalog, reviews, cleared, noticeVars>>

-----------------------------------------------------------------------------
(* The administrators.                                                     *)

\* The UPDATEs of both decisions require the row to be pending, and nothing
\* else: the content may have changed since the administrator's page was loaded.
Open(p) == sub[p] = "pending" /\ reviews[p] < MaxReviews

\* Mutant of ApprovePuzzle: the catalogue entry is forgotten.
ApproveWithoutEntry(p) ==
    /\ Open(p)
    /\ sub' = [sub EXCEPT ![p] = "approved"]
    /\ public' = public \cup {p}
    /\ reviews' = [reviews EXCEPT ![p] = @ + 1]
    /\ cleared' = [cleared EXCEPT ![p] = content[p]]
    /\ UNCHANGED <<puzzle, content, catalog, comment, notified, submits,
                   submitVars, noticeVars, stale>>

\* ApprovePuzzle, one transaction.
ApprovePuzzle(p) ==
    /\ Open(p)
    /\ sub' = [sub EXCEPT ![p] = "approved"]
    /\ public' = public \cup {p}
    /\ catalog' = catalog \cup {p}
    /\ reviews' = [reviews EXCEPT ![p] = @ + 1]
    /\ cleared' = [cleared EXCEPT ![p] = content[p]]
    /\ UNCHANGED <<puzzle, content, comment, notified, submits, submitVars,
                   noticeVars, stale>>

\* RejectPuzzle, one statement.
RejectPuzzle(p) ==
    /\ Open(p)
    /\ sub' = [sub EXCEPT ![p] = "rejected"]
    /\ comment' = [comment EXCEPT ![p] = reviews[p] + 1]
    /\ reviews' = [reviews EXCEPT ![p] = @ + 1]
    /\ UNCHANGED <<puzzle, content, public, catalog, notified, submits, cleared,
                   submitVars, noticeVars, stale>>

-----------------------------------------------------------------------------
(* HandleParentListNotifications.                                          *)

Unnotified == {p \in Puzzle : sub[p] \in Decided /\ p \notin notified}

\* The puzzles a request has listed and not yet answered for.
InFlight(t) == {p \in Puzzle : listed[t][p] # 0}

\* ListParentNotifications.  A response without items is not modelled.
ListNotifications(t) ==
    /\ InFlight(t) = {}
    /\ Unnotified # {}
    /\ listed' = [listed EXCEPT ![t] =
                    [p \in Puzzle |-> IF p \in Unnotified THEN reviews[p] ELSE 0]]
    /\ todo' = [todo EXCEPT ![t] = Unnotified]
    /\ UNCHANGED <<rowVars, countVars, submitVars, told, lost, faults, stale>>

\* MarkNotified of one item: UPDATE ... WHERE id, whatever the row says by
\* now.  A failure is logged and the loop goes on.
MarkNotified(t, p) ==
    /\ p \in todo[t]
    /\ todo' = [todo EXCEPT ![t] = @ \ {p}]
    /\ \/ /\ sub[p] # "none"
          /\ notified' = notified \cup {p}
          /\ stale' = IF sub[p] \in Decided /\ reviews[p] = listed[t][p]
                      THEN stale ELSE stale \cup {p}
          /\ UNCHANGED faults
       \/ sub[p] = "none" /\ UNCHANGED <<notified, stale, faults>>
       \/ faults < MaxFaults /\ faults' = faults + 1 /\ UNCHANGED <<notified, stale>>
    /\ UNCHANGED <<puzzle, content, public, catalog, sub, comment, countVars, submitVars,
                   listed, told, lost>>

\* The response is written after the loop and arrives.
Respond(t) ==
    /\ InFlight(t) # {}
    /\ todo[t] = {}
    /\ told' = [p \in Puzzle |-> IF listed[t][p] > told[p] THEN listed[t][p] ELSE told[p]]
    /\ listed' = [listed EXCEPT ![t] = NoReview]
    /\ UNCHANGED <<rowVars, countVars, submitVars, todo, lost, faults, stale>>

\* The client is gone, or the server stops: no item is told, and what is not
\* yet marked (the context is cancelled) will be listed again.
LoseResponse(t) ==
    /\ InFlight(t) # {}
    /\ faults < MaxFaults
    /\ faults' = faults + 1
    /\ lost' = lost \cup (InFlight(t) \ todo[t])
    /\ listed' = [listed EXCEPT ![t] = NoReview]
    /\ todo' = [todo EXCEPT ![t] = {}]
    /\ UNCHANGED <<rowVars, countVars, submitVars, told, stale>>

-----------------------------------------------------------------------------
Next ==
    \/ \E p \in Puzzle :
        \/ CreatePuzzle(p)
        \/ EditPuzzle(p)
        \/ DeletePuzzle(p)
        \/ ApprovePuzzle(p)
        \/ RejectPuzzle(p)
    \/ \E r \in Submitter :
        \/ \E p \in Puzzle : CheckOwner(r, p)
        \/ InsertSubmission(r)
        \/ ReadSubmission(r)
        \/ ResetSubmission(r)
    \/ \E t \in Reader :
        \/ ListNotifications(t)
        \/ \E p \in Puzzle : MarkNotified(t, p)
        \/ Respond(t)
        \/ LoseResponse(t)

Spec == Init /\ [][Next]_vars

-----------------------------------------------------------------------------
(* Properties.                                                             *)

\* ApprovePuzzle is one transaction and nothing takes its effects back one by
\* one: an approved puzzle is public, and a public one has its catalogue entry and
\* went through a review.
ApprovedIsPublished ==
    /\ \A p \in Puzzle : sub[p] = "approved" => p \in public
    /\ \A p \in public : p \in catalog /\ reviews[p] > 0

\* However many administrators decide at the same time, a submission is decided
\* once: no more reviews than times it was submitted, and one less than that
\* while it waits.
OneReviewPerSubmission ==
    \A p \in Puzzle :
        reviews[p] + (IF sub[p] = "pending" THEN 1 ELSE 0) <= submits[p]

\* The reason the parent reads is the one given with the last review: it is
\* there exactly when that review rejected the puzzle.
CommentIsCurrent ==
    \A p \in Puzzle : comment[p] = IF sub[p] = "rejected" THEN reviews[p] ELSE 0

\* A submit or review racing a deletion leaves no row, catalogue entry or mark
\* for a puzzle that is gone.
NoOrphanRows ==
    \A p \in Puzzle : puzzle[p] # "live" =>
        sub[p] = "none" /\ p \notin public \cup catalog \cup notified

Catalog == INSTANCE Publication
    WITH row <- puzzle, entry <- catalog, waiting <- {p \in Puzzle : sub[p] = "pending"}

\* Whatever overlaps, the statements of submit requests, reviews, edits and
\* deletions keep the promise of the catalogue: only a review of a waiting
\* submission publishes, only a removal takes back, and that for good.
ImplementsPublication == Catalog!PublicationSpec

\* Only a reset by a submit request that read "rejected" before the approval
\* takes an approval back.
ApprovedStays ==
    [][\A p \in Puzzle : sub[p] = "approved" =>
         sub'[p] \in {"approved", "none"} \/ p \in stale']_vars

\* A review disappears from the parent's notifications only when a response
\* tells of it or is about to, when that response was lost, or when a request
\* that had listed an older review marked it.
NoticeKept ==
    \A p \in notified \ (stale \cup lost) :
        sub[p] \in Decided =>
            \/ told[p] = reviews[p]
            \/ \E t \in Reader : listed[t][p] = reviews[p]

\* What the product description says: no content of users in the common catalogue
\* without moderation.  A parent's published puzzle is as it was when an
\* administrator last approved it.
CatalogueIsReviewed == \A p \in public : content[p] = cleared[p]

\* What the comment of SubmitPuzzle says: already approved is ErrConflict, so
\* no submit request ends an approval.
ApprovedIsConflict ==
    [][\A p \in Puzzle : sub[p] = "approved" => sub'[p] # "pending"]_vars

=============================================================================
