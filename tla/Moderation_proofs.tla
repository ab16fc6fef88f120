------------------------- MODULE Moderation_proofs -------------------------
(***************************************************************************)
(* Proofs about moderation, for any number of puzzles, overlapping         *)
(* requests, reviews, edits and failures.  Each layer of the invariant is  *)
(* inductive relative to the ones before it.                               *)
(***************************************************************************)
EXTENDS Moderation, TLAPS

USE DEF rowVars, countVars, submitVars, noticeVars, Decided

(***************************************************************************)
(* Layer 1: types, and a submit request in progress has a puzzle.          *)
(***************************************************************************)
SubjectHeld == \A r \in Submitter : at[r] = "idle" <=> subject[r] = NoPuzzle

TypeInv == TypeOK /\ SubjectHeld

LEMMA TypeInit == Init => TypeInv
BY ModerationAssumption DEF Init, TypeInv, TypeOK, SubjectHeld, NoReview

LEMMA TypeStep == TypeInv /\ [Next]_vars => TypeInv'
<1> SUFFICES ASSUME TypeInv, [Next]_vars PROVE TypeInv'
  OBVIOUS
<1> USE ModerationAssumption DEF TypeInv, TypeOK, SubjectHeld
<1>1. ASSUME NEW p \in Puzzle, CreatePuzzle(p) PROVE TypeInv'
  BY <1>1 DEF CreatePuzzle
<1>2. ASSUME NEW p \in Puzzle, EditPuzzle(p) PROVE TypeInv'
  BY <1>2 DEF EditPuzzle
<1>3. ASSUME NEW p \in Puzzle, DeletePuzzle(p) PROVE TypeInv'
  BY <1>3 DEF DeletePuzzle
<1>4. ASSUME NEW p \in Puzzle, ApprovePuzzle(p) PROVE TypeInv'
  BY <1>4 DEF ApprovePuzzle, Open
<1>5. ASSUME NEW p \in Puzzle, RejectPuzzle(p) PROVE TypeInv'
  BY <1>5 DEF RejectPuzzle, Open
<1>6. ASSUME NEW r \in Submitter, NEW p \in Puzzle, CheckOwner(r, p) PROVE TypeInv'
  BY <1>6 DEF CheckOwner, Goto
<1>7. ASSUME NEW r \in Submitter, InsertSubmission(r) PROVE TypeInv'
  <2>1. subject[r] \in Puzzle
    BY <1>7 DEF InsertSubmission
  <2>2. \/ Finish(r)
        \/ \E s \in {"read", "reset"} : Goto(r, s) /\ UNCHANGED subject
    BY <1>7 DEF InsertSubmission
  <2>3. /\ at' \in [Submitter -> {"idle", "insert", "read", "reset"}]
        /\ subject' \in [Submitter -> Puzzle \cup {NoPuzzle}]
        /\ SubjectHeld'
    BY <1>7, <2>1, <2>2 DEF InsertSubmission, Goto, Finish
  <2>4. sub' \in {sub, [sub EXCEPT ![subject[r]] = "pending"]}
    BY <1>7 DEF InsertSubmission, Submitted
  <2>5. submits' \in {submits, [submits EXCEPT ![subject[r]] = @ + 1]}
    BY <1>7 DEF InsertSubmission
  <2>6. sub' \in [Puzzle -> {"none", "pending"} \cup Decided]
    BY <2>4
  <2>7. submits' \in [Puzzle -> Nat]
    BY <2>5
  <2> QED
    BY <1>7, <2>3, <2>6, <2>7 DEF InsertSubmission
<1>8. ASSUME NEW r \in Submitter, ReadSubmission(r) PROVE TypeInv'
  <2>1. subject[r] \in Puzzle
    BY <1>8 DEF ReadSubmission
  <2>2. \/ Finish(r)
        \/ \E s \in {"read", "reset"} : Goto(r, s) /\ UNCHANGED subject
    BY <1>8 DEF ReadSubmission
  <2>3. /\ at' \in [Submitter -> {"idle", "insert", "read", "reset"}]
        /\ subject' \in [Submitter -> Puzzle \cup {NoPuzzle}]
        /\ SubjectHeld'
    BY <1>8, <2>1, <2>2 DEF ReadSubmission, Goto, Finish
  <2> QED
    BY <1>8, <2>3 DEF ReadSubmission
<1>9. ASSUME NEW r \in Submitter, ResetSubmission(r) PROVE TypeInv'
  <2>1. subject[r] \in Puzzle
    BY <1>9 DEF ResetSubmission
  <2>2. \/ Finish(r)
        \/ \E s \in {"read", "reset"} : Goto(r, s) /\ UNCHANGED subject
    BY <1>9 DEF ResetSubmission
  <2>3. /\ at' \in [Submitter -> {"idle", "insert", "read", "reset"}]
        /\ subject' \in [Submitter -> Puzzle \cup {NoPuzzle}]
        /\ SubjectHeld'
    BY <1>9, <2>1, <2>2 DEF ResetSubmission, Goto, Finish
  <2>4. /\ sub' \in {sub, [sub EXCEPT ![subject[r]] = "pending"]}
        /\ comment' \in {comment, [comment EXCEPT ![subject[r]] = 0]}
        /\ submits' \in {submits, [submits EXCEPT ![subject[r]] = @ + 1]}
    BY <1>9 DEF ResetSubmission, Submitted, Reopen
  <2>5. notified' \subseteq Puzzle /\ stale' \subseteq Puzzle
    BY <1>9, <2>1 DEF ResetSubmission, Reopen
  <2>6. sub' \in [Puzzle -> {"none", "pending"} \cup Decided]
    BY <2>4
  <2>7. comment' \in [Puzzle -> 0..MaxReviews]
    BY <2>4, ModerationAssumption
  <2>8. submits' \in [Puzzle -> Nat]
    BY <2>4
  <2> QED
    BY <1>9, <2>3, <2>5, <2>6, <2>7, <2>8 DEF ResetSubmission
<1>10. ASSUME NEW t \in Reader, ListNotifications(t) PROVE TypeInv'
  BY <1>10 DEF ListNotifications, InFlight, Unnotified
<1>11. ASSUME NEW t \in Reader, NEW p \in Puzzle, MarkNotified(t, p) PROVE TypeInv'
  BY <1>11 DEF MarkNotified
<1>12. ASSUME NEW t \in Reader, Respond(t) PROVE TypeInv'
  BY <1>12 DEF Respond, InFlight, NoReview
<1>13. ASSUME NEW t \in Reader, LoseResponse(t) PROVE TypeInv'
  BY <1>13 DEF LoseResponse, InFlight, NoReview
<1>14. CASE UNCHANGED vars
  BY <1>14 DEF vars
<1> QED
  BY <1>1, <1>2, <1>3, <1>4, <1>5, <1>6, <1>7, <1>8, <1>9, <1>10,
     <1>11, <1>12, <1>13, <1>14 DEF Next

(***************************************************************************)
(* Layer 2: the rows of a puzzle agree with each other and with the        *)
(* reviews it went through.                                                *)
(***************************************************************************)
RowInv == ApprovedIsPublished /\ OneReviewPerSubmission /\ CommentIsCurrent /\ NoOrphanRows

LEMMA RowInit == Init => RowInv
BY DEF Init, RowInv, ApprovedIsPublished, OneReviewPerSubmission, CommentIsCurrent,
       NoOrphanRows, NoReview

LEMMA RowStep == TypeInv /\ RowInv /\ [Next]_vars => RowInv'
<1> SUFFICES ASSUME TypeInv, RowInv, [Next]_vars PROVE RowInv'
  OBVIOUS
<1> USE ModerationAssumption DEF TypeInv, TypeOK, SubjectHeld, RowInv, ApprovedIsPublished,
           OneReviewPerSubmission, CommentIsCurrent, NoOrphanRows
<1>1. ASSUME NEW p \in Puzzle, CreatePuzzle(p) PROVE RowInv'
  BY <1>1 DEF CreatePuzzle
<1>2. ASSUME NEW p \in Puzzle, EditPuzzle(p) PROVE RowInv'
  BY <1>2 DEF EditPuzzle
<1>3. ASSUME NEW p \in Puzzle, DeletePuzzle(p) PROVE RowInv'
  BY <1>3 DEF DeletePuzzle
<1>4. ASSUME NEW p \in Puzzle, ApprovePuzzle(p) PROVE RowInv'
  BY <1>4 DEF ApprovePuzzle, Open
<1>5. ASSUME NEW p \in Puzzle, RejectPuzzle(p) PROVE RowInv'
  BY <1>5 DEF RejectPuzzle, Open
<1>6. ASSUME NEW r \in Submitter, NEW p \in Puzzle, CheckOwner(r, p) PROVE RowInv'
  BY <1>6 DEF CheckOwner, Goto
<1>7. ASSUME NEW r \in Submitter, InsertSubmission(r) PROVE RowInv'
  BY <1>7 DEF InsertSubmission, Submitted, ForeignKeyRefuses, Goto, Finish
<1>8. ASSUME NEW r \in Submitter, ReadSubmission(r) PROVE RowInv'
  BY <1>8 DEF ReadSubmission, Resubmittable, Goto, Finish
<1>9. ASSUME NEW r \in Submitter, ResetSubmission(r) PROVE RowInv'
  <2>1. UNCHANGED <<puzzle, public, catalog, reviews>>
    BY <1>9 DEF ResetSubmission
  <2>2. CASE UNCHANGED <<sub, comment, notified, submits>>
    BY <2>1, <2>2
  <2>3. CASE /\ sub[subject[r]] # "none"
             /\ sub' = [sub EXCEPT ![subject[r]] = "pending"]
             /\ comment' = [comment EXCEPT ![subject[r]] = 0]
             /\ notified' = notified \ {subject[r]}
             /\ submits' = [submits EXCEPT ![subject[r]] = @ + 1]
    <3>1. ApprovedIsPublished' /\ NoOrphanRows'
      BY <2>1, <2>3
    <3>2. OneReviewPerSubmission'
      BY <2>1, <2>3
    <3>3. CommentIsCurrent'
      BY <2>1, <2>3
    <3>4. QED
      BY <3>1, <3>2, <3>3
  <2>4. QED
    BY <1>9, <2>2, <2>3 DEF ResetSubmission, Submitted, Reopen
<1>10. ASSUME NEW t \in Reader, ListNotifications(t) PROVE RowInv'
  BY <1>10 DEF ListNotifications, InFlight, Unnotified
<1>11. ASSUME NEW t \in Reader, NEW p \in Puzzle, MarkNotified(t, p) PROVE RowInv'
  BY <1>11 DEF MarkNotified
<1>12. ASSUME NEW t \in Reader, Respond(t) PROVE RowInv'
  BY <1>12 DEF Respond, InFlight, NoReview
<1>13. ASSUME NEW t \in Reader, LoseResponse(t) PROVE RowInv'
  BY <1>13 DEF LoseResponse, InFlight, NoReview
<1>14. CASE UNCHANGED vars
  BY <1>14 DEF vars
<1> QED
  BY <1>1, <1>2, <1>3, <1>4, <1>5, <1>6, <1>7, <1>8, <1>9, <1>10,
     <1>11, <1>12, <1>13, <1>14 DEF Next

(***************************************************************************)
(* Layer 3: what a notification request lists, and the parent was told, is *)
(* never ahead of the reviews; a row waiting for a review is unmarked      *)
(* unless a late mark hit it; a mark has a request that will answer for it.*)
(***************************************************************************)
NotAhead ==
    \A p \in Puzzle :
        /\ puzzle[p] = "none" => told[p] = 0 /\ \A t \in Reader : listed[t][p] = 0
        /\ puzzle[p] = "live" =>
             told[p] <= reviews[p] /\ \A t \in Reader : listed[t][p] <= reviews[p]
        /\ sub[p] \in Decided => reviews[p] > 0

MarksAreAnswered ==
    \A p \in notified \ (stale \cup lost) :
        /\ sub[p] \in Decided
        /\ \/ told[p] = reviews[p]
           \/ \E t \in Reader : listed[t][p] = reviews[p] /\ p \notin todo[t]

NoticeInv == NotAhead /\ MarksAreAnswered

LEMMA NoticeInit == Init => NoticeInv
BY DEF Init, NoticeInv, NotAhead, MarksAreAnswered, NoReview

LEMMA NotAheadStep == TypeInv /\ RowInv /\ NotAhead /\ [Next]_vars => NotAhead'
<1> SUFFICES ASSUME TypeInv, RowInv, NotAhead, [Next]_vars PROVE NotAhead'
  OBVIOUS
<1> USE ModerationAssumption DEF TypeInv, TypeOK, SubjectHeld, RowInv, NoOrphanRows, NotAhead
<1>1. ASSUME NEW p \in Puzzle, CreatePuzzle(p) PROVE NotAhead'
  BY <1>1 DEF CreatePuzzle
<1>2. ASSUME NEW p \in Puzzle, EditPuzzle(p) PROVE NotAhead'
  BY <1>2 DEF EditPuzzle
<1>3. ASSUME NEW p \in Puzzle, DeletePuzzle(p) PROVE NotAhead'
  BY <1>3 DEF DeletePuzzle
<1>4. ASSUME NEW p \in Puzzle, ApprovePuzzle(p) PROVE NotAhead'
  BY <1>4 DEF ApprovePuzzle, Open
<1>5. ASSUME NEW p \in Puzzle, RejectPuzzle(p) PROVE NotAhead'
  BY <1>5 DEF RejectPuzzle, Open
<1>6. ASSUME NEW r \in Submitter, NEW p \in Puzzle, CheckOwner(r, p) PROVE NotAhead'
  BY <1>6 DEF CheckOwner, Goto
<1>7. ASSUME NEW r \in Submitter, InsertSubmission(r) PROVE NotAhead'
  BY <1>7 DEF InsertSubmission, Submitted, ForeignKeyRefuses, Goto, Finish
<1>8. ASSUME NEW r \in Submitter, ReadSubmission(r) PROVE NotAhead'
  BY <1>8 DEF ReadSubmission, Resubmittable, Goto, Finish
<1>9. ASSUME NEW r \in Submitter, ResetSubmission(r) PROVE NotAhead'
  BY <1>9 DEF ResetSubmission, Submitted, Reopen, Resubmittable, Goto, Finish
<1>10. ASSUME NEW t \in Reader, ListNotifications(t) PROVE NotAhead'
  BY <1>10 DEF ListNotifications, InFlight, Unnotified
<1>11. ASSUME NEW t \in Reader, NEW p \in Puzzle, MarkNotified(t, p) PROVE NotAhead'
  BY <1>11 DEF MarkNotified
<1>12. ASSUME NEW t \in Reader, Respond(t) PROVE NotAhead'
  BY <1>12 DEF Respond, InFlight, NoReview
<1>13. ASSUME NEW t \in Reader, LoseResponse(t) PROVE NotAhead'
  BY <1>13 DEF LoseResponse, InFlight, NoReview
<1>14. CASE UNCHANGED vars
  BY <1>14 DEF vars
<1> QED
  BY <1>1, <1>2, <1>3, <1>4, <1>5, <1>6, <1>7, <1>8, <1>9, <1>10,
     <1>11, <1>12, <1>13, <1>14 DEF Next

LEMMA MarksStep == TypeInv /\ RowInv /\ NotAhead /\ MarksAreAnswered /\ [Next]_vars => MarksAreAnswered'
<1> SUFFICES ASSUME TypeInv, RowInv, NotAhead, MarksAreAnswered, [Next]_vars PROVE MarksAreAnswered'
  OBVIOUS
<1> USE ModerationAssumption DEF TypeInv, TypeOK, SubjectHeld, RowInv, NoOrphanRows, NotAhead, MarksAreAnswered
<1>1. ASSUME NEW p \in Puzzle, CreatePuzzle(p) PROVE MarksAreAnswered'
  BY <1>1 DEF CreatePuzzle
<1>2. ASSUME NEW p \in Puzzle, EditPuzzle(p) PROVE MarksAreAnswered'
  BY <1>2 DEF EditPuzzle
<1>3. ASSUME NEW p \in Puzzle, DeletePuzzle(p) PROVE MarksAreAnswered'
  BY <1>3 DEF DeletePuzzle
<1>4. ASSUME NEW p \in Puzzle, ApprovePuzzle(p) PROVE MarksAreAnswered'
  BY <1>4 DEF ApprovePuzzle, Open
<1>5. ASSUME NEW p \in Puzzle, RejectPuzzle(p) PROVE MarksAreAnswered'
  BY <1>5 DEF RejectPuzzle, Open
<1>6. ASSUME NEW r \in Submitter, NEW p \in Puzzle, CheckOwner(r, p) PROVE MarksAreAnswered'
  BY <1>6 DEF CheckOwner, Goto
<1>7. ASSUME NEW r \in Submitter, InsertSubmission(r) PROVE MarksAreAnswered'
  BY <1>7 DEF InsertSubmission, Submitted, ForeignKeyRefuses, Goto, Finish
<1>8. ASSUME NEW r \in Submitter, ReadSubmission(r) PROVE MarksAreAnswered'
  BY <1>8 DEF ReadSubmission, Resubmittable, Goto, Finish
<1>9. ASSUME NEW r \in Submitter, ResetSubmission(r) PROVE MarksAreAnswered'
  BY <1>9 DEF ResetSubmission, Submitted, Reopen, Resubmittable, Goto, Finish
<1>10. ASSUME NEW t \in Reader, ListNotifications(t) PROVE MarksAreAnswered'
  BY <1>10 DEF ListNotifications, InFlight, Unnotified
<1>11. ASSUME NEW t \in Reader, NEW p \in Puzzle, MarkNotified(t, p) PROVE MarksAreAnswered'
  <2> SUFFICES ASSUME NEW q \in Puzzle, q \in notified' \ (stale' \cup lost')
               PROVE  /\ sub'[q] \in Decided
                      /\ \/ told'[q] = reviews'[q]
                         \/ \E x \in Reader : listed'[x][q] = reviews'[q] /\ q \notin todo'[x]
    BY TypeStep DEF MarksAreAnswered
  <2>1. /\ UNCHANGED <<sub, reviews, told, listed, lost>>
        /\ todo' = [todo EXCEPT ![t] = @ \ {p}]
        /\ stale \subseteq stale'
    BY <1>11 DEF MarkNotified
  <2>2. CASE q \in notified
    <3>1. \A x \in Reader : todo'[x] \subseteq todo[x]
      BY <2>1
    <3> QED
      BY <2>1, <2>2, <3>1
  <2>3. CASE q \notin notified
    <3>1. q = p /\ sub[p] \in Decided /\ listed[t][p] = reviews[p]
      BY <1>11, <2>3 DEF MarkNotified
    <3>2. p \notin todo'[t]
      BY <2>1
    <3> QED
      BY <2>1, <3>1, <3>2
  <2> QED
    BY <2>2, <2>3
<1>12. ASSUME NEW t \in Reader, Respond(t) PROVE MarksAreAnswered'
  <2> SUFFICES ASSUME NEW q \in Puzzle, q \in notified' \ (stale' \cup lost')
               PROVE  /\ sub'[q] \in Decided
                      /\ \/ told'[q] = reviews'[q]
                         \/ \E x \in Reader : listed'[x][q] = reviews'[q] /\ q \notin todo'[x]
    BY TypeStep DEF MarksAreAnswered
  <2>1. /\ UNCHANGED <<rowVars, reviews, todo, lost, stale>>
        /\ told'[q] = IF listed[t][q] > told[q] THEN listed[t][q] ELSE told[q]
        /\ listed' = [listed EXCEPT ![t] = NoReview]
    BY <1>12 DEF Respond
  <2>2. /\ sub[q] \in Decided
        /\ told[q] <= reviews[q] /\ listed[t][q] <= reviews[q]
    BY <2>1
  <2>3. CASE told[q] = reviews[q] \/ listed[t][q] = reviews[q]
    <3>1. told'[q] = reviews[q]
      <4>1. told[q] \in Nat /\ listed[t][q] \in Nat /\ reviews[q] \in Nat
        OBVIOUS
      <4>2. ASSUME NEW a \in Nat, NEW b \in Nat, NEW c \in Nat,
                   a <= c, b <= c, a = c \/ b = c
            PROVE  (IF b > a THEN b ELSE a) = c
        BY <4>2
      <4> QED
        BY <2>1, <2>2, <2>3, <4>1, <4>2
    <3> QED
      BY <2>1, <2>2, <3>1
  <2>4. CASE \E x \in Reader \ {t} : listed[x][q] = reviews[q] /\ q \notin todo[x]
    BY <2>1, <2>2, <2>4
  <2> QED
    BY <2>1, <2>3, <2>4
<1>13. ASSUME NEW t \in Reader, LoseResponse(t) PROVE MarksAreAnswered'
  BY <1>13 DEF LoseResponse, InFlight, NoReview
<1>14. CASE UNCHANGED vars
  BY <1>14 DEF vars
<1> QED
  BY <1>1, <1>2, <1>3, <1>4, <1>5, <1>6, <1>7, <1>8, <1>9, <1>10,
     <1>11, <1>12, <1>13, <1>14 DEF Next

-----------------------------------------------------------------------------
(***************************************************************************)
(* Publication: every statement is one of its steps or leaves the          *)
(* catalogue alone.                                                        *)
(***************************************************************************)
LEMMA PublicationInitially == Init => Catalog!PublicationInit
<1> SUFFICES ASSUME Init PROVE Catalog!PublicationInit
  OBVIOUS
<1>1. {p \in Puzzle : sub[p] = "pending"} = {}
  BY DEF Init
<1> QED
  BY <1>1 DEF Init, Catalog!PublicationInit

LEMMA PublicationKept ==
    ASSUME UNCHANGED <<puzzle, public, catalog, sub>>
    PROVE  UNCHANGED Catalog!publicationVars
BY DEF Catalog!publicationVars

\* The submissions that wait after the row of p has changed.
LEMMA WaitingAdds ==
    ASSUME TypeInv, NEW p \in Puzzle, sub' = [sub EXCEPT ![p] = "pending"]
    PROVE  {q \in Puzzle : sub'[q] = "pending"} = {q \in Puzzle : sub[q] = "pending"} \cup {p}
BY DEF TypeInv, TypeOK

LEMMA WaitingDrops ==
    ASSUME TypeInv, NEW p \in Puzzle, NEW s \in {"none", "approved", "rejected"},
           sub' = [sub EXCEPT ![p] = s]
    PROVE  {q \in Puzzle : sub'[q] = "pending"} = {q \in Puzzle : sub[q] = "pending"} \ {p}
BY DEF TypeInv, TypeOK

\* An INSERT or a reset makes a submission wait.
LEMMA SubmitStep ==
    ASSUME TypeInv, NEW p \in Puzzle, puzzle[p] = "live",
           sub' = [sub EXCEPT ![p] = Submitted], UNCHANGED <<puzzle, public, catalog>>
    PROVE  Catalog!PublicationNext
<1>1. {q \in Puzzle : sub'[q] = "pending"} = {q \in Puzzle : sub[q] = "pending"} \cup {p}
  BY WaitingAdds DEF Submitted
<1>2. Catalog!Submit(p)
  BY <1>1 DEF Catalog!Submit
<1> QED
  BY <1>2 DEF Catalog!PublicationNext

LEMMA PublicationStep ==
    TypeInv /\ RowInv /\ [Next]_vars => [Catalog!PublicationNext]_(Catalog!publicationVars)
<1> SUFFICES ASSUME TypeInv, RowInv, [Next]_vars
             PROVE  Catalog!PublicationNext \/ UNCHANGED Catalog!publicationVars
  OBVIOUS
<1>1. ASSUME NEW p \in Puzzle, CreatePuzzle(p) PROVE Catalog!PublicationNext
  <2>1. Catalog!Add(p)
    BY <1>1 DEF CreatePuzzle, Catalog!Add
  <2> QED
    BY <2>1 DEF Catalog!PublicationNext
<1>2. ASSUME NEW p \in Puzzle, DeletePuzzle(p) PROVE Catalog!PublicationNext
  <2>1. {q \in Puzzle : sub'[q] = "pending"} = {q \in Puzzle : sub[q] = "pending"} \ {p}
    BY <1>2, WaitingDrops DEF DeletePuzzle
  <2>2. Catalog!Withdraw(p)
    BY <1>2, <2>1 DEF DeletePuzzle, Catalog!Withdraw
  <2> QED
    BY <2>2 DEF Catalog!PublicationNext
<1>3. ASSUME NEW p \in Puzzle, ApprovePuzzle(p) PROVE Catalog!PublicationNext
  <2>1. sub[p] = "pending" /\ puzzle[p] = "live"
    BY <1>3 DEF ApprovePuzzle, Open, RowInv, NoOrphanRows
  <2>2. {q \in Puzzle : sub'[q] = "pending"} = {q \in Puzzle : sub[q] = "pending"} \ {p}
    BY <1>3, WaitingDrops DEF ApprovePuzzle
  <2>3. Catalog!Publish(p)
    BY <1>3, <2>1, <2>2 DEF ApprovePuzzle, Catalog!Publish
  <2> QED
    BY <2>3 DEF Catalog!PublicationNext
<1>4. ASSUME NEW p \in Puzzle, RejectPuzzle(p) PROVE Catalog!PublicationNext
  <2>1. sub[p] = "pending"
    BY <1>4 DEF RejectPuzzle, Open
  <2>2. {q \in Puzzle : sub'[q] = "pending"} = {q \in Puzzle : sub[q] = "pending"} \ {p}
    BY <1>4, WaitingDrops DEF RejectPuzzle
  <2>3. Catalog!Reject(p)
    BY <1>4, <2>1, <2>2 DEF RejectPuzzle, Catalog!Reject
  <2> QED
    BY <2>3 DEF Catalog!PublicationNext
<1>5. ASSUME NEW p \in Puzzle, EditPuzzle(p)
      PROVE  UNCHANGED Catalog!publicationVars
  BY <1>5, PublicationKept DEF EditPuzzle
<1>6. ASSUME NEW r \in Submitter, ReadSubmission(r) \/ \E p \in Puzzle : CheckOwner(r, p)
      PROVE  UNCHANGED Catalog!publicationVars
  BY <1>6, PublicationKept DEF ReadSubmission, CheckOwner
<1>7. ASSUME NEW r \in Submitter, at[r] # "idle" PROVE subject[r] \in Puzzle
  BY <1>7 DEF TypeInv, TypeOK, SubjectHeld
<1>8. ASSUME NEW r \in Submitter, InsertSubmission(r)
      PROVE  Catalog!PublicationNext \/ UNCHANGED Catalog!publicationVars
  <2>1. subject[r] \in Puzzle /\ UNCHANGED <<puzzle, public, catalog>>
    BY <1>7, <1>8 DEF InsertSubmission
  <2>2. \/ UNCHANGED sub
        \/ puzzle[subject[r]] = "live" /\ sub' = [sub EXCEPT ![subject[r]] = Submitted]
    BY <1>8 DEF InsertSubmission, ForeignKeyRefuses
  <2> QED
    BY <2>1, <2>2, SubmitStep, PublicationKept
<1>9. ASSUME NEW r \in Submitter, ResetSubmission(r)
      PROVE  Catalog!PublicationNext \/ UNCHANGED Catalog!publicationVars
  <2>1. subject[r] \in Puzzle /\ UNCHANGED <<puzzle, public, catalog>>
    BY <1>7, <1>9 DEF ResetSubmission
  <2>2. \/ UNCHANGED sub
        \/ sub[subject[r]] # "none" /\ sub' = [sub EXCEPT ![subject[r]] = Submitted]
    BY <1>9 DEF ResetSubmission
  <2>3. sub[subject[r]] # "none" => puzzle[subject[r]] = "live"
    BY <2>1 DEF RowInv, NoOrphanRows
  <2> QED
    BY <2>1, <2>2, <2>3, SubmitStep, PublicationKept
<1>10. ASSUME NEW t \in Reader,
              \/ ListNotifications(t) \/ Respond(t) \/ LoseResponse(t)
              \/ \E p \in Puzzle : MarkNotified(t, p)
       PROVE  UNCHANGED Catalog!publicationVars
  BY <1>10, PublicationKept DEF ListNotifications, Respond, LoseResponse, MarkNotified
<1>11. CASE UNCHANGED vars
  BY <1>11, PublicationKept DEF vars
<1> QED
  BY <1>1, <1>2, <1>3, <1>4, <1>5, <1>6, <1>8, <1>9, <1>10, <1>11 DEF Next

-----------------------------------------------------------------------------
(***************************************************************************)
(* The theorems.                                                           *)
(***************************************************************************)

\* Every variable keeps its type, and a submit request in progress has a puzzle.
THEOREM TypeCorrect == Spec => [](TypeOK /\ SubjectHeld)
<1>1. Spec => []TypeInv
  BY TypeInit, TypeStep, PTL DEF Spec
<1> QED
  BY <1>1, PTL DEF TypeInv

\* The three layers together are an inductive invariant of moderation.
LEMMA Invariance == Spec => [](TypeInv /\ RowInv /\ NoticeInv)
<1>1. NoticeInv <=> NotAhead /\ MarksAreAnswered
  BY DEF NoticeInv
<1> QED
  BY <1>1, TypeInit, TypeStep, RowInit, RowStep, NoticeInit, NotAheadStep, MarksStep,
     PTL DEF Spec

\* What ApprovePuzzle publishes stays consistent, and nothing else publishes.
THEOREM ApprovedPuzzlesArePublished == Spec => []ApprovedIsPublished
<1>1. RowInv => ApprovedIsPublished
  BY DEF RowInv
<1> QED
  BY <1>1, Invariance, PTL

\* However many administrators and parents act at once, each submission is
\* decided at most once.
THEOREM ReviewedOnce == Spec => []OneReviewPerSubmission
<1>1. RowInv => OneReviewPerSubmission
  BY DEF RowInv
<1> QED
  BY <1>1, Invariance, PTL

\* The comment of a row belongs to its last review.
THEOREM CommentsAreCurrent == Spec => []CommentIsCurrent
<1>1. RowInv => CommentIsCurrent
  BY DEF RowInv
<1> QED
  BY <1>1, Invariance, PTL

\* A deletion leaves nothing behind, whatever requests are in progress.
THEOREM DeletionIsComplete == Spec => []NoOrphanRows
<1>1. RowInv => NoOrphanRows
  BY DEF RowInv
<1> QED
  BY <1>1, Invariance, PTL

\* A review is marked as notified only for a request that answers for it, but
\* for late marks and lost responses.
THEOREM NoticesAreKept == Spec => []NoticeKept
<1>1. NoticeInv => NoticeKept
  BY DEF NoticeInv, MarksAreAnswered, NoticeKept
<1> QED
  BY <1>1, Invariance, PTL

\* An approval ends with the puzzle, or by a reset that acted on an outdated read.
THEOREM ApprovalsStay == Spec => ApprovedStays
<1>1. TypeInv /\ [Next]_vars =>
         [\A p \in Puzzle : sub[p] = "approved" =>
            sub'[p] \in {"approved", "none"} \/ p \in stale']_vars
  <2> SUFFICES ASSUME TypeInv, Next, NEW q \in Puzzle, sub[q] = "approved"
               PROVE  sub'[q] \in {"approved", "none"} \/ q \in stale'
    OBVIOUS
  <2> USE DEF TypeInv, TypeOK
  <2>1. ASSUME NEW r \in Submitter, ResetSubmission(r)
        PROVE  sub'[q] = "approved" \/ q \in stale'
    BY <2>1 DEF ResetSubmission, Resubmittable
  <2>2. ASSUME NEW r \in Submitter, InsertSubmission(r) PROVE sub'[q] = "approved"
    BY <2>2 DEF InsertSubmission
  <2>3. ASSUME NEW p \in Puzzle, DeletePuzzle(p) PROVE sub'[q] \in {"approved", "none"}
    BY <2>3 DEF DeletePuzzle
  <2>4. ASSUME NEW p \in Puzzle, ApprovePuzzle(p) \/ RejectPuzzle(p)
        PROVE  sub'[q] = "approved"
    BY <2>4 DEF ApprovePuzzle, RejectPuzzle, Open
  <2>5. ASSUME NEW p \in Puzzle, CreatePuzzle(p) \/ EditPuzzle(p)
        PROVE  sub' = sub
    BY <2>5 DEF CreatePuzzle, EditPuzzle
  <2>6. ASSUME NEW r \in Submitter, ReadSubmission(r) \/ \E p \in Puzzle : CheckOwner(r, p)
        PROVE  sub' = sub
    BY <2>6 DEF ReadSubmission, CheckOwner
  <2>7. ASSUME NEW t \in Reader,
               \/ ListNotifications(t)
               \/ \E p \in Puzzle : MarkNotified(t, p)
               \/ Respond(t)
               \/ LoseResponse(t)
        PROVE  sub' = sub
    BY <2>7 DEF ListNotifications, MarkNotified, Respond, LoseResponse
  <2> QED
    BY <2>1, <2>2, <2>3, <2>4, <2>5, <2>6, <2>7 DEF Next
<1> QED
  BY <1>1, Invariance, PTL DEF Spec, ApprovedStays

\* Whatever requests overlap, only a review of a waiting submission publishes a
\* puzzle, only its removal takes it back, and a removed one stays away.
THEOREM ModerationImplementsPublication == Spec => ImplementsPublication
<1>1. Spec => [](TypeInv /\ RowInv)
  BY Invariance, PTL
<1> QED
  BY <1>1, PublicationInitially, PublicationStep,
     PTL DEF Spec, ImplementsPublication, Catalog!PublicationSpec

=============================================================================
