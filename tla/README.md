# Jigsaw: a verification project

TLA+ models of the jigsaw service (Go API and worker, PostgreSQL, S3, Preact
client), the TLC runs that check them and the TLAPS proofs about them. All
paths are relative to the repository; `src/` is its root.

## The system

| Part | Code | State | Operations |
|---|---|---|---|
| Creation and deletion of puzzles | `internal/handler/parent_puzzles.go`, `admin.go`, `internal/store/parent.go`, `store.go` | `puzzles`, `catalog_puzzles`, originals in S3 | create (S3 put, then one transaction with the task), edit, delete with cascades |
| Task queue | `internal/store/task.go` | `tasks` (status, attempts) | claim with `FOR UPDATE SKIP LOCKED`, complete, retry or fail |
| Workers | `internal/worker` | the claimed task, position in `processImage` | poll, download, slice, upload, insert pieces, set ready, mark failed |
| Moderation | `internal/store/moderation.go`, `internal/handler/moderation_*.go` | `catalog_submissions`, `puzzles.visibility`, `catalog_puzzles` | submit, list, approve, reject, list and mark notifications |
| Layers (rewards) | `internal/store/parent.go`, `internal/handler/parent_puzzles.go` | `puzzle_layers`, media in S3 | create, update, delete, reorder |
| Catalogue, categories | `internal/store/store.go`, `internal/handler/catalog.go`, `admin.go`, `categories.go` | `catalog_puzzles`, `categories` | list, get (the game), create, update, remove |
| Accounts, children, sessions | `internal/handler/auth.go`, `children_auth.go`, `parent_children.go`, `internal/middleware`, `internal/migrate/seed.go` | `users`, `sessions`, `children`, `child_sessions` | register, log in and out, seed the administrator, PIN login, maintain |
| Play | `internal/handler/play.go`, `web/src/pages/game`, `web/src/pages/ChildSelect.tsx` | `play_results`; pieces, drag, timers in the browser | drag and drop, completion, reward sequence |
| Slicer | `pkg/slicer` | none | cut an image into pieces in four modes |
| Media, encryption | `internal/handler/media.go`, `internal/crypto` | none | stream and decrypt |

The parts meet in the database and in S3. A request handler issues a few
statements and S3 calls, mostly without a common transaction; every server
process runs one worker; nothing is told of a change, everything is polled.

What is hard here: requests and workers interleave between any two statements;
S3 and the database fail separately and a call may take effect and still report
an error; a worker may stop in the middle of an attempt, whose outcome is
written by yet another call; retries repeat what an earlier attempt has done;
rows are updated by id after having been read by status; transactions lock the
same rows in different orders. `PROJECT.json` lists
each such place under `hazards` with the properties that watch it.

## Modules

| Module | What it is |
|---|---|
| `Pipeline` | puzzles, tasks, workers, pieces and S3, one action per statement, transaction or S3 call |
| `JobQueue` | what the tasks table promises: one holder, bounded attempts, a final end |
| `PipelineQueue` | the refinement mapping from `Pipeline` to `JobQueue` |
| `PuzzleLife` | what a puzzle promises from its upload to its removal; `Pipeline` and `Catalogue` implement it |
| `Pipeline_proofs` | the theorems about them |
| `Moderation` | submissions, reviews and notifications, one action per statement or transaction |
| `Publication` | what the public list promises about a puzzle; `Moderation` and `Catalogue` implement it |
| `Moderation_proofs` | the theorems about them |
| `Assembly` | what a game promises: pieces stick one at a time, each once, until all do |
| `Board` | drag and drop on the game screen; it implements `Assembly` |
| `Board_proofs` | the theorems about it |
| `Play` | a child's tab: history, screens, completion timer, reward, PIN login, and the play handlers; it builds on `Assembly` |
| `Play_proofs` | the theorems about it |
| `Authoring` | layers: rows, order, media and row locks, one action per statement or S3 call |
| `Authoring_proofs` | the theorems about it |
| `Accounts` | users, children, both kinds of session and results, one action per statement |
| `Accounts_proofs` | the theorems about it |
| `Slicer` | the scaling of an image and the four ways to cut it, in exact arithmetic, with the pixels floats may move set apart |
| `Slicer_proofs` | the theorems about it |
| `Catalogue` | entries, categories and the game, with the row locks of each transaction |
| `Catalogue_proofs` | the theorems about it |
| `MC...`, one for each of the modules run | constants and symmetry for TLC |

### Pipeline

`puzzle`, `rated` and `rows` are `puzzles.status`, whether
`puzzles.difficulty` is set, and the copies of each piece in `puzzle_pieces`;
`task`, `attempts` and `earlier` are the columns of `tasks`, `earlier` standing
for the order of `created_at`; `image` and `stored` are the objects in S3. A
puzzle has exactly one task, so a task is named by its puzzle. Of an image and
its configuration only the number of pieces they give is kept (`cut`), or that
they cannot be cut at all (`Undecodable`): it depends on nothing else, so it is
chosen once, when the puzzle is created. A cut of 0 pieces is what a geometry
configuration with an unknown shape gives.

A worker's `pc` names the next call of `poll` and `processImage`:

| `pc` | code | action |
|---|---|---|
| `poll` | `SELECT ... FOR UPDATE SKIP LOCKED` | `LockTask` |
| `commit` | `UPDATE tasks`, `COMMIT` | `CommitClaim` |
| `load` | `GetPuzzleByID` (before the deferred handler exists) | `GetPuzzleByID` |
| `download` | `GetObject`, decode, resize, slice | `FetchAndSlice` |
| `upload` | the upload loop, then `CreatePuzzlePieces` | `UploadPiece`, `CreatePuzzlePieces` |
| `rate` | `SetPuzzleReady` | `SetPuzzleReady` |
| `markFailed` | the deferred `SetPuzzleStatus(failed)` | `MarkFailed` |
| `retry`, `complete` | the last call of `poll` | `RetryOrFailTask`, `CompleteTask` |

`Fails(call)` is a call that returns an error without effect, `FailsLate(call)`
one that takes effect and still returns an error (a lost answer to a commit or
a put). `Stop` is a kill, or the cancelled context of a shutdown, after which
every later call of the attempt fails, the deferred one included. The
constants `Faulty`, `LostAck` and `MaxFaults` say which calls fail, and how
often in one behaviour.

### Moderation

A puzzle has at most one row in `catalog_submissions` (`puzzle_id` is unique),
so `sub`, `comment` and `notified` are functions and sets of puzzles. Reviews
are numbered per puzzle: the number is not in the database but tells one
decision from the next, so that `comment` can name the review it came from, a
notification request the reviews it lists (`listed`) and a response what the
parent was told (`told`). `content` is the version of the title, category and
layers, `cleared` the version at the last approval. `ApprovePuzzle` and
`RejectPuzzle` ask for nothing but a pending row (`Open`): the server does not
know whether an administrator has looked at the list, which changes no state. `SubmitPuzzle` is four steps because its four
statements share no transaction; a notification request lists, marks each item
and only then responds. `stale` and `lost` are history variables: they remember
the puzzles on which a statement acted on an outdated read, and those of a
response that never arrived. The properties are stated outside of them;
`moderation_conflict` shows that `stale` is not empty.

### Board and Assembly

`placed`, `place` and `drag` are `placedIds`, `positions.current` and
`drag.current` of `GameScreen.tsx`; `target` is the layout that `targetX` and
`targetY` of the drag were computed for. Of a position is kept where it can lie
as far as the code can tell: in the tray, near the target, away from it, or on
it, together with the layout it belongs to. The handlers are the actions:

| Code | Action |
|---|---|
| `compute`, on a resize | `Resize` |
| `onPointerDown` of a piece | `Press`; `PressElsewhere` for a placed piece or anything else |
| `onMove`, on the window | `Move` |
| `onUp`, on the window | `Lift`, with `Snap` or `ReturnToTray` |
| `pointercancel`, for which there is no handler | `Cancel` |

`takenOver`, `cancelled` and `resized` are history variables: they say when the
screen has had a second finger, a cancelled one, or a new layout, which the
code does not look after; the properties hold outside of them. `Assembly` is
the part of it the rest of the client sees, the set of stuck pieces;
`ImplementsAssembly` says that nothing else ever happens to that set.

### Play

`history` and `cursor` are the session history of one tab. `Navigate` adds to it,
`Back` is the button of the game, `Jump` what the browser's own buttons and
history menu do, which may pass over entries. `Show` is the router: a screen is
unmounted with its state and its timer, except that two rewards in a row are
the same component, which stays (`mixed` remembers it), and so are two games
(`crossed` remembers it): a `GameScreen` that stays keeps the puzzle it holds
until the next answer, and for good the pieces that stick (`placedIds`) and a
failed load (`error`). `fetching`, `of` and `loading` are the requests for a
puzzle and what they brought; `Pieces` are the identifiers of the pieces, of
which no two puzzles share one;
`phase`, `index` and `LayerCount` are those of `RewardScreen`; `timer` is the
700 ms between the last piece and `api.play.complete`. Completions are counted
on their way to the server (`sent`, with a child's token or without one), in
`play_results` (`results`) and on their way back (`answers`), whose `finally`
navigates whatever is on the screen. `PinAccepted` and `PinRefused` are the
answers to `ChildSelect`, which act on the tab even when the screen is gone.
`solves`, `crossed`, `player` and `loaded` (the last step was a load of the
document) are history variables the properties compare with. What fingers do on the board is one step, `PlaceOne`, a
`PlacePiece` of the puzzle's `Assembly`. A game that was put on the screen of
another counts the other's pieces as its own: `play_jump` shows what comes of
it, and `RewardsAreEarned` and `ResultsAreEarned` are stated for all others.

### Authoring

`owner`, `order` and `media` are the columns of `puzzle_layers`; `stored` are
the media objects; `held` are row locks that outlive a statement. A request is
in one of five handlers (`op`) and its `pc` names the next statement or call:

| `pc` | code | action |
|---|---|---|
| `check` | `GetParentPuzzle`, or the `puzzles` row of a deletion | `Refuse`, `CheckPuzzle`, `BeginLocking` |
| `put` | `PutObject` | `PutMedia` |
| `write` | the `INSERT`, `UPDATE` or `DELETE` of a layer | `CreateLayer`, `UpdateLayer`, `DeleteLayer` |
| `lock` | one `UPDATE` of a reorder, one row of a cascade | `LockLayer`, or `Abort` when PostgreSQL ends a deadlock |
| `commit` | `COMMIT` | `CommitReorder`, `CommitDeletion` |

The layers a request names are any that a client may have seen: the handlers
look up the puzzle of the path and hand the layers on to statements that go by
their ids alone, so they may be another puzzle's, or gone. `Fail` is any
statement that fails, or a client that is gone. `CreatePuzzle`,
`SetPuzzleReady` and `SetPuzzleFailed` stand for what `Pipeline` does to the
puzzle. `Owned` is `GetParentPuzzle` with its NULL `difficulty`; `SortOrder`
what the JSON decoder makes of a `sort_order` for which there is no field.

### Accounts

`password`, `admins` and `blocked` are the rows of `users`, a user being named
by the lower-case e-mail in the row; `holder` and `live` those of `sessions`
and `child_sessions` (`holder` stays when a row goes, so that a request can
come with a dead token); `parent` and `pin` those of `children`, `born` the ids
given out so far, `results` the children with rows in `play_results`. A request
is a record `req[r]`, whose `pc` names its next statement:

| `pc` | code | action |
|---|---|---|
| (arrival) | the `INSERT` of `HandleRegister`; the checks before the first statement of the other handlers | `HandleRegister`, `HandleLogin`, `HandleParent`, `HandleChildAuth`, `HandlePlayComplete`, `SeedAdmin` |
| `getUser`, `openSession`, `refused` | the rest of a login or registration | `GetUserByEmail`, `CreateSession`, `Refused` |
| `seedInsert` | `INSERT ... ON CONFLICT` of the administrator | `SeedInsert` |
| `getSession`, `getUserByID` | the middleware in front of a parent's request | `GetSessionByToken`, `GetUserByID` |
| `create`, `getChild`, `update`, `delete` | the handlers of children | `CreateChild`, `GetChild`, `UpdateChild`, `DeleteChild` |
| `verify`, `openChild` | `VerifyChildPIN`, `CreateChildSession` | the same |
| `childByToken`, `record` | `HandlePlayComplete` | `GetChildByToken`, `RecordPlayResult` |

`Abort` ends a request before any of its statements, whatever it has done so
far, with an error the client does not take for a refusal. Only the lookup of a
login is different: `HandleLogin` answers 401 to any error of `GetUserByEmail`,
a lost connection included, which the field `failed` of the request remembers.
 `HandleLogout` is also the expiry of a session, and `Block` an operator
who sets `users.blocked`, which no code does. `proof`, and the fields `late`,
`knew` and `had` of a request, are history: the password a token was given for,
whether the request began with a dead token or with the right password (of the
row with the e-mail as typed or in lower case, `Knows`), and the PINs its child
has had since. `HasBlocked` says whether the column
`users.blocked` exists. The migrations do not create it, and without it no
login and no session works at all (`MCAccountsLogin.cfg`), so the properties
are checked with it.

### Slicer

A behaviour is one call: `ResizeIfNeeded`, then one of `Grid`, the merge
(`PlaceGroup` for each cell of the shuffled order, `OutlineGroups` at the end),
`Geometry` or `Parallelograms`, and the jigsaw (`DrawTabs`, `Puzzle`). Random
numbers are choices. A piece is its grid position and its polygon; the pixels
of a piece (`ClipPiece`, by `PointInPolygon`) are computed in the properties.
Lengths are integers in a unit that makes every fraction the code takes of a
cell whole. The code computes with floats, which shows in two places. The scaling of
the image rounds a product down, and `Scaled` allows for either result. A cell's
right side and its neighbour's left side are two sums that may differ in the
last place, so a pixel whose centre lies exactly on a side of a piece may be in
it or not: `Unsure` has these pixels, and the properties promise only what holds
however they fall. A pixel with its centre on no side is not moved by an error
that small, and the corners of a merge are whole numbers, which floats hold
exactly. A curve is flattened into 2 segments, not
16; the lattice of points they go through is exact. `passed` are cells that
were visited without being given to a group, `endless` stands for a walk along
an outline that never returns.

### Catalogue

`status`, `rated`, `public` and `category` are columns of `puzzles`, `pieces`
the puzzles whose pieces, if any, have been inserted, `bare` those whose
configuration cuts none (`SetPuzzleReady` does not ask for any), `entry` and `featured` the rows of `catalog_puzzles`,
`submission` those of `catalog_submissions`, `slug` those of `categories`.
`held` are the row locks of open transactions. `Plan(op)` lists the rows a
handler's transaction locks, in the order of its statements and, for a
deletion, of the cascades; `Lock` takes the next, `Rollback` leaves when
there is nothing to do, `CommitApprove`, `CommitUpdate` and `CommitDelete` make
the changes visible, and `Deadlock` ends one of the requests that wait for each
other in a ring (`Rings`). A game is three reads: `GetCatalogPuzzle`,
`GetPuzzlePieces`, `ListPuzzleLayers`. What the worker, the parent and a
submission do to a puzzle are single steps here; `Pipeline` and `Moderation`
have their insides, and what the three models have in common is stated in
`PuzzleLife` and `Publication`. A client names a row it has seen, though it may
be gone when the request arrives (`Named`): an approval a submission, an update
or a game an entry. An update whose entry is gone locks nothing and changes
nothing, but reads the entry again all the same (`CommitUpdate`). `Listed` and
`ListedUnder` are the public list, without and with a category.

## Runs

| Run | Instance | Shows |
|---|---|---|
| `pipeline` | 2 puzzles, 2 workers, 3 attempts, cuts {undecodable, 0, 2}, any 2 failures, lost answers or stops; symmetric workers | type, safety, refinement of `JobQueue` and of `PuzzleLife` |
| `pipeline_live` | 2 puzzles, 2 workers, 2 attempts, cuts {undecodable, 1}, 1 failure | every task ends; the puzzle's outcome is shown |
| `moderation` | 1 puzzle, 2 submit and 2 notification requests, 3 reviews, 1 edit, 2 failures; symmetric requests | type, safety, `ApprovedStays`, refinement of `Publication` |
| `moderation_conflict` | the same | **violated**: a submit request ends an approval |
| `board` | 3 pieces, 2 fingers, 2 layouts; symmetric pieces and fingers | agreement with the board, refinement of `Assembly` |
| `play` | 2 puzzles (of 1 piece without layers, of 2 pieces with 2 layers), 2 children, history of 3, 2 games solved or entered from another, page loads until the second of them; symmetric children | type, safety, every report comes to its reward |
| `play_jump` | the same with 1 such game | **violated**: a result for a puzzle that was not solved |
| `authoring` | 1 puzzle, 2 layers, 1 key, 2 requests, `sort_order` up to 1 | type, safety, every request ends |
| `accounts` | 2 requests, 2 tokens, 1 child, 1 parent and the administrator, 2 secrets; symmetric requests and tokens | type, safety and `AccountsStay`, with `HasBlocked` |
| `slicer` | images 6x4, 5x5, 3x6, 1x9 scaled to at most 6; grids 2x2, 3x2, 1x3, 0x2; tabs of the default size | outlines, edges, pixels |
| `slicer_lost` | the same | **violated**: a cell is in no group of a merge |
| `catalogue` | 1 puzzle, 2 categories, 1 slug, 3 requests; symmetric requests | type, whole games, deadlocks, a complete list, refinement of `Publication` |

Bounds. Two workers are enough for them to race for a task, two puzzles for
one task to be locked while another is free and for the order of the queue to
matter; two pieces for an upload loop that stops half-way; three attempts are
the code's `maxAttempts`, so that a failure can fall on the first, a middle or
the last one; two failures let the second hit the recovery from the first.
Moderation needs one puzzle: puzzles meet only in the list of a notification
request, whose items are marked one by one by independent statements. Two
overlapping submit requests reset the same row twice, three reviews give an
older, a current and a newer decision, one edit separates what was approved from
what is public. On the board two fingers take a drag from each other while a
third piece has stuck; two layouts are a change of the window and one back. In
`play` a history of three holds a reward between two other screens and drops
its oldest entry; two solved games put the answer to the first into the second,
of the same puzzle or of the other, or a solved game under the address of
another; one piece and two pieces make a board that is full for the one puzzle
and not for the other. `MaxGames` is a bound of the model, on games and, once they
are used up, on page loads, and so is the limit of one PIN request at a time. Two
children are needed: one is logged in when the other's PIN is on its way and a
game begins. They are symmetric, for `ReportIsRewarded` and the fair actions too,
which name no child; without symmetry the run passes as well, with twice the
states. In `authoring` two layers give two orders of locking, hence a deadlock;
layer identifiers are used once, so two layers also mean at most two creations,
and one key means that a second upload fails. With several puzzles a request may
name layers of another puzzle than that of its path. For a ring of two requests both have to
want both rows, whichever puzzle these are of, so one puzzle shows all rings;
`MCAuthoringPuzzles.cfg` checks the invariants with two, and the theorems hold
for any number.
In `accounts` one request can change what the other is about to use,
between any two of its statements, while logout, expiry and the operator need no
request; a token for the parent and one for the child, or two of one; one
e-mail has two spellings, one secret is too short for a password; a child whose
id is used once, so that a deleted one is not mistaken for a new one. In
`slicer` the grids have a cell with every kind of neighbourhood and each
template fits somewhere; the images divide evenly, do not, have no pixel for a
row, and are scaled to a width of 0. In `catalogue` three requests allow a ring
of three, and two that block each other while a third reads; one of two
categories may go while a puzzle is filed under the other, and take over its
slug; puzzles share no row, so one is enough. The theorems hold without these
bounds.

Deadlock checking is off in the pipeline and moderation runs, which may stop:
the pipeline rests when every task has ended and no puzzle is left to delete,
moderation when its puzzle is deleted or its bounds are reached, and in the
runs of `Slicer`, whose call returns. It is on in the runs of the other modules.

Fairness. `FairSpec` asks weak fairness of each worker's next call: the ticker
fires every `pollInterval` for as long as the process runs, `poll` drains the
queue before it waits again, and each call returns, if only with an error.
Nothing is asked of requests, of failures or of `Stop`. In `pipeline_live` the
calls that record an outcome do not fail and no worker stops, because then
nothing takes the task back (see Known limits); the same holds for a claim
whose answer is lost.

`FairSpec` of `Play` asks weak fairness of the server and of the answers:
`HandlePlayComplete` always answers, and `fetch` settles, with an error if need
be. Nothing is asked of the player; a timer need not fire, for the promise begins
with the report. `FairSpec` of `Authoring` asks strong fairness of each request, because
a lock that is given up and taken again is not always free: PostgreSQL serves
those that wait for a row in the order in which they came, so that nobody is
passed over for ever. `Accounts`, `Catalogue` and `Slicer` promise nothing that
must happen in the end, and assume no fairness.

## Proofs

| Theorem | Property |
|---|---|
| `Pipeline_proofs!TypeCorrect` | `TypeOK`, and a worker holds a task exactly when it is not polling |
| `TasksHeldOnce`, `AttemptsAreBounded` | `OneWorkerPerTask`, `AttemptsBounded` |
| `KeysAreBacked`, `ReadyPuzzlesArePlayable`, `CompletedTasksAreReady`, `CopiesAreBounded` | the data properties |
| `FinishedTasksAreFinal` | `FinishedIsFinal` |
| `PipelineImplementsQueue`, `PipelineImplementsPuzzleLife` | `ImplementsJobQueue`, `ImplementsPuzzleLife` |
| `Moderation_proofs!TypeCorrect`, `ApprovedPuzzlesArePublished`, `ReviewedOnce`, `CommentsAreCurrent`, `DeletionIsComplete`, `NoticesAreKept`, `ApprovalsStay` | every pass property of `Moderation`, and `NoOrphanRows` |
| `ModerationImplementsPublication` | `ImplementsPublication` |
| `Board_proofs!TypeCorrect`, `DragsAreUnplaced`, `PlacedPiecesStay`, `LooseOnlyByTakeOver`, `DragsAreHeld`, `BoardAgreesUntilResize`, `BoardImplementsAssembly` | every property of `Board` |
| `Play_proofs!TypeCorrect`, `ResultsAreCounted`, `RewardsAreDeserved`, `ResultsAreCredited`, `TimersBelongToGames`, `RewardsAreOwn` | every safety property of `Play` that passes |
| `Authoring_proofs!TypeCorrect`, `LayersKeepTheirPuzzle`, `LayersComeAfterRating`, `MediaAreStored`, `LockedRowsAreKept` | every safety property of `Authoring` that passes, and `LockedRowsUnchanged` |
| `Accounts_proofs!TypeCorrect`, `SessionsHavePasswords`, `DeadTokensStayDead`, `OwnersWrite`, `DeletedChildrenAreGone`, `PinsAreCurrent`, `RefusalsAreJust`, `AccountsKept` | every property of `Accounts` |
| `Catalogue_proofs!TypeCorrect`, `GamesAreWhole`, `DeadlocksNeedDeletion`, `CatalogueStaysComplete` | every invariant of `Catalogue` |
| `CatalogueImplementsPuzzleLife`, `CatalogueImplementsPublication` | `ImplementsPuzzleLife`, `ImplementsPublication` |
| `Slicer_proofs!TypeCorrect`, `CellsAreAccountedFor`, `MergeOutlinesAreWhole`, `JigsawEdgesMatch`, `PixelsAreInOnePiece` | every property of `Slicer` that passes |

Some of these state properties that no run lists: `OneWorkerPerTask`,
`AttemptsBounded`, `CopiesBounded`, `FinishedIsFinal`, `NoOrphanRows`,
`OneReviewPerSubmission`, `DragIsUnplaced`, `PlacedStay`, `LooseOnlyWhenTakenOver`,
`DragIsHeld`, `TimerBelongsToGame`, `RewardIsOwn`, `LayersNeedRating`,
`LockedRowsStay`, `LockedRowsUnchanged`, `SessionsNeedPassword`,
`CellsAccountedFor`, the types of `Board` and of `Slicer` and `Catalogue`'s `ImplementsPuzzleLife` are proved only.

They hold for every value of the constants that satisfies
`PipelineAssumption`, `NoWorkerAssumption`, `ModerationAssumption`,
`BoardAssumption`, `ElsewhereAssumption`, `PlayAssumption`,
`AuthoringAssumption`, `AccountsAssumption`, `CatalogueAssumption` and
`SlicerAssumption`: any number
of puzzles, workers, requests, children, pieces, fingers, layers, users and
tokens, any cuts, attempts, reviews, failures and length of the session
history, any image and grid. `RefusalsAreJust` also assumes `HasBlocked` and
that the e-mail of the seeded administrator is in lower case; without the one
the property fails (`MCAccountsLogin.cfg`), without the other for that administrator
(see Known limits).

The invariants are built in layers, each inductive relative to the ones
before. Pipeline: (1) types, and `pc = "poll"` exactly when no task is held, so
that `job[w]` is a puzzle in every other step; (2) the tasks table: a task has
a row exactly when its puzzle was created (else a second INSERT could reset a
held task), with `OneWorkerPerTask` and `AttemptsBounded`; (3) the data: how
far each attempt has come (`AttemptData`: before the INSERT of the pieces there
is one copy fewer than attempts; after the uploads as many objects as the cut
has pieces), without which neither `ReadyIsPlayable` nor `CopiesBounded` is
preserved. `OneWorkerPerTask` also makes the `CHOOSE` of the refinement mapping
definite: its proof turns every pipeline step into a `Submit`, a `Start`, a
`Release` or a stutter. Moderation: (1) types and the subject of a submit
request; (2) the rows; (3) nothing a request lists is ahead of the reviews, and
each mark has a request that will answer for it (`MarksAreAnswered`, stronger
than `NoticeKept` because a request that has still to mark a puzzle does not
count). Board: `DragIsUnplaced` is what everything rests on, since only the
dragged piece is ever moved; `BoardAgrees` needs in addition that without a
resize the drag aims at the layout in force (`TargetIsCurrent`). Play: (1)
types, of the session history first (`NavigateGoes`); every step is then a
`Travels`, a `Loads` or one of the steps that keep the screen (`Steps`); (2) the
mounted screen: a game whose puzzle was not put on the screen of another waits
for and holds its own puzzle only, with no piece of another, and a reward has
its answer before a tap reaches it; (3) the way of a completion: for such a
puzzle, what is recorded, on its way or about to be sent never exceeds the games
solved, and each answer belongs to one. Authoring: (1)
types, and what a request in each step is about (`RequestShape`); (2) the rows:
a request that has passed its check is about a puzzle that was rated or is gone
by now; (3) the media: what a request has stored is its own until it is in a
row (`UploadIsOwn`); (4) the locks: a row that is held exists, whatever puzzle
it is of, and whoever would write or remove it waits; that this goes for the
cascade of a deletion, too, is that it has every row of its puzzle locked or to
lock (`DeletionCovers`), which needs that the foreign key lets no new row in
meanwhile.
Accounts: (1) types, and which fields a request in each step has (`Filled`);
(2) a user's token was given for the password of its row, which nothing
changes; a token is dead for good, and a request that carries a dead one has
not got past the statement that would find it; (3) an id of a child belongs to
one parent or to nobody any more, and a child that is gone has no live token
and no result.

Catalogue: (1) types, and what a request in each step is about (`TypeInv`);
(2) `Shaped` and `RowsHavePuzzle`: entries, submissions and pieces belong to a
puzzle that exists, by the foreign keys; (3) `StillNamed`: what a request has
named is there unless the puzzle is deleted; (4) the locks, `LockInv`: the rows
a transaction has passed in its plan are the rows it holds, as long as they
exist, so that nobody else writes them and a deletion holds every row of its
puzzle before it commits; (5) `ApprovalIsDue`, which those locks give: what an
approval is about to commit is still waiting and its puzzle still there; (6)
the game, `ShownInv`: what has been read of a puzzle that exists stays true,
because pieces come before `ready` and go with the puzzle only.
`DeadlockNeedsDeletion` is an argument about the order of the locks: an approval
and an update lock two rows, the puzzle's last, so whoever waits for the first
holds nothing and whoever holds the puzzle's waits for nothing; a deletion locks
the puzzle's first, so only one of several gets past it. A ring of one kind only
needs a request that both holds and waits.

Refinements. Each is a mapping that leaves out whole variables (`PuzzleLife`:
the status, pieces and difficulty of a puzzle; `Publication`: its row, its
visibility, its entry and whether a submission waits), and each step of the
detailed model is one step of the abstract one or a stutter. This says that the
transactions of `Catalogue` that lock row by row, and the single statements of
`Pipeline` and `Moderation`, amount to the same few steps: what `Catalogue`
takes for one step (the worker, the parent, a submission) may be taken for one.

Slicer, the cells: groups are disjoint because `Fits` looks at the cells of
all others, and a cell is passed over only by the template that leaves it out;
opposite edges match because `PuzzleEdge`, reversed, is the same edge with its
ends and its direction exchanged. The outlines: the sides of each
template, in every place it can be put, form a polygon. That a walk which
follows the sides of a polygon returns, after having walked each of them once, is
shown for a polygon of any length by the least number of steps after which it is
back; then the templates are taken case by case.

Slicer, the pixels: `clipPiece` asks of a pixel whether the ray to its right
crosses an odd number of sides, so `PixelInOnePiece` is a statement about
parity: every pixel that is cut, and whose centre is on no side, has an odd
number of crossings with one piece only, and no pixel has two pieces of which it
is neither on a side (`PixelsShared`; `TilesInv` says so of the pieces of a call that has
returned). Parity is kept apart from the counting by two
lemmas (`OddStep`, and that a bijection keeps it), after which polygons are
compared side by side. The argument then differs with the way to cut:

* A cell is shared out by its polygons, and the cells share out the image. A
  rectangle has one upright side on either hand; triangles and trapezoids have
  a slanted side in common, and a pixel of the cell is on the one side of it or
  on the other. The rows of parallelograms are not made of cells: their slanted
  sides lean the same way, so that they are in order, and a pixel is in the
  piece between the last of them it lies to the right of and the next.
* Two neighbours in a jigsaw walk the same points, in opposite directions, and a
  side is crossed whichever way it is walked. `TabsFit` keeps a tab in the
  quarter of a cell between the edge and the middle, so a tab moves pixels of
  one quarter from its cell to one neighbour, and no two tabs move the same.
* The outline of a merge has no inner side, so the sides it crosses are those of
  the group's cells in the pixel's row. Those cells adjoin, in each of the
  templates, and their row has one upright side at either end. When the cells
  have no width or no height, nothing is clipped and `PixelsCut` is empty.

Only model-checked: the liveness properties `EveryTaskEnds`, `OutcomeShown`,
`ReportIsRewarded` and `EveryRequestEnds`, because liveness under fairness is
outside the prover's reach.

## Findings

* `moderation_conflict`: `SubmitPuzzle` resets by id what it had read as
  rejected (`internal/store/moderation.go:96`); the comment at line 53 promises
  `ErrConflict` for an approved puzzle.
* `play_jump`: a jump in the history from one game to another leaves
  `GameScreen` mounted with the pieces that stick
  (`web/src/pages/game/GameScreen.tsx:96`, `web/src/app.tsx:81`), and the effect
  at line 222 compares their number with the pieces of a puzzle they are not of:
  a completion is recorded for a puzzle that was not solved, although
  `docs/superpowers/specs/2026-04-07-jigsaw-redesign-design.md:253` has the call
  made on completion. The trace: play `p`, home to the catalogue, play `q` and
  place one piece, go back two entries at once.
* `slicer_lost`: the last template of a merge leaves out the cell it is placed
  at (`pkg/slicer/merge.go:61`), which is in no piece unless another group takes
  it, although `pkg/slicer/slicer_test.go:67` has all 16 cells covered.

## Known limits

What the code does by design or by omission, which the properties are stated
around and a reader of a model should expect. Three of them have a configuration
that TLC ends with a violated property, to be run by hand:
`tlc -config MCModerationEdit.cfg MCModeration`, and the same with
`MCAuthoringOrder.cfg` and `MCAccountsLogin.cfg`.

* `GetUserByEmail` and `GetUserByID` select `users.blocked`
  (`internal/store/store.go:64`, `:73`), which no migration creates: on a
  database made by the migrations every login is refused and every session is
  turned away, although `docs/PRODUCT.md:33` has parents register and log in.
  `MCAccountsLogin.cfg` is `accounts` without `HasBlocked`: `RefusalIsJust` fails.
* `LayerOrderItem` (`internal/store/parent.go:355`) has no JSON tags, so the
  `sort_order` that `web/src/api.ts:129` sends is ignored and every layer gets 0:
  `ReorderIsApplied` fails in `MCAuthoringOrder.cfg`.
* Edits (`internal/store/parent.go:310` and the layer handlers) ignore the
  submission, so a public puzzle shows what nobody has reviewed, although
  `docs/PRODUCT.md:88` rules that out: `CatalogueIsReviewed` fails in
  `MCModerationEdit.cfg`, by an edit after an approval.
* A worker that stops between claim and outcome leaves its task in
  `processing`, and `ClaimTask` (`internal/store/task.go:34`) looks at pending
  rows only.
* `MarkNotified` (`internal/store/moderation.go:245`) marks whatever the row
  says by now: a rejection that came after the list was read is marked unseen.
* A retry after an attempt that has committed its pieces inserts them again
  (`internal/store/task.go:135`); `CopiesAreBounded` says how many there can be.
* The layer handlers look up the puzzle of the path only
  (`internal/handler/parent_puzzles.go:484`, `:512`, `:544`) and the statements
  go by the id of the layer (`internal/store/parent.go:407`-`437`): a layer may
  be changed under the path of another puzzle.
* A NULL `difficulty` is scanned into a string: until the worker is done, reads
  of a puzzle by its owner (`internal/store/parent.go:210`) and the
  administrator's reads (`internal/store/store.go:233`) fail.
* A puzzle an administrator creates stays `private`, and is in no public list,
  although `docs/PRODUCT.md:53` has it go directly into the catalogue.
* `main.go` wires the routes without `middleware.Locale`: the public list is
  always that of the default locale.
* A session, child session or user that ends between two statements of a request
  (`internal/middleware/auth.go:35`) does not stop it.
* The whole-numbered cells of a merge lose the pixels that remain at the right
  and the bottom of the image. With fewer pixels than columns or rows the walk along an outline
  (`merge.go:180`) need not return.
* In cells much wider than high, or the reverse, the tabs of opposite edges overlap
  (`pkg/slicer/puzzle.go:130`). An unknown shape of a geometry gives no pieces,
  and the puzzle is `ready`, and served as a game, without any.
* Sides of neighbouring cells are different sums of floats
  (`pkg/slicer/grid.go:27`, `clip.go:65`): with a width of 42 and 20 columns the
  centres of pixel column 31 are in pieces 14 and 15. Only centres that lie
  exactly on a side can be so.
* After a jump from one game to another the second is not laid out, because
  `scattered` (`web/src/pages/game/GameScreen.tsx:100`) stays true: its pieces
  lie on their targets without sticking (line 369). Two rewards in a row share
  a component in the same way, and the second can show the layers of the first
  (`web/src/pages/game/RewardPage.tsx:14`). Nor does `Board` promise that its
  counter agrees with the pictures once the window has changed.
* `SEED_ADMIN_EMAIL` is stored as configured (`internal/migrate/seed.go:22`)
  while a login looks for the lower-case form (`internal/handler/auth.go:87`): an
  administrator seeded with a capital letter can never log in. If a parent has
  registered that e-mail, no administrator is created. Any failure of the lookup
  is answered like a wrong password (`auth.go:88`).
* A logout whose `DELETE` fails is answered 204 all the same.
* `GetCompletedPuzzleIDs` (`internal/store/play.go:24`) is a `COALESCE` of a
  uuid and a text, and always fails.
* An update of an entry that has been committed may be answered 500, because the
  entry is read again afterwards (`internal/handler/admin.go:171`).
* A deletion leaves the objects in S3. An update of a layer without a file sets
  its media keys to NULL (`internal/handler/parent_puzzles.go:484`).
* The answers to two filters of the catalogue page may come in either order
  (`web/src/pages/catalog/CatalogPublic.tsx:43`).

## Plan

What is left, in this order:

1. A composition of `Pipeline`, `Moderation` and `Catalogue` over one `puzzles`
   table, so that a puzzle found in the list is one a worker has made.
   `PuzzleLife` and `Publication` join them so far: each holds of two of them.
2. An abstract specification of a token's life (given, used, dead) that
   `Accounts` implements.
3. The catalogue page and the service worker's cache: which of several answers
   is shown.

## Not modelled

Real time (pollInterval, session expiry), the contents of images, layers and
names, HTTP parsing, hashing, cookies, start-up and wiring, logging.
`generate_tts` and `process_video` tasks: nothing enqueues them and their
handlers are stubs. PostgreSQL's locks inside one statement: a statement or
transaction of a model is one step, except where a lock outlives a statement
(the claim, a reorder, the transactions of `Catalogue`, the cascade of a
deletion). Of the game: pixels, rotation of the layout, sounds, confetti and the
digits of a PIN; `Board` is one mount for one puzzle; a drag ends when the
screen shows another game, and two requests of a screen for the same puzzle are
one. Of the reward files: `encrypted` and the key in the
configuration, and the name of the form field. Of the slicer: the encoding of
images, `pkg/slicer/export.go` and the WebAssembly wrapper, which convert what the
slicer returns. `pkg/s3`, media delivery and `internal/crypto` keep no state:
where their calls fail is in the models of their callers. The parent's and the
administrator's screens, each of which sends one request and shows its answer,
and the service worker's cache.
