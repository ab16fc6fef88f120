-------------------------- MODULE Authoring_proofs --------------------------
(***************************************************************************)
(* What holds of layers, their media and the locks of their rows, for any  *)
(* number of puzzles, layers and requests.  Each layer of the invariant is *)
(* inductive relative to the ones before it.                               *)
(***************************************************************************)
EXTENDS Authoring, TLAPS

USE AuthoringAssumption

(***************************************************************************)
(* Layer 1: types, and what a request in each step is about.               *)
(***************************************************************************)
RequestShape ==
    \A r \in Request :
        /\ pc[r] # "idle" => on[r] \in Puzzle /\ puzzle[on[r]] # "none"
        /\ pc[r] # "idle" /\ op[r] \in {"update", "delete"} => lid[r] \in Layer
        /\ pc[r] = "lock" => lid[r] \in Layer
        /\ pc[r] \in {"put", "write"} => op[r] \notin Locking
        /\ pc[r] \in {"lock", "commit"} => op[r] \in Locking

RequestTypes ==
    /\ pc \in [Request -> {"idle", "check", "put", "write", "lock", "commit"}]
    /\ op \in [Request -> Handlers]
    /\ on \in [Request -> Puzzle \cup {None}]
    /\ lid \in [Request -> Layer \cup {None}]
    /\ todo \in [Request -> SUBSET Layer]
    /\ file \in [Request -> BOOLEAN]
    /\ upload \in [Request -> Key \cup {None}]

LayerTypes ==
    /\ owner \in [Layer -> Puzzle \cup {None}]
    /\ media \in [Layer -> Key \cup {None}]
    /\ used \subseteq Layer

OtherTypes ==
    /\ puzzle \in [Puzzle -> {"none", "processing", "ready", "failed", "deleted"}]
    /\ rated \subseteq Puzzle
    /\ stored \subseteq Key
    /\ held \in [Layer -> Request \cup {None}]

OrderTypes ==
    /\ order \in [Layer -> 0..MaxOrder]
    /\ wanted \in [Request -> [Layer -> 0..MaxOrder]]

TypeInv == RequestTypes /\ LayerTypes /\ OtherTypes /\ OrderTypes /\ RequestShape

LEMMA UnorderedType == Unordered \in [Layer -> 0..MaxOrder]
BY DEF Unordered

LEMMA TypeInit == Init => TypeInv
<1> SUFFICES ASSUME Init PROVE TypeInv
    OBVIOUS
<1> USE DEF Init
<1>1. RequestTypes /\ RequestShape
    BY DEF RequestTypes, RequestShape, Handlers
<1>2. LayerTypes /\ OtherTypes
    BY DEF LayerTypes, OtherTypes
<1>3. OrderTypes
    BY UnorderedType DEF OrderTypes
<1>4. QED
    BY <1>1, <1>2, <1>3 DEF TypeInv

USE DEF Goto, puzzleVars, layerVars, requestVars, Locking, Exists

LEMMA TypeArrive ==
    ASSUME TypeInv, NEW r \in Request, NEW o \in Handlers, NEW p \in Puzzle,
           NEW l \in Layer \cup {None}, NEW f \in BOOLEAN, NEW rows \in SUBSET Layer,
           NEW w \in [Layer -> 0..MaxOrder],
           o \in {"update", "delete"} => l \in Layer, Arrive(r, o, p, l, f, rows, w)
    PROVE  TypeInv'
<1> USE DEF Arrive, TypeInv, RequestTypes
<1>1. RequestTypes'
    OBVIOUS
<1>2. RequestShape'
    BY DEF RequestShape, Handlers
<1>3. LayerTypes' /\ OtherTypes'
    BY DEF LayerTypes, OtherTypes
<1>4. OrderTypes'
    BY DEF OrderTypes
<1>5. QED
    BY <1>1, <1>2, <1>3, <1>4

\* The request that finishes is idle, the others are where they were.
LEMMA Finished ==
    ASSUME TypeInv, NEW r \in Request, Finish(r)
    PROVE  /\ RequestTypes'
           /\ wanted' \in [Request -> [Layer -> 0..MaxOrder]]
           /\ pc'[r] = "idle" /\ upload'[r] = None /\ todo'[r] = {}
           /\ \A s \in Request : s # r =>
                /\ pc'[s] = pc[s] /\ op'[s] = op[s] /\ on'[s] = on[s]
                /\ lid'[s] = lid[s] /\ todo'[s] = todo[s] /\ upload'[s] = upload[s]
<1> USE DEF Finish, TypeInv, RequestTypes
<1>1. RequestTypes'
    BY DEF Handlers
<1>2. wanted' \in [Request -> [Layer -> 0..MaxOrder]]
    BY UnorderedType DEF OrderTypes
<1>3. QED
    BY <1>1, <1>2

LEMMA ShapeFinish ==
    ASSUME TypeInv, NEW r \in Request, Finish(r),
           \A p \in Puzzle : puzzle[p] # "none" => puzzle'[p] # "none"
    PROVE  RequestShape'
BY Finished DEF TypeInv, RequestTypes, RequestShape

LEMMA TypeStep == TypeInv /\ [Next]_vars => TypeInv'
<1> SUFFICES ASSUME TypeInv, [Next]_vars PROVE TypeInv'
    OBVIOUS
<1> USE DEF TypeInv
<1>1. ASSUME NEW p \in Puzzle, CreatePuzzle(p) \/ SetPuzzleReady(p) \/ SetPuzzleFailed(p)
      PROVE  TypeInv'
    <2> USE DEF CreatePuzzle, SetPuzzleReady, SetPuzzleFailed
    <2>1. OtherTypes'
        BY <1>1 DEF OtherTypes
    <2>2. RequestTypes' /\ LayerTypes' /\ OrderTypes'
        BY <1>1 DEF RequestTypes, LayerTypes, OrderTypes
    <2>3. \A q \in Puzzle : puzzle[q] # "none" => puzzle'[q] # "none"
        BY <1>1 DEF OtherTypes
    <2>4. UNCHANGED <<pc, op, on, lid>>
        BY <1>1
    <2>5. RequestShape'
        BY <2>3, <2>4 DEF RequestShape
    <2>6. QED
        BY <2>1, <2>2, <2>5
<1>2. ASSUME NEW r \in Request, NEW p \in Puzzle, ArriveToCreate(r, p)
      PROVE  TypeInv'
    BY <1>2, UnorderedType, TypeArrive DEF ArriveToCreate, Handlers
<1>3. ASSUME NEW r \in Request, NEW p \in Puzzle, ArriveToReorder(r, p)
      PROVE  TypeInv'
    <2>1. PICK rows \in SUBSET used, w \in [Layer -> 0..MaxOrder] :
            Arrive(r, "reorder", p, None, FALSE, rows, w)
        BY <1>3 DEF ArriveToReorder
    <2>2. rows \in SUBSET Layer
        BY DEF LayerTypes
    <2>3. QED
        BY <2>1, <2>2, TypeArrive DEF Handlers
<1>4. ASSUME NEW r \in Request, NEW p \in Puzzle, ArriveToDeletePuzzle(r, p)
      PROVE  TypeInv'
    BY <1>4, UnorderedType, TypeArrive DEF ArriveToDeletePuzzle, Handlers
<1>5. ASSUME NEW r \in Request, NEW p \in Puzzle, NEW l \in Layer, ArriveToUpdate(r, p, l)
      PROVE  TypeInv'
    <2>1. PICK f \in BOOLEAN, n \in 0..MaxOrder :
            Arrive(r, "update", p, l, f, {}, [k \in Layer |-> n])
        BY <1>5 DEF ArriveToUpdate
    <2>2. [k \in Layer |-> n] \in [Layer -> 0..MaxOrder]
        OBVIOUS
    <2>3. QED
        BY <2>1, <2>2, TypeArrive DEF Handlers
<1>6. ASSUME NEW r \in Request, NEW p \in Puzzle, NEW l \in Layer, ArriveToDelete(r, p, l)
      PROVE  TypeInv'
    BY <1>6, UnorderedType, TypeArrive DEF ArriveToDelete, Handlers
<1>7. ASSUME NEW r \in Request, CheckPuzzle(r) \/ BeginLocking(r) \/ LockLayer(r)
      PROVE  TypeInv'
    <2> USE DEF CheckPuzzle, BeginLocking, LockLayer, LayersOf
    <2>1. RequestTypes'
        BY <1>7 DEF RequestTypes
    <2>2. LayerTypes' /\ OrderTypes'
        BY <1>7 DEF LayerTypes, OrderTypes
    <2>3. OtherTypes'
        BY <1>7 DEF OtherTypes
    <2>4. RequestShape'
        BY <1>7 DEF RequestShape, RequestTypes
    <2>5. QED
        BY <2>1, <2>2, <2>3, <2>4
<1>8. ASSUME NEW r \in Request, PutMedia(r)
      PROVE  TypeInv'
    <2>1. LayerTypes' /\ order' = order /\ OtherTypes'
        BY <1>8 DEF PutMedia, LayerTypes, OtherTypes
    <2>2. puzzle' = puzzle
        BY <1>8 DEF PutMedia
    <2>3. CASE Finish(r)
        BY <2>1, <2>2, <2>3, Finished, ShapeFinish DEF OrderTypes
    <2>4. CASE \E k \in Key \ stored :
                /\ upload' = [upload EXCEPT ![r] = k]
                /\ Goto(r, "write")
                /\ UNCHANGED <<op, on, lid, todo, file, wanted>>
        <3>1. RequestTypes' /\ OrderTypes'
            BY <2>1, <2>4 DEF RequestTypes, OrderTypes
        <3>2. RequestShape'
            BY <1>8, <2>2, <2>4 DEF PutMedia, RequestShape, RequestTypes
        <3>3. QED
            BY <2>1, <3>1, <3>2
    <2>5. QED
        BY <1>8, <2>3, <2>4 DEF PutMedia
<1>9. ASSUME NEW r \in Request, Refuse(r) \/ Abort(r) \/ Fail(r)
      PROVE  TypeInv'
    <2>1. Finish(r) /\ UNCHANGED <<puzzleVars, layerVars, stored>>
        BY <1>9 DEF Refuse, Abort, Fail
    <2>2. held' \in [Layer -> Request \cup {None}]
        BY <1>9 DEF Refuse, Abort, Fail, Release, OtherTypes
    <2>3. QED
        BY <2>1, <2>2, Finished, ShapeFinish DEF LayerTypes, OtherTypes, OrderTypes
<1>10. ASSUME NEW r \in Request,
              \/ CreateLayer(r) \/ UpdateLayer(r) \/ DeleteLayer(r)
              \/ CommitReorder(r) \/ CommitDeletion(r)
       PROVE  TypeInv'
    <2>1. Finish(r)
        BY <1>10 DEF CreateLayer, UpdateLayer, DeleteLayer, CommitReorder, CommitDeletion
    <2>2. LayerTypes'
        <3>1. CASE CreateLayer(r)
            BY <3>1 DEF CreateLayer, LayerTypes, RequestTypes, RequestShape
        <3>2. CASE UpdateLayer(r)
            BY <3>2 DEF UpdateLayer, LayerTypes, RequestTypes, RequestShape
        <3>3. CASE DeleteLayer(r) \/ CommitDeletion(r)
            BY <3>3 DEF DeleteLayer, CommitDeletion, RemoveRows, LayerTypes
        <3>4. CASE CommitReorder(r)
            BY <3>4 DEF CommitReorder, LayerTypes
        <3>5. QED
            BY <1>10, <3>1, <3>2, <3>3, <3>4
    <2>3. order' \in [Layer -> 0..MaxOrder]
        <3>0. \A l \in Layer : wanted[r][l] \in 0..MaxOrder
            BY DEF OrderTypes
        <3>1. CASE CreateLayer(r) \/ UpdateLayer(r)
            BY <3>0, <3>1 DEF CreateLayer, UpdateLayer, OrderTypes, RequestShape
        <3>2. CASE DeleteLayer(r) \/ CommitDeletion(r)
            BY <3>2 DEF DeleteLayer, CommitDeletion, RemoveRows, OrderTypes
        <3>3. CASE CommitReorder(r)
            BY <3>3 DEF CommitReorder, SortOrder, OrderTypes
        <3>4. QED
            BY <1>10, <3>1, <3>2, <3>3
    <2>4. OtherTypes'
        <3>1. CASE CreateLayer(r) \/ UpdateLayer(r) \/ DeleteLayer(r)
            BY <3>1 DEF CreateLayer, UpdateLayer, DeleteLayer, OtherTypes
        <3>2. CASE CommitReorder(r) \/ CommitDeletion(r)
            BY <3>2 DEF CommitReorder, CommitDeletion, Release, OtherTypes
        <3>3. QED
            BY <1>10, <3>1, <3>2
    <2>5. \A p \in Puzzle : puzzle[p] # "none" => puzzle'[p] # "none"
        BY <1>10 DEF CreateLayer, UpdateLayer, DeleteLayer, CommitReorder, CommitDeletion, OtherTypes
    <2>6. QED
        BY <2>1, <2>2, <2>3, <2>4, <2>5, Finished, ShapeFinish DEF OrderTypes
<1>11. CASE UNCHANGED vars
    BY <1>11 DEF vars, RequestTypes, LayerTypes, OtherTypes, OrderTypes, RequestShape
<1>12. QED
    BY <1>1, <1>2, <1>3, <1>4, <1>5, <1>6, <1>7, <1>8, <1>9, <1>10, <1>11 DEF Next, Serve

\* Every variable keeps its type, and a request in progress has its puzzle.
THEOREM TypeCorrect == Spec => []TypeOK
<1>0. TypeInv => TypeOK
    BY DEF TypeInv, TypeOK, RequestTypes, LayerTypes, OtherTypes, OrderTypes
<1>1. Spec => []TypeInv
    BY TypeInit, TypeStep, PTL DEF Spec
<1>2. QED
    BY <1>1, <1>0, PTL

LEMMA TypeAlways == Spec => []TypeInv
BY TypeInit, TypeStep, PTL DEF Spec

(***************************************************************************)
(* Layer 2: the rows.  A request that writes has found its puzzle readable *)
(* and only a deletion takes that back.                                    *)
(***************************************************************************)
WritersHaveRating ==
    \A r \in Request : pc[r] \in {"put", "write"} /\ Exists(on[r]) => on[r] \in rated

RowInv == LayersHaveAPuzzle /\ LayersNeedRating /\ WritersHaveRating

LEMMA RowInit == Init => RowInv
BY DEF Init, RowInv, LayersHaveAPuzzle, LayersNeedRating, WritersHaveRating

\* A request that comes in, looks or waits changes no row of the puzzles and
\* the layers.
Looks(r) ==
    \/ \E p \in Puzzle :
        ArriveToCreate(r, p) \/ ArriveToReorder(r, p) \/ ArriveToDeletePuzzle(r, p)
    \/ \E p \in Puzzle, l \in Layer : ArriveToUpdate(r, p, l) \/ ArriveToDelete(r, p, l)
    \/ Refuse(r) \/ CheckPuzzle(r) \/ BeginLocking(r) \/ LockLayer(r) \/ Abort(r) \/ Fail(r)

LEMMA LooksChangesNoRow ==
    ASSUME NEW r \in Request, Looks(r)
    PROVE  UNCHANGED <<puzzle, rated, owner, media, used, stored>>
BY DEF Looks, ArriveToCreate, ArriveToReorder, ArriveToDeletePuzzle, ArriveToUpdate,
       ArriveToDelete, Arrive, Refuse, CheckPuzzle, BeginLocking, LockLayer, Abort, Fail

LEMMA LooksKeepsOthers ==
    ASSUME TypeInv, NEW r \in Request, Looks(r)
    PROVE  \A s \in Request : s # r =>
             /\ pc'[s] = pc[s] /\ op'[s] = op[s] /\ on'[s] = on[s]
             /\ lid'[s] = lid[s] /\ todo'[s] = todo[s] /\ upload'[s] = upload[s]
<1> USE DEF TypeInv, RequestTypes
<1>1. CASE Finish(r)
    BY <1>1, Finished
<1>2. CASE \E p \in Puzzle :
            ArriveToCreate(r, p) \/ ArriveToReorder(r, p) \/ ArriveToDeletePuzzle(r, p)
    BY <1>2 DEF ArriveToCreate, ArriveToReorder, ArriveToDeletePuzzle, Arrive
<1>3. CASE \E p \in Puzzle, l \in Layer : ArriveToUpdate(r, p, l) \/ ArriveToDelete(r, p, l)
    BY <1>3 DEF ArriveToUpdate, ArriveToDelete, Arrive
<1>4. CASE CheckPuzzle(r) \/ BeginLocking(r) \/ LockLayer(r)
    BY <1>4 DEF CheckPuzzle, BeginLocking, LockLayer
<1>5. QED
    BY <1>1, <1>2, <1>3, <1>4 DEF Looks, Refuse, Abort, Fail

LEMMA LooksToWrite ==
    ASSUME TypeInv, NEW r \in Request, Looks(r), pc'[r] \in {"put", "write"}
    PROVE  pc[r] = "check" /\ Readable(on[r]) /\ on'[r] = on[r] /\ upload'[r] = upload[r]
<1> USE DEF TypeInv, RequestTypes
<1>1. ~Finish(r)
    BY Finished
<1>2. CheckPuzzle(r)
    BY <1>1 DEF Looks, Refuse, Abort, Fail, ArriveToCreate, ArriveToReorder,
                ArriveToDeletePuzzle, ArriveToUpdate, ArriveToDelete, Arrive,
                BeginLocking, LockLayer
<1>3. QED
    BY <1>2 DEF CheckPuzzle, Owned

LEMMA Steps ==
    ASSUME [Next]_vars
    PROVE  \/ \E p \in Puzzle : CreatePuzzle(p) \/ SetPuzzleReady(p) \/ SetPuzzleFailed(p)
           \/ \E r \in Request :
                \/ Looks(r) \/ PutMedia(r) \/ CreateLayer(r) \/ UpdateLayer(r)
                \/ DeleteLayer(r) \/ CommitReorder(r) \/ CommitDeletion(r)
           \/ UNCHANGED vars
BY DEF Next, Serve, Looks

LEMMA RowStep == TypeInv /\ TypeInv' /\ RowInv /\ [Next]_vars => RowInv'
<1> SUFFICES ASSUME TypeInv, TypeInv', RowInv, [Next]_vars PROVE RowInv'
    OBVIOUS
<1> USE DEF RowInv, LayersHaveAPuzzle, LayersNeedRating, WritersHaveRating
<1>1. ASSUME NEW p \in Puzzle, CreatePuzzle(p) \/ SetPuzzleReady(p) \/ SetPuzzleFailed(p)
      PROVE  RowInv'
    <2>1. UNCHANGED <<pc, on, owner>> /\ rated \subseteq rated'
        BY <1>1 DEF CreatePuzzle, SetPuzzleReady, SetPuzzleFailed
    <2>2. \A q \in Puzzle : puzzle[q] # "none" => (Exists(q) <=> Exists(q)')
        BY <1>1 DEF CreatePuzzle, SetPuzzleReady, SetPuzzleFailed, TypeInv, OtherTypes
    <2>3. \A l \in Layer : owner[l] # None => owner[l] \in Puzzle
        BY DEF TypeInv, LayerTypes
    <2>4. \A l \in Layer : owner[l] # None => puzzle[owner[l]] # "none"
        BY <2>3
    <2>5. \A r \in Request : pc[r] \in {"put", "write"} => on[r] \in Puzzle /\ puzzle[on[r]] # "none"
        BY DEF TypeInv, RequestShape
    <2>6. QED
        BY <2>1, <2>2, <2>3, <2>4, <2>5
<1>2. ASSUME NEW r \in Request, Looks(r)
      PROVE  RowInv'
    BY <1>2, LooksChangesNoRow, LooksKeepsOthers, LooksToWrite DEF Readable
<1>3. ASSUME NEW r \in Request, PutMedia(r)
      PROVE  RowInv'
    <2>1. UNCHANGED <<puzzle, rated, owner>> /\ pc[r] = "put"
        BY <1>3 DEF PutMedia
    <2>2. on'[r] = on[r] \/ pc'[r] = "idle"
        BY <1>3, Finished DEF PutMedia
    <2>3. \A s \in Request : s # r => pc'[s] = pc[s] /\ on'[s] = on[s]
        BY <1>3, Finished DEF PutMedia, TypeInv, RequestTypes
    <2>4. QED
        BY <2>1, <2>2, <2>3
<1>4. ASSUME NEW r \in Request, CreateLayer(r)
      PROVE  RowInv'
    <2>1. UNCHANGED <<puzzle, rated>> /\ Finish(r) /\ pc[r] = "write"
        BY <1>4 DEF CreateLayer
    <2>2. \A l \in Layer : owner'[l] # owner[l] => owner'[l] = on[r] /\ Exists(on[r])
        BY <1>4 DEF CreateLayer, TypeInv, LayerTypes
    <2>3. QED
        BY <2>1, <2>2, Finished
<1>5. ASSUME NEW r \in Request, UpdateLayer(r) \/ DeleteLayer(r) \/ CommitReorder(r)
      PROVE  RowInv'
    <2>1. UNCHANGED <<puzzle, rated>> /\ Finish(r)
        BY <1>5 DEF UpdateLayer, DeleteLayer, CommitReorder
    <2>2. \A l \in Layer : owner'[l] = owner[l] \/ owner'[l] = None
        BY <1>5 DEF UpdateLayer, DeleteLayer, CommitReorder, RemoveRows
    <2>3. QED
        BY <2>1, <2>2, Finished
<1>6. ASSUME NEW r \in Request, CommitDeletion(r)
      PROVE  RowInv'
    <2>1. /\ Finish(r)
          /\ \A l \in Layer : owner'[l] = IF owner[l] = on[r] THEN None ELSE owner[l]
        BY <1>6 DEF CommitDeletion, RemoveRows, LayersOf
    <2>2. /\ \A q \in Puzzle : q # on[r] => puzzle'[q] = puzzle[q]
          /\ puzzle'[on[r]] \notin {"processing", "ready", "failed"}
        BY <1>6 DEF CommitDeletion, TypeInv, OtherTypes, RequestShape
    <2>3. rated' = rated \ {on[r]}
        BY <1>6 DEF CommitDeletion
    <2>4. \A l \in Layer : owner[l] # None => owner[l] \in Puzzle
        BY DEF TypeInv, LayerTypes
    <2>5. \A s \in Request : s # r /\ pc[s] \in {"put", "write"} => on[s] \in Puzzle
        BY DEF TypeInv, RequestShape
    <2>6. WritersHaveRating'
        BY <2>1, <2>2, <2>3, <2>5, Finished
    <2>7. QED
        BY <2>1, <2>2, <2>3, <2>4, <2>6
<1>7. CASE UNCHANGED vars
    BY <1>7 DEF vars
<1>8. QED
    BY <1>1, <1>2, <1>3, <1>4, <1>5, <1>6, <1>7, Steps

LEMMA RowAlways == Spec => []RowInv
BY RowInit, RowStep, TypeAlways, PTL DEF Spec

\* No layer is left without its puzzle, however late its INSERT comes.
THEOREM LayersKeepTheirPuzzle == Spec => []LayersHaveAPuzzle
BY RowAlways, PTL DEF RowInv

\* Only a puzzle that has been ready once has layers (GetParentPuzzle fails
\* before).
THEOREM LayersComeAfterRating == Spec => []LayersNeedRating
BY RowAlways, PTL DEF RowInv

(***************************************************************************)
(* Layer 3: the media.  What a request has stored is its own until it is   *)
(* written into a row.                                                     *)
(***************************************************************************)
UploadIsOwn ==
    \A r \in Request : upload[r] # None =>
        /\ upload[r] \in stored
        /\ \A l \in Layer : media[l] # upload[r]
        /\ \A s \in Request : upload[s] = upload[r] => s = r

MediaInv == MediaIsStored /\ UploadIsOwn

LEMMA MediaInit == Init => MediaInv
BY DEF Init, MediaInv, MediaIsStored, UploadIsOwn

LEMMA LooksKeepsUpload ==
    ASSUME TypeInv, NEW r \in Request, Looks(r)
    PROVE  upload'[r] \in {upload[r], None}
<1>1. CASE Finish(r)
    BY <1>1, Finished
<1>2. CASE ~Finish(r)
    BY <1>2 DEF Looks, Refuse, Abort, Fail, CheckPuzzle, BeginLocking, LockLayer, Arrive,
                ArriveToCreate, ArriveToReorder, ArriveToDeletePuzzle, ArriveToUpdate,
                ArriveToDelete
<1>3. QED
    BY <1>1, <1>2

LEMMA MediaStep == TypeInv /\ MediaInv /\ [Next]_vars => MediaInv'
<1> SUFFICES ASSUME TypeInv, MediaInv, [Next]_vars PROVE MediaInv'
    OBVIOUS
<1> USE DEF MediaInv, MediaIsStored, UploadIsOwn
<1>1. ASSUME NEW p \in Puzzle, CreatePuzzle(p) \/ SetPuzzleReady(p) \/ SetPuzzleFailed(p)
      PROVE  MediaInv'
    <2>1. UNCHANGED <<media, stored, upload>>
        BY <1>1 DEF CreatePuzzle, SetPuzzleReady, SetPuzzleFailed
    <2>2. QED
        BY <2>1
<1>2. ASSUME NEW r \in Request, Looks(r)
      PROVE  MediaInv'
    BY <1>2, LooksChangesNoRow, LooksKeepsOthers, LooksKeepsUpload
<1>3. ASSUME NEW r \in Request, PutMedia(r)
      PROVE  MediaInv'
    <2>1. media' = media /\ stored \subseteq stored'
        BY <1>3 DEF PutMedia
    <2>2. CASE Finish(r)
        BY <2>1, <2>2, Finished
    <2>3. CASE ~Finish(r)
        <3>1. PICK k \in Key \ stored :
                stored' = stored \cup {k} /\ upload' = [upload EXCEPT ![r] = k]
            BY <1>3, <2>3 DEF PutMedia
        <3>2. upload'[r] = k /\ \A s \in Request : s # r => upload'[s] = upload[s]
            BY <3>1 DEF TypeInv, RequestTypes
        <3>3. k # None /\ k \notin stored /\ k \in stored'
            BY <3>1
        <3>4. QED
            BY <2>1, <3>2, <3>3
    <2>4. QED
        BY <2>2, <2>3
<1>4. ASSUME NEW r \in Request, CreateLayer(r) \/ UpdateLayer(r) \/ DeleteLayer(r)
      PROVE  MediaInv'
    <2>1. Finish(r) /\ stored' = stored
        BY <1>4 DEF CreateLayer, UpdateLayer, DeleteLayer
    <2>2. CASE \A l \in Layer : media'[l] \in {media[l], None}
        BY <2>1, <2>2, Finished
    <2>3. CASE \E l \in Layer : media' = [media EXCEPT ![l] = upload[r]]
        <3>1. PICK l \in Layer : media' = [media EXCEPT ![l] = upload[r]]
            BY <2>3
        <3>2. media'[l] = upload[r] /\ \A k \in Layer : k # l => media'[k] = media[k]
            BY <3>1 DEF TypeInv, LayerTypes
        <3>3. QED
            BY <2>1, <3>2, Finished
    <2>4. QED
        BY <1>4, <2>2, <2>3 DEF CreateLayer, UpdateLayer, DeleteLayer, RemoveRows, TypeInv, RequestShape
<1>5. ASSUME NEW r \in Request, CommitReorder(r) \/ CommitDeletion(r)
      PROVE  MediaInv'
    <2>1. Finish(r) /\ stored' = stored
        BY <1>5 DEF CommitReorder, CommitDeletion
    <2>2. \A l \in Layer : media'[l] \in {media[l], None}
        BY <1>5 DEF CommitReorder, CommitDeletion, RemoveRows
    <2>3. QED
        BY <2>1, <2>2, Finished
<1>6. CASE UNCHANGED vars
    BY <1>6 DEF vars
<1>7. QED
    BY <1>1, <1>2, <1>3, <1>4, <1>5, <1>6, Steps

\* The key of a layer names an object that is there, and no other layer's.
THEOREM MediaAreStored == Spec => []MediaIsStored
<1>1. MediaInv => MediaIsStored
    BY DEF MediaInv
<1>2. QED
    BY <1>1, MediaInit, MediaStep, TypeAlways, PTL DEF Spec

(***************************************************************************)
(* Layer 4: the locks.  A transaction may hold rows of any puzzle; a        *)
(* deletion has all rows of its own locked or to lock.                     *)
(***************************************************************************)
ToLock(r) == IF pc[r] = "lock" THEN todo[r] \cup {lid[r]} ELSE todo[r]

UsedOnce == \A l \in Layer : owner[l] # None => l \in used

DeletionCovers ==
    \A r \in Request : op[r] = "deletePuzzle" /\ pc[r] \in {"lock", "commit"} =>
        \A l \in LayersOf(on[r]) : held[l] = r \/ l \in ToLock(r)

CommitHasAll ==
    \A r \in Request :
        pc[r] = "commit" \/ (pc[r] = "check" /\ op[r] = "deletePuzzle") => todo[r] = {}

LockInv == LockedRowsStay /\ UsedOnce /\ DeletionCovers /\ CommitHasAll

LEMMA LockInit == Init => LockInv
BY DEF Init, LockInv, LockedRowsStay, UsedOnce, DeletionCovers, CommitHasAll, ToLock

\* A handler outside of a transaction ends without a lock to give up.
LEMMA NoLock ==
    ASSUME LockInv, NEW r \in Request, pc[r] \notin {"lock", "commit"}
    PROVE  \A l \in Layer : held[l] # r
BY DEF LockInv, LockedRowsStay

LEMMA LockStep == TypeInv /\ TypeInv' /\ RowInv /\ RowInv' /\ LockInv /\ [Next]_vars => LockInv'
<1> SUFFICES ASSUME TypeInv, TypeInv', RowInv, RowInv', LockInv, [Next]_vars PROVE LockInv'
    OBVIOUS
<1> USE DEF LockInv, LockedRowsStay, UsedOnce, DeletionCovers, CommitHasAll, ToLock, LayersOf
\* A row that is there has its puzzle.
<1>0. ASSUME \A l \in Layer : held'[l] # None =>
                pc'[held'[l]] \in {"lock", "commit"} /\ owner'[l] # None
      PROVE  LockedRowsStay'
    BY <1>0 DEF RowInv, LayersHaveAPuzzle
<1>1. ASSUME NEW p \in Puzzle, CreatePuzzle(p) \/ SetPuzzleReady(p) \/ SetPuzzleFailed(p)
      PROVE  LockInv'
    <2>1. UNCHANGED <<layerVars, held, requestVars>>
        BY <1>1 DEF CreatePuzzle, SetPuzzleReady, SetPuzzleFailed
    <2>2. QED
        BY <1>0, <2>1
<1>2. ASSUME NEW r \in Request, Looks(r), pc[r] = "idle"
      PROVE  LockInv'
    <2>1. UNCHANGED <<layerVars, held>>
        BY <1>2 DEF Looks, ArriveToCreate, ArriveToReorder, ArriveToDeletePuzzle, ArriveToUpdate,
                    ArriveToDelete, Arrive, Refuse, CheckPuzzle, BeginLocking, LockLayer, Abort,
                    WaitsFor, Deadlocked, Fail
    <2>2. PICK o \in Handlers, p \in Puzzle, k \in Layer \cup {None}, f \in BOOLEAN,
               rows \in SUBSET Layer, w \in [Layer -> 0..MaxOrder] :
            /\ Arrive(r, o, p, k, f, rows, w)
            /\ o = "deletePuzzle" => rows = {}
        <3>1. \A n \in 0..MaxOrder : [l \in Layer |-> n] \in [Layer -> 0..MaxOrder]
            OBVIOUS
        <3>3. CASE \E p \in Puzzle : ArriveToCreate(r, p)
            <4>1. PICK p \in Puzzle, f \in BOOLEAN :
                    Arrive(r, "create", p, None, f, {}, Unordered)
                BY <3>3 DEF ArriveToCreate
            <4>2. QED
                BY <4>1, UnorderedType DEF Handlers
        <3>4. CASE \E p \in Puzzle : ArriveToDeletePuzzle(r, p)
            BY <3>4, UnorderedType DEF ArriveToDeletePuzzle, Handlers
        <3>5. CASE \E p \in Puzzle : ArriveToReorder(r, p)
            <4>1. PICK p \in Puzzle, rows \in SUBSET used, w \in [Layer -> 0..MaxOrder] :
                    Arrive(r, "reorder", p, None, FALSE, rows, w)
                BY <3>5 DEF ArriveToReorder
            <4>2. rows \in SUBSET Layer
                BY DEF TypeInv, LayerTypes
            <4>3. QED
                BY <4>1, <4>2 DEF Handlers
        <3>6. CASE \E p \in Puzzle, l \in Layer : ArriveToUpdate(r, p, l)
            <4>1. PICK p \in Puzzle, l \in Layer : ArriveToUpdate(r, p, l)
                BY <3>6
            <4>2. PICK f \in BOOLEAN, n \in 0..MaxOrder :
                    Arrive(r, "update", p, l, f, {}, [k \in Layer |-> n])
                BY <4>1 DEF ArriveToUpdate
            <4>3. QED
                BY <3>1, <4>2 DEF Handlers
        <3>7. CASE \E p \in Puzzle, l \in Layer : ArriveToDelete(r, p, l)
            BY <3>7, UnorderedType DEF ArriveToDelete, Handlers
        <3>8. QED
            BY <1>2, <3>3, <3>4, <3>5, <3>6, <3>7
               DEF Looks, Refuse, CheckPuzzle, BeginLocking, LockLayer, Abort, Deadlocked,
                   WaitsFor, Fail
    <2>3. /\ pc'[r] = "check" /\ op'[r] = o /\ todo'[r] = rows
        BY <2>2 DEF Arrive, TypeInv, RequestTypes
    <2>4. \A s \in Request : s # r =>
            pc'[s] = pc[s] /\ op'[s] = op[s] /\ on'[s] = on[s] /\ lid'[s] = lid[s] /\ todo'[s] = todo[s]
        BY <1>2, LooksKeepsOthers
    <2>5. \A l \in Layer : held[l] # r
        BY <1>2, NoLock
    <2>6. \A l \in Layer : held'[l] # None =>
            pc'[held'[l]] \in {"lock", "commit"} /\ owner'[l] # None
        BY <2>1, <2>4, <2>5 DEF TypeInv, OtherTypes
    <2>7. DeletionCovers' /\ CommitHasAll'
        BY <2>1, <2>2, <2>3, <2>4
    <2>8. QED
        BY <1>0, <2>1, <2>6, <2>7
<1>3. ASSUME NEW r \in Request, CheckPuzzle(r) \/ PutMedia(r), ~Finish(r)
      PROVE  LockInv'
    <2>1. /\ UNCHANGED <<layerVars, held, op, on, lid, todo>>
          /\ pc[r] \in {"check", "put"} /\ pc'[r] \in {"put", "write"}
          /\ \A s \in Request : s # r => pc'[s] = pc[s]
        BY <1>3 DEF CheckPuzzle, PutMedia, TypeInv, RequestTypes
    <2>2. \A l \in Layer : held[l] # r
        BY <2>1, NoLock
    <2>3. QED
        BY <1>0, <2>1, <2>2 DEF TypeInv, OtherTypes
<1>4. ASSUME NEW r \in Request, BeginLocking(r)
      PROVE  LockInv'
    <2>1. /\ UNCHANGED <<layerVars, held, op, on>> /\ pc[r] = "check"
          /\ \A s \in Request : s # r => pc'[s] = pc[s] /\ lid'[s] = lid[s] /\ todo'[s] = todo[s]
        BY <1>4 DEF BeginLocking, TypeInv, RequestTypes
    <2> DEFINE rows == IF op[r] = "reorder" THEN todo[r] ELSE LayersOf(on[r])
    <2>2. /\ pc'[r] \in {"lock", "commit"}
          /\ ToLock(r)' = rows
          /\ pc'[r] = "commit" => todo'[r] = {}
        <3>1. CASE rows = {} /\ Goto(r, "commit") /\ UNCHANGED <<lid, todo>>
            <4>1. todo[r] = {}
                BY <1>4, <2>1, <3>1 DEF BeginLocking
            <4>2. QED
                BY <3>1, <4>1 DEF TypeInv, RequestTypes
        <3>2. CASE \E l \in rows : /\ lid' = [lid EXCEPT ![r] = l]
                                  /\ todo' = [todo EXCEPT ![r] = rows \ {l}]
                                  /\ Goto(r, "lock")
            BY <3>2 DEF TypeInv, RequestTypes
        <3>3. QED
            BY <1>4, <3>1, <3>2 DEF BeginLocking
    <2>3. \A l \in Layer : held[l] # r
        BY <2>1, NoLock
    <2>4. LockedRowsStay'
        BY <1>0, <2>1, <2>3 DEF TypeInv, OtherTypes
    <2>5. DeletionCovers'
        BY <2>1, <2>2
    <2>6. QED
        BY <2>1, <2>2, <2>4, <2>5
<1>5. ASSUME NEW r \in Request, LockLayer(r)
      PROVE  LockInv'
    <2>1. /\ UNCHANGED <<layerVars, op, on>> /\ pc[r] = "lock" /\ lid[r] \in Layer
          /\ held[lid[r]] = None
          /\ \A s \in Request : s # r => pc'[s] = pc[s] /\ lid'[s] = lid[s] /\ todo'[s] = todo[s]
        BY <1>5 DEF LockLayer, TypeInv, RequestTypes, RequestShape
    <2>2. /\ pc'[r] \in {"lock", "commit"}
          /\ ToLock(r)' = todo[r]
          /\ pc'[r] = "commit" => todo'[r] = {}
        BY <1>5 DEF LockLayer, TypeInv, RequestTypes
    <2>3. \A l \in Layer : held'[l] = IF l = lid[r] /\ owner[l] # None THEN r ELSE held[l]
        BY <1>5 DEF LockLayer, TypeInv, OtherTypes
    <2>4. LockedRowsStay'
        BY <1>0, <2>1, <2>2, <2>3 DEF TypeInv, OtherTypes
    <2>5. \A l \in Layer : owner[l] = on[r] => owner[l] # None
        BY <2>1 DEF TypeInv, RequestShape
    <2>6. DeletionCovers'
        BY <2>1, <2>2, <2>3, <2>5
    <2>7. QED
        BY <2>1, <2>2, <2>4, <2>6
\* A request that ends takes its locks with it and leaves those of the others.
<1>6. ASSUME NEW r \in Request, Finish(r), UsedOnce',
             \A l \in Layer : held'[l] = IF held[l] = r THEN None ELSE held[l],
             \A l \in Layer : owner'[l] # owner[l] =>
                /\ held[l] \in {r, None}
                /\ owner'[l] = None \/ (l \notin used /\ ~Deleting(owner'[l])),
             used \subseteq used'
      PROVE  LockInv'
    <2>1. \A s \in Request : s # r =>
            pc'[s] = pc[s] /\ op'[s] = op[s] /\ on'[s] = on[s] /\ lid'[s] = lid[s] /\ todo'[s] = todo[s]
        BY <1>6, Finished
    <2>2. pc'[r] = "idle" /\ todo'[r] = {}
        BY <1>6, Finished
    <2>3. LockedRowsStay'
        BY <1>0, <1>6, <2>1 DEF TypeInv, OtherTypes
    <2>5. DeletionCovers'
        BY <1>6, <2>1, <2>2 DEF Deleting, TypeInv, RequestShape
    <2>6. CommitHasAll'
        BY <2>1, <2>2
    <2>7. QED
        BY <1>6, <2>3, <2>5, <2>6
<1>7. ASSUME NEW r \in Request, Abort(r) \/ Fail(r)
      PROVE  LockInv'
    <2>1. Finish(r) /\ UNCHANGED layerVars
        BY <1>7 DEF Abort, Fail
    <2>2. \A l \in Layer : held'[l] = IF held[l] = r THEN None ELSE held[l]
        BY <1>7 DEF Abort, Fail, Release
    <2>3. QED
        BY <1>6, <2>1, <2>2
<1>8. ASSUME NEW r \in Request, Refuse(r) \/ PutMedia(r), Finish(r)
       PROVE  LockInv'
    <2>1. pc[r] \in {"check", "put"} /\ UNCHANGED <<layerVars, held>>
        BY <1>8 DEF Refuse, PutMedia
    <2>2. QED
        BY <1>6, <1>8, <2>1, NoLock
<1>9. ASSUME NEW r \in Request, CreateLayer(r) \/ UpdateLayer(r) \/ DeleteLayer(r)
       PROVE  LockInv'
    <2>1. pc[r] = "write" /\ Finish(r) /\ held' = held /\ used \subseteq used'
        BY <1>9 DEF CreateLayer, UpdateLayer, DeleteLayer, RemoveRows
    <2>2. CASE CreateLayer(r)
        <3>1. CASE UNCHANGED layerVars
            BY <1>6, <2>1, <3>1, NoLock
        <3>2. CASE \E l \in Layer \ used :
                    owner' = [owner EXCEPT ![l] = on[r]] /\ used' = used \cup {l}
            <4>1. PICK l \in Layer \ used :
                    owner' = [owner EXCEPT ![l] = on[r]] /\ used' = used \cup {l}
                BY <3>2
            <4>2. owner'[l] = on[r] /\ \A k \in Layer : k # l => owner'[k] = owner[k]
                BY <4>1 DEF TypeInv, LayerTypes
            <4>3. held[l] = None /\ ~Deleting(on[r])
                <5>1. held[l] # None => owner[l] # None
                    BY DEF TypeInv, OtherTypes, RequestTypes, RequestShape
                <5>2. QED
                    BY <2>2, <4>1, <5>1 DEF CreateLayer
            <4>4. UsedOnce'
                BY <4>1, <4>2
            <4>5. QED
                BY <1>6, <2>1, <4>1, <4>2, <4>3, <4>4, NoLock
        <3>3. QED
            BY <2>2, <3>1, <3>2 DEF CreateLayer
    <2>3. CASE UpdateLayer(r) \/ DeleteLayer(r)
        <3>1. \A l \in Layer : owner'[l] # owner[l] => held[l] = None /\ owner'[l] = None
            BY <2>3 DEF UpdateLayer, DeleteLayer, RemoveRows
        <3>2. used' = used
            BY <2>3 DEF UpdateLayer, DeleteLayer, RemoveRows
        <3>3. QED
            BY <1>6, <2>1, <3>1, <3>2, NoLock
    <2>4. QED
        BY <1>9, <2>2, <2>3
<1>10. ASSUME NEW r \in Request, CommitReorder(r)
       PROVE  LockInv'
    <2>1. Finish(r) /\ UNCHANGED <<owner, used>>
        BY <1>10 DEF CommitReorder
    <2>2. \A l \in Layer : held'[l] = IF held[l] = r THEN None ELSE held[l]
        BY <1>10 DEF CommitReorder, Release
    <2>3. QED
        BY <1>6, <2>1, <2>2
<1>11. ASSUME NEW r \in Request, CommitDeletion(r)
       PROVE  LockInv'
    <2>1. Finish(r) /\ used' = used /\ pc[r] = "commit" /\ op[r] = "deletePuzzle"
        BY <1>11 DEF CommitDeletion, RemoveRows
    <2>2. \A l \in Layer : held'[l] = IF held[l] = r THEN None ELSE held[l]
        BY <1>11 DEF CommitDeletion, Release
    <2>3. \A l \in Layer : owner'[l] # owner[l] => l \in LayersOf(on[r]) /\ owner'[l] = None
        BY <1>11 DEF CommitDeletion, RemoveRows
    <2>4. \A l \in LayersOf(on[r]) : held[l] = r
        BY <2>1
    <2>5. QED
        BY <1>6, <2>1, <2>2, <2>3, <2>4
<1>13. CASE UNCHANGED vars
    BY <1>13, <1>0 DEF vars
<1>12. ASSUME NEW r \in Request, Looks(r), pc[r] # "idle"
       PROVE  LockInv'
    <2>1. \/ CheckPuzzle(r) \/ BeginLocking(r) \/ LockLayer(r) \/ Abort(r) \/ Fail(r)
          \/ Refuse(r)
        BY <1>12 DEF Looks, ArriveToCreate, ArriveToReorder, ArriveToDeletePuzzle,
                     ArriveToUpdate, ArriveToDelete, Arrive
    <2>2. CheckPuzzle(r) => ~Finish(r)
        BY Finished DEF CheckPuzzle, TypeInv, RequestTypes
    <2>3. Refuse(r) => Finish(r)
        BY DEF Refuse
    <2>4. QED
        BY <1>3, <1>4, <1>5, <1>7, <1>8, <2>1, <2>2, <2>3
<1>14. QED
    BY <1>1, <1>2, <1>3, <1>13, <1>8, <1>9, <1>10, <1>11, <1>12, Steps

LEMMA LockAlways == Spec => []LockInv
BY LockInit, LockStep, TypeAlways, RowAlways, PTL DEF Spec

\* A request changes rows that nobody holds, or that it holds and gives up with
\* the same step.
LEMMA HeldRowsKept ==
    ASSUME TypeInv, LockInv, [Next]_vars, NEW l \in Layer, held[l] # None, held'[l] = held[l]
    PROVE  owner'[l] = owner[l] /\ order'[l] = order[l] /\ media'[l] = media[l]
<1> USE DEF LockInv, LockedRowsStay
<1>1. owner[l] # None /\ l \in used
    BY DEF UsedOnce
<1>2. CASE UNCHANGED layerVars
    BY <1>2
<1>3. ASSUME NEW r \in Request, CreateLayer(r) \/ UpdateLayer(r) \/ DeleteLayer(r)
      PROVE  owner'[l] = owner[l] /\ order'[l] = order[l] /\ media'[l] = media[l]
    <2>1. CASE \E k \in Layer \ used :
                /\ owner' = [owner EXCEPT ![k] = on[r]]
                /\ order' = [order EXCEPT ![k] = wanted[r][k]]
                /\ media' = [media EXCEPT ![k] = upload[r]]
        BY <1>1, <2>1 DEF TypeInv, LayerTypes, OrderTypes
    <2>2. CASE UpdateLayer(r) \/ DeleteLayer(r)
        BY <2>2 DEF UpdateLayer, DeleteLayer, RemoveRows, TypeInv, LayerTypes, OrderTypes
    <2>3. QED
        BY <1>2, <1>3, <2>1, <2>2 DEF CreateLayer
<1>4. ASSUME NEW r \in Request, CommitReorder(r)
      PROVE  owner'[l] = owner[l] /\ order'[l] = order[l] /\ media'[l] = media[l]
    <2>1. held[l] # r
        BY <1>4 DEF CommitReorder, Release
    <2>2. QED
        BY <1>4, <2>1 DEF CommitReorder
<1>5. ASSUME NEW r \in Request, CommitDeletion(r)
      PROVE  owner'[l] = owner[l] /\ order'[l] = order[l] /\ media'[l] = media[l]
    <2>1. held[l] # r
        BY <1>5 DEF CommitDeletion, Release
    <2>2. l \notin LayersOf(on[r])
        BY <1>5, <2>1 DEF CommitDeletion, DeletionCovers, CommitHasAll, ToLock
    <2>3. QED
        BY <1>5, <2>2 DEF CommitDeletion, RemoveRows
<1>6. ASSUME NEW r \in Request, Looks(r) \/ PutMedia(r)
      PROVE  UNCHANGED layerVars
    BY <1>6 DEF Looks, ArriveToCreate, ArriveToReorder, ArriveToDeletePuzzle, ArriveToUpdate,
                ArriveToDelete, Arrive, Refuse, CheckPuzzle, BeginLocking, LockLayer, Abort,
                Fail, PutMedia
<1>7. ASSUME NEW p \in Puzzle, CreatePuzzle(p) \/ SetPuzzleReady(p) \/ SetPuzzleFailed(p)
      PROVE  UNCHANGED layerVars
    BY <1>7 DEF CreatePuzzle, SetPuzzleReady, SetPuzzleFailed
<1>8. CASE UNCHANGED vars
    BY <1>8 DEF vars
<1>9. QED
    BY <1>2, <1>3, <1>4, <1>5, <1>6, <1>7, <1>8, Steps

\* A row that a reorder or a deletion has locked is there, and is not changed by
\* anyone else, until that transaction ends, whichever puzzle the row is of.
THEOREM LockedRowsAreKept == Spec => []LockedRowsStay /\ LockedRowsUnchanged
<1>1. LockInv => LockedRowsStay
    BY DEF LockInv
<1>2. TypeInv /\ LockInv /\ [Next]_vars =>
        [\A l \in Layer : held[l] # None /\ held'[l] = held[l] =>
            owner'[l] = owner[l] /\ order'[l] = order[l] /\ media'[l] = media[l]]_vars
    BY HeldRowsKept
<1>3. QED
    BY <1>1, <1>2, TypeAlways, LockAlways, PTL DEF Spec, LockedRowsUnchanged

=============================================================================
