-------------------------------- MODULE Play --------------------------------
(***************************************************************************)
(* One browser tab of a child: the screens it shows and their history, the *)
(* game and its completion timer, the reward, the PIN login, and the       *)
(* requests on their way to the server, whose play_results they fill.      *)
(*                                                                         *)
(*   web/src/pages/game       GameScreen, RewardPage, RewardScreen         *)
(*   web/src/pages/ChildSelect.tsx, web/src/api.ts, web/src/app.tsx        *)
(*   internal/handler/play.go, internal/store/play.go                      *)
(*                                                                         *)
(* Each event handler, timer, answer and request is one action.  What      *)
(* happens on the board of a game is abstracted to module Assembly, which  *)
(* module Board implements; but the router may put another puzzle on a     *)
(* GameScreen that stays mounted, so the pieces that stick are those of    *)
(* the mount, not of the puzzle.                                           *)
(***************************************************************************)
EXTENDS Integers, Sequences, FiniteSetsExt

CONSTANTS
    Puzzle,      \* catalogue puzzles
    Child,       \* children with a PIN
    Nobody,      \* no child token, no puzzle loaded
    Pieces,      \* Pieces[p], the pieces of a puzzle
    Layers,      \* Layers[p], how many reward layers a puzzle has
    MaxHistory,  \* how many entries the browser keeps
    MaxGames     \* bound: games solved or entered straight from another game

ASSUME PlayAssumption ==
    /\ \A p \in Puzzle :
        /\ Pieces[p] # {} /\ IsFiniteSet(Pieces[p])
        /\ \A q \in Puzzle \ {p} : Pieces[p] \cap Pieces[q] = {}
    /\ Nobody \notin Child \cup Puzzle
    /\ Layers \in [Puzzle -> Nat]
    /\ MaxHistory \in Nat \ {0}
    /\ MaxGames \in Nat

VARIABLES
    history,   \* the screens of the session history
    cursor,    \* which of them is shown
    loading,   \* the screen shows its spinner
    fetching,  \* puzzles whose data the mounted screen waits for
    of,        \* the puzzle whose data it holds, or Nobody
    error,     \* a game could not be loaded
    placedIds, \* the pieces that stick, of whatever puzzle
    timer,     \* the 700 ms timer of a solved game runs
    phase,     \* of the mounted RewardScreen
    index,     \* its layerIndex
    busy,      \* the child whose PIN the mounted ChildSelect submits, or Nobody
    pins,      \* children with a PIN request on its way
    token,     \* sessionStorage.child_token, as its child, or Nobody
    sent,      \* sent[p][b]: completions of p on their way, with which token
    answers,   \* answers[p]: their answers on the way back
    results,   \* results[p]: rows of p in play_results
    solves,    \* solves[p]: times the last piece of p was placed
    crossed,   \* crossed[p]: times p was put on the screen of another game
    loaded,    \* the last step has loaded the document afresh
    player,    \* the token when the mounted game was entered, or Nobody
    mixed      \* a reward was entered straight from another one

gameVars == <<of, error, placedIds, timer>>
mountVars == <<loading, fetching, gameVars, phase, index, busy, player, mixed>>
netVars == <<pins, token, sent, answers, results>>
vars == <<history, cursor, mountVars, netVars, solves, crossed, loaded>>

Catalog == <<"catalog">>
Select == <<"select">>
PlayOf(p) == <<"play", p>>
RewardOf(p) == <<"reward", p>>

Screens == {Catalog, Select} \cup {PlayOf(p) : p \in Puzzle} \cup {RewardOf(p) : p \in Puzzle}

Screen == history[cursor]

\* The puzzles a screen asks the server for when it is mounted.
Asks(s) == {p \in Puzzle : s = PlayOf(p) \/ s = RewardOf(p)}

IsPlay(s) == \E p \in Puzzle : s = PlayOf(p)
IsReward(s) == \E p \in Puzzle : s = RewardOf(p)

AllPieces == UNION {Pieces[p] : p \in Puzzle}

\* The assembly of a puzzle, among the pieces that stick.
Game(p) == INSTANCE Assembly WITH Piece <- Pieces[p], placed <- placedIds \cap Pieces[p]

\* A request carries a child's token or none.
Bearers == {"child", "anonymous"}

TypeOK ==
    /\ history \in Seq(Screens)
    /\ Len(history) <= MaxHistory
    /\ cursor \in 1..Len(history)
    /\ loading \in BOOLEAN
    /\ fetching \subseteq Puzzle
    /\ of \in Puzzle \cup {Nobody}
    /\ error \in BOOLEAN
    /\ placedIds \subseteq AllPieces
    /\ timer \in BOOLEAN
    /\ phase \in {"confetti", "layers", "done"}
    /\ index \in Nat
    /\ busy \in Child \cup {Nobody}
    /\ pins \subseteq Child
    /\ token \in Child \cup {Nobody}
    /\ sent \in [Puzzle -> [Bearers -> Nat]]
    /\ answers \in [Puzzle -> Nat]
    /\ results \in [Puzzle -> Nat]
    /\ solves \in [Puzzle -> Nat]
    /\ crossed \in [Puzzle -> Nat]
    /\ loaded \in BOOLEAN
    /\ player \in Child \cup {Nobody}
    /\ mixed \in BOOLEAN

NoneSent == [p \in Puzzle |-> [b \in Bearers |-> 0]]
NoneOf == [p \in Puzzle |-> 0]

Init ==
    /\ history \in {<<Catalog>>, <<Select>>}
    /\ cursor = 1
    /\ loading = FALSE
    /\ fetching = {}
    /\ of = Nobody
    /\ error = FALSE
    /\ placedIds = {}
    /\ timer = FALSE
    /\ phase = "confetti"
    /\ index = 0
    /\ busy = Nobody
    /\ token = Nobody
    /\ pins = {}
    /\ sent = NoneSent
    /\ answers = NoneOf
    /\ results = NoneOf
    /\ solves = NoneOf
    /\ crossed = NoneOf
    /\ loaded = FALSE
    /\ player = Nobody
    /\ mixed = FALSE

-----------------------------------------------------------------------------
(* Screens.                                                                *)

\* A screen is unmounted, with its state and, by the clean-up of the effect,
\* its timer; another is mounted and asks for its puzzle.
Mount(s) ==
    /\ fetching' = Asks(s)
    /\ loading' = (Asks(s) # {})
    /\ of' = Nobody
    /\ error' = FALSE
    /\ placedIds' = {}
    /\ timer' = FALSE
    /\ phase' = "confetti"
    /\ index' = 0
    /\ busy' = Nobody
    /\ player' = IF IsPlay(s) THEN token' ELSE Nobody
    /\ mixed' = FALSE

\* Mutant of AllPlaced: one piece early.
AllPlacedEarly ==
    of' # Nobody /\ Cardinality(placedIds') + 1 >= Cardinality(Pieces[of'])

\* placedIds.size >= puzzle.pieces.length, whichever puzzle the pieces are of.
AllPlaced == of' # Nobody /\ Cardinality(placedIds') >= Cardinality(Pieces[of'])

\* What MaxGames bounds.
Games == MapThenSumSet(LAMBDA p : solves[p] + crossed[p], Puzzle)

\* The router shows s.  The component of a route stays mounted when only its
\* :id changes, and asks for the new puzzle.  A game keeps its board and its
\* pieces meanwhile; the effect clears the timer and, with as many pieces as the
\* puzzle it holds, starts it for the new id.  Two requests for the same puzzle
\* are one here.
Show(s) ==
    \/ s = Screen /\ UNCHANGED <<mountVars, crossed>>
    \/ \E p \in Puzzle :
        /\ s = PlayOf(p) /\ s # Screen /\ IsPlay(Screen)
        /\ Games < MaxGames
        /\ crossed' = [crossed EXCEPT ![p] = @ + 1]
        /\ fetching' = fetching \cup {p}
        /\ UNCHANGED <<loading, of, error, placedIds, phase, index, busy, player, mixed>>
        /\ timer' = AllPlaced
    \/ /\ s # Screen
       /\ IsReward(s) /\ IsReward(Screen)
       /\ fetching' = fetching \cup Asks(s)
       /\ mixed' = TRUE
       /\ UNCHANGED <<loading, gameVars, phase, index, busy, player, crossed>>
    \/ /\ s # Screen
       /\ ~(IsPlay(s) /\ IsPlay(Screen))
       /\ ~(IsReward(s) /\ IsReward(Screen))
       /\ UNCHANGED crossed
       /\ Mount(s)

\* navigate: what lay ahead is gone, and the oldest entry when there are too many.
Navigate(s) ==
    LET kept == Append(SubSeq(history, 1, cursor), s)
        long == Len(kept) > MaxHistory
    IN  /\ history' = IF long THEN Tail(kept) ELSE kept
        /\ cursor' = IF long THEN cursor ELSE cursor + 1
        /\ Show(s)

\* A game is on the screen and can be played: the puzzle that was loaded, which
\* may not be the one of the address.
Playing(p) == IsPlay(Screen) /\ of = p /\ ~error

\* The game's header: history.back().
Back ==
    /\ \E p \in Puzzle : Playing(p)
    /\ cursor > 1
    /\ UNCHANGED <<history, netVars, solves>>
    /\ loaded' = FALSE
    /\ cursor' = cursor - 1
    /\ Show(history[cursor - 1])

\* Back, forward or the history menu of the browser, which may pass over entries.
Jump ==
    \E n \in DOMAIN history \ {cursor} :
        /\ UNCHANGED <<history, netVars, solves>>
        /\ loaded' = FALSE
        /\ cursor' = n
        /\ Show(history[n])

\* The document is loaded afresh: nothing is left of the old one but the
\* sessionStorage.  Its completions are handled all the same, or never reach the
\* server; no answer reaches it any more.  Bound: not after MaxGames games.
LoadDocument(screens, shown) ==
    /\ Games < MaxGames
    /\ loaded' = TRUE
    /\ history' = screens
    /\ cursor' = shown
    /\ Mount(screens[shown])
    /\ pins' = {}
    /\ sent' = NoneSent
    /\ answers' = NoneOf
    /\ results' \in {results, [p \in Puzzle |-> results[p] + sent[p]["child"]]}
    /\ UNCHANGED <<solves, crossed>>

\* The player reloads the page.
Reload ==
    /\ UNCHANGED token
    /\ LoadDocument(history, cursor)

\* The player enters the address of the catalogue or of the PIN screen, which no
\* other screen leads to.
EnterAddress ==
    /\ UNCHANGED token
    /\ \E s \in {Catalog, Select} : LoadDocument(<<s>>, 1)

-----------------------------------------------------------------------------
(* Catalogue, game and reward.                                             *)

\* A card of CatalogPublic.
OpenPuzzle(p) ==
    /\ Screen = Catalog
    /\ UNCHANGED <<netVars, solves>>
    /\ loaded' = FALSE
    /\ Navigate(PlayOf(p))

\* api.catalog.get of GameScreen and of RewardPage: then or catch, and finally.
\* A game runs its effect again for the new puzzle, and never forgets an error; a
\* reward does without layers.  An answer for a screen that is gone does nothing.
Fetched(p) ==
    /\ p \in fetching
    /\ fetching' = fetching \ {p}
    /\ loading' = FALSE
    /\ UNCHANGED <<history, cursor, placedIds, phase, index, busy, player, mixed, netVars,
                   solves, crossed>>
    /\ loaded' = FALSE
    /\ \/ /\ of' = p
          /\ timer' = (IsPlay(Screen) /\ AllPlaced)
          /\ UNCHANGED error
       \/ /\ error' = (error \/ IsPlay(Screen))
          /\ UNCHANGED <<of, timer>>

\* A piece sticks; with the last one the effect starts the timer.
PlaceOne(p) ==
    /\ Playing(p)
    /\ Games < MaxGames
    /\ \E x \in Pieces[p] : placedIds' = placedIds \cup {x} /\ Game(p)!PlacePiece(x)
    /\ UNCHANGED <<history, cursor, loading, fetching, of, error, phase, index, busy, player,
                   mixed, netVars, crossed>>
    /\ loaded' = FALSE
    /\ timer' = AllPlaced
    /\ solves' = IF Pieces[p] \subseteq placedIds' THEN [solves EXCEPT ![p] = @ + 1] ELSE solves

\* A completion carries the token of this moment, if there is one.
Bearer == IF token = Nobody THEN "anonymous" ELSE "child"

\* Mutant of TimerFires: an interval instead of a timeout.
TimerRepeats(p) ==
    /\ Screen = PlayOf(p)
    /\ timer
    /\ sent[p][Bearer] < MaxGames
    /\ sent' = [sent EXCEPT ![p][Bearer] = @ + 1]
    /\ UNCHANGED <<history, cursor, mountVars, pins, token, answers, results, solves, crossed>>
    /\ loaded' = FALSE

\* api.play.complete.
TimerFires(p) ==
    /\ Screen = PlayOf(p)
    /\ timer
    /\ timer' = FALSE
    /\ sent' = [sent EXCEPT ![p][Bearer] = @ + 1]
    /\ UNCHANGED <<history, cursor, loading, fetching, of, error, placedIds, phase, index,
                   busy, player, mixed, pins, token, answers, results, solves, crossed>>
    /\ loaded' = FALSE

\* HandlePlayComplete: ok whatever happened; a row when the token is a child's
\* and no statement fails.  A request that is lost is answered by an error.
HandlePlayComplete(p, b) ==
    /\ sent[p][b] > 0
    /\ sent' = [sent EXCEPT ![p][b] = @ - 1]
    /\ answers' = [answers EXCEPT ![p] = @ + 1]
    /\ \/ b = "child" /\ results' = [results EXCEPT ![p] = @ + 1]
       \/ UNCHANGED results
    /\ UNCHANGED <<history, cursor, mountVars, pins, token, solves, crossed>>
    /\ loaded' = FALSE

\* Mutant of Completed: the answer of a game that was left is ignored.
CompletedIfMounted(p) ==
    /\ answers[p] > 0
    /\ answers' = [answers EXCEPT ![p] = @ - 1]
    /\ UNCHANGED <<pins, token, sent, results, solves>>
    /\ loaded' = FALSE
    /\ IF Screen = PlayOf(p) THEN Navigate(RewardOf(p))
       ELSE UNCHANGED <<history, cursor, mountVars, crossed>>

\* finally(navigate), on whatever screen the player is by now.
Completed(p) ==
    /\ answers[p] > 0
    /\ answers' = [answers EXCEPT ![p] = @ - 1]
    /\ UNCHANGED <<pins, token, sent, results, solves>>
    /\ loaded' = FALSE
    /\ Navigate(RewardOf(p))

\* layers ?? [] of the puzzle the page holds.
LayerCount == IF of = Nobody THEN 0 ELSE Layers[of]

\* advance: a tap, or the end of a sound or film.  Beyond the last layer there
\* is nothing on the screen to tap.
Advance ==
    /\ IsReward(Screen) /\ ~loading
    /\ \/ /\ phase = "confetti"
          /\ phase' = IF LayerCount = 0 THEN "done" ELSE "layers"
          /\ index' = IF LayerCount = 0 THEN index ELSE 0
       \/ /\ phase = "layers" /\ index < LayerCount
          /\ phase' = IF index + 1 < LayerCount THEN "layers" ELSE "done"
          /\ index' = IF index + 1 < LayerCount THEN index + 1 ELSE index
    /\ UNCHANGED <<history, cursor, loading, fetching, gameVars, busy, player, mixed,
                   netVars, solves, crossed>>
    /\ loaded' = FALSE

\* The two buttons of a finished reward.
Replay(p) ==
    /\ Screen = RewardOf(p)
    /\ ~loading
    /\ phase = "done"
    /\ UNCHANGED <<netVars, solves>>
    /\ loaded' = FALSE
    /\ Navigate(PlayOf(p))

\* Mutant of Home: a path the router does not know.
HomeMisrouted ==
    /\ \/ \E p \in Puzzle : Playing(p)
       \/ IsReward(Screen) /\ ~loading /\ phase = "done"
    /\ UNCHANGED <<netVars, solves>>
    /\ loaded' = FALSE
    /\ Navigate(<<"home">>)

\* Home of the game's header, "to the catalogue" of the reward.
Home ==
    /\ \/ \E p \in Puzzle : Playing(p)
       \/ IsReward(Screen) /\ ~loading /\ phase = "done"
    /\ UNCHANGED <<netVars, solves>>
    /\ loaded' = FALSE
    /\ Navigate(Catalog)

-----------------------------------------------------------------------------
(* The PIN screen.                                                         *)

\* The fourth digit of a PIN.  Bound: one such request at a time.
SubmitPin(c) ==
    /\ Screen = Select
    /\ busy = Nobody
    /\ pins = {}
    /\ busy' = c
    /\ pins' = pins \cup {c}
    /\ UNCHANGED <<history, cursor, loading, fetching, gameVars, phase, index, player,
                   mixed, token, sent, answers, results, solves, crossed>>
    /\ loaded' = FALSE

\* Mutant of PinAccepted: a screen that was left does not navigate any more.
PinAcceptedIfMounted(c) ==
    /\ c \in pins
    /\ pins' = pins \ {c}
    /\ token' = c
    /\ UNCHANGED <<sent, answers, results, solves>>
    /\ loaded' = FALSE
    /\ IF Screen = Select THEN Navigate(Catalog)
       ELSE UNCHANGED <<history, cursor, mountVars, crossed>>

\* then: the token of the session changes, and with it the screen.
PinAccepted(c) ==
    /\ c \in pins
    /\ pins' = pins \ {c}
    /\ token' = c
    /\ Navigate(Catalog)
    /\ UNCHANGED <<sent, answers, results, solves>>
    /\ loaded' = FALSE

\* 401: request sends the tab to the login of the parents, whose pages load the
\* catalogue as another document.
PinRefused(c) ==
    /\ c \in pins
    /\ UNCHANGED token
    /\ LoadDocument(<<Catalog>>, 1)

\* Any other error, for the screen that asked.
PinFails(c) ==
    /\ c \in pins
    /\ pins' = pins \ {c}
    /\ busy' = IF busy = c THEN Nobody ELSE busy
    /\ UNCHANGED <<history, cursor, loading, fetching, gameVars, phase, index, player,
                   mixed, token, sent, answers, results, solves, crossed>>
    /\ loaded' = FALSE

-----------------------------------------------------------------------------
Deliver(p) ==
    \/ TimerFires(p)
    \/ Completed(p)
    \/ \E b \in Bearers : HandlePlayComplete(p, b)

Next ==
    \/ Back
    \/ Jump
    \/ Reload
    \/ EnterAddress
    \/ Advance
    \/ Home
    \/ \E p \in Puzzle :
        \/ OpenPuzzle(p)
        \/ Fetched(p)
        \/ PlaceOne(p)
        \/ Replay(p)
        \/ Deliver(p)
    \/ \E c \in Child :
        \/ SubmitPin(c)
        \/ PinAccepted(c)
        \/ PinRefused(c)
        \/ PinFails(c)

Spec == Init /\ [][Next]_vars

\* Every request is answered, if only with an error.  Nothing is asked of the
\* player.
FairSpec ==
    /\ Spec
    /\ \A p \in Puzzle :
        /\ WF_vars(Completed(p))
        /\ WF_vars(\E b \in Bearers : HandlePlayComplete(p, b))

-----------------------------------------------------------------------------
(* Properties.                                                             *)

\* Late answers and the history may bring the player to a reward from anywhere,
\* but only to that of a puzzle solved in this tab, or put on the screen of
\* another game.
RewardsAreEarned ==
    \A i \in DOMAIN history : \A p \in Puzzle :
        history[i] = RewardOf(p) => solves[p] > 0 \/ crossed[p] > 0

\* A game solved once is reported and recorded at most once, whatever was left,
\* replayed, revisited or answered late, unless the puzzle was put on the screen
\* of another game.
ResultsAreEarned ==
    \A p \in Puzzle : crossed[p] = 0 =>
        results[p] + sent[p]["child"] + sent[p]["anonymous"]
          + (IF timer /\ Screen = PlayOf(p) THEN 1 ELSE 0) <= solves[p]

\* A completion is reported when a puzzle is completed: a result means that the
\* puzzle was solved in this tab.
CompletedIsSolved == \A p \in Puzzle : results[p] > 0 => solves[p] > 0

\* The result goes to the child that has played the whole game: the answer to a
\* PIN that arrives during a game ends it.
CreditedToPlayer == IsPlay(Screen) => token = player

\* The timer runs only over a finished board of the game on the screen, unless
\* that was put on the screen of another game.
TimerBelongsToGame ==
    timer => \E p \in Puzzle :
        Screen = PlayOf(p) /\ (crossed[p] = 0 => Playing(p) /\ Game(p)!Solved)

\* A reward shows the layers of its own puzzle, one after the other, and never
\* an empty screen; only a late answer that replaces one reward by another,
\* whose component stays mounted, spoils it.
RewardIsOwn ==
    ~mixed =>
        /\ \A p \in Puzzle : Screen = RewardOf(p) => of \in {p, Nobody}
        /\ phase = "layers" => index < LayerCount

\* A game that was reported comes to its reward, on whatever screen the player
\* is, unless the document is loaded afresh first.
ReportIsRewarded ==
    \A p \in Puzzle :
        answers[p] > 0 \/ (\E b \in Bearers : sent[p][b] > 0)
            ~> Screen = RewardOf(p) \/ loaded

=============================================================================
