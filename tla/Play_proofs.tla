---------------------------- MODULE Play_proofs -----------------------------
(***************************************************************************)
(* What holds in a child's tab for any number of puzzles, children, pieces *)
(* and layers and any length of the history.  Each layer of the invariant  *)
(* is inductive relative to the ones before it.                            *)
(***************************************************************************)
EXTENDS Play, SequenceTheorems, FiniteSetTheorems, TLAPS

USE PlayAssumption

(***************************************************************************)
(* The screens, and what the router does to the history.                   *)
(***************************************************************************)
LEMMA ScreenKinds ==
    /\ Catalog \in Screens /\ Select \in Screens
    /\ ~IsPlay(Catalog) /\ ~IsReward(Catalog) /\ ~IsPlay(Select) /\ ~IsReward(Select)
    /\ \A p \in Puzzle :
        /\ PlayOf(p) \in Screens /\ RewardOf(p) \in Screens
        /\ PlayOf(p) # Catalog /\ RewardOf(p) # Catalog
        /\ PlayOf(p) # Select /\ RewardOf(p) # Select
    /\ \A p, q \in Puzzle :
        /\ PlayOf(p) # RewardOf(q)
        /\ PlayOf(p) = PlayOf(q) => p = q
        /\ RewardOf(p) = RewardOf(q) => p = q
BY DEF Screens, Catalog, Select, PlayOf, RewardOf, IsPlay, IsReward

HistoryType ==
    /\ history \in Seq(Screens)
    /\ Len(history) <= MaxHistory
    /\ cursor \in 1..Len(history)

MountType ==
    /\ loading \in BOOLEAN
    /\ fetching \subseteq Puzzle
    /\ of \in Puzzle \cup {Nobody}
    /\ error \in BOOLEAN
    /\ placedIds \subseteq AllPieces
    /\ timer \in BOOLEAN
    /\ phase \in {"confetti", "layers", "done"}
    /\ index \in Nat
    /\ busy \in Child \cup {Nobody}
    /\ player \in Child \cup {Nobody}
    /\ mixed \in BOOLEAN

CountType ==
    /\ sent \in [Puzzle -> [Bearers -> Nat]]
    /\ answers \in [Puzzle -> Nat]
    /\ results \in [Puzzle -> Nat]
    /\ solves \in [Puzzle -> Nat]
    /\ crossed \in [Puzzle -> Nat]

PinType ==
    /\ pins \subseteq Child
    /\ token \in Child \cup {Nobody}
    /\ loaded \in BOOLEAN

TypeInv == HistoryType /\ MountType /\ CountType /\ PinType

\* The tab goes to s: by a link, an answer, back or forward.
Goes(s) ==
    /\ Show(s)
    /\ Screen' = s
    /\ HistoryType'
    /\ \A i \in DOMAIN history' :
        history'[i] = s \/ \E j \in DOMAIN history : history'[i] = history[j]

LEMMA NavigateGoes ==
    ASSUME HistoryType, NEW s \in Screens, Navigate(s)
    PROVE  Goes(s)
<1> DEFINE old == SubSeq(history, 1, cursor)
           kept == Append(old, s)
           long == Len(kept) > MaxHistory
<1> USE DEF HistoryType
<1>1. /\ old \in Seq(Screens) /\ Len(old) = cursor
      /\ \A i \in 1..cursor : old[i] = history[i]
    <2>1. \A i \in 1..cursor : history[i] \in Screens
        BY ElementOfSeq
    <2>2. cursor \in Int /\ 1 <= cursor
        OBVIOUS
    <2> HIDE DEF HistoryType
    <2>3. QED
        BY <2>1, <2>2, SubSeqProperties
<1> HIDE DEF old
<1>2. /\ kept \in Seq(Screens) /\ kept # <<>> /\ Len(kept) = cursor + 1
      /\ \A i \in 1..cursor : kept[i] = history[i]
      /\ kept[cursor + 1] = s
    BY <1>1, AppendProperties
<1>3. /\ history' = IF long THEN Tail(kept) ELSE kept
      /\ cursor' = IF long THEN cursor ELSE cursor + 1
      /\ Show(s)
    BY DEF Navigate, old
<1> HIDE DEF kept
<1>4. /\ Tail(kept) \in Seq(Screens) /\ Len(Tail(kept)) = cursor
      /\ \A i \in 1..cursor : Tail(kept)[i] = kept[i + 1]
    BY <1>2, HeadTailProperties
<1>5. HistoryType' /\ history'[cursor'] = s
    BY <1>2, <1>3, <1>4
<1>6. \A i \in DOMAIN history' :
        history'[i] = s \/ \E j \in DOMAIN history : history'[i] = history[j]
    <2>1. \A i \in 1..cursor + 1 :
            kept[i] = s \/ \E j \in DOMAIN history : kept[i] = history[j]
        <3>1. DOMAIN history = 1..Len(history)
            BY LenProperties
        <3>2. QED
            BY <1>2, <3>1
    <2>2. CASE long
        <3>1. DOMAIN history' = 1..cursor
            BY <1>3, <1>4, <2>2, LenProperties
        <3>2. \A i \in 1..cursor : i + 1 \in 1..cursor + 1
            OBVIOUS
        <3>3. QED
            BY <1>3, <1>4, <2>1, <2>2, <3>1, <3>2
    <2>3. CASE ~long
        <3>1. DOMAIN history' = 1..cursor + 1
            BY <1>2, <1>3, <2>3, LenProperties
        <3>2. QED
            BY <1>3, <2>1, <2>3, <3>1
    <2>4. QED
        BY <2>2, <2>3
<1>7. QED
    BY <1>3, <1>5, <1>6 DEF Goes, Screen

(***************************************************************************)
(* Every step is one of eight kinds.  Those that change the screen:        *)
(***************************************************************************)
Travels(s) ==
    /\ Goes(s)
    /\ pins' \subseteq pins
    /\ token' \in Child \cup {Nobody}
    /\ token' = token \/ s = Catalog
    /\ answers' \in [Puzzle -> Nat]
    /\ \A p \in Puzzle : answers'[p] <= answers[p]
    /\ \A p \in Puzzle : s = RewardOf(p) =>
        answers[p] > 0 \/ \E j \in DOMAIN history : history[j] = s
    /\ UNCHANGED <<sent, results, solves>>
    /\ loaded' = FALSE

Loads(screens, shown) ==
    /\ LoadDocument(screens, shown)
    /\ token' = token
    /\ HistoryType'
    /\ \A i \in DOMAIN screens :
        screens[i] \in {Catalog, Select} \/ \E j \in DOMAIN history : screens[i] = history[j]

LEMMA Steps ==
    ASSUME TypeInv, Next
    PROVE  \/ \E s \in Screens : Travels(s)
           \/ \E screens \in Seq(Screens), shown \in Nat : Loads(screens, shown)
           \/ \E p \in Puzzle : Fetched(p) \/ PlaceOne(p) \/ TimerFires(p)
           \/ \E p \in Puzzle : \E b \in Bearers : HandlePlayComplete(p, b)
           \/ Advance
           \/ \E c \in Child : SubmitPin(c) \/ PinFails(c)
<1> DEFINE Goal == \E s \in Screens : Travels(s)
           Loading == \E screens \in Seq(Screens), shown \in Nat : Loads(screens, shown)
<1> USE DEF TypeInv, CountType, PinType
<1>1. ASSUME NEW s \in Screens, Navigate(s), UNCHANGED <<netVars, solves>>, loaded' = FALSE,
             \A p \in Puzzle : s # RewardOf(p)
      PROVE  Goal
    BY <1>1, NavigateGoes DEF Travels, netVars
<1>2. ASSUME NEW n \in 1..Len(history), cursor' = n, Show(history[n]),
             UNCHANGED <<history, netVars, solves>>, loaded' = FALSE
      PROVE  Goal
    <2>1. history[n] \in Screens /\ n \in DOMAIN history
        BY ElementOfSeq, LenProperties DEF HistoryType
    <2>2. HistoryType' /\ history'[cursor'] = history[n]
        BY <1>2 DEF HistoryType
    <2>3. Goes(history[n])
        BY <1>2, <2>2 DEF Goes, Screen
    <2>4. UNCHANGED <<pins, token, answers, sent, results, solves>> /\ loaded' = FALSE
        BY <1>2 DEF netVars
    <2>5. Travels(history[n])
        <3> HIDE DEF TypeInv
        <3>1. answers' \in [Puzzle -> Nat] /\ \A p \in Puzzle : answers'[p] <= answers[p]
            BY <2>4 DEF TypeInv
        <3>2. QED
            BY <2>1, <2>3, <2>4, <3>1 DEF Travels, TypeInv
    <2>6. QED
        BY <2>1, <2>5
<1>3. ASSUME NEW p \in Puzzle, Completed(p)
      PROVE  Goal
    <2>1. /\ Goes(RewardOf(p))
          /\ UNCHANGED <<pins, token, sent, results, solves>> /\ loaded' = FALSE
          /\ answers[p] > 0 /\ answers' = [answers EXCEPT ![p] = @ - 1]
        BY <1>3, NavigateGoes, ScreenKinds DEF Completed
    <2>2. answers' \in [Puzzle -> Nat] /\ \A q \in Puzzle : answers'[q] <= answers[q]
        BY <2>1
    <2>3. \A q \in Puzzle : RewardOf(p) = RewardOf(q) => answers[q] > 0
        BY <2>1, ScreenKinds
    <2>4. Travels(RewardOf(p))
        BY <2>1, <2>2, <2>3 DEF Travels
    <2>5. QED
        BY <2>4, ScreenKinds
<1>4. ASSUME NEW c \in Child, PinAccepted(c)
      PROVE  Goal
    <2>1. Goes(Catalog)
        BY <1>4, NavigateGoes, ScreenKinds DEF PinAccepted
    <2>2. Travels(Catalog)
        BY <1>4, <2>1, ScreenKinds DEF PinAccepted, Travels
    <2>3. QED
        BY <2>2, ScreenKinds
<1>5. ASSUME NEW s \in {Catalog, Select}, LoadDocument(<<s>>, 1), token' = token
      PROVE  Loading
    <2>1. <<s>> \in Seq(Screens) /\ Len(<<s>>) = 1
        BY ScreenKinds
    <2>2. HistoryType'
        BY <1>5, <2>1 DEF LoadDocument, HistoryType
    <2>3. Loads(<<s>>, 1)
        BY <1>5, <2>2 DEF Loads
    <2>4. QED
        BY <2>1, <2>3
<1>6. CASE Reload
    <2>1. HistoryType'
        BY <1>6 DEF Reload, LoadDocument, HistoryType
    <2>2. Loads(history, cursor)
        BY <1>6, <2>1 DEF Reload, Loads
    <2>3. QED
        BY <2>2 DEF HistoryType
<1>7. CASE EnterAddress \/ \E c \in Child : PinRefused(c)
    BY <1>5, <1>7 DEF EnterAddress, PinRefused
<1>8. CASE Back \/ Jump
    <2>1. CASE Back
        <3>1. cursor - 1 \in 1..Len(history)
            BY <2>1 DEF Back, HistoryType
        <3>2. /\ cursor' = cursor - 1 /\ Show(history[cursor - 1])
              /\ UNCHANGED <<history, netVars, solves>> /\ loaded' = FALSE
            BY <2>1 DEF Back
        <3>3. Goal
            BY ONLY <1>2, <3>1, <3>2
        <3>4. QED
            BY <3>3
    <2>2. CASE Jump
        <3>1. DOMAIN history = 1..Len(history)
            BY LenProperties DEF HistoryType
        <3>2. PICK n \in 1..Len(history) :
                /\ UNCHANGED <<history, netVars, solves>> /\ loaded' = FALSE
                /\ cursor' = n /\ Show(history[n])
            BY <2>2, <3>1 DEF Jump
        <3>3. QED
            BY <1>2, <3>2
    <2>3. QED
        BY <1>8, <2>1, <2>2
<1>9. CASE Home \/ \E p \in Puzzle : OpenPuzzle(p) \/ Replay(p)
    BY <1>1, <1>9, ScreenKinds DEF Home, OpenPuzzle, Replay
<1>10. QED
    BY <1>3, <1>4, <1>6, <1>7, <1>8, <1>9 DEF Next, Deliver

(***************************************************************************)
(* Layer 1: types.                                                         *)
(***************************************************************************)
LEMMA TypeInit == Init => TypeInv
<1> SUFFICES ASSUME Init PROVE TypeInv
    OBVIOUS
<1> USE DEF Init
<1>1. HistoryType
    <2>1. PICK s \in Screens : history = <<s>> /\ cursor = 1
        BY ScreenKinds
    <2>2. <<s>> \in Seq(Screens) /\ Len(<<s>>) = 1
        OBVIOUS
    <2>3. QED
        BY <2>1, <2>2 DEF HistoryType
<1>2. MountType
    BY DEF MountType
<1>3. PinType
    BY DEF PinType
<1>4. CountType
    <2>1. NoneSent \in [Puzzle -> [Bearers -> Nat]]
        BY DEF NoneSent
    <2>2. NoneOf \in [Puzzle -> Nat]
        BY DEF NoneOf
    <2>3. QED
        BY <2>1, <2>2 DEF CountType
<1>5. QED
    BY <1>1, <1>2, <1>3, <1>4 DEF TypeInv

LEMMA MountTyped ==
    ASSUME NEW s, Mount(s), token' \in Child \cup {Nobody}
    PROVE  MountType'
BY DEF Mount, MountType, Asks

\* What Show does, case by case.
Stays(s) == s = Screen /\ UNCHANGED <<mountVars, crossed>>

Crosses(p, s) ==
    /\ s = PlayOf(p) /\ s # Screen /\ IsPlay(Screen)
    /\ crossed' = [crossed EXCEPT ![p] = @ + 1]
    /\ fetching' = fetching \cup {p}
    /\ UNCHANGED <<loading, of, error, placedIds, phase, index, busy, player, mixed>>
    /\ timer' \in BOOLEAN

Mixes(s) ==
    /\ IsReward(s) /\ IsReward(Screen)
    /\ fetching' \subseteq Puzzle \cup fetching
    /\ mixed' = TRUE
    /\ UNCHANGED <<loading, gameVars, phase, index, busy, player, crossed>>

LEMMA ShowCases ==
    ASSUME NEW s, Show(s)
    PROVE  \/ Stays(s)
           \/ \E p \in Puzzle : Crosses(p, s)
           \/ Mixes(s)
           \/ Mount(s) /\ crossed' = crossed
<1>1. ASSUME NEW p \in Puzzle, s = PlayOf(p), s # Screen, IsPlay(Screen),
             crossed' = [crossed EXCEPT ![p] = @ + 1], fetching' = fetching \cup {p},
             UNCHANGED <<loading, of, error, placedIds, phase, index, busy, player, mixed>>,
             timer' = AllPlaced
      PROVE  Crosses(p, s)
    BY <1>1 DEF Crosses, AllPlaced
<1>2. ASSUME IsReward(s), IsReward(Screen), fetching' = fetching \cup Asks(s), mixed' = TRUE,
             UNCHANGED <<loading, gameVars, phase, index, busy, player, crossed>>
      PROVE  Mixes(s)
    BY <1>2 DEF Mixes, Asks
<1>3. QED
    BY <1>1, <1>2 DEF Show, Stays

LEMMA ShowTyped ==
    ASSUME MountType, CountType, NEW s, Show(s), token' \in Child \cup {Nobody}
    PROVE  /\ MountType'
           /\ crossed' \in [Puzzle -> Nat]
           /\ \A p \in Puzzle : crossed'[p] >= crossed[p]
<1>1. CASE Stays(s)
    BY <1>1 DEF Stays, MountType, CountType, mountVars, gameVars
<1>2. CASE Mount(s) /\ crossed' = crossed
    BY <1>2, MountTyped DEF CountType
<1>3. CASE Mixes(s)
    BY <1>3 DEF Mixes, MountType, CountType, gameVars
<1>4. ASSUME NEW p \in Puzzle, Crosses(p, s)
      PROVE  /\ MountType' /\ crossed' \in [Puzzle -> Nat]
             /\ \A q \in Puzzle : crossed'[q] >= crossed[q]
    <2>1. MountType'
        BY <1>4 DEF Crosses, MountType
    <2>2. QED
        BY <1>4, <2>1 DEF Crosses, CountType
<1>5. QED
    BY <1>1, <1>2, <1>3, <1>4, ShowCases

LEMMA LayerCountIsNat == MountType => LayerCount \in Nat
BY DEF LayerCount, MountType

LEMMA TypeStep == TypeInv /\ [Next]_vars => TypeInv'
<1> SUFFICES ASSUME TypeInv, [Next]_vars PROVE TypeInv'
    OBVIOUS
<1> USE DEF TypeInv
<1>1. ASSUME NEW s \in Screens, Travels(s)
      PROVE  TypeInv'
    <2>1. /\ Show(s) /\ HistoryType' /\ pins' \subseteq pins
          /\ token' \in Child \cup {Nobody} /\ answers' \in [Puzzle -> Nat]
          /\ UNCHANGED <<sent, results, solves>> /\ loaded' = FALSE
        BY <1>1 DEF Travels, Goes
    <2>2. MountType' /\ crossed' \in [Puzzle -> Nat]
        BY <2>1, ShowTyped
    <2>3. QED
        BY <2>1, <2>2 DEF CountType, PinType
<1>2. ASSUME NEW screens \in Seq(Screens), NEW shown \in Nat, Loads(screens, shown)
      PROVE  TypeInv'
    <2>1. MountType'
        BY <1>2, MountTyped DEF Loads, LoadDocument, PinType
    <2>2. NoneSent \in [Puzzle -> [Bearers -> Nat]] /\ NoneOf \in [Puzzle -> Nat]
        BY DEF NoneSent, NoneOf
    <2>3. [p \in Puzzle |-> results[p] + sent[p]["child"]] \in [Puzzle -> Nat]
        <3>1. \A p \in Puzzle : results[p] \in Nat /\ sent[p]["child"] \in Nat
            BY DEF CountType, Bearers
        <3>2. QED
            BY <3>1
    <2>4. CountType'
        BY <1>2, <2>2, <2>3 DEF Loads, LoadDocument, CountType
    <2>5. PinType'
        BY <1>2 DEF Loads, LoadDocument, PinType
    <2>6. QED
        BY <1>2, <2>1, <2>4, <2>5 DEF Loads
<1>3. ASSUME NEW p \in Puzzle, Fetched(p)
      PROVE  TypeInv'
    BY <1>3 DEF Fetched, AllPlaced, HistoryType, MountType, CountType, PinType, netVars
<1>4. ASSUME NEW p \in Puzzle, PlaceOne(p)
      PROVE  TypeInv'
    <2>1. /\ UNCHANGED <<history, cursor, loading, fetching, of, error, phase, index, busy,
                         player, mixed, netVars, crossed>>
          /\ timer' \in BOOLEAN /\ loaded' = FALSE
        BY <1>4 DEF PlaceOne, AllPlaced
    <2>2. placedIds' \subseteq AllPieces
        BY <1>4 DEF PlaceOne, MountType, AllPieces
    <2>3. solves' \in [Puzzle -> Nat]
        BY <1>4 DEF PlaceOne, CountType
    <2>4. QED
        BY <2>1, <2>2, <2>3 DEF HistoryType, MountType, CountType, PinType, netVars
<1>5. ASSUME NEW p \in Puzzle, TimerFires(p)
      PROVE  TypeInv'
    <2>1. sent' \in [Puzzle -> [Bearers -> Nat]]
        BY <1>5 DEF TimerFires, CountType, Bearers, Bearer
    <2>2. QED
        BY <1>5, <2>1 DEF TimerFires, HistoryType, MountType, CountType, PinType
<1>6. ASSUME NEW p \in Puzzle, NEW b \in Bearers, HandlePlayComplete(p, b)
      PROVE  TypeInv'
    <2>1. sent' \in [Puzzle -> [Bearers -> Nat]]
        BY <1>6 DEF HandlePlayComplete, CountType
    <2>2. answers' \in [Puzzle -> Nat] /\ results' \in [Puzzle -> Nat]
        BY <1>6 DEF HandlePlayComplete, CountType
    <2>3. QED
        BY <1>6, <2>1, <2>2
           DEF HandlePlayComplete, HistoryType, MountType, CountType, PinType, mountVars, gameVars
<1>7. CASE Advance
    <2>1. /\ UNCHANGED <<history, cursor, loading, fetching, of, error, placedIds, timer, busy,
                         player, mixed, netVars, solves, crossed>>
          /\ loaded' = FALSE
          /\ phase' \in {"layers", "done"} /\ index' \in {index, index + 1, 0}
        BY <1>7 DEF Advance, gameVars
    <2>2. index' \in Nat
        BY <2>1 DEF MountType
    <2>3. QED
        BY <2>1, <2>2 DEF HistoryType, MountType, CountType, PinType, netVars
<1>8. ASSUME NEW c \in Child, SubmitPin(c) \/ PinFails(c)
      PROVE  TypeInv'
    BY <1>8 DEF SubmitPin, PinFails, HistoryType, MountType, CountType, PinType, gameVars
<1>9. CASE UNCHANGED vars
    BY <1>9
       DEF vars, mountVars, gameVars, netVars, HistoryType, MountType, CountType, PinType
<1>10. QED
    BY <1>1, <1>2, <1>3, <1>4, <1>5, <1>6, <1>7, <1>8, <1>9, Steps

LEMMA TypeAlways == Spec => []TypeInv
BY TypeInit, TypeStep, PTL DEF Spec

\* Every variable of a child's tab keeps its type.
THEOREM TypeCorrect == Spec => []TypeOK
<1>1. TypeInv => TypeOK
    BY DEF TypeInv, HistoryType, MountType, CountType, PinType, TypeOK
<1>2. QED
    BY <1>1, TypeAlways, PTL

(***************************************************************************)
(* Layer 2: the mounted screen.  A game that was not put on the screen of  *)
(* another waits for, holds and assembles its own puzzle only, and nothing *)
(* before it has come; a reward that was not entered from another one      *)
(* waits for and holds its own, and has its answer before a tap reaches it.*)
(***************************************************************************)
GameIsOwn ==
    \A p \in Puzzle : Screen = PlayOf(p) /\ crossed[p] = 0 =>
        /\ fetching \subseteq {p} /\ of \in {p, Nobody} /\ placedIds \subseteq Pieces[p]
        /\ fetching # {} => of = Nobody /\ placedIds = {}

RewardWaits ==
    ~mixed => \A p \in Puzzle : Screen = RewardOf(p) =>
        fetching \subseteq {p} /\ of \in {p, Nobody} /\ (~loading => fetching = {})

TappedIsLoaded == phase = "layers" => IsReward(Screen) /\ ~loading

LayerIsThere == ~mixed /\ phase = "layers" => index < LayerCount

\* TimerBelongsToGame, with the assembly spelled out.
TimerFits ==
    timer => \E p \in Puzzle :
        /\ Screen = PlayOf(p)
        /\ crossed[p] = 0 => of = p /\ ~error /\ Pieces[p] \subseteq placedIds

ScreenInv ==
    /\ GameIsOwn /\ RewardWaits /\ TappedIsLoaded /\ LayerIsThere
    /\ CreditedToPlayer /\ TimerFits

LEMMA AsksOwn ==
    \A p \in Puzzle : Asks(PlayOf(p)) \subseteq {p} /\ Asks(RewardOf(p)) \subseteq {p}
BY ScreenKinds DEF Asks

LEMMA MountedScreen ==
    ASSUME NEW s, Mount(s), Screen' = s
    PROVE  ScreenInv'
<1>1. GameIsOwn' /\ RewardWaits'
    BY AsksOwn DEF Mount, GameIsOwn, RewardWaits
<1>2. TappedIsLoaded' /\ LayerIsThere' /\ TimerFits'
    BY DEF Mount, TappedIsLoaded, LayerIsThere, TimerFits
<1>3. CreditedToPlayer'
    BY DEF Mount, CreditedToPlayer
<1>4. QED
    BY <1>1, <1>2, <1>3 DEF ScreenInv

\* What a step leaves alone when it touches neither screen, timer nor token.
ScreenVars == <<history, cursor, loading, fetching, gameVars, phase, index, token, player,
                mixed, crossed>>

LEMMA SameScreen ==
    ASSUME ScreenInv, UNCHANGED ScreenVars
    PROVE  ScreenInv'
BY DEF ScreenVars, gameVars, ScreenInv, GameIsOwn, RewardWaits, TappedIsLoaded, LayerIsThere,
       LayerCount, CreditedToPlayer, TimerFits, Screen

\* As many pieces of a puzzle as it has are all of them.
LEMMA AllArePlaced ==
    ASSUME NEW p \in Puzzle, NEW S \in SUBSET Pieces[p], Cardinality(S) >= Cardinality(Pieces[p])
    PROVE  S = Pieces[p]
<1>1. IsFiniteSet(Pieces[p])
    OBVIOUS
<1>2. /\ IsFiniteSet(S) /\ Cardinality(S) <= Cardinality(Pieces[p])
      /\ Cardinality(S) \in Nat /\ Cardinality(Pieces[p]) \in Nat
    BY <1>1, FS_Subset, FS_CardinalityType
<1>3. Cardinality(S) = Cardinality(Pieces[p])
    BY <1>2
<1>4. QED
    BY <1>1, <1>3, FS_Subset

LEMMA ScreenInit == Init => ScreenInv
<1> SUFFICES ASSUME Init PROVE ScreenInv
    OBVIOUS
<1>1. Screen \in {Catalog, Select}
    BY DEF Init, Screen
<1>2. QED
    BY <1>1, ScreenKinds
       DEF Init, ScreenInv, GameIsOwn, RewardWaits, TappedIsLoaded, LayerIsThere,
           CreditedToPlayer, TimerFits

LEMMA ScreenStep == TypeInv /\ ScreenInv /\ [Next]_vars => ScreenInv'
<1> SUFFICES ASSUME TypeInv, ScreenInv, [Next]_vars PROVE ScreenInv'
    OBVIOUS
<1>1. ASSUME NEW s \in Screens, Travels(s)
      PROVE  ScreenInv'
    <2>1. Show(s) /\ Screen' = s /\ (token' = token \/ s = Catalog)
        BY <1>1 DEF Travels, Goes
    <2>2. CASE Mount(s)
        BY <2>1, <2>2, MountedScreen
    <2>3. CASE Stays(s)
        <3>1. IsPlay(s) => token' = token
            BY <2>1, ScreenKinds
        <3>2. QED
            BY <2>1, <2>3, <3>1
               DEF Stays, mountVars, gameVars, ScreenInv, GameIsOwn, RewardWaits,
                   TappedIsLoaded, LayerIsThere, LayerCount, CreditedToPlayer, TimerFits
    <2>4. CASE Mixes(s)
        <3>1. \A p \in Puzzle : s # PlayOf(p) /\ Screen # PlayOf(p)
            BY <2>4, ScreenKinds DEF Mixes, IsReward
        <3>2. ~IsPlay(s) /\ ~timer
            BY <3>1 DEF IsPlay, ScreenInv, TimerFits
        <3>3. QED
            BY <2>1, <2>4, <3>1, <3>2
               DEF Mixes, gameVars, ScreenInv, GameIsOwn, RewardWaits, TappedIsLoaded,
                   LayerIsThere, CreditedToPlayer, TimerFits
    <2>5. ASSUME NEW p \in Puzzle, Crosses(p, s)
          PROVE  ScreenInv'
        <3>1. /\ s = PlayOf(p) /\ crossed'[p] > 0 /\ ~IsReward(s) /\ ~IsReward(Screen)
              /\ \A q \in Puzzle : s = PlayOf(q) => q = p
              /\ \A q \in Puzzle : s # RewardOf(q)
            BY <2>5, ScreenKinds DEF Crosses, TypeInv, CountType, IsReward, IsPlay
        <3>2. /\ GameIsOwn' /\ RewardWaits' /\ TimerFits'
            BY <2>1, <3>1 DEF GameIsOwn, RewardWaits, TimerFits
        <3>3. phase # "layers" /\ phase' = phase
            BY <2>5, <3>1 DEF Crosses, ScreenInv, TappedIsLoaded
        <3>4. CreditedToPlayer'
            BY <2>1, <2>5, ScreenKinds DEF Crosses, ScreenInv, CreditedToPlayer
        <3>5. QED
            BY <3>2, <3>3, <3>4 DEF ScreenInv, TappedIsLoaded, LayerIsThere
    <2>6. QED
        BY <2>1, <2>2, <2>3, <2>4, <2>5, ShowCases
<1>2. ASSUME NEW screens \in Seq(Screens), NEW shown \in Nat, Loads(screens, shown)
      PROVE  ScreenInv'
    BY <1>2, MountedScreen DEF Loads, LoadDocument, Screen
<1>3. ASSUME NEW p \in Puzzle, Fetched(p)
      PROVE  ScreenInv'
    <2>1. /\ UNCHANGED <<history, cursor, placedIds, phase, index, player, mixed, token,
                         crossed>>
          /\ p \in fetching /\ fetching' = fetching \ {p} /\ ~loading'
          /\ \/ of' = p /\ timer' = (IsPlay(Screen) /\ AllPlaced) /\ error' = error
             \/ of' = of /\ timer' = timer
        BY <1>3 DEF Fetched, netVars
    <2>2. Screen' = Screen
        BY <2>1 DEF Screen
    <2>3. \A q \in Puzzle : Screen = PlayOf(q) /\ crossed[q] = 0 => p = q /\ placedIds = {}
        BY <2>1 DEF ScreenInv, GameIsOwn
    <2>4. ~mixed => \A q \in Puzzle : Screen = RewardOf(q) => p = q /\ loading
        BY <2>1 DEF ScreenInv, RewardWaits
    <2>5. GameIsOwn' /\ RewardWaits'
        BY <2>1, <2>2, <2>3, <2>4 DEF ScreenInv, GameIsOwn, RewardWaits
    <2>6. TappedIsLoaded'
        BY <2>1, <2>2 DEF ScreenInv, TappedIsLoaded
    <2>7. LayerIsThere'
        <3>1. phase = "layers" => mixed
            BY <2>4 DEF ScreenInv, TappedIsLoaded, IsReward
        <3>2. QED
            BY <2>1, <3>1 DEF LayerIsThere
    <2>8. CreditedToPlayer'
        BY <2>1, <2>2 DEF ScreenInv, CreditedToPlayer
    <2>9. TimerFits'
        <3>1. \A q \in Puzzle : Screen = PlayOf(q) /\ crossed[q] = 0 => ~timer'
            <4>1. SUFFICES ASSUME NEW q \in Puzzle, Screen = PlayOf(q), crossed[q] = 0, timer'
                           PROVE  FALSE
                OBVIOUS
            <4>2. q = p /\ placedIds = {}
                BY <2>3, <4>1
            <4>3. CASE of' = of /\ timer' = timer
                <5>1. PICK r \in Puzzle : Screen = PlayOf(r)
                        /\ (crossed[r] = 0 => Pieces[r] \subseteq placedIds)
                    BY <4>1, <4>3 DEF ScreenInv, TimerFits
                <5>2. r = p
                    BY <4>1, <4>2, <5>1, ScreenKinds
                <5>3. QED
                    BY <4>1, <4>2, <5>1, <5>2
            <4>4. CASE of' = p /\ timer' = (IsPlay(Screen) /\ AllPlaced)
                <5>1. placedIds' = {} /\ {} \in SUBSET Pieces[p]
                        /\ Cardinality({}) >= Cardinality(Pieces[p])
                    BY <2>1, <4>1, <4>2, <4>4 DEF AllPlaced
                <5>2. {} = Pieces[p]
                    BY <5>1, AllArePlaced
                <5>3. QED
                    BY <5>2
            <4>5. QED
                BY <2>1, <4>3, <4>4
        <3>2. timer' => IsPlay(Screen)
            BY <2>1 DEF ScreenInv, TimerFits, IsPlay
        <3>3. QED
            BY <2>1, <2>2, <3>1, <3>2 DEF TimerFits, IsPlay
    <2>10. QED
        BY <2>5, <2>6, <2>7, <2>8, <2>9 DEF ScreenInv
<1>4. ASSUME NEW p \in Puzzle, PlaceOne(p)
      PROVE  ScreenInv'
    <2>1. /\ UNCHANGED <<history, cursor, loading, fetching, of, error, phase, index, player,
                         mixed, token, crossed>>
          /\ of = p /\ ~error /\ IsPlay(Screen) /\ timer' = AllPlaced
        BY <1>4 DEF PlaceOne, Playing, netVars
    <2>2. Screen' = Screen
        BY <2>1 DEF Screen
    <2>3. PICK x \in Pieces[p] : placedIds' = placedIds \cup {x}
        BY <1>4 DEF PlaceOne
    <2>4. \A q \in Puzzle : Screen = PlayOf(q) /\ crossed[q] = 0 =>
            q = p /\ placedIds' \subseteq Pieces[p] /\ fetching = {}
        <3>1. SUFFICES ASSUME NEW q \in Puzzle, Screen = PlayOf(q), crossed[q] = 0
                       PROVE  q = p /\ placedIds' \subseteq Pieces[p] /\ fetching = {}
            OBVIOUS
        <3>2. q = p /\ placedIds \subseteq Pieces[p]
            BY <2>1, <3>1 DEF ScreenInv, GameIsOwn
        <3>3. fetching = {}
            BY <2>1, <3>1 DEF ScreenInv, GameIsOwn
        <3>4. QED
            BY <2>3, <3>2, <3>3
    <2>5. TimerFits'
        <3>1. SUFFICES ASSUME timer' PROVE TimerFits'
            BY DEF TimerFits
        <3>2. PICK q \in Puzzle : Screen = PlayOf(q)
            BY <2>1 DEF IsPlay
        <3>3. crossed[q] = 0 => q = p /\ placedIds' = Pieces[p]
            <4>1. Cardinality(placedIds') >= Cardinality(Pieces[p])
                BY <2>1, <3>1 DEF AllPlaced
            <4>2. QED
                BY <2>4, <3>2, <4>1, AllArePlaced
        <3>4. QED
            BY <2>1, <2>2, <3>2, <3>3 DEF TimerFits
    <2>6. GameIsOwn'
        BY <2>1, <2>2, <2>4 DEF GameIsOwn
    <2>7. RewardWaits' /\ TappedIsLoaded' /\ LayerIsThere' /\ CreditedToPlayer'
        BY <2>1, <2>2
           DEF ScreenInv, RewardWaits, TappedIsLoaded, LayerIsThere, LayerCount,
               CreditedToPlayer
    <2>8. QED
        BY <2>5, <2>6, <2>7 DEF ScreenInv
<1>5. ASSUME NEW p \in Puzzle, TimerFires(p)
      PROVE  ScreenInv'
    <2>1. /\ UNCHANGED <<history, cursor, loading, fetching, of, placedIds, phase, index, player,
                         mixed, token, crossed>>
          /\ ~timer'
        BY <1>5 DEF TimerFires
    <2>2. QED
        BY <2>1
           DEF ScreenInv, GameIsOwn, RewardWaits, TappedIsLoaded, LayerIsThere, LayerCount,
               CreditedToPlayer, TimerFits, Screen
<1>6. ASSUME NEW p \in Puzzle, NEW b \in Bearers, HandlePlayComplete(p, b)
      PROVE  ScreenInv'
    BY <1>6, SameScreen DEF HandlePlayComplete, mountVars, ScreenVars
<1>7. CASE Advance
    <2>1. /\ UNCHANGED <<history, cursor, loading, fetching, of, error, placedIds, timer, player,
                         mixed, token, crossed>>
          /\ IsReward(Screen) /\ ~loading
        BY <1>7 DEF Advance, netVars, gameVars
    <2>2. Screen' = Screen /\ LayerCount' = LayerCount
        BY <2>1 DEF Screen, LayerCount
    <2>3. LayerIsThere'
        <3>1. LayerCount \in Nat
            BY LayerCountIsNat DEF TypeInv
        <3>2. phase' = "layers" => index' < LayerCount
            BY <1>7, <3>1 DEF Advance
        <3>3. QED
            BY <2>2, <3>2 DEF LayerIsThere
    <2>4. QED
        BY <2>1, <2>2, <2>3
           DEF ScreenInv, GameIsOwn, RewardWaits, TappedIsLoaded, CreditedToPlayer, TimerFits
<1>8. ASSUME NEW c \in Child, SubmitPin(c) \/ PinFails(c)
      PROVE  ScreenInv'
    BY <1>8, SameScreen DEF SubmitPin, PinFails, ScreenVars
<1>9. CASE UNCHANGED vars
    BY <1>9, SameScreen DEF vars, mountVars, netVars, ScreenVars
<1>10. QED
    BY <1>1, <1>2, <1>3, <1>4, <1>5, <1>6, <1>7, <1>8, <1>9, Steps

LEMMA ScreenAlways == Spec => []ScreenInv
BY ScreenInit, ScreenStep, TypeAlways, PTL DEF Spec

\* The result goes to the child that has played the whole game, whenever the
\* answer to a PIN arrives.
THEOREM ResultsAreCredited == Spec => []CreditedToPlayer
BY ScreenAlways, PTL DEF ScreenInv

\* The completion timer runs only over a finished board of the game on the
\* screen, unless that was put on the screen of another game.
THEOREM TimersBelongToGames == Spec => []TimerBelongsToGame
<1>1. ScreenInv => TimerBelongsToGame
    BY DEF ScreenInv, TimerFits, TimerBelongsToGame, Playing, IsPlay, Game!Solved
<1>2. QED
    BY <1>1, ScreenAlways, PTL

\* A reward shows the layers of its own puzzle, one after the other.
THEOREM RewardsAreOwn == Spec => []RewardIsOwn
<1>1. ScreenInv => RewardIsOwn
    BY DEF ScreenInv, RewardWaits, LayerIsThere, RewardIsOwn
<1>2. QED
    BY <1>1, ScreenAlways, PTL

(***************************************************************************)
(* Layer 3: the way from a solved game to its result and its reward.  What *)
(* is recorded, on its way or about to be sent never exceeds the games     *)
(* solved, and every answer on its way back belongs to one, as long as the *)
(* puzzle was never put on the screen of another game.                     *)
(***************************************************************************)
Pending(p) == IF timer /\ Screen = PlayOf(p) THEN 1 ELSE 0

Earned(p) == solves[p] > 0 \/ crossed[p] > 0

AnswersAreEarned == \A p \in Puzzle : answers[p] > 0 => Earned(p)

WayInv == ResultsAreEarned /\ AnswersAreEarned /\ RewardsAreEarned

\* Nothing on the way grows, and no reward appears.
LEMMA WayKept ==
    ASSUME TypeInv, WayInv, UNCHANGED <<sent, results, solves>>,
           \A p \in Puzzle : crossed'[p] \in Nat /\ crossed'[p] >= crossed[p],
           \A p \in Puzzle : crossed'[p] = 0 /\ Pending(p)' = 1 => Pending(p) = 1,
           \A p \in Puzzle : answers'[p] > 0 => Earned(p),
           \A i \in DOMAIN history' : \A p \in Puzzle : history'[i] = RewardOf(p) => Earned(p)
    PROVE  WayInv'
<1>1. \A p \in Puzzle : /\ results[p] \in Nat /\ solves[p] \in Nat /\ crossed[p] \in Nat
                        /\ sent[p]["child"] \in Nat /\ sent[p]["anonymous"] \in Nat
    BY DEF TypeInv, CountType, Bearers
<1>2. \A p \in Puzzle : crossed'[p] = 0 => crossed[p] = 0
    BY <1>1
<1>3. ResultsAreEarned'
    BY <1>1, <1>2 DEF WayInv, ResultsAreEarned, Pending
<1>4. \A p \in Puzzle : Earned(p) => Earned(p)'
    BY <1>1 DEF Earned
<1>5. QED
    BY <1>3, <1>4 DEF AnswersAreEarned, RewardsAreEarned, WayInv, Earned

\* The same when the screen and the timer stay.
LEMMA WaySame ==
    ASSUME TypeInv, WayInv,
           UNCHANGED <<history, cursor, timer, sent, answers, results, solves, crossed>>
    PROVE  WayInv'
BY DEF WayInv, ResultsAreEarned, AnswersAreEarned, RewardsAreEarned, Earned, Screen

LEMMA WayInit == Init => WayInv
<1> SUFFICES ASSUME Init PROVE WayInv
    OBVIOUS
<1>1. \A p \in Puzzle : sent[p]["child"] = 0 /\ sent[p]["anonymous"] = 0
    BY DEF Init, NoneSent, Bearers
<1>2. ResultsAreEarned /\ AnswersAreEarned
    BY <1>1 DEF Init, NoneOf, ResultsAreEarned, AnswersAreEarned
<1>3. RewardsAreEarned
    <2>1. PICK s \in {Catalog, Select} : history = <<s>>
        BY DEF Init
    <2>2. \A i \in DOMAIN history : history[i] = s
        BY <2>1
    <2>3. QED
        BY <2>2, ScreenKinds DEF RewardsAreEarned
<1>4. QED
    BY <1>2, <1>3 DEF WayInv

LEMMA WayStep == TypeInv /\ ScreenInv /\ WayInv /\ [Next]_vars => WayInv'
<1> SUFFICES ASSUME TypeInv, ScreenInv, WayInv, [Next]_vars PROVE WayInv'
    OBVIOUS
<1>0. \A p \in Puzzle : /\ results[p] \in Nat /\ solves[p] \in Nat /\ answers[p] \in Nat
                        /\ crossed[p] \in Nat
                        /\ sent[p]["child"] \in Nat /\ sent[p]["anonymous"] \in Nat
    BY DEF TypeInv, CountType, Bearers
<1>1. ASSUME NEW s \in Screens, Travels(s)
      PROVE  WayInv'
    <2>1. \A p \in Puzzle : crossed'[p] \in Nat /\ crossed'[p] >= crossed[p]
        BY <1>1, ShowTyped DEF Travels, Goes, TypeInv
    <2>2. \A p \in Puzzle : crossed'[p] = 0 /\ Pending(p)' = 1 => Pending(p) = 1
        <3>1. Show(s) /\ Screen' = s
            BY <1>1 DEF Travels, Goes
        <3>2. SUFFICES ASSUME NEW p \in Puzzle, crossed'[p] = 0, timer', s = PlayOf(p)
                       PROVE  timer /\ Screen = PlayOf(p)
            BY <3>1 DEF Pending
        <3>3. ~Mount(s) /\ ~Mixes(s)
            BY <3>2, ScreenKinds DEF Mount, Mixes, IsReward
        <3>4. \A r \in Puzzle : ~Crosses(r, s)
            <4>1. SUFFICES ASSUME NEW r \in Puzzle, Crosses(r, s) PROVE FALSE
                OBVIOUS
            <4>2. r = p
                BY <3>2, <4>1, ScreenKinds DEF Crosses
            <4>3. crossed'[p] = crossed[p] + 1
                BY <4>1, <4>2 DEF Crosses, TypeInv, CountType
            <4>4. QED
                BY <1>0, <3>2, <4>3
        <3>5. Stays(s)
            BY <3>1, <3>3, <3>4, ShowCases
        <3>6. QED
            BY <3>2, <3>5 DEF Stays, mountVars, gameVars
    <2>3. \A p \in Puzzle : answers'[p] > 0 => Earned(p)
        <3>1. answers' \in [Puzzle -> Nat] /\ \A p \in Puzzle : answers'[p] <= answers[p]
            BY <1>1 DEF Travels
        <3>2. QED
            BY <1>0, <3>1 DEF WayInv, AnswersAreEarned
    <2>4. \A i \in DOMAIN history' : \A p \in Puzzle : history'[i] = RewardOf(p) => Earned(p)
        BY <1>1 DEF Travels, Goes, WayInv, AnswersAreEarned, RewardsAreEarned, Earned
    <2>5. QED
        BY <1>1, <2>1, <2>2, <2>3, <2>4, WayKept DEF Travels
<1>2. ASSUME NEW screens \in Seq(Screens), NEW shown \in Nat, Loads(screens, shown)
      PROVE  WayInv'
    <2>1. /\ ~timer' /\ sent' = NoneSent /\ answers' = NoneOf
          /\ solves' = solves /\ crossed' = crossed
          /\ history' = screens
          /\ results' = results
                \/ results' = [p \in Puzzle |-> results[p] + sent[p]["child"]]
        BY <1>2 DEF Loads, LoadDocument, Mount
    <2>2. \A p \in Puzzle : results'[p] \in Nat /\ results'[p] <= results[p] + sent[p]["child"]
        BY <1>0, <2>1
    <2>3. \A p \in Puzzle :
            sent'[p]["child"] = 0 /\ sent'[p]["anonymous"] = 0 /\ answers'[p] = 0
        BY <2>1 DEF NoneSent, NoneOf, Bearers
    <2>4. ResultsAreEarned'
        <3>1. \A p \in Puzzle : crossed[p] = 0 => results[p] + sent[p]["child"] <= solves[p]
            <4>1. \A p \in Puzzle : crossed[p] = 0 =>
                    results[p] + sent[p]["child"] + sent[p]["anonymous"] + Pending(p) <= solves[p]
                BY DEF WayInv, ResultsAreEarned, Pending
            <4>2. ASSUME NEW p \in Puzzle, crossed[p] = 0
                  PROVE  results[p] + sent[p]["child"] <= solves[p]
                <5>1. /\ results[p] \in Nat /\ solves[p] \in Nat /\ Pending(p) \in Nat
                      /\ sent[p]["child"] \in Nat /\ sent[p]["anonymous"] \in Nat
                    BY <1>0 DEF Pending
                <5>2. results[p] + sent[p]["child"] + sent[p]["anonymous"] + Pending(p)
                        <= solves[p]
                    BY <4>1, <4>2
                <5>3. QED
                    BY <5>1, <5>2
            <4>3. QED
                BY <4>2
        <3>2. \A p \in Puzzle : crossed'[p] = 0 => results'[p] <= solves'[p]
            BY <1>0, <2>1, <2>2, <3>1
        <3>3. QED
            BY <2>1, <2>2, <2>3, <3>2 DEF ResultsAreEarned
    <2>5. AnswersAreEarned'
        BY <2>3 DEF AnswersAreEarned
    <2>6. RewardsAreEarned'
        BY <1>2, <2>1, ScreenKinds DEF Loads, WayInv, RewardsAreEarned
    <2>7. QED
        BY <2>4, <2>5, <2>6 DEF WayInv
<1>3. ASSUME NEW p \in Puzzle, Fetched(p)
      PROVE  WayInv'
    <2>1. /\ UNCHANGED <<history, cursor, sent, answers, results, solves, crossed>>
          /\ p \in fetching /\ fetching' = fetching \ {p}
          /\ (of' = p /\ placedIds' = placedIds /\ (timer' => AllPlaced)) \/ timer' = timer
        BY <1>3 DEF Fetched, netVars
    <2>2. Screen' = Screen
        BY <2>1 DEF Screen
    <2>3. ASSUME NEW r \in Puzzle, crossed[r] = 0, timer', Screen = PlayOf(r)
          PROVE  timer
        <3>1. of = Nobody /\ placedIds = {} /\ r = p
            BY <2>1, <2>3 DEF ScreenInv, GameIsOwn
        <3>2. ASSUME of' = p, placedIds' = placedIds, AllPlaced
              PROVE  FALSE
            <4>1. {} \in SUBSET Pieces[p] /\ Cardinality({}) >= Cardinality(Pieces[p])
                BY <3>1, <3>2 DEF AllPlaced
            <4>2. {} = Pieces[p]
                BY <4>1, AllArePlaced
            <4>3. QED
                BY <4>2
        <3>3. QED
            BY <2>1, <2>3, <3>2
    <2>4. \A r \in Puzzle : crossed'[r] = 0 /\ Pending(r)' = 1 => Pending(r) = 1
        BY <2>1, <2>2, <2>3 DEF Pending
    <2>5. QED
        BY <1>0, <2>1, <2>4, WayKept DEF WayInv, AnswersAreEarned, RewardsAreEarned, Earned
<1>4. ASSUME NEW p \in Puzzle, PlaceOne(p)
      PROVE  WayInv'
    <2>1. /\ UNCHANGED <<history, cursor, of, sent, answers, results, crossed>>
          /\ of = p /\ timer' = AllPlaced
          /\ solves' = IF Pieces[p] \subseteq placedIds' THEN [solves EXCEPT ![p] = @ + 1]
                       ELSE solves
        BY <1>4 DEF PlaceOne, Playing, netVars
    <2>2. PICK x \in Pieces[p] : x \notin placedIds /\ placedIds' = placedIds \cup {x}
        BY <1>4 DEF PlaceOne, Game!PlacePiece
    <2>3. \A q \in Puzzle : solves'[q] \in Nat /\ solves'[q] >= solves[q]
        BY <1>0, <2>1 DEF TypeInv, CountType
    <2>4. Screen' = Screen
        BY <2>1 DEF Screen
    <2>5. ASSUME NEW r \in Puzzle, crossed[r] = 0, Screen = PlayOf(r)
          PROVE  ~timer /\ (timer' => solves'[r] = solves[r] + 1)
        <3>1. r = p /\ placedIds \subseteq Pieces[p]
            BY <2>1, <2>5 DEF ScreenInv, GameIsOwn
        <3>2. ~timer
            <4>1. SUFFICES ASSUME timer PROVE FALSE
                OBVIOUS
            <4>2. PICK t \in Puzzle : Screen = PlayOf(t)
                    /\ (crossed[t] = 0 => Pieces[t] \subseteq placedIds)
                BY <4>1 DEF ScreenInv, TimerFits
            <4>3. t = p
                BY <2>5, <3>1, <4>2, ScreenKinds
            <4>4. QED
                BY <2>2, <2>5, <3>1, <4>2, <4>3
        <3>3. ASSUME timer' PROVE solves'[r] = solves[r] + 1
            <4>1. Cardinality(placedIds') >= Cardinality(Pieces[p])
                BY <2>1, <3>3 DEF AllPlaced
            <4>2. placedIds' = Pieces[p]
                BY <2>2, <3>1, <4>1, AllArePlaced
            <4>3. solves' = [solves EXCEPT ![p] = @ + 1]
                BY <2>1, <4>2
            <4>4. QED
                BY <3>1, <4>3 DEF TypeInv, CountType
        <3>4. QED
            BY <3>2, <3>3
    <2>6. ResultsAreEarned'
        <3>1. SUFFICES ASSUME NEW r \in Puzzle, crossed[r] = 0
                       PROVE  results[r] + sent[r]["child"] + sent[r]["anonymous"]
                                + (IF timer' /\ Screen = PlayOf(r) THEN 1 ELSE 0) <= solves'[r]
            BY <2>1, <2>4 DEF ResultsAreEarned
        <3>2. results[r] + sent[r]["child"] + sent[r]["anonymous"] <= solves[r]
            BY <1>0, <3>1 DEF WayInv, ResultsAreEarned
        <3>3. CASE Screen = PlayOf(r)
            BY <1>0, <2>3, <2>5, <3>1, <3>2, <3>3
        <3>4. CASE Screen # PlayOf(r)
            BY <1>0, <2>3, <3>2, <3>4
        <3>5. QED
            BY <3>3, <3>4
    <2>7. AnswersAreEarned' /\ RewardsAreEarned'
        BY <1>0, <2>1, <2>3 DEF WayInv, AnswersAreEarned, RewardsAreEarned, Earned
    <2>8. QED
        BY <2>6, <2>7 DEF WayInv
<1>5. ASSUME NEW p \in Puzzle, TimerFires(p)
      PROVE  WayInv'
    <2>1. /\ UNCHANGED <<history, cursor, answers, results, solves, crossed>>
          /\ Screen = PlayOf(p) /\ Screen' = Screen /\ timer /\ ~timer'
          /\ sent' = [sent EXCEPT ![p][Bearer] = @ + 1]
        BY <1>5 DEF TimerFires, Screen
    <2>2. /\ \A q \in Puzzle : q # p => sent'[q] = sent[q]
          /\ sent'[p]["child"] + sent'[p]["anonymous"]
                = sent[p]["child"] + sent[p]["anonymous"] + 1
          /\ sent'[p]["child"] \in Nat /\ sent'[p]["anonymous"] \in Nat
        <3>1. sent[p] \in [{"child", "anonymous"} -> Nat] /\ Bearer \in {"child", "anonymous"}
            BY DEF TypeInv, CountType, Bearers, Bearer
        <3>2. sent' = [sent EXCEPT ![p] = [sent[p] EXCEPT ![Bearer] = @ + 1]]
            BY <2>1
        <3>3. \A q \in Puzzle : sent'[q] =
                IF q = p THEN [sent[p] EXCEPT ![Bearer] = @ + 1] ELSE sent[q]
            BY <3>2 DEF TypeInv, CountType
        <3>4. QED
            BY <1>0, <3>1, <3>3
    <2>3. ResultsAreEarned'
        BY <1>0, <2>1, <2>2 DEF WayInv, ResultsAreEarned
    <2>4. QED
        BY <2>1, <2>3 DEF WayInv, AnswersAreEarned, RewardsAreEarned, Earned
<1>6. ASSUME NEW p \in Puzzle, NEW b \in Bearers, HandlePlayComplete(p, b)
      PROVE  WayInv'
    <2>1. /\ UNCHANGED <<history, cursor, timer, solves, crossed>>
          /\ sent[p][b] > 0 /\ sent' = [sent EXCEPT ![p][b] = @ - 1]
          /\ answers' = [answers EXCEPT ![p] = @ + 1]
          /\ \/ b = "child" /\ results' = [results EXCEPT ![p] = @ + 1]
             \/ results' = results
        BY <1>6 DEF HandlePlayComplete, mountVars, gameVars
    <2>2. \A q \in Puzzle : q # p =>
            sent'[q] = sent[q] /\ results'[q] = results[q] /\ answers'[q] = answers[q]
        BY <2>1 DEF TypeInv, CountType
    <2>3. /\ results'[p] + sent'[p]["child"] + sent'[p]["anonymous"]
                <= results[p] + sent[p]["child"] + sent[p]["anonymous"]
          /\ sent'[p]["child"] \in Nat /\ sent'[p]["anonymous"] \in Nat /\ results'[p] \in Nat
        BY <1>0, <2>1 DEF TypeInv, CountType, Bearers
    <2>4. Screen' = Screen
        BY <2>1 DEF Screen
    <2>5. ResultsAreEarned'
        BY <1>0, <2>1, <2>2, <2>3, <2>4 DEF WayInv, ResultsAreEarned
    <2>6. Earned(p)
        BY <1>0, <2>1 DEF WayInv, ResultsAreEarned, Bearers, Earned
    <2>7. AnswersAreEarned'
        BY <2>1, <2>2, <2>6 DEF WayInv, AnswersAreEarned, Earned
    <2>8. RewardsAreEarned'
        BY <2>1 DEF WayInv, RewardsAreEarned
    <2>9. QED
        BY <2>5, <2>7, <2>8 DEF WayInv
<1>7. CASE Advance
    BY <1>7, WaySame DEF Advance, netVars, gameVars
<1>8. ASSUME NEW c \in Child, SubmitPin(c) \/ PinFails(c)
      PROVE  WayInv'
    BY <1>8, WaySame DEF SubmitPin, PinFails, gameVars
<1>9. CASE UNCHANGED vars
    BY <1>9, WaySame DEF vars, mountVars, gameVars, netVars
<1>10. QED
    BY <1>1, <1>2, <1>3, <1>4, <1>5, <1>6, <1>7, <1>8, <1>9, Steps

LEMMA WayAlways == Spec => []WayInv
BY WayInit, WayStep, TypeAlways, ScreenAlways, PTL DEF Spec

\* A game solved once is reported and recorded at most once, whatever was left,
\* replayed, revisited or answered late, unless the puzzle was put on the screen
\* of another game.
THEOREM ResultsAreCounted == Spec => []ResultsAreEarned
BY WayAlways, PTL DEF WayInv

\* The history holds no reward but those of puzzles solved in this tab or put on
\* the screen of another game.
THEOREM RewardsAreDeserved == Spec => []RewardsAreEarned
BY WayAlways, PTL DEF WayInv

=============================================================================
