------------------------------ MODULE WindowProofs ------------------------------
(***************************************************************************)
(* Theorems about Window, for any secrets and queries, any ranking of the  *)
(* list, any keyboard and any bound on what waits for a frame: the list on *)
(* screen, the surface and the frames owed are as the loop needs them, and *)
(* the loop implements module Popup.                                       *)
(***************************************************************************)
EXTENDS Window, PopupProofs

USE WindowAssumption

(***************************************************************************)
(* The inductive invariant.                                                *)
(***************************************************************************)
\* A hidden popup is in its list, and some turns of the loop are taken only
\* while the popup is shown or shows its list.
TurnsShowTheirMode ==
    /\ ~visible => mode = ListMode
    /\ turn \in {"draw", "rows", "enter"} => visible
    /\ turn \in {"rows", "enter"} => mode.kind = "list"

\* Only a surface with a size has shown a frame.
PaintedOnSurface == window # "configured" => painted = Nothing

\* While its rows react the frame is the one of this mode, and if one of them
\* was clicked the next frame is owed already.
RowsOfThisFrame ==
    turn = "rows" => painted \in {Nothing, View(mode)} /\ ("click" \in frame => owed)

\* When an Enter is about to confirm, its frame painted what it confirms, but
\* for a click in that frame and a frame that was not presented.
ConfirmationShown ==
    turn \in {"idle", "dispatch", "tick"} /\ mode.kind = "confirm" /\ "enter" \in frame =>
        painted \in {Nothing, View(mode)} \/ "click" \in frame

WindowIInv ==
    /\ WindowTypeOK
    /\ ListMatchesQuery /\ RowIsSelected
    /\ TurnsShowTheirMode
    /\ NoWindowOutlivesPopup /\ PaintedOnSurface
    /\ RowsOfThisFrame /\ StaleFrameIsOwed
    /\ ConfirmationShown

(***************************************************************************)
(* The list: what Rerank, HidePopup and the keys do to it.                 *)
(***************************************************************************)
ListOK ==
    /\ secrets \subseteq Ids
    /\ query \in Queries /\ ranked \in Seq(Ids) /\ selected \in Nat \ {0}
    /\ ListMatchesQuery /\ RowIsSelected

\* The ranking has rows of the list only, and none of an empty one.
LEMMA RankTypes ==
    ASSUME NEW list \in SUBSET Ids, NEW q \in Queries
    PROVE  /\ Rank[list][q] \in Seq(Ids)
           /\ \A k \in DOMAIN Rank[list][q] : Rank[list][q][k] \in list
           /\ Rank[{}][q] = <<>>
  <1>1. \A l \in SUBSET Ids : /\ Rank[l][q] \in Seq(Ids)
                              /\ \A k \in DOMAIN Rank[l][q] : Rank[l][q][k] \in l
    <2>1. \A l \in SUBSET Ids : Rank[l] \in [Queries -> Seq(Ids)]
      BY DEF WindowAssumption
    <2> QED
      BY <2>1 DEF WindowAssumption
  <1>2. {} \in SUBSET Ids
    OBVIOUS
  <1> DEFINE none == Rank[{}][q]
  <1>3. none \in Seq(Ids) /\ \A k \in DOMAIN none : none[k] \in {}
    BY <1>1, <1>2
  <1>4. none = <<>>
    <2> HIDE DEF none
    <2>1. Len(none) \in Nat /\ DOMAIN none = 1 .. Len(none)
      BY <1>3
    <2>2. Len(none) = 0
      BY <1>3, <2>1
    <2> QED
      BY <1>3, <2>2
  <1> QED
    BY <1>1, <1>4

\* A selection brought back onto a list is a row of it, if it has any.
LEMMA Clamped ==
    ASSUME NEW list \in Seq(Ids), NEW row \in Nat \ {0}
    PROVE  /\ Clamp(row, list) \in Nat \ {0}
           /\ list # <<>> => Clamp(row, list) \in DOMAIN list
  BY DEF Clamp

\* Popup::rerank (popup.rs:246-251) restores what hangs on the list.
LEMMA Reranked ==
    ASSUME NEW list \in SUBSET Ids, NEW q \in Queries, NEW row \in Nat \ {0},
           Rerank(list, q, row), secrets' = list, query' = q
    PROVE  ListOK'
  <1>1. Rank[list][q] \in Seq(Ids)
    BY RankTypes
  <1>2. ranked' \in Seq(Ids) /\ selected' \in Nat \ {0} /\ RowIsSelected'
    BY <1>1, Clamped DEF Rerank, RowIsSelected
  <1> QED
    BY <1>2 DEF ListOK, Rerank, ListMatchesQuery

\* Popup::hide (popup.rs:225-236): what a form or a list had is gone.
LEMMA Hidden ==
    ASSUME WindowIInv, HidePopup
    PROVE  /\ ListOK'
           /\ visible' = FALSE /\ mode' = ListMode
  <1> USE DEF WindowIInv, WindowTypeOK, PopupTypeOK
  <1>1. CASE visible
    <2>1. secrets' = {} /\ ranked' = <<>> /\ query' = NoQuery /\ selected' = selected
      BY <1>1 DEF HidePopup
    <2>2. NoQuery \in Queries /\ {} \in SUBSET Ids
      BY DEF WindowAssumption
    <2>3. ranked' = Rank[{}][NoQuery]
      BY <2>1, <2>2, RankTypes
    <2> QED
      BY <1>1, <2>1, <2>2, <2>3 DEF HidePopup, ListOK, ListMatchesQuery, RowIsSelected
  <1>2. CASE ~visible
    BY <1>2 DEF HidePopup, TurnsShowTheirMode, ListOK, ListMatchesQuery, RowIsSelected, listVars
  <1> QED
    BY <1>1, <1>2

LEMMA ListKept ==
    ASSUME WindowIInv, UNCHANGED <<secrets, listVars>>
    PROVE  ListOK'
  BY DEF WindowIInv, WindowTypeOK, PopupTypeOK, ListOK, ListMatchesQuery, RowIsSelected, listVars

\* The selected row is a secret of the list.
LEMMA SelectedRow ==
    ASSUME WindowIInv
    PROVE  /\ Selected \subseteq secrets
           /\ \A row \in DOMAIN ranked : ranked[row] \in secrets
  <1> USE DEF WindowIInv, WindowTypeOK, PopupTypeOK
  <1>1. \A row \in DOMAIN ranked : ranked[row] \in secrets
    BY RankTypes DEF ListMatchesQuery
  <1>2. selected <= Len(ranked) => selected \in DOMAIN ranked
    OBVIOUS
  <1> QED
    BY <1>1, <1>2 DEF Selected

\* An event reranks a new list, hides it, or leaves it (popup.rs:173-223).
LEMMA ApplyKeepsList ==
    ASSUME WindowIInv, NEW e \in DaemonEvent, Apply(e)
    PROVE  ListOK'
  <1> USE DEF WindowIInv, WindowTypeOK, PopupTypeOK
  <1>1. CASE e.type = "show"
    <2>1. e.secrets \in SUBSET Ids /\ NoQuery \in Queries /\ 1 \in Nat \ {0}
      BY <1>1, EventFields DEF WindowAssumption
    <2>2. Rerank(e.secrets, NoQuery, 1) /\ secrets' = e.secrets /\ query' = NoQuery
      BY <1>1 DEF Apply
    <2> QED
      BY <2>1, <2>2, Reranked
  <1>2. CASE e.type = "refresh"
    <2>1. e.secrets \in SUBSET Ids
      BY <1>2, EventFields
    <2>2. Rerank(e.secrets, query, selected) /\ secrets' = e.secrets /\ query' = query
      BY <1>2 DEF Apply
    <2> QED
      BY <2>1, <2>2, Reranked
  <1>3. CASE e.type = "hide"
    BY <1>3, Hidden DEF Apply
  <1>4. CASE e.type \in {"lock", "edit", "pin"}
    BY <1>4, ListKept DEF Apply
  <1> QED
    BY <1>1, <1>2, <1>3, <1>4, EventFields

\* Up and Down stay on the list (popup.rs:333-349).
LEMMA MoveKeepsList ==
    ASSUME WindowIInv, ListMove
    PROVE  ListOK'
  <1> USE DEF WindowIInv, WindowTypeOK, PopupTypeOK
  <1> DEFINE up == IF Pressed("up") /\ selected > 1 THEN selected - 1 ELSE selected
  <1>1. UNCHANGED <<secrets, query, ranked>>
    BY DEF ListMove
  <1>2. selected' = IF Pressed("down") /\ up < Len(ranked) THEN up + 1 ELSE up
    BY DEF ListMove
  <1>3. up \in Nat \ {0} /\ (ranked # <<>> => up \in DOMAIN ranked)
    BY DEF RowIsSelected
  <1>4. selected' \in Nat \ {0} /\ (ranked # <<>> => selected' \in DOMAIN ranked)
    <2> HIDE DEF up
    <2> QED
      BY <1>2, <1>3
  <1> QED
    BY <1>1, <1>4 DEF ListOK, ListMatchesQuery, RowIsSelected

\* Whatever the loop does, the rows are those of the list and the query, and
\* one of them is selected.
LEMMA ListStep ==
    ASSUME WindowIInv, [WindowNext]_windowVars
    PROVE  ListOK'
  <1> USE DEF WindowIInv, WindowTypeOK, PopupTypeOK, popupVars, listVars
  <1>1. CASE DaemonSpeaks
    BY <1>1, ApplyKeepsList DEF DaemonSpeaks
  <1>2. CASE FocusLeaves
    BY <1>2, Hidden, ListKept DEF FocusLeaves
  <1>3. CASE Closed \/ ListEscape
    BY <1>3, Hidden DEF Closed, ListEscape
  <1>4. CASE ListMove
    BY <1>4, MoveKeepsList
  <1>5. CASE DrawList
    <2>1. secrets' = secrets /\ secrets \in SUBSET Ids
      BY <1>5 DEF DrawList, Paints
    <2>2. \A q \in Queries : query' = q /\ Rerank(secrets, q, 1) => ListOK'
      BY <2>1, Reranked
    <2>3. UNCHANGED listVars => ListOK'
      BY <2>1, ListKept
    <2> QED
      BY <1>5, <2>2, <2>3 DEF DrawList
  <1>6. CASE DrawRows
    <2>1. UNCHANGED <<secrets, query, ranked>> /\ selected' \in DOMAIN ranked \cup {selected}
      BY <1>6 DEF DrawRows
    <2>2. \A row \in DOMAIN ranked : row \in Nat \ {0}
      OBVIOUS
    <2> QED
      BY <2>1, <2>2 DEF ListOK, ListMatchesQuery, RowIsSelected
  <1>7. CASE \/ PressKey \/ TypeText \/ Click \/ Configured \/ TimesOut \/ Dispatched
             \/ TickHidden \/ ListEnter \/ Place \/ NothingToDraw \/ WorkerListens
    BY <1>7, ListKept DEF PressKey, TypeText, Click, Queue, Configured, TimesOut, Dispatched,
       TickHidden, ListEnter, Place, NothingToDraw, WorkerListens
  <1>8. CASE ListChord \/ FormKeys \/ ConfirmKeys \/ PinKeys
    BY <1>8, ListKept DEF ListChord, FormKeys, ConfirmKeys, PinKeys
  <1>9. CASE DrawForm \/ DrawConfirm \/ DrawPin
    BY <1>9, ListKept DEF DrawForm, DrawConfirm, DrawPin, Paints
  <1>10. CASE UNCHANGED windowVars
    BY <1>10, ListKept DEF windowVars
  <1> QED
    BY <1>1, <1>2, <1>3, <1>4, <1>5, <1>6, <1>7, <1>8, <1>9, <1>10
    DEF WindowNext, Handlers, AfterDispatch, Tick, Draw

(***************************************************************************)
(* The popup within the loop.                                              *)
(***************************************************************************)
\* The popup's part of the invariant, and the channels it speaks over.
PopupOK ==
    /\ PopupTypeOK
    /\ ~visible => mode = ListMode
    /\ events \in Seq(DaemonEvent) /\ requests \in Seq(UiRequest)

\* An event is applied as module Popup does it.
LEMMA ApplyIsPopups ==
    ASSUME NEW e, Apply(e)
    PROVE  \/ OnShow(e) \/ OnHide(e) \/ OnLockChanged(e)
           \/ OnEditReady(e) \/ OnRefresh(e) \/ OnRequestPin(e)
  BY DEF Apply, HidePopup, Conceal, listVars, OnShow, OnHide, OnLockChanged, OnEditReady,
     OnRefresh, OnRequestPin

\* Activating a row sends a request of the protocol, or none.
LEMMA ActivatedRow ==
    ASSUME NEW id \in Ids, ActivateRow(id)
    PROVE  Quiet \/ \E r \in {Use(id), Unlock} : Submit(r)
  BY DEF ActivateRow

\* Whatever the loop does, the popup is one, shows no form while it is hidden,
\* and speaks the protocol.
LEMMA PopupStep ==
    ASSUME WindowIInv, [WindowNext]_windowVars
    PROVE  PopupOK'
  <1> USE DEF Quiet
  <1>0. /\ PopupTypeOK /\ (~visible => mode = ListMode)
        /\ events \in Seq(DaemonEvent) /\ requests \in Seq(UiRequest)
    BY DEF WindowIInv, WindowTypeOK, TurnsShowTheirMode
  <1>1. ASSUME UNCHANGED <<visible, secrets, uiLock, events>>, visible \/ UNCHANGED mode,
               mode' \in Modes,
               UNCHANGED requests \/ \E r \in UiRequest : Submit(r)
        PROVE  PopupOK'
    BY <1>0, <1>1, SubmitTypes DEF PopupOK, PopupTypeOK
  <1>2. ASSUME HidePopup, UNCHANGED <<uiLock, protocolVars>> PROVE PopupOK'
    BY <1>0, <1>2, ModeTypes DEF HidePopup, PopupOK, PopupTypeOK, protocolVars
  <1>3. mode \in Modes /\ Selected \subseteq Ids /\ \A row \in DOMAIN ranked : ranked[row] \in Ids
    BY <1>0, SelectedRow DEF PopupTypeOK
  <1>4. CASE DaemonSpeaks
    <2>1. PICK e \in DaemonEvent : Apply(e)
      BY <1>4 DEF DaemonSpeaks
    <2>2. PopupTypeOK' /\ (~visible' => mode' = ListMode)
      BY <1>0, <2>1, ApplyIsPopups, EventApplied
    <2> QED
      BY <1>0, <1>4, <2>2 DEF DaemonSpeaks, PopupOK, protocolVars
  <1>5. CASE FocusLeaves \/ Closed \/ ListEscape
    BY <1>1, <1>2, <1>3, <1>5 DEF FocusLeaves, Closed, ListEscape, Ticks, protocolVars
  <1>6. CASE \/ PressKey \/ TypeText \/ Click \/ Configured \/ TimesOut \/ Dispatched
             \/ TickHidden \/ Place \/ NothingToDraw
    BY <1>1, <1>3, <1>6 DEF PressKey, TypeText, Click, Queue, Configured, TimesOut, Dispatched,
       TickHidden, Place, NothingToDraw, popupVars, protocolVars
  <1>7. CASE ListChord
    <2>1. visible /\ UNCHANGED <<visible, secrets, uiLock, events>>
      BY <1>7 DEF ListChord, Ticks
    <2>2. mode' \in Modes
      BY <1>3, <1>7, ModeTypes DEF ListChord
    <2>3. UNCHANGED requests \/ \E r \in UiRequest : Submit(r)
      BY <1>3, <1>7, RequestsOfThePopup DEF ListChord
    <2> QED
      BY <1>1, <2>1, <2>2, <2>3
  <1>8. CASE ListMove
    BY <1>1, <1>3, <1>8, RequestsOfThePopup DEF ListMove, Ticks
  <1>9. CASE ListEnter
    <2>1. UNCHANGED requests \/ \E r \in UiRequest : Submit(r)
      BY <1>3, <1>9, ActivatedRow, RequestsOfThePopup DEF ListEnter
    <2> QED
      BY <1>1, <1>3, <1>9, <2>1 DEF ListEnter, popupVars
  <1>10. SaveForm /\ mode.kind = "edit" =>
           mode' \in Modes /\ (UNCHANGED requests \/ \E r \in UiRequest : Submit(r))
    BY <1>3, ModeTypes, ModeFields, RequestsOfThePopup DEF SaveForm
  <1>11. CASE FormKeys
    BY <1>1, <1>3, <1>10, <1>11, ModeTypes DEF FormKeys, Ticks
  <1>12. CASE ConfirmKeys
    BY <1>1, <1>3, <1>12, ModeTypes, ModeFields, RequestsOfThePopup DEF ConfirmKeys, Ticks
  <1>13. CASE PinKeys
    BY <1>1, <1>3, <1>13, ModeTypes, ModeFields, RequestsOfThePopup DEF PinKeys, Ticks
  <1>14. turn \in {"draw", "rows"} => visible
    BY DEF WindowIInv, TurnsShowTheirMode
  <1>15. CASE DrawList
    BY <1>1, <1>3, <1>14, <1>15, ModeTypes, RequestsOfThePopup DEF DrawList, Paints
  <1>16. CASE DrawForm
    BY <1>1, <1>3, <1>10, <1>14, <1>16, ModeTypes DEF DrawForm, Paints
  <1>17. CASE DrawConfirm \/ DrawPin
    BY <1>1, <1>3, <1>17 DEF DrawConfirm, DrawPin, Paints
  <1>18. CASE DrawRows
    <2>1. visible /\ UNCHANGED <<visible, secrets, uiLock, events>>
      BY <1>14, <1>18 DEF DrawRows
    <2>2. mode' \in Modes
      BY <1>3, <1>18, ModeTypes DEF DrawRows
    <2>3. UNCHANGED requests \/ \E r \in UiRequest : Submit(r)
      BY <1>3, <1>18, ActivatedRow, RequestsOfThePopup DEF DrawRows
    <2> QED
      BY <1>1, <2>1, <2>2, <2>3
  <1>19. CASE WorkerListens
    <2>1. requests' \in Seq(UiRequest)
      BY <1>0, <1>19 DEF WorkerListens
    <2> QED
      BY <1>0, <1>19, <2>1 DEF WorkerListens, PopupOK, PopupTypeOK, popupVars
  <1>20. CASE UNCHANGED windowVars
    BY <1>1, <1>3, <1>20 DEF windowVars, popupVars, protocolVars
  <1> QED
    BY <1>4, <1>5, <1>6, <1>7, <1>8, <1>9, <1>11, <1>12, <1>13, <1>15, <1>16, <1>17, <1>18,
       <1>19, <1>20
    DEF WindowNext, Handlers, AfterDispatch, Tick, Draw

(***************************************************************************)
(* The surface and the frames.                                             *)
(***************************************************************************)
LoopTypes ==
    /\ window \in {"none", "mapped", "configured"}
    /\ input \subseteq Kinds /\ frame \subseteq Pressable
    /\ owed \in BOOLEAN
    /\ turn \in Turns
    /\ painted \in {View(m) : m \in Modes} \cup {Nothing}

LoopOK ==
    /\ LoopTypes
    /\ TurnsShowTheirMode
    /\ NoWindowOutlivesPopup /\ PaintedOnSurface
    /\ RowsOfThisFrame /\ StaleFrameIsOwed
    /\ ConfirmationShown

\* A frame takes only keys and clicks that waited for it (popup.rs:92-121).
LEMMA TakenKeys ==
    /\ \A keys \in Taken : keys \subseteq Pressable
    /\ \A keys \in Taken : "click" \in keys => "click" \in input
  BY DEF Taken, Pressable, WindowAssumption

\* What a handler of the dispatch does: the loop goes on to dispatch, and what
\* the last frame owed is taken along (shell.rs:204-262).
LEMMA DispatchStep ==
    ASSUME WindowIInv, Handlers, PopupOK'
    PROVE  LoopOK'
  <1> USE DEF WindowIInv, WindowTypeOK, LoopTypes, Turns, LoopOK, TurnsShowTheirMode,
              NoWindowOutlivesPopup, PaintedOnSurface, RowsOfThisFrame, StaleFrameIsOwed
  <1>1. turn \in {"idle", "dispatch"} /\ turn' = "dispatch" /\ owed' \in BOOLEAN
    BY DEF Handlers, DaemonSpeaks, PressKey, TypeText, Click, Queue, FocusLeaves, Configured,
       Closed, InDispatch
  <1>2. frame' = frame
    BY DEF Handlers, DaemonSpeaks, PressKey, TypeText, Click, Queue, FocusLeaves, Configured,
       Closed
  <1>3. ~visible' => mode' = ListMode
    BY DEF PopupOK
  <1>4. ConfirmationShown'
    <2>1. UNCHANGED <<mode, painted>> => ConfirmationShown'
      BY <1>1, <1>2 DEF ConfirmationShown
    <2>2. mode'.kind # "confirm" => ConfirmationShown'
      BY DEF ConfirmationShown
    <2>3. \A e : Apply(e) => mode' = mode \/ mode'.kind # "confirm"
      BY DEF Apply, HidePopup, ListMode, EditMode, PinMode
    <2>4. HidePopup => mode' = mode \/ mode'.kind # "confirm"
      BY DEF HidePopup, ListMode
    <2>5. CASE DaemonSpeaks
      BY <2>1, <2>2, <2>3, <2>5 DEF DaemonSpeaks
    <2>6. CASE PressKey \/ TypeText \/ Click \/ Configured
      BY <2>1, <2>6 DEF PressKey, TypeText, Click, Queue, Configured, popupVars
    <2>7. CASE FocusLeaves
      BY <2>1, <2>2, <2>4, <2>7 DEF FocusLeaves
    <2>8. CASE Closed
      BY <2>8 DEF Closed, ConfirmationShown
    <2> QED
      BY <2>5, <2>6, <2>7, <2>8 DEF Handlers
  <1>5. CASE DaemonSpeaks \/ FocusLeaves
    BY <1>1, <1>3, <1>4, <1>5 DEF DaemonSpeaks, FocusLeaves
  <1>6. CASE PressKey \/ TypeText \/ Click
    <2>1. input' \subseteq Kinds
      BY <1>6 DEF PressKey, TypeText, Click, Queue, Kinds
    <2> QED
      BY <1>1, <1>3, <1>4, <1>6, <2>1 DEF PressKey, TypeText, Click, Queue
  <1>7. CASE Configured
    BY <1>1, <1>3, <1>4, <1>7 DEF Configured
  <1>8. CASE Closed
    BY <1>1, <1>3, <1>4, <1>8 DEF Closed
  <1> QED
    BY <1>5, <1>6, <1>7, <1>8 DEF Handlers

\* What the keys of the last frame do: the surface, the frame and what is owed
\* are left to the turns that follow (popup.rs:238-390).
LEMMA TickStep ==
    ASSUME WindowIInv, TimesOut \/ Dispatched \/ Tick \/ ListEnter, PopupOK'
    PROVE  LoopOK'
  <1> USE DEF WindowIInv, WindowTypeOK, LoopTypes, Turns, LoopOK, TurnsShowTheirMode,
              NoWindowOutlivesPopup, PaintedOnSurface, RowsOfThisFrame, StaleFrameIsOwed,
              ConfirmationShown, Ticks
  <1>1. UNCHANGED <<window, input, frame, painted>> /\ owed' \in BOOLEAN
    BY DEF TimesOut, Dispatched, Tick, TickHidden, ListEscape, ListChord, ListMove, FormKeys,
       ConfirmKeys, PinKeys, ListEnter
  <1>2. ~visible' => mode' = ListMode
    BY DEF PopupOK
  <1>3. CASE TimesOut \/ Dispatched
    BY <1>1, <1>2, <1>3 DEF TimesOut, Dispatched, popupVars
  <1>4. CASE turn' = "place"
    BY <1>1, <1>2, <1>4
  <1>5. CASE ListMove
    <2>1. visible' /\ mode'.kind = "list" /\ turn' \in {"enter", "place"}
      BY <1>5 DEF ListMove
    <2> QED
      BY <1>1, <2>1
  <1> QED
    BY <1>3, <1>4, <1>5 DEF Tick, TickHidden, ListEscape, ListChord, FormKeys, ConfirmKeys,
       PinKeys, ListEnter

\* Place and the frame: the surface goes with the popup, a frame shows the
\* mode it was drawn in, and one that had input owes the next (shell.rs:
\* 263-420).
LEMMA FrameStep ==
    ASSUME WindowIInv, Place \/ Draw \/ DrawRows, PopupOK'
    PROVE  LoopOK'
  <1> USE DEF WindowIInv, WindowTypeOK, LoopTypes, Turns, LoopOK, TurnsShowTheirMode,
              NoWindowOutlivesPopup, PaintedOnSurface, RowsOfThisFrame, StaleFrameIsOwed,
              ConfirmationShown
  <1>1. ~visible' => mode' = ListMode
    BY DEF PopupOK
  <1>2. mode \in Modes /\ View(mode) \in {View(m) : m \in Modes}
    BY DEF PopupTypeOK
  <1>3. CASE Place
    BY <1>1, <1>3 DEF Place, popupVars, ListMode
  <1>4. CASE NothingToDraw
    BY <1>1, <1>4 DEF NothingToDraw, popupVars
  <1>5. ASSUME NEW kind, Paints(kind)
        PROVE  /\ UNCHANGED <<visible, window>> /\ visible
               /\ window = "configured" /\ mode.kind = kind
               /\ input' \subseteq Kinds /\ frame' \subseteq Pressable
               /\ "click" \in frame' => "click" \in input
               /\ owed' = (input # {}) /\ owed' \in BOOLEAN
               /\ painted' \in {View(mode), Nothing}
               /\ painted' \in {View(m) : m \in Modes} \cup {Nothing}
    BY <1>2, <1>5, TakenKeys DEF Paints, Owed
  <1>6. CASE DrawList
    <2>1. Paints("list") /\ turn' \in {"idle", "rows"}
      BY <1>6 DEF DrawList
    <2>2. mode' = mode \/ ("click" \in input /\ turn' = "idle" /\ mode'.kind = "edit")
      BY <1>6 DEF DrawList, EditMode
    <2> QED
      BY <1>5, <2>1, <2>2
  <1>7. CASE DrawForm
    <2>1. Paints("edit") /\ turn' = "idle"
      BY <1>7 DEF DrawForm
    <2>2. mode' = mode \/ ("click" \in input /\ mode'.kind = "list")
      BY <1>7 DEF DrawForm, SaveForm, ListMode
    <2> QED
      BY <1>5, <2>1, <2>2
  <1>8. CASE DrawConfirm \/ DrawPin
    <2>1. (Paints("confirm") \/ Paints("pin")) /\ turn' = "idle" /\ mode' = mode
      BY <1>8 DEF DrawConfirm, DrawPin
    <2> QED
      BY <1>5, <2>1
  <1>9. CASE DrawRows
    <2>1. /\ turn = "rows" /\ turn' = "idle"
          /\ UNCHANGED <<visible, window, input, frame, owed, painted>>
      BY <1>9 DEF DrawRows
    <2>2. mode' = mode \/ Pressed("click")
      BY <1>9 DEF DrawRows
    <2> QED
      BY <2>1, <2>2 DEF Pressed
  <1> QED
    BY <1>3, <1>4, <1>6, <1>7, <1>8, <1>9 DEF Draw

LEMMA WindowStep == WindowIInv /\ [WindowNext]_windowVars => WindowIInv'
  <1> SUFFICES ASSUME WindowIInv, [WindowNext]_windowVars PROVE WindowIInv'
    OBVIOUS
  <1>1. ListOK' /\ PopupOK'
    BY ListStep, PopupStep
  <1>2. ASSUME WorkerListens \/ UNCHANGED windowVars PROVE LoopOK'
    <2>1. UNCHANGED <<popupVars, shellVars>>
      BY <1>2 DEF WorkerListens, windowVars
    <2>2. UNCHANGED <<visible, mode, window, input, frame, owed, turn, painted>>
      BY <2>1 DEF popupVars, shellVars
    <2>3. LoopOK'
      BY <2>2 DEF LoopOK, LoopTypes, WindowIInv, WindowTypeOK, TurnsShowTheirMode,
         NoWindowOutlivesPopup, PaintedOnSurface, RowsOfThisFrame, StaleFrameIsOwed,
         ConfirmationShown
    <2> QED
      BY <2>3
  <1>3. LoopOK'
    BY <1>1, <1>2, DispatchStep, TickStep, FrameStep DEF WindowNext, AfterDispatch
  <1> QED
    BY <1>1, <1>3 DEF ListOK, PopupOK, LoopOK, LoopTypes, WindowIInv, WindowTypeOK

LEMMA WindowStart == WindowInit => WindowIInv
  <1> SUFFICES ASSUME WindowInit PROVE WindowIInv
    OBVIOUS
  <1> USE DEF WindowInit, PopupInit
  <1>1. PopupTypeOK
    BY ModeTypes DEF PopupTypeOK, UiLockStates
  <1>2. NoQuery \in Queries /\ {} \in SUBSET Ids
    BY DEF WindowAssumption
  <1>3. ListMatchesQuery
    BY <1>2, RankTypes DEF ListMatchesQuery
  <1>4. events \in Seq(DaemonEvent) /\ requests \in Seq(UiRequest) /\ ranked \in Seq(Ids)
    OBVIOUS
  <1>5. WindowTypeOK
    <2>1. query \in Queries /\ selected \in Nat \ {0}
      BY <1>2
    <2>2. LoopTypes
      BY DEF LoopTypes, Turns
    <2> QED
      BY <1>1, <1>4, <2>1, <2>2 DEF WindowTypeOK, LoopTypes
  <1> QED
    BY <1>3, <1>5 DEF WindowIInv, RowIsSelected, TurnsShowTheirMode, NoWindowOutlivesPopup,
       PaintedOnSurface, RowsOfThisFrame, StaleFrameIsOwed, ConfirmationShown

\* List, surface and frames are where the invariant says, always.
THEOREM WindowInductive == WindowSpec => []WindowIInv
  BY WindowStart, WindowStep, PTL DEF WindowSpec

\* Every variable of the popup and of its window keeps its type.
THEOREM WindowTypes == WindowSpec => []WindowTypeOK
  <1>1. WindowIInv => WindowTypeOK
    BY DEF WindowIInv
  <1> QED
    BY <1>1, WindowInductive, PTL

\* The rows are those of the list and the query the popup holds
\* (popup.rs:123-126), those of a list that arrived while it was hidden too
\* (popup.rs:207-210).
THEOREM RowsAreOfTheQuery == WindowSpec => []ListMatchesQuery
  <1>1. WindowIInv => ListMatchesQuery
    BY DEF WindowIInv
  <1> QED
    BY <1>1, WindowInductive, PTL

\* Enter has a row to act on whenever there is a list (popup.rs:240-245).
THEOREM EnterHasItsRow == WindowSpec => []RowIsSelected
  <1>1. WindowIInv => RowIsSelected
    BY DEF WindowIInv
  <1> QED
    BY <1>1, WindowInductive, PTL

\* The surface, which holds the keyboard exclusively, goes with the popup
\* (shell.rs:290-308).
THEOREM SurfaceGoesWithPopup == WindowSpec => []NoWindowOutlivesPopup
  <1>1. WindowIInv => NoWindowOutlivesPopup
    BY DEF WindowIInv
  <1> QED
    BY <1>1, WindowInductive, PTL

\* The loop never goes to sleep over a frame that no longer shows the popup's
\* mode without owing another one (shell.rs:255-261).
THEOREM NewModeIsDrawn == WindowSpec => []StaleFrameIsOwed
  <1>1. WindowIInv => StaleFrameIsOwed
    BY DEF WindowIInv
  <1> QED
    BY <1>1, WindowInductive, PTL

(***************************************************************************)
(* What a step may never do.                                               *)
(***************************************************************************)
\* A request that was sent is the one that was submitted, and the requests of
\* different kinds differ.
LEMMA SentIsSubmitted ==
    ASSUME requests \in Seq(UiRequest), NEW id \in Ids,
           requests' = Append(requests, Delete(id))
    PROVE  /\ requests' # requests /\ ~WorkerListens
           /\ \A r \in UiRequest : Submit(r) => r = Delete(id)
           /\ ~Submit(Touch) /\ ~Submit(Unlock)
           /\ \A i \in Ids : ~Submit(Use(i)) /\ ~Submit(BeginEdit(i))
           /\ \A i \in Ids, u \in BOOLEAN : ~Submit(Save(i, u))
           /\ \A n \in Prompt, g \in BOOLEAN : ~Submit(PinResponse(n, g))
  <1>1. Delete(id) \in UiRequest
    BY RequestsOfThePopup
  <1>2. Len(requests') = Len(requests) + 1 /\ Len(requests) \in Nat
    BY <1>1
  <1>3. requests' # requests
    BY <1>2
  <1>4. ~WorkerListens
    <2>1. requests # <<>> => Len(Tail(requests)) = Len(requests) - 1
      OBVIOUS
    <2> QED
      BY <1>2, <2>1 DEF WorkerListens
  <1>5. \A r \in UiRequest : Submit(r) => r = Delete(id)
    <2> SUFFICES ASSUME NEW r \in UiRequest, Submit(r) PROVE r = Delete(id)
      OBVIOUS
    <2>1. Append(requests, r)[Len(requests) + 1] = r
      BY <1>2
    <2>2. Append(requests, Delete(id))[Len(requests) + 1] = Delete(id)
      BY <1>1, <1>2
    <2> QED
      BY <2>1, <2>2 DEF Submit
  <1>6. /\ Touch # Delete(id) /\ Unlock # Delete(id)
        /\ \A i \in Ids : Use(i) # Delete(id) /\ BeginEdit(i) # Delete(id)
        /\ \A i \in Ids, u \in BOOLEAN : Save(i, u) # Delete(id)
        /\ \A n \in Prompt, g \in BOOLEAN : PinResponse(n, g) # Delete(id)
    BY DEF Touch, Unlock, Use, BeginEdit, Save, PinResponse, Delete
  <1> QED
    BY <1>3, <1>4, <1>5, <1>6, RequestsOfThePopup

\* Only the Enter of a confirmation sends a Delete.
LEMMA DeletionStep ==
    ASSUME WindowIInv, [WindowNext]_windowVars, NEW id \in Ids,
           requests' = Append(requests, Delete(id))
    PROVE  \/ painted = View(ConfirmMode(id))
           \/ painted = Nothing \/ "click" \in frame
  <1>1. /\ requests \in Seq(UiRequest) /\ mode \in Modes
        /\ Selected \subseteq Ids /\ \A row \in DOMAIN ranked : ranked[row] \in Ids
    BY SelectedRow DEF WindowIInv, WindowTypeOK, PopupTypeOK
  <1>2. \A i \in Ids : ~ActivateRow(i)
    BY <1>1, SentIsSubmitted DEF ActivateRow, Quiet
  <1>3. mode.kind = "edit" => ~SaveForm
    BY <1>1, ModeFields, SentIsSubmitted DEF SaveForm, Quiet
  <1>4. ConfirmKeys
    <2> USE <1>1, SentIsSubmitted DEF Quiet
    <2>1. ~DaemonSpeaks /\ ~FocusLeaves /\ ~Configured /\ ~Closed
      BY DEF DaemonSpeaks, FocusLeaves, Configured, Closed, protocolVars
    <2>2. ~PressKey /\ ~TypeText /\ ~Click
      BY DEF PressKey, TypeText, Click, Queue, protocolVars
    <2>3. ~TimesOut /\ ~Dispatched /\ ~TickHidden /\ ~Place /\ ~NothingToDraw
      BY DEF TimesOut, Dispatched, TickHidden, Place, NothingToDraw, protocolVars
    <2>4. ~ListEscape
      BY DEF ListEscape
    <2>5. ~ListChord
      BY DEF ListChord
    <2>6. ~ListMove
      BY DEF ListMove
    <2>7. ~ListEnter
      BY <1>2 DEF ListEnter
    <2>8. ~FormKeys
      BY <1>3 DEF FormKeys, Ticks
    <2>9. ~PinKeys
      BY ModeFields DEF PinKeys, Ticks
    <2>10. ~DrawList
      BY DEF DrawList
    <2>11. ~DrawForm
      BY <1>3 DEF DrawForm, Paints
    <2>12. ~DrawConfirm /\ ~DrawPin
      BY DEF DrawConfirm, DrawPin
    <2>13. ~DrawRows
      BY <1>2 DEF DrawRows
    <2>14. ~(UNCHANGED windowVars)
      BY DEF windowVars, protocolVars
    <2> QED
      BY <2>1, <2>2, <2>3, <2>4, <2>5, <2>6, <2>7, <2>8, <2>9, <2>10, <2>11, <2>12, <2>13,
         <2>14
      DEF WindowNext, Handlers, AfterDispatch, Tick, Draw
  <1>5. Submit(Delete(mode.id)) /\ "enter" \in frame
    BY <1>1, <1>4, SentIsSubmitted DEF ConfirmKeys, Quiet, Pressed
  <1>6. turn = "tick" /\ mode.kind = "confirm"
    BY <1>4 DEF ConfirmKeys, Ticks
  <1>7. mode = ConfirmMode(id)
    <2>1. mode.id \in Ids /\ mode = ConfirmMode(mode.id)
      BY <1>1, <1>6, ModeFields
    <2>2. Delete(mode.id) = Delete(id)
      BY <1>1, <1>5, <2>1, SentIsSubmitted, RequestsOfThePopup
    <2>3. mode.id = id
      BY <2>2 DEF Delete
    <2> QED
      BY <2>1, <2>3
  <1> QED
    BY <1>5, <1>6, <1>7 DEF WindowIInv, ConfirmationShown

\* A deletion is requested only by an Enter whose frame painted its own
\* confirmation (popup.rs:383), never in the frame of the key that asked for it,
\* but for a click in that very frame and a frame that was not presented.  The
\* Enter may have been pressed while the frame before was on screen.
THEOREM DeletionsAreConfirmed == WindowSpec => DeletionIsAskedFirst
  <1>1. WindowIInv /\ [WindowNext]_windowVars =>
          [\A id \in Ids :
             requests' = Append(requests, Delete(id)) =>
                \/ painted = View(ConfirmMode(id))
                \/ painted = Nothing \/ "click" \in frame]_windowVars
    BY DeletionStep
  <1> QED
    BY <1>1, WindowInductive, PTL DEF WindowSpec, DeletionIsAskedFirst

(***************************************************************************)
(* The loop implements module Popup.  Popup makes only the requests that   *)
(* are Asked of an instance; the keys and the buttons make all of them, so *)
(* the ones whose first step sends nothing must be among those Asked.      *)
(***************************************************************************)
PopupStepOrWorkers == PopupNext \/ AnyWorker \/ \E id \in Ids : NewSecret(id)

\* The keys of a frame are steps of Popup (popup.rs:254-390).
LEMMA KeysArePopups ==
    ASSUME WindowIInv, {"save", "delete"} \subseteq Asked, Tick \/ ListEnter
    PROVE  PopupStepOrWorkers \/ UNCHANGED <<popupVars, protocolVars>>
  <1> USE DEF PopupStepOrWorkers, Quiet, popupVars, protocolVars, Ticks, In, SetMode
  <1>1. /\ Selected \subseteq secrets /\ Selected \subseteq Ids
        /\ mode \in Modes /\ uiLock \in UiLockStates
    BY SelectedRow DEF WindowIInv, WindowTypeOK, PopupTypeOK
  <1>2. CASE TickHidden
    BY <1>2 DEF TickHidden
  <1>3. CASE ListEscape
    <2>1. Dismiss
      BY <1>3 DEF ListEscape, HidePopup, Conceal, Dismiss
    <2> QED
      BY <2>1 DEF PopupNext
  <1>4. CASE ListChord
    <2>1. visible /\ mode.kind = "list" /\ UNCHANGED <<visible, secrets, uiLock, events>>
      BY <1>4 DEF ListChord
    <2>2. ASSUME NEW id \in Ids, mode' = EditMode(id, FALSE), Quiet PROVE PopupStepOrWorkers
      <3>1. NewSecret(id)
        BY <2>1, <2>2 DEF NewSecret
      <3> QED
        BY <3>1
    <2>3. ASSUME NEW id \in Selected, Submit(BeginEdit(id)), UNCHANGED mode
          PROVE  PopupStepOrWorkers
      <3>1. AskEdit(id)
        BY <1>1, <2>1, <2>3 DEF AskEdit
      <3> QED
        BY <1>1, <3>1 DEF PopupNext
    <2>4. ASSUME NEW id \in Selected, mode' = ConfirmMode(id), Quiet PROVE PopupStepOrWorkers
      <3>1. AskDelete(id)
        BY <1>1, <2>1, <2>4 DEF AskDelete
      <3> QED
        BY <1>1, <3>1 DEF PopupNext
    <2>5. CASE UNCHANGED <<mode, requests>>
      BY <2>1, <2>5
    <2> QED
      BY <1>4, <2>2, <2>3, <2>4, <2>5 DEF ListChord
  <1>5. CASE ListMove
    BY <1>5 DEF ListMove, PopupNext, Navigate
  <1>6. CASE ListEnter
    <2>1. visible /\ mode.kind = "list" /\ UNCHANGED <<popupVars, events>>
      BY <1>6 DEF ListEnter, WindowIInv, TurnsShowTheirMode
    <2>2. ASSUME NEW id \in Selected, ActivateRow(id)
          PROVE  PopupStepOrWorkers \/ UNCHANGED <<popupVars, protocolVars>>
      <3>1. CASE UNCHANGED requests
        BY <2>1, <3>1
      <3>2. CASE uiLock = "unlocked" /\ Submit(Use(id))
        BY <1>1, <2>1, <3>2 DEF PopupNext, ActivateSelected, Activated
      <3>3. CASE uiLock = "locked" /\ Submit(Unlock)
        BY <1>1, <2>1, <3>3 DEF PopupNext, ActivateSelected, Activated
      <3> QED
        BY <2>2, <3>1, <3>2, <3>3 DEF ActivateRow
    <2> QED
      BY <1>6, <2>1, <2>2 DEF ListEnter
  <1>7. CASE FormKeys
    BY <1>7 DEF FormKeys, SaveForm, PopupNext, AbandonForm, SaveEditor
  <1>8. CASE ConfirmKeys
    BY <1>8 DEF ConfirmKeys, PopupNext, AbandonForm, ConfirmDelete
  <1>9. CASE PinKeys
    BY <1>9 DEF PinKeys, PopupNext, AnswerPin
  <1> QED
    BY <1>2, <1>3, <1>4, <1>5, <1>6, <1>7, <1>8, <1>9 DEF Tick

\* So are the clicks and the text that a frame takes (popup.rs:465-600).
LEMMA FramesArePopups ==
    ASSUME WindowIInv, {"save", "delete"} \subseteq Asked, Draw \/ DrawRows
    PROVE  PopupStepOrWorkers \/ UNCHANGED <<popupVars, protocolVars>>
  <1> USE DEF PopupStepOrWorkers, Quiet, popupVars, protocolVars, In, SetMode
  <1>1. /\ \A row \in DOMAIN ranked : ranked[row] \in secrets /\ ranked[row] \in Ids
        /\ turn \in {"draw", "rows"} => visible
        /\ turn = "rows" => mode.kind = "list"
    BY SelectedRow DEF WindowIInv, WindowTypeOK, PopupTypeOK, TurnsShowTheirMode
  <1>2. CASE NothingToDraw \/ DrawConfirm \/ DrawPin
    BY <1>2 DEF NothingToDraw, DrawConfirm, DrawPin, Paints
  <1>3. CASE DrawList
    <2>1. visible /\ mode.kind = "list" /\ UNCHANGED <<visible, secrets, uiLock, events>>
      BY <1>1, <1>3 DEF DrawList, Paints
    <2>2. ASSUME NEW id \in Ids, mode' = EditMode(id, FALSE), Quiet PROVE PopupStepOrWorkers
      <3>1. NewSecret(id)
        BY <2>1, <2>2 DEF NewSecret
      <3> QED
        BY <3>1
    <2>3. CASE Submit(Touch) /\ UNCHANGED mode
      BY <2>1, <2>3 DEF PopupNext, Navigate
    <2>4. CASE UNCHANGED <<mode, requests>>
      BY <2>1, <2>4
    <2> QED
      BY <1>3, <2>2, <2>3, <2>4 DEF DrawList
  <1>4. CASE DrawForm
    <2>1. visible /\ mode.kind = "edit" /\ UNCHANGED <<visible, secrets, uiLock, events>>
      BY <1>1, <1>4 DEF DrawForm, Paints
    <2> QED
      BY <1>4, <2>1 DEF DrawForm, SaveForm, PopupNext, AbandonForm, SaveEditor
  <1>5. CASE DrawRows
    <2>1. visible /\ mode.kind = "list" /\ UNCHANGED <<visible, secrets, uiLock, events>>
      BY <1>1, <1>5 DEF DrawRows
    <2>2. ASSUME NEW row \in DOMAIN ranked,
                 \/ mode' = ConfirmMode(ranked[row]) /\ Quiet
                 \/ Submit(BeginEdit(ranked[row])) /\ UNCHANGED mode
                 \/ ActivateRow(ranked[row]) /\ UNCHANGED mode
          PROVE  PopupStepOrWorkers \/ UNCHANGED <<popupVars, protocolVars>>
      <3> DEFINE id == ranked[row]
      <3>1. id \in secrets /\ id \in Ids
        BY <1>1
      <3>2. CASE mode' = ConfirmMode(id) /\ Quiet
        <4>1. AskDelete(id)
          BY <2>1, <3>1, <3>2 DEF AskDelete
        <4> QED
          BY <3>1, <4>1 DEF PopupNext
      <3>3. CASE Submit(BeginEdit(id)) /\ UNCHANGED mode
        <4>1. AskEdit(id)
          BY <2>1, <3>1, <3>3 DEF AskEdit
        <4> QED
          BY <3>1, <4>1 DEF PopupNext
      <3>4. CASE ActivateRow(id) /\ UNCHANGED mode
        BY <2>1, <3>1, <3>4 DEF ActivateRow, PopupNext, ActivateSelected, Activated
      <3> QED
        BY <2>2, <3>2, <3>3, <3>4
    <2>3. CASE UNCHANGED <<mode, requests>>
      BY <2>1, <2>3
    <2> QED
      BY <1>5, <2>2, <2>3 DEF DrawRows
  <1> QED
    BY <1>2, <1>3, <1>4, <1>5 DEF Draw

\* Every step of the loop is a step of Popup, or of the worker at the other
\* end, or leaves the popup and its channels alone.
LEMMA LoopIsPopups ==
    ASSUME WindowIInv, {"save", "delete"} \subseteq Asked, [WindowNext]_windowVars
    PROVE  PopupStepOrWorkers \/ UNCHANGED <<popupVars, protocolVars>>
  <1> USE DEF popupVars, protocolVars
  <1>1. CASE DaemonSpeaks
    <2>1. AnyWorker
      BY <1>1, ApplyIsPopups DEF DaemonSpeaks, InDispatch, AnyWorker
    <2> QED
      BY <2>1 DEF PopupStepOrWorkers
  <1>2. ASSUME HidePopup, UNCHANGED <<uiLock, protocolVars>>, mode.kind = "list" \/ Closed
        PROVE  PopupStepOrWorkers \/ UNCHANGED <<popupVars, protocolVars>>
    BY <1>2 DEF HidePopup, Conceal, In, Dismiss, SurfaceClosed, PopupNext, PopupStepOrWorkers
  <1>3. CASE FocusLeaves \/ Closed
    BY <1>2, <1>3 DEF FocusLeaves, Closed
  <1>4. CASE \/ PressKey \/ TypeText \/ Click \/ Configured \/ TimesOut \/ Dispatched
             \/ Place \/ UNCHANGED windowVars
    BY <1>4 DEF PressKey, TypeText, Click, Queue, Configured, TimesOut, Dispatched, Place,
       windowVars
  <1>5. CASE WorkerListens
    BY <1>5 DEF WorkerListens, AnyWorker, PopupStepOrWorkers
  <1> QED
    BY <1>1, <1>3, <1>4, <1>5, KeysArePopups, FramesArePopups
    DEF WindowNext, Handlers, AfterDispatch

\* The event loop of shell.rs, with the surface it maps and unmaps and the
\* frames it draws, implements module Popup: its popup begins as Popup's and
\* moves only as Popup's does.
THEOREM LoopImplementsPopup ==
    ASSUME {"save", "delete"} \subseteq Asked
    PROVE  WindowSpec => ImplementsPopup
  <1>1. WindowInit => PopupInit
    BY DEF WindowInit
  <1>2. WindowIInv /\ [WindowNext]_windowVars =>
          [PopupNext \/ AnyWorker \/ \E id \in Ids : NewSecret(id)]_<<popupVars, protocolVars>>
    BY LoopIsPopups DEF PopupStepOrWorkers
  <1> QED
    BY <1>1, <1>2, WindowInductive, PTL DEF WindowSpec, ImplementsPopup
===============================================================================
