--------------------------------- MODULE Window ---------------------------------
(***************************************************************************)
(* ui/shell.rs with the whole of ui/popup.rs: the event loop of the        *)
(* popup's thread, the Wayland surface it maps and unmaps, and how a key   *)
(* or a click becomes one of the steps of module Popup.                    *)
(*                                                                         *)
(* One pass of the loop is a dispatch, which runs one or more handlers     *)
(* ("idle", "dispatch"), and then after_dispatch: the keys of the LAST     *)
(* frame ("tick", "enter"), the surface ("place"), and the next frame      *)
(* ("draw", "rows").  A step stops where the code sends a request.         *)
(*                                                                         *)
(* Of egui (external) two things are used: its input is that of the last   *)
(* frame drawn, and a frame that had input asks for another one.  Where a  *)
(* click lands and which text field has the focus are left open, and so    *)
(* are the messages in the footer and the contents of the form.  Any       *)
(* worker is at the other end: it may have sent any event at any time, so  *)
(* the channel of events is left empty here.                               *)
(***************************************************************************)
EXTENDS Popup, FiniteSets

CONSTANTS
    Arrows, Letters,\* the arrows and the letters for chords on an instance's keyboard
    MaxInput,       \* kinds of input that wait for one frame
    Queries,        \* what can be in the search box
    NoQuery,        \* the empty search box
    Rank,           \* Searcher::rank: the rows for a list and a query
    Nothing         \* what a surface shows before its first frame

ASSUME WindowAssumption ==
    /\ Arrows \subseteq {"up", "down"} /\ Letters \subseteq {"n", "e", "d", "s"}
    /\ MaxInput \in Nat \ {0}
    /\ NoQuery \in Queries
    /\ Rank \in [SUBSET Ids -> [Queries -> Seq(Ids)]]
    /\ \A list \in SUBSET Ids, q \in Queries :
         \A k \in DOMAIN Rank[list][q] : Rank[list][q][k] \in list
    /\ Arrows # {} /\ Letters # {}

VARIABLES
    query,          \* Popup::query
    ranked,         \* Popup::ranked, by id
    selected,       \* Popup::selected, from 1
    window,         \* Shell::window: none, mapped, or configured as well
    input,          \* Shell::input: kinds of input since the last frame
    frame,          \* egui's input: the keys and chords of the last frame
    owed,           \* Shell::repaint_after
    turn,           \* where the loop is
    painted         \* what the last frame showed, or Nothing if it was not presented

listVars == <<query, ranked, selected>>
shellVars == <<window, input, frame, owed, turn, painted>>
windowVars == <<protocolVars, popupVars, listVars, shellVars>>

\* Which arrow and which letter it was is told by the frame that takes the key.
Kinds == {"escape", "enter", "arrow", "letter", "text", "click"}

Pressable == {"escape", "enter", "click"} \cup Arrows \cup Letters

Turns == {"idle", "dispatch", "tick", "enter", "place", "draw", "rows"}

\* What frames of a mode differ in, as far as it matters here.
View(m) == IF m.kind = "confirm" THEN m ELSE [kind |-> m.kind]

WindowTypeOK ==
    /\ events \in Seq(DaemonEvent)
    /\ requests \in Seq(UiRequest)
    /\ PopupTypeOK
    /\ query \in Queries
    /\ ranked \in Seq(Ids)
    /\ selected \in Nat \ {0}
    /\ window \in {"none", "mapped", "configured"}
    /\ input \subseteq Kinds
    /\ frame \subseteq Pressable
    /\ owed \in BOOLEAN
    /\ turn \in Turns
    /\ painted \in {View(m) : m \in Modes} \cup {Nothing}

WindowInit ==
    /\ events = <<>> /\ requests = <<>>
    /\ PopupInit
    /\ query = NoQuery /\ ranked = <<>> /\ selected = 1
    /\ window = "none"
    /\ input = {} /\ frame = {}
    /\ owed = FALSE
    /\ turn = "idle"
    /\ painted = Nothing

(***************************************************************************)
(* The list.                                                               *)
(***************************************************************************)
\* Variant: an empty list leaves a selection before its first row.
ClampToLength(row, list) == IF row > Len(list) THEN Len(list) ELSE row

\* `selected` brought back onto the list, or to its first row.
Clamp(row, list) == IF row > Len(list) THEN IF list = <<>> THEN 1 ELSE Len(list) ELSE row

\* Variant: the selection stays where it was.
RerankUnclamped(list, q, row) ==
    /\ ranked' = Rank[list][q]
    /\ selected' = row

\* Popup::rerank, after a change of the list, the query and the selection.
Rerank(list, q, row) ==
    /\ ranked' = Rank[list][q]
    /\ selected' = Clamp(row, Rank[list][q])

Selected == IF selected <= Len(ranked) THEN {ranked[selected]} ELSE {}

\* Variant: the cached view outlives the list it was computed from.
HideSecrets ==
    IF visible
    THEN /\ visible' = FALSE /\ mode' = ListMode /\ secrets' = {} /\ query' = NoQuery
         /\ UNCHANGED <<ranked, selected>>
    ELSE UNCHANGED <<visible, mode, secrets, listVars>>

\* Popup::hide.  The selection stays, as does what the shell has queued.
HidePopup ==
    IF visible
    THEN /\ visible' = FALSE /\ mode' = ListMode /\ secrets' = {}
         /\ ranked' = <<>> /\ query' = NoQuery
         /\ UNCHANGED selected
    ELSE UNCHANGED <<visible, mode, secrets, listVars>>

(***************************************************************************)
(* Dispatch.  The first handler of a pass takes repaint_after with it.     *)
(***************************************************************************)
InDispatch ==
    /\ turn \in {"idle", "dispatch"}
    /\ turn' = "dispatch"
    /\ owed' = IF turn = "idle" THEN FALSE ELSE owed

\* Popup::handle_event, whatever is on screen and whether anything is.
Apply(e) ==
    \/ /\ e.type = "show"
       /\ secrets' = e.secrets /\ query' = NoQuery /\ Rerank(e.secrets, NoQuery, 1)
       /\ mode' = ListMode /\ visible' = TRUE
       /\ UNCHANGED uiLock
    \/ /\ e.type = "hide"
       /\ HidePopup
       /\ UNCHANGED uiLock
    \/ /\ e.type = "lock"
       /\ uiLock' = e.state
       /\ UNCHANGED <<mode, visible, secrets, listVars>>
    \/ /\ e.type = "edit"
       /\ mode' = EditMode(e.id, TRUE) /\ visible' = TRUE
       /\ UNCHANGED <<secrets, uiLock, listVars>>
    \/ /\ e.type = "refresh"
       /\ secrets' = e.secrets /\ Rerank(e.secrets, query, selected)
       /\ UNCHANGED <<mode, visible, uiLock, query>>
    \/ /\ e.type = "pin"
       /\ mode' = PinMode(e.prompt) /\ visible' = TRUE
       /\ UNCHANGED <<secrets, uiLock, listVars>>

DaemonSpeaks ==
    /\ InDispatch
    /\ \E e \in DaemonEvent : Apply(e)
    /\ UNCHANGED <<protocolVars, window, input, frame, painted>>

\* Shell::push_key and pointer_frame: what is pressed waits for the next frame.
Queue(kind) ==
    /\ InDispatch
    /\ window = "configured"
    /\ Cardinality(input \cup {kind}) <= MaxInput
    /\ input' = input \cup {kind}
    /\ UNCHANGED <<protocolVars, popupVars, listVars, window, frame, painted>>

PressKey == \E key \in Kinds \ {"text", "click"} : Queue(key)

\* A letter without Ctrl, Backspace, or Ctrl+V while a text field is on screen.
TypeText == Queue("text")

Click == Queue("click")

\* The keyboard leaves: a list goes, a form stays (keep_open_on_focus_loss).
FocusLeaves ==
    /\ InDispatch
    /\ window # "none"
    /\ IF mode.kind = "list" THEN HidePopup
       ELSE UNCHANGED <<visible, mode, secrets, listVars>>
    /\ UNCHANGED <<protocolVars, uiLock, window, input, frame, painted>>

Configured ==
    /\ InDispatch
    /\ window # "none"
    /\ window' = "configured"
    /\ UNCHANGED <<protocolVars, popupVars, listVars, input, frame, painted>>

\* LayerShellHandler::closed.
Closed ==
    /\ InDispatch
    /\ window # "none"
    /\ HidePopup
    /\ window' = "none" /\ painted' = Nothing
    /\ UNCHANGED <<protocolVars, uiLock, input, frame>>

\* calloop's timeout: a frame is owed, or the countdown or a message may have to be
\* redrawn (wants_repaint); there may always be a message.
TimesOut ==
    /\ turn = "idle"
    /\ owed \/ visible
    /\ turn' = "tick"
    /\ owed' = FALSE
    /\ UNCHANGED <<protocolVars, popupVars, listVars, window, input, frame,
                   painted>>

Dispatched ==
    /\ turn = "dispatch"
    /\ turn' = "tick"
    /\ UNCHANGED <<protocolVars, popupVars, listVars, window, input, frame, owed,
                   painted>>

(***************************************************************************)
(* Popup::tick: the keys of the last frame, by mode, in the code's order.  *)
(***************************************************************************)
Pressed(key) == key \in frame

Ticks(kind) ==
    /\ turn = "tick"
    /\ visible /\ mode.kind = kind
    /\ UNCHANGED <<events, uiLock, window, input, frame, owed, painted>>

Quiet == UNCHANGED requests

TickHidden ==
    /\ turn = "tick"
    /\ ~visible
    /\ turn' = "place"
    /\ UNCHANGED <<protocolVars, popupVars, listVars, window, input, frame, owed,
                   painted>>

ListEscape ==
    /\ Ticks("list")
    /\ Pressed("escape")
    /\ HidePopup
    /\ turn' = "place"
    /\ Quiet

\* Variant: Ctrl+D deletes the selected row.
ListChordDeletes ==
    /\ Ticks("list")
    /\ ~Pressed("escape")
    /\ turn' = "place"
    /\ UNCHANGED <<visible, secrets, listVars>>
    /\ Pressed("d")
    /\ \E id \in Selected : Submit(Delete(id))
    /\ UNCHANGED mode

\* Ctrl+N before Ctrl+E before Ctrl+D, and any of them before navigation.
ListChord ==
    /\ Ticks("list")
    /\ ~Pressed("escape")
    /\ turn' = "place"
    /\ UNCHANGED <<visible, secrets, listVars>>
    /\ \/ /\ Pressed("n")
          /\ \E id \in Ids : mode' = EditMode(id, FALSE)
          /\ Quiet
       \/ /\ ~Pressed("n") /\ Pressed("e")
          /\ \/ \E id \in Selected : Submit(BeginEdit(id))
             \/ Selected = {} /\ Quiet
          /\ UNCHANGED mode
       \/ /\ ~Pressed("n") /\ ~Pressed("e") /\ Pressed("d")
          /\ mode' \in IF Selected = {} THEN {mode} ELSE {ConfirmMode(id) : id \in Selected}
          /\ Quiet

\* Up first, Down after it; each step of the selection counts as use.
ListMove ==
    /\ Ticks("list")
    /\ ~Pressed("escape") /\ \A letter \in {"n", "e", "d"} : ~Pressed(letter)
    /\ IF Pressed("up") \/ Pressed("down") THEN Submit(Touch) ELSE Quiet
    /\ LET up == IF Pressed("up") /\ selected > 1 THEN selected - 1 ELSE selected
       IN selected' = IF Pressed("down") /\ up < Len(ranked) THEN up + 1 ELSE up
    /\ turn' = IF Pressed("enter") THEN "enter" ELSE "place"
    /\ UNCHANGED <<mode, visible, secrets, query, ranked>>

\* Popup::activate_selected, for a row that is on the list.
ActivateRow(id) ==
    \/ uiLock = "unlocked" /\ Submit(Use(id))
    \/ uiLock = "locked" /\ Submit(Unlock)
    \/ uiLock = "waiting" /\ Quiet

ListEnter ==
    /\ turn = "enter"
    /\ turn' = "place"
    /\ \/ \E id \in Selected : ActivateRow(id)
       \/ Selected = {} /\ Quiet
    /\ UNCHANGED <<events, popupVars, listVars, window, input, frame, owed,
                   painted>>

\* Editor::build accepts the form, or finds a field missing.
SaveForm ==
    \/ Submit(Save(mode.id, mode.isUpdate)) /\ mode' = ListMode
    \/ Quiet /\ UNCHANGED mode

FormKeys ==
    /\ Ticks("edit")
    /\ turn' = "place"
    /\ IF Pressed("escape") THEN mode' = ListMode /\ Quiet
       ELSE IF Pressed("s") THEN SaveForm
       ELSE Quiet /\ UNCHANGED mode
    /\ UNCHANGED <<visible, secrets, listVars>>

ConfirmKeys ==
    /\ Ticks("confirm")
    /\ turn' = "place"
    /\ IF Pressed("escape") THEN mode' = ListMode /\ Quiet
       ELSE IF Pressed("enter") THEN mode' = ListMode /\ Submit(Delete(mode.id))
       ELSE Quiet /\ UNCHANGED mode
    /\ UNCHANGED <<visible, secrets, listVars>>

\* Variant: Escape leaves the prompt, and the assertion waits on.
PinKeysSilent ==
    /\ Ticks("pin")
    /\ turn' = "place"
    /\ IF Pressed("escape") THEN mode' = ListMode /\ Quiet
       ELSE \/ Pressed("enter") /\ mode' = ListMode /\ Submit(PinResponse(mode.prompt, TRUE))
            \/ Quiet /\ UNCHANGED mode
    /\ UNCHANGED <<visible, secrets, listVars>>

\* Enter is an answer if something was entered.
PinKeys ==
    /\ Ticks("pin")
    /\ turn' = "place"
    /\ IF Pressed("escape") THEN mode' = ListMode /\ Submit(PinResponse(mode.prompt, FALSE))
       ELSE \/ Pressed("enter") /\ mode' = ListMode /\ Submit(PinResponse(mode.prompt, TRUE))
            \/ Quiet /\ UNCHANGED mode
    /\ UNCHANGED <<visible, secrets, listVars>>

Tick ==
    TickHidden \/ ListEscape \/ ListChord \/ ListMove \/ FormKeys \/ ConfirmKeys \/ PinKeys

(***************************************************************************)
(* after_dispatch: the surface, then the frame.                            *)
(***************************************************************************)
\* Variant: what to unmap is forgotten.
PlaceMapsOnly ==
    /\ turn = "place"
    /\ \/ visible /\ window = "none" /\ window' \in {"none", "mapped"}
       \/ (~visible \/ window # "none") /\ UNCHANGED window
    /\ turn' = IF visible THEN "draw" ELSE "idle"
    /\ UNCHANGED <<protocolVars, popupVars, listVars, input, frame, owed, painted>>

\* map: may fail, and is tried again after the next dispatch.  unmap leaves the
\* queued input and egui's input of the last frame as they are.
Place ==
    /\ turn = "place"
    /\ \/ visible /\ window = "none" /\ window' \in {"none", "mapped"} /\ UNCHANGED painted
       \/ visible /\ window # "none" /\ UNCHANGED <<window, painted>>
       \/ ~visible /\ window' = "none" /\ painted' = Nothing
    /\ turn' = IF visible THEN "draw" ELSE "idle"
    /\ UNCHANGED <<protocolVars, popupVars, listVars, input, frame, owed>>

\* No surface, or no size yet: what was typed waits for the first frame.
NothingToDraw ==
    /\ turn = "draw"
    /\ window # "configured"
    /\ turn' = "idle"
    /\ UNCHANGED <<protocolVars, popupVars, listVars, window, input, frame, owed,
                   painted>>

\* Variant: only keys make a frame worth another one.
OwedForKeys == input \ {"click"} # {}

\* egui asks for another frame after one that had input.
Owed == input # {}

\* What egui may make of the input.  A letter counts only with Ctrl, which is looked at
\* when the frame is drawn.
Taken ==
    {(input \cap {"escape", "enter", "click"})
        \cup (IF "arrow" \in input THEN {a} ELSE {})
        \cup (IF "letter" \in input THEN l ELSE {}) :
        a \in Arrows, l \in {{}} \cup {{k} : k \in Letters}}

\* The frame takes the input, and shows what the popup was before it acted on it;
\* or egui ran, and the swapchain was outdated or lost.
Paints(kind) ==
    /\ turn = "draw"
    /\ window = "configured"
    /\ mode.kind = kind
    /\ frame' \in Taken
    /\ input' = {}
    /\ owed' = Owed
    /\ painted' \in {View(mode), Nothing}
    /\ UNCHANGED <<events, visible, secrets, uiLock, window>>

\* The Add button, or the search box and then the rows.
DrawList ==
    /\ Paints("list")
    /\ \/ /\ "click" \in input
          /\ \E id \in Ids : mode' = EditMode(id, FALSE)
          /\ turn' = "idle"
          /\ Quiet /\ UNCHANGED listVars
       \/ /\ "text" \in input
          /\ \E q \in Queries \ {query} : query' = q /\ Rerank(secrets, q, 1)
          /\ Submit(Touch)
          /\ turn' = "rows"
          /\ UNCHANGED mode
       \/ /\ turn' = "rows"
          /\ Quiet /\ UNCHANGED <<mode, listVars>>

\* draw_list: the x of a row, its pencil, or its body; or none was hit.
DrawRows ==
    /\ turn = "rows"
    /\ turn' = "idle"
    /\ \/ /\ Pressed("click")
          /\ \E row \in DOMAIN ranked :
                /\ selected' = row
                /\ \/ mode' = ConfirmMode(ranked[row]) /\ Quiet
                   \/ Submit(BeginEdit(ranked[row])) /\ UNCHANGED mode
                   \/ ActivateRow(ranked[row]) /\ UNCHANGED mode
       \/ Quiet /\ UNCHANGED <<mode, selected>>
    /\ UNCHANGED <<events, visible, secrets, uiLock, query, ranked, window, input,
                   frame, owed, painted>>

\* Save, Cancel, or anything else on the form.
DrawForm ==
    /\ Paints("edit")
    /\ turn' = "idle"
    /\ \/ "click" \in input /\ SaveForm
       \/ "click" \in input /\ mode' = ListMode /\ Quiet
       \/ Quiet /\ UNCHANGED mode
    /\ UNCHANGED <<listVars>>

DrawConfirm ==
    /\ Paints("confirm")
    /\ turn' = "idle"
    /\ Quiet /\ UNCHANGED <<mode, listVars>>

DrawPin ==
    /\ Paints("pin")
    /\ turn' = "idle"
    /\ Quiet /\ UNCHANGED <<mode, listVars>>

Draw == NothingToDraw \/ DrawList \/ DrawForm \/ DrawConfirm \/ DrawPin

\* At the other end of the requests: every one is taken.
WorkerListens ==
    /\ requests # <<>>
    /\ requests' = Tail(requests)
    /\ UNCHANGED <<events, popupVars, listVars, shellVars>>

(***************************************************************************)
(* The specification.                                                      *)
(***************************************************************************)
Handlers ==
    \/ DaemonSpeaks \/ PressKey \/ TypeText \/ Click
    \/ FocusLeaves \/ Configured \/ Closed

\* What the loop does by itself, once a dispatch returned.
AfterDispatch == Dispatched \/ Tick \/ ListEnter \/ Place \/ Draw \/ DrawRows

WindowNext == Handlers \/ TimesOut \/ AfterDispatch \/ WorkerListens

WindowSpec == WindowInit /\ [][WindowNext]_windowVars

(***************************************************************************)
(* Safety                                                                  *)
(***************************************************************************)
\* The rows are those of the list and the query the popup holds (popup.rs:123-126),
\* whichever of the two changed, on screen or not.  Hiding it empties all three, but
\* a Refresh that arrives later is kept and ranked while it is hidden
\* (popup.rs:207-210), so there may be rows then: "never held across a hide"
\* (popup.rs:130-131) is true only of the list that was on screen.
ListMatchesQuery == ranked = Rank[secrets][query]

\* Enter has a row to act on whenever there is a list (popup.rs:240-245), although a
\* new list may be shorter and hiding the popup keeps the old selection.
RowIsSelected == ranked # <<>> => selected \in DOMAIN ranked

\* The surface, which holds the keyboard exclusively, goes with the popup
\* (shell.rs:290-308): no pass of the loop ends with a surface and no popup.
NoWindowOutlivesPopup == turn = "idle" /\ ~visible => window = "none"

\* One frame never both asks for a deletion and confirms it (popup.rs:382-389): the
\* Enter that deletes came with a frame that painted the confirmation of that very
\* secret, so that Ctrl+D was taken by an earlier one.  Enter need not have been
\* pressed when the confirmation was on screen already: pressed while the frame that
\* took Ctrl+D still is, it comes with the next one, and deletes.  Left out are Enter
\* in the very frame in which the x was clicked, a frame that was not presented, and
\* keys of an earlier popup, which act before the first frame of this one.
DeletionIsAskedFirst ==
    [][\A id \in Ids :
         requests' = Append(requests, Delete(id)) =>
            \/ painted = View(ConfirmMode(id))
            \/ painted = Nothing \/ "click" \in frame]_windowVars

(***************************************************************************)
(* The loop implements module Popup with any worker at the other end: a    *)
(* step that sends or changes the popup is one of its steps.               *)
(***************************************************************************)
AnyWorker ==
    \/ /\ turn \in {"idle", "dispatch"}
       /\ \E e \in DaemonEvent :
             OnShow(e) \/ OnHide(e) \/ OnLockChanged(e)
             \/ OnEditReady(e) \/ OnRefresh(e) \/ OnRequestPin(e)
       /\ UNCHANGED protocolVars
    \/ /\ requests # <<>> /\ requests' = Tail(requests)
       /\ UNCHANGED <<popupVars, events>>

\* Every step of the loop is a step of Popup or leaves it alone (popup.rs, shell.rs).
ImplementsPopup ==
    /\ PopupInit
    /\ [][PopupNext \/ AnyWorker \/ \E id \in Ids : NewSecret(id)]_<<popupVars, protocolVars>>

\* "leaving the new mode invisible until unrelated input arrived" (shell.rs:255-261):
\* whenever the loop goes to sleep over a frame that no longer shows the popup's mode,
\* another frame is owed, unless the last one could not be presented.
StaleFrameIsOwed ==
    turn = "idle" /\ window = "configured" /\ painted \notin {Nothing, View(mode)} =>
        owed
=================================================================================
