--------------------------------- MODULE Popup ---------------------------------
(***************************************************************************)
(* ui/popup.rs, and the places of ui/shell.rs that drive it: one thread    *)
(* that applies the worker's events one by one and turns keys into         *)
(* requests.  Whatever is only drawn (query, ranking, selection, messages, *)
(* form fields) is left out; the row an action applies to is any row.      *)
(***************************************************************************)
EXTENDS Protocol

VARIABLES
    mode,           \* Popup::mode
    visible,        \* Popup::visible
    secrets,        \* Popup::secrets, by id
    uiLock          \* Popup::lock_state

popupVars == <<mode, visible, secrets, uiLock>>

ListMode == [kind |-> "list"]
EditMode(id, isUpdate) == [kind |-> "edit", id |-> id, isUpdate |-> isUpdate]
ConfirmMode(id) == [kind |-> "confirm", id |-> id]
PinMode(n) == [kind |-> "pin", prompt |-> n]

Modes == {ListMode} \cup {EditMode(i, u) : i \in Ids, u \in BOOLEAN}
         \cup {ConfirmMode(i) : i \in Ids} \cup {PinMode(n) : n \in Prompt}

PopupTypeOK ==
    /\ mode \in Modes
    /\ visible \in BOOLEAN
    /\ secrets \subseteq Ids
    /\ uiLock \in UiLockStates

PopupInit ==
    /\ mode = ListMode
    /\ visible = FALSE
    /\ secrets = {}
    /\ uiLock = "locked"

\* Variant: the surface goes and its form stays.
ConcealSurface ==
    /\ visible' = FALSE
    /\ secrets' = {}
    /\ UNCHANGED mode

\* Popup::hide.
Conceal ==
    IF visible
    THEN visible' = FALSE /\ mode' = ListMode /\ secrets' = {}
    ELSE UNCHANGED <<visible, mode, secrets>>

(***************************************************************************)
(* Popup::handle_event.                                                    *)
(***************************************************************************)
OnShow(e) ==
    /\ e.type = "show"
    /\ secrets' = e.secrets
    /\ mode' = ListMode
    /\ visible' = TRUE
    /\ UNCHANGED uiLock

OnHide(e) ==
    /\ e.type = "hide"
    /\ Conceal
    /\ UNCHANGED uiLock

OnLockChanged(e) ==
    /\ e.type = "lock"
    /\ uiLock' = e.state
    /\ UNCHANGED <<mode, visible, secrets>>

OnEditReady(e) ==
    /\ e.type = "edit"
    /\ mode' = EditMode(e.id, TRUE)
    /\ visible' = TRUE
    /\ UNCHANGED <<secrets, uiLock>>

OnRefresh(e) ==
    /\ e.type = "refresh"
    /\ secrets' = e.secrets
    /\ UNCHANGED <<mode, visible, uiLock>>

OnRequestPin(e) ==
    /\ e.type = "pin"
    /\ mode' = PinMode(e.prompt)
    /\ visible' = TRUE
    /\ UNCHANGED <<secrets, uiLock>>

HandleEvent ==
    /\ events # <<>>
    /\ events' = Tail(events)
    /\ UNCHANGED requests
    /\ LET e == Head(events) IN
         OnShow(e) \/ OnHide(e) \/ OnLockChanged(e)
         \/ OnEditReady(e) \/ OnRefresh(e) \/ OnRequestPin(e)

(***************************************************************************)
(* Popup::handle_keys, by mode, and the buttons that do the same.          *)
(***************************************************************************)
In(kind) == visible /\ mode.kind = kind

SetMode(m) ==
    /\ mode' = m
    /\ UNCHANGED <<visible, secrets, uiLock>>

\* Escape in the list, or the loss of focus while no form is open.
Dismiss ==
    /\ In("list")
    /\ Conceal
    /\ UNCHANGED <<uiLock, events, requests>>

\* The compositor took the surface away, whatever was on it.
SurfaceClosed ==
    /\ visible
    /\ Conceal
    /\ UNCHANGED <<uiLock, events, requests>>

\* Ctrl+N or the Add button: a form under a fresh UUID.
NewSecret(id) ==
    /\ "save" \in Asked
    /\ In("list")
    /\ SetMode(EditMode(id, FALSE))
    /\ UNCHANGED protocolVars

\* Arrow keys, and typing in the search box.
Navigate ==
    /\ In("list")
    /\ Submit(Touch)
    /\ UNCHANGED <<popupVars, events>>

\* What Enter on the selected row sends, if anything (activate_selected).
Activated ==
    IF secrets = {} THEN {}
    ELSE CASE uiLock = "unlocked" -> {Use(i) : i \in secrets}
           [] uiLock = "locked" -> {Unlock}
           [] uiLock = "waiting" -> {}

ActivateSelected ==
    /\ In("list")
    /\ \E r \in Activated : Submit(r)
    /\ UNCHANGED <<popupVars, events>>

AskEdit(id) ==
    /\ In("list")
    /\ id \in secrets
    /\ Submit(BeginEdit(id))
    /\ UNCHANGED <<popupVars, events>>

AskDelete(id) ==
    /\ "delete" \in Asked
    /\ In("list")
    /\ id \in secrets
    /\ SetMode(ConfirmMode(id))
    /\ UNCHANGED protocolVars

\* Escape or Cancel in a form or a confirmation: no request is sent.
AbandonForm ==
    /\ In("edit") \/ In("confirm")
    /\ SetMode(ListMode)
    /\ UNCHANGED protocolVars

\* Ctrl+S on a form that validates.  The form closes at once.
SaveEditor ==
    /\ In("edit")
    /\ Submit(Save(mode.id, mode.isUpdate))
    /\ SetMode(ListMode)
    /\ UNCHANGED events

ConfirmDelete ==
    /\ In("confirm")
    /\ Submit(Delete(mode.id))
    /\ SetMode(ListMode)
    /\ UNCHANGED events

\* Enter with a PIN, or Escape.
AnswerPin(given) ==
    /\ In("pin")
    /\ Submit(PinResponse(mode.prompt, given))
    /\ SetMode(ListMode)
    /\ UNCHANGED events

PopupNext ==
    \/ HandleEvent
    \/ Dismiss \/ SurfaceClosed
    \/ Navigate \/ ActivateSelected \/ AbandonForm \/ SaveEditor \/ ConfirmDelete
    \/ \E id \in Ids : AskEdit(id) \/ AskDelete(id)
    \/ \E given \in BOOLEAN : AnswerPin(given)
================================================================================
