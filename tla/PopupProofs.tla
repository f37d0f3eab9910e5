------------------------------ MODULE PopupProofs ------------------------------
(***************************************************************************)
(* Lemmas about the popup's steps, for any secrets and any bound on the    *)
(* requests: they keep the popup a popup and send nothing but requests of  *)
(* the protocol.  The composition with the daemon and the popup's window   *)
(* both rest on them.                                                      *)
(***************************************************************************)
EXTENDS Popup, TLAPS

USE BoundsAssumption

\* The modes the popup can be in, and what each carries (popup.rs, Mode).
LEMMA ModeTypes ==
    /\ ListMode \in Modes
    /\ \A i \in Ids, u \in BOOLEAN : EditMode(i, u) \in Modes
    /\ \A i \in Ids : ConfirmMode(i) \in Modes
    /\ \A n \in Prompt : PinMode(n) \in Modes
  BY DEF Modes

LEMMA ModeFields ==
    ASSUME NEW m \in Modes
    PROVE  /\ m.kind \in {"list", "edit", "confirm", "pin"}
           /\ m.kind = "list" => m = ListMode
           /\ m.kind = "edit" => m.id \in Ids /\ m.isUpdate \in BOOLEAN
           /\ m.kind = "confirm" => m.id \in Ids /\ m = ConfirmMode(m.id)
           /\ m.kind = "pin" => m.prompt \in Prompt
  BY DEF Modes, ListMode, EditMode, ConfirmMode, PinMode

\* What each event carries (state.rs).
LEMMA EventFields ==
    ASSUME NEW e \in DaemonEvent
    PROVE  /\ e.type \in {"show", "hide", "lock", "edit", "refresh", "pin"}
           /\ e.type \in {"show", "refresh"} => e.secrets \subseteq Ids
           /\ e.type = "lock" => e.state \in UiLockStates
           /\ e.type = "edit" => e.id \in Ids
           /\ e.type = "pin" => e.prompt \in Prompt
  BY DEF DaemonEvent, Show, Hide, LockChanged, EditReady, Refresh, RequestPin

\* The requests the popup makes of its rows and its forms are of the protocol.
LEMMA RequestsOfThePopup ==
    /\ Touch \in UiRequest /\ Unlock \in UiRequest
    /\ \A i \in Ids : Use(i) \in UiRequest /\ BeginEdit(i) \in UiRequest /\ Delete(i) \in UiRequest
    /\ \A i \in Ids, u \in BOOLEAN : Save(i, u) \in UiRequest
    /\ \A n \in Prompt, g \in BOOLEAN : PinResponse(n, g) \in UiRequest
  BY DEF UiRequest, PinResponses

LEMMA SubmitTypes ==
    ASSUME requests \in Seq(UiRequest), NEW r \in UiRequest, Submit(r)
    PROVE  requests' \in Seq(UiRequest)
  BY DEF Submit

\* Applying an event, whichever it is and whatever is on screen, leaves a popup
\* that shows no form while it is hidden (popup.rs:173-236).
LEMMA EventApplied ==
    ASSUME PopupTypeOK, NEW e \in DaemonEvent,
           \/ OnShow(e) \/ OnHide(e) \/ OnLockChanged(e)
           \/ OnEditReady(e) \/ OnRefresh(e) \/ OnRequestPin(e)
    PROVE  /\ PopupTypeOK'
           /\ (~visible => mode = ListMode) => (~visible' => mode' = ListMode)
  <1> USE ModeTypes, EventFields DEF PopupTypeOK
  <1>1. CASE OnShow(e)
    BY <1>1 DEF OnShow
  <1>2. CASE OnHide(e)
    BY <1>2 DEF OnHide, Conceal
  <1>3. CASE OnLockChanged(e)
    BY <1>3 DEF OnLockChanged
  <1>4. CASE OnEditReady(e)
    BY <1>4 DEF OnEditReady
  <1>5. CASE OnRefresh(e)
    BY <1>5 DEF OnRefresh
  <1>6. CASE OnRequestPin(e)
    BY <1>6 DEF OnRequestPin
  <1> QED
    BY <1>1, <1>2, <1>3, <1>4, <1>5, <1>6

\* What a step of the popup does to the channels: it takes the next event, or
\* sends a request of the protocol, or leaves them alone.
Takes == events # <<>> /\ events' = Tail(events) /\ UNCHANGED requests

Says == UNCHANGED events /\ (UNCHANGED requests \/ \E r \in UiRequest : Submit(r))

\* Every step of the popup keeps its types, speaks the protocol, and shows no
\* form while it is hidden.
LEMMA PopupSteps ==
    ASSUME PopupTypeOK, events \in Seq(DaemonEvent),
           PopupNext \/ \E id \in Ids : NewSecret(id)
    PROVE  /\ PopupTypeOK'
           /\ Takes \/ Says
           /\ (~visible => mode = ListMode) => (~visible' => mode' = ListMode)
  <1> USE ModeTypes, ModeFields, RequestsOfThePopup DEF PopupTypeOK, popupVars, protocolVars
  <1>1. CASE HandleEvent
    <2>1. Head(events) \in DaemonEvent
      BY <1>1 DEF HandleEvent
    <2> QED
      BY <1>1, <2>1, EventApplied DEF HandleEvent, Takes
  <1>2. CASE Dismiss \/ SurfaceClosed
    BY <1>2 DEF Dismiss, SurfaceClosed, Conceal, Says
  <1>3. CASE Navigate
    BY <1>3 DEF Navigate, Says
  <1>4. CASE ActivateSelected
    <2>1. Activated \subseteq UiRequest
      BY DEF Activated, UiLockStates
    <2> QED
      BY <1>4, <2>1 DEF ActivateSelected, Says
  <1>5. CASE AbandonForm
    BY <1>5 DEF AbandonForm, SetMode, In, Says
  <1>6. CASE SaveEditor
    BY <1>6 DEF SaveEditor, SetMode, In, Says
  <1>7. CASE ConfirmDelete
    BY <1>7 DEF ConfirmDelete, SetMode, In, Says
  <1>8. ASSUME NEW id \in Ids, AskEdit(id) \/ AskDelete(id) \/ NewSecret(id)
        PROVE  /\ PopupTypeOK' /\ Says
               /\ (~visible => mode = ListMode) => (~visible' => mode' = ListMode)
    <2>1. CASE AskEdit(id)
      BY <2>1 DEF AskEdit, Says
    <2>2. CASE AskDelete(id)
      BY <2>2 DEF AskDelete, SetMode, In, Says
    <2>3. CASE NewSecret(id)
      BY <2>3 DEF NewSecret, SetMode, In, Says
    <2> QED
      BY <1>8, <2>1, <2>2, <2>3
  <1>9. ASSUME NEW given \in BOOLEAN, AnswerPin(given)
        PROVE  /\ PopupTypeOK' /\ Says
               /\ (~visible => mode = ListMode) => (~visible' => mode' = ListMode)
    BY <1>9 DEF AnswerPin, SetMode, In, Says
  <1> QED
    BY <1>1, <1>2, <1>3, <1>4, <1>5, <1>6, <1>7, <1>8, <1>9 DEF PopupNext
===============================================================================
