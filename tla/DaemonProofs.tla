------------------------------ MODULE DaemonProofs ------------------------------
(***************************************************************************)
(* Theorems about Daemon against any popup, for any number of secrets and  *)
(* of slots for unlock threads, any timeout and any bound on the channels. *)
(*                                                                         *)
(* They rest on three facts about who is where.  An assertion thread is    *)
(* between its first and its last call on the authenticator exactly while  *)
(* it holds the session's mutex; the claim is up exactly while one thread  *)
(* of start_unlock is on its way; and the thread of a reassertion lives    *)
(* only within the handler that waits for it.                              *)
(*                                                                         *)
(* Module Sypherstore composes the daemon with its popup; the last section *)
(* is about the two.                                                       *)
(***************************************************************************)
EXTENDS Sypherstore, PopupProofs, TLAPS

USE ThreadsAssumption, BoundsAssumption, TimeoutAssumption, NoKeyAssumption

(***************************************************************************)
(* The inductive invariant.                                                *)
(***************************************************************************)
\* A thread waits for the user exactly while the session's mutex is its own.
HolderWaits == \A t \in Threads : Waiting(t) <=> mutex = t

\* A handler that may wait for a reassertion.
AsksAgain == worker.job.type \in {"edit", "save", "delete"}

\* The thread of reassert runs within the handler that waits for it, never
\* reports, and has admitted its key by the time the handler goes on; and a
\* deletion goes on in no other way.
ReassertsInHandler ==
    LET r == thread[Reasserter]
    IN  /\ r.pc \notin {"report", "look", "tell", "reload", "send"}
        /\ r.pc # "none" => worker.pc \in {"await", "act", "reload", "send"} /\ AsksAgain
        /\ worker.pc \in {"act", "reload", "send"} /\ r.pc # "none" => r.pc = "done" /\ r.ok
        /\ worker.pc = "act" /\ worker.job.type = "delete" => r.pc = "done" /\ r.ok

DaemonIInv == OpenTypeOK /\ HolderWaits /\ ClaimHasOneOwner /\ ReassertsInHandler

(***************************************************************************)
(* Type correctness.                                                       *)
(***************************************************************************)
\* What the calls on the session make of its lock is a lock (session.rs:
\* 296-297, 309-349).
LEMMA LockTypes ==
    /\ Locked \in LockRecord /\ Admitted(VaultKey) \in LockRecord
    /\ \A l \in LockRecord :
         Ticked(l) \in LockRecord /\ Touched(l) \in LockRecord /\ Aged(l) \in LockRecord
  BY DEF Locked, Admitted, Ticked, Touched, Aged, Expired, Resident, LockRecord

\* PIN prompts are numbered in a circle.
LEMMA PromptTypes == 0 \in Prompt /\ \A n \in Prompt : (n + 1) % Prompts \in Prompt
  BY DEF Prompt, BoundsAssumption

\* Every event the daemon makes is one of the protocol (state.rs).
LEMMA EventTypes ==
    /\ Hide \in DaemonEvent
    /\ \A s \in SUBSET Ids : Show(s) \in DaemonEvent /\ Refresh(s) \in DaemonEvent
    /\ \A l \in UiLockStates : LockChanged(l) \in DaemonEvent
    /\ \A i \in Ids : EditReady(i) \in DaemonEvent
    /\ \A n \in Prompt : RequestPin(n) \in DaemonEvent
  BY DEF DaemonEvent

\* The requests of each kind carry what their handlers read of them.
LEMMA RequestTypes ==
    ASSUME NEW j \in Work
    PROVE  /\ j.type = "pin" => j \in PinResponses
           /\ j.type \in {"use", "edit", "save", "delete"} => j.id \in Ids
           /\ j.type = "save" => j.isUpdate \in BOOLEAN
           /\ j.type = "delete" => j = Delete(j.id)
  <1>1. CASE j \in {Unlock, Touch, Hotkey, Timer}
    BY <1>1 DEF Unlock, Touch, Hotkey, Timer
  <1>2. CASE j \in {Use(i) : i \in Ids} \cup {BeginEdit(i) : i \in Ids} \cup {Delete(i) : i \in Ids}
    BY <1>2 DEF Use, BeginEdit, Delete
  <1>3. CASE j \in {Save(i, u) : i \in Ids, u \in BOOLEAN}
    BY <1>3 DEF Save
  <1>4. CASE j \in PinResponses
    BY <1>4 DEF PinResponses, PinResponse
  <1> QED
    BY <1>1, <1>2, <1>3, <1>4 DEF Work, UiRequest

\* Sending appends to the channel (state.rs, UiEvents::send).
LEMMA SendTypes ==
    ASSUME events \in Seq(DaemonEvent)
    PROVE  /\ Send(<<>>) => events' = events
           /\ \A e \in DaemonEvent : Send(<<e>>) =>
                /\ events' \in Seq(DaemonEvent)
                /\ Len(events') = Len(events) + 1
                /\ events'[Len(events')] = e
           /\ \A out \in Outgoing : Send(out) => events' \in Seq(DaemonEvent)
  <1>1. Send(<<>>) => events' = events
    BY DEF Send
  <1>2. \A e \in DaemonEvent : Send(<<e>>) => events' = Append(events, e)
    BY DEF Send
  <1>3. \A e \in DaemonEvent : /\ Append(events, e) \in Seq(DaemonEvent)
                               /\ Len(Append(events, e)) = Len(events) + 1
                               /\ Append(events, e)[Len(events) + 1] = e
    OBVIOUS
  <1>4. \A e \in DaemonEvent : Send(<<e>>) =>
          /\ events' \in Seq(DaemonEvent)
          /\ Len(events') = Len(events) + 1
          /\ events'[Len(events')] = e
    BY <1>2, <1>3
  <1>5. \A out \in Outgoing : Send(out) => events' \in Seq(DaemonEvent)
    BY <1>1, <1>4 DEF Outgoing
  <1> QED
    BY <1>1, <1>4, <1>5

\* Spawning, moving and ending a thread leaves the threads threads.
LEMMA ThreadTypes ==
    ASSUME thread \in [Threads -> ThreadRecord], NEW t \in Threads
    PROVE  /\ Spawn(t) => thread' \in [Threads -> ThreadRecord]
           /\ \A pc \in ThreadPcs : SetPc(t, pc) => thread' \in [Threads -> ThreadRecord]
           /\ \A pc \in ThreadPcs, out \in Outgoing :
                thread' = [thread EXCEPT ![t].pc = pc, ![t].out = out]
                  => thread' \in [Threads -> ThreadRecord]
           /\ thread' = [thread EXCEPT ![t] = NoThread]
                => thread' \in [Threads -> ThreadRecord]
  <1>1. NoThread \in ThreadRecord /\ [NoThread EXCEPT !.pc = "wait"] \in ThreadRecord
    BY PromptTypes DEF NoThread, ThreadRecord, ThreadPcs, Outgoing
  <1>2. \A pc \in ThreadPcs : [thread[t] EXCEPT !.pc = pc] \in ThreadRecord
    BY DEF ThreadRecord
  <1>3. \A pc \in ThreadPcs, out \in Outgoing :
          [thread[t] EXCEPT !.pc = pc, !.out = out] \in ThreadRecord
    BY DEF ThreadRecord
  <1>4. ASSUME NEW pc \in ThreadPcs, NEW out \in Outgoing,
               thread' = [thread EXCEPT ![t].pc = pc, ![t].out = out]
        PROVE  thread' \in [Threads -> ThreadRecord]
    BY <1>3, <1>4
  <1> QED
    BY <1>1, <1>2, <1>4 DEF Spawn, SetPc

\* So does the return of Session::unlock, which sets the lock as well.
LEMMA ReturnTypes ==
    ASSUME OpenTypeOK, NEW t \in Threads, NEW ok \in BOOLEAN, Returns(t, ok)
    PROVE  /\ thread' \in [Threads -> ThreadRecord]
           /\ lock' \in LockRecord
           /\ mutex' \in Threads \cup {Free}
  <1>1. thread \in [Threads -> ThreadRecord] /\ lock \in LockRecord
    BY DEF OpenTypeOK, DaemonTypeOK
  <1>2. [thread[t] EXCEPT !.pc = "done", !.ok = ok] \in ThreadRecord
    BY <1>1 DEF ThreadRecord, ThreadPcs
  <1> QED
    BY <1>1, <1>2, LockTypes DEF Returns

\* The worker enters, continues and leaves a handler with a record of its own.
LEMMA WorkerTypes ==
    ASSUME OpenTypeOK
    PROVE  /\ Selecting \in WorkerRecord
           /\ UiLockState \in UiLockStates
           /\ \A j \in Work : Enter(j) => worker' \in WorkerRecord
           /\ \A pc \in WorkerPcs : Continue(pc) => worker' \in WorkerRecord
           /\ \A pc \in WorkerPcs, e \in DaemonEvent : Prepare(pc, e) => worker' \in WorkerRecord
           /\ \A pc \in WorkerPcs : SendPrepared(pc) =>
                worker' \in WorkerRecord /\ events' \in Seq(DaemonEvent)
           /\ Send(worker.out) => events' \in Seq(DaemonEvent)
           /\ Observe => worker' \in WorkerRecord
           /\ Return => /\ worker' \in WorkerRecord
                        /\ thread' \in [Threads -> ThreadRecord]
  <1> USE DEF WorkerRecord
  <1>1. worker \in WorkerRecord /\ thread \in [Threads -> ThreadRecord]
    BY DEF OpenTypeOK, DaemonTypeOK
  <1>2. Selecting \in WorkerRecord
    BY DEF Selecting, WorkerPcs, Work, UiLockStates, Outgoing
  <1>3. UiLockState \in UiLockStates
    BY DEF UiLockState, SessionState, UiLockStates
  <1>4. \A j \in Work : Enter(j) => worker' \in WorkerRecord
    BY DEF Enter, Selecting, WorkerPcs, UiLockStates, Outgoing
  <1>8. \A pc \in WorkerPcs, e \in DaemonEvent : Prepare(pc, e) => worker' \in WorkerRecord
    BY <1>1 DEF Prepare, Outgoing
  <1>9. Send(worker.out) => events' \in Seq(DaemonEvent)
    BY <1>1, SendTypes DEF OpenTypeOK
  <1>10. \A pc \in WorkerPcs : SendPrepared(pc) =>
           worker' \in WorkerRecord /\ events' \in Seq(DaemonEvent)
    BY <1>1, <1>9 DEF SendPrepared, Outgoing
  <1>5. \A pc \in WorkerPcs : Continue(pc) => worker' \in WorkerRecord
    BY <1>1 DEF Continue
  <1>6. Observe => worker' \in WorkerRecord
    BY <1>1, <1>3 DEF Observe, WorkerPcs
  <1>7. Return => worker' \in WorkerRecord /\ thread' \in [Threads -> ThreadRecord]
    BY <1>1, <1>2, ThreadTypes DEF Return, Threads
  <1> QED
    BY <1>2, <1>3, <1>4, <1>5, <1>6, <1>7, <1>8, <1>9, <1>10

LEMMA InitType == OpenInit => OpenTypeOK
  <1> SUFFICES ASSUME OpenInit PROVE OpenTypeOK
    OBVIOUS
  <1>1. NoThread \in ThreadRecord /\ 0 \in Prompt
    BY PromptTypes DEF NoThread, ThreadRecord, ThreadPcs, Outgoing
  <1>2. Selecting \in WorkerRecord
    BY DEF Selecting, WorkerRecord, WorkerPcs, Work, UiLockStates, Outgoing
  <1>3. /\ events \in Seq(DaemonEvent) /\ requests \in Seq(UiRequest)
        /\ answers \in Seq(PinResponses)
    BY DEF OpenInit, DaemonInit
  <1>4. thread \in [Threads -> ThreadRecord]
    BY <1>1 DEF OpenInit, DaemonInit
  <1> QED
    BY <1>1, <1>2, <1>3, <1>4, LockTypes
    DEF OpenInit, DaemonInit, OpenTypeOK, DaemonTypeOK, UiLockStates

\* The steps of an assertion thread (pin.rs:48-84, daemon.rs:557-582).
LEMMA ThreadTypeStep ==
    ASSUME OpenTypeOK, NEW t \in Threads, ThreadNext(t)
    PROVE  OpenTypeOK'
  <1> USE DEF OpenTypeOK, DaemonTypeOK, sharedVars
  <1>1. requests' \in Seq(UiRequest) /\ worker' \in WorkerRecord
        /\ lastState' \in UiLockStates
        /\ binding' \in {"pending", "granted", "refused", "bound", "spent"}
    BY DEF ThreadNext, loopVars
  <1>2. CASE Acquire(t)
    BY <1>1, <1>2, ThreadTypes DEF Acquire, ThreadPcs
  <1>3. CASE AskPin(t)
    <2>1. prompt \in Prompt /\ prompt' \in Prompt
      BY <1>3, PromptTypes DEF AskPin
    <2>2. events' \in Seq(DaemonEvent)
      BY <1>3, <2>1, EventTypes, SendTypes DEF AskPin
    <2>3. thread' \in [Threads -> ThreadRecord]
      <3>1. [thread[t] EXCEPT !.pc = "pin", !.prompt = prompt] \in ThreadRecord
        BY <2>1 DEF ThreadRecord, ThreadPcs
      <3> QED
        BY <1>3, <3>1 DEF AskPin
    <2> QED
      BY <1>1, <1>3, <2>1, <2>2, <2>3 DEF AskPin
  <1>4. CASE SkipPin(t)
    BY <1>1, <1>4, ThreadTypes DEF SkipPin, ThreadPcs
  <1>5. CASE TakePin(t)
    <2>1. answers' \in Seq(PinResponses)
      BY <1>5 DEF TakePin
    <2>2. CASE Head(answers).given
      BY <1>1, <1>5, <2>1, <2>2, ThreadTypes DEF TakePin, ThreadPcs
    <2>3. CASE ~Head(answers).given
      BY <1>1, <1>5, <2>1, <2>3, ReturnTypes DEF TakePin
    <2> QED
      BY <2>2, <2>3
  <1>6. CASE TouchKey(t)
    BY <1>1, <1>6, ReturnTypes DEF TouchKey
  <1>7. CASE GiveUp(t)
    BY <1>1, <1>7, ReturnTypes DEF GiveUp
  <1>8. CASE EndUnlock(t)
    BY <1>1, <1>8, ThreadTypes DEF EndUnlock, ThreadPcs
  <1>9. CASE ReportFailure(t)
    <2>1. events' \in Seq(DaemonEvent)
      BY <1>9, EventTypes, SendTypes DEF ReportFailure, UiLockStates
    <2> QED
      BY <1>1, <1>9, <2>1, ThreadTypes DEF ReportFailure
  <1>10. CASE ReadClaim(t)
    <2>1. <<LockChanged("waiting")>> \in Outgoing
      BY EventTypes DEF Outgoing, UiLockStates
    <2> QED
      BY <1>1, <1>10, <2>1, ThreadTypes DEF ReadClaim, ThreadPcs
  <1>11. CASE Look(t)
    <2>1. <<LockChanged(SessionState)>> \in Outgoing
      BY EventTypes DEF Outgoing, SessionState, UiLockStates
    <2>2. thread' \in [Threads -> ThreadRecord]
      BY <1>11, <2>1, ThreadTypes DEF Look, ThreadPcs
    <2> QED
      BY <1>1, <1>11, <2>2, LockTypes DEF Look
  <1>12. thread[t].out \in Outgoing /\ <<>> \in Outgoing
    BY DEF ThreadRecord, Outgoing
  <1>13. CASE Tell(t)
    <2>1. events' \in Seq(DaemonEvent)
      BY <1>12, <1>13, SendTypes DEF Tell
    <2> QED
      BY <1>1, <1>12, <1>13, <2>1, ThreadTypes DEF Tell, ThreadPcs
  <1>14. CASE Reload(t)
    <2>1. <<Refresh(stored)>> \in Outgoing
      BY EventTypes DEF Outgoing
    <2>2. [thread[t] EXCEPT !.pc = "send", !.out = <<Refresh(stored)>>] \in ThreadRecord
      BY <2>1 DEF ThreadRecord, ThreadPcs
    <2>3. NoThread \in ThreadRecord
      BY <1>12, PromptTypes DEF NoThread, ThreadRecord, ThreadPcs
    <2>4. thread' \in [Threads -> ThreadRecord]
      BY <1>14, <2>2, <2>3 DEF Reload
    <2> QED
      BY <1>1, <1>14, <2>4, LockTypes DEF Reload
  <1>15. CASE SendList(t)
    <2>1. events' \in Seq(DaemonEvent)
      BY <1>12, <1>15, SendTypes DEF SendList
    <2> QED
      BY <1>1, <1>15, <2>1, ThreadTypes DEF SendList
  <1> QED
    BY <1>2, <1>3, <1>4, <1>5, <1>6, <1>7, <1>8, <1>9, <1>10, <1>11, <1>13, <1>14, <1>15
    DEF ThreadNext

\* The worker's select and its shutdown (daemon.rs:241-313).
LEMMA SelectTypeStep ==
    ASSUME OpenTypeOK, Select \/ Shutdown
    PROVE  OpenTypeOK'
  <1> USE DEF OpenTypeOK, DaemonTypeOK, sharedVars, threadVars, loopVars, protocolVars
  <1>1. CASE SelectRequest
    <2>1. Head(requests) \in Work /\ requests' \in Seq(UiRequest)
      BY <1>1 DEF SelectRequest, Work
    <2> QED
      BY <1>1, <2>1, WorkerTypes DEF SelectRequest
  <1>2. CASE SelectHotkey \/ SelectTimer
    <2>1. Hotkey \in Work /\ Timer \in Work
      BY DEF Work
    <2> QED
      BY <1>2, <2>1, WorkerTypes DEF SelectHotkey, SelectTimer
  <1>3. CASE SelectBinding
    BY <1>3 DEF SelectBinding
  <1>4. CASE SelectSpentBinding
    BY <1>4 DEF SelectSpentBinding, WorkerRecord, WorkerPcs
  <1>5. CASE Shutdown
    BY <1>5, LockTypes DEF Shutdown, WorkerRecord, WorkerPcs
  <1> QED
    BY <1>1, <1>2, <1>3, <1>4, <1>5 DEF Select

\* start_unlock (daemon.rs:544-559).
LEMMA StartUnlockTypes ==
    ASSUME OpenTypeOK, StartUnlock
    PROVE  /\ inFlight' \in BOOLEAN
           /\ events' \in Seq(DaemonEvent)
           /\ thread' \in [Threads -> ThreadRecord]
  <1> USE DEF OpenTypeOK, DaemonTypeOK
  <1>1. CASE inFlight
    BY <1>1 DEF StartUnlock
  <1>2. CASE ~inFlight
    <2>1. events' \in Seq(DaemonEvent)
      BY <1>2, EventTypes, SendTypes DEF StartUnlock, UiLockStates
    <2> QED
      BY <1>2, <2>1, ThreadTypes DEF StartUnlock, Threads
  <1> QED
    BY <1>1, <1>2

\* The timer branch and the hotkey (daemon.rs:292-311, 323-357).
LEMMA LoopTypeStep ==
    ASSUME OpenTypeOK,
           \/ HandleTimer \/ ActTimer \/ HandleHotkey \/ ActHotkey \/ ShowPopup \/ LookHotkey
           \/ TellHotkey \/ StartHotkey
    PROVE  OpenTypeOK'
  <1> USE DEF OpenTypeOK, DaemonTypeOK, sharedVars, threadVars, loopVars, protocolVars
  <1>1. CASE HandleTimer \/ HandleHotkey
    <2>1. lock' \in LockRecord
      BY <1>1, LockTypes DEF HandleTimer, HandleHotkey, ReadUiLockState
    <2> QED
      BY <1>1, <2>1, WorkerTypes DEF HandleTimer, HandleHotkey
  <1>2. CASE ActTimer
    <2>1. worker.seen \in UiLockStates
      BY DEF WorkerRecord
    <2>2. events' \in Seq(DaemonEvent)
      BY <1>2, <2>1, EventTypes, SendTypes DEF ActTimer
    <2> QED
      BY <1>2, <2>1, <2>2, WorkerTypes DEF ActTimer
  <1>3. CASE ActHotkey
    <2>1. Show({}) \in DaemonEvent /\ Show(Listed) \in DaemonEvent
      BY EventTypes DEF Listed
    <2>2. lock' \in LockRecord
      BY <1>3, LockTypes DEF ActHotkey
    <2>3. worker' \in WorkerRecord
      BY <1>3, <2>1, WorkerTypes DEF ActHotkey, WorkerPcs
    <2> QED
      BY <1>3, <2>2, <2>3 DEF ActHotkey
  <1>4. CASE ShowPopup \/ TellHotkey
    <2>1. worker' \in WorkerRecord /\ events' \in Seq(DaemonEvent)
      BY <1>4, WorkerTypes DEF ShowPopup, TellHotkey, WorkerPcs
    <2> QED
      BY <1>4, <2>1 DEF ShowPopup, TellHotkey
  <1>6. CASE LookHotkey
    <2>1. LockChanged(UiLockState) \in DaemonEvent
      BY EventTypes, WorkerTypes
    <2>2. lock' \in LockRecord
      BY <1>6, LockTypes DEF LookHotkey, ReadUiLockState
    <2>3. worker' \in WorkerRecord
      BY <1>6, <2>1, WorkerTypes DEF LookHotkey, WorkerPcs
    <2> QED
      BY <1>6, <2>2, <2>3 DEF LookHotkey
  <1>5. CASE StartHotkey
    <2>1. /\ inFlight' \in BOOLEAN /\ events' \in Seq(DaemonEvent)
          /\ thread' \in [Threads -> ThreadRecord]
      BY <1>5, StartUnlockTypes DEF StartHotkey
    <2>2. lock' \in LockRecord
      BY <1>5, LockTypes DEF StartHotkey
    <2> QED
      BY <1>5, <2>1, <2>2, WorkerTypes DEF StartHotkey
  <1> QED
    BY <1>1, <1>2, <1>3, <1>4, <1>5, <1>6

\* The handlers of the popup's requests (daemon.rs:359-497).
LEMMA RequestTypeStep ==
    ASSUME OpenTypeOK,
           \/ HandleUnlock \/ HandlePinResponse \/ HandleTouch \/ HandleUse \/ HidePopup
           \/ HandleForm \/ HandleDelete \/ Resume
           \/ ActEdit \/ ActSave \/ ActDelete \/ ReloadList \/ SendAnswer
    PROVE  OpenTypeOK'
  <1> USE DEF OpenTypeOK, DaemonTypeOK, sharedVars, threadVars, loopVars, protocolVars
  <1>0. /\ worker.job \in Work
        /\ {"act", "await", "hide", "deliver", "reload", "send"} \subseteq WorkerPcs
    BY DEF WorkerRecord, WorkerPcs
  <1> DEFINE id == worker.job.id
  <1>1. CASE HandleUnlock
    BY <1>1, StartUnlockTypes, WorkerTypes DEF HandleUnlock
  <1>2. CASE HandlePinResponse
    <2>1. answers' \in Seq(PinResponses)
      BY <1>0, <1>2, RequestTypes DEF HandlePinResponse, Handling
    <2> QED
      BY <1>2, <2>1, WorkerTypes DEF HandlePinResponse
  <1>3. CASE HandleTouch
    BY <1>3, LockTypes, WorkerTypes DEF HandleTouch
  <1>4. LockAfterOpen(id) \in LockRecord
    BY LockTypes DEF LockAfterOpen
  <1>5. CASE HandleUse
    <2>1. worker' \in WorkerRecord
      BY <1>0, <1>5, EventTypes, WorkerTypes DEF HandleUse
    <2> QED
      BY <1>4, <1>5, <2>1 DEF HandleUse
  <1>12. CASE HidePopup
    <2>1. worker' \in WorkerRecord /\ events' \in Seq(DaemonEvent)
      BY <1>0, <1>12, WorkerTypes DEF HidePopup
    <2> QED
      BY <1>12, <2>1 DEF HidePopup
  <1>6. CASE HandleForm
    <2>1. lock' \in LockRecord
      BY <1>6, LockTypes DEF HandleForm, ReadUiLockState
    <2>2. worker' \in WorkerRecord /\ thread' \in [Threads -> ThreadRecord]
      BY <1>0, <1>6, WorkerTypes, ThreadTypes DEF HandleForm, Threads
    <2> QED
      BY <1>6, <2>1, <2>2 DEF HandleForm
  <1>7. CASE HandleDelete
    <2>1. worker' \in WorkerRecord /\ thread' \in [Threads -> ThreadRecord]
      BY <1>0, <1>7, WorkerTypes, ThreadTypes DEF HandleDelete, Threads
    <2> QED
      BY <1>7, <2>1, LockTypes DEF HandleDelete
  <1>8. CASE Resume
    <2>1. worker' \in WorkerRecord /\ thread' \in [Threads -> ThreadRecord]
      BY <1>0, <1>8, WorkerTypes DEF Resume
    <2> QED
      BY <1>8, <2>1 DEF Resume
  <1>9. CASE ActEdit
    <2>1. id \in Ids
      BY <1>0, <1>9, RequestTypes DEF ActEdit, Acting
    <2>2. worker' \in WorkerRecord /\ thread' \in [Threads -> ThreadRecord]
      BY <1>0, <1>9, <2>1, EventTypes, WorkerTypes DEF ActEdit
    <2> QED
      BY <1>4, <1>9, <2>2 DEF ActEdit
  <1>10. CASE ActSave
    <2>1. id \in Ids
      BY <1>0, <1>10, RequestTypes DEF ActSave, Acting
    <2>2. worker' \in WorkerRecord /\ thread' \in [Threads -> ThreadRecord]
      BY <1>0, <1>10, WorkerTypes DEF ActSave
    <2>3. stored' \subseteq Ids /\ lock' \in LockRecord
      BY <1>10, <2>1, LockTypes DEF ActSave
    <2> QED
      BY <1>10, <2>2, <2>3 DEF ActSave
  <1>11. CASE ActDelete
    <2>1. stored' \subseteq Ids
      BY <1>11 DEF ActDelete
    <2>2. worker' \in WorkerRecord /\ thread' \in [Threads -> ThreadRecord]
      BY <1>0, <1>11, WorkerTypes DEF ActDelete
    <2> QED
      BY <1>11, <2>1, <2>2 DEF ActDelete
  <1>13. CASE ReloadList
    <2>1. Refresh(stored) \in DaemonEvent
      BY EventTypes
    <2>2. worker' \in WorkerRecord /\ thread' \in [Threads -> ThreadRecord]
      BY <1>0, <1>13, <2>1, WorkerTypes DEF ReloadList
    <2> QED
      BY <1>13, <2>2, LockTypes DEF ReloadList
  <1>14. CASE SendAnswer
    BY <1>14, WorkerTypes DEF SendAnswer
  <1> QED
    BY <1>1, <1>2, <1>3, <1>5, <1>6, <1>7, <1>8, <1>9, <1>10, <1>11, <1>12, <1>13, <1>14

\* Every step of the daemon and of its world keeps the types.
LEMMA TypeStep == OpenTypeOK /\ [OpenNext]_OpenVars => OpenTypeOK'
  <1> SUFFICES ASSUME OpenTypeOK, [OpenNext]_OpenVars PROVE OpenTypeOK'
    OBVIOUS
  <1> USE DEF OpenTypeOK, DaemonTypeOK, sharedVars, threadVars, loopVars, protocolVars
  <1>1. CASE Handle
    BY <1>1, LoopTypeStep, RequestTypeStep DEF Handle
  <1>2. CASE EndDeliver
    BY <1>2, WorkerTypes DEF EndDeliver
  <1>3. ASSUME NEW t \in Threads, ThreadNext(t) PROVE OpenTypeOK'
    BY <1>3, ThreadTypeStep
  <1>4. CASE RegistrationEnds
    BY <1>4 DEF RegistrationEnds, ThreadsAssumption
  <1>5. CASE Elapse
    BY <1>5, LockTypes DEF Elapse
  <1>6. CASE AnyPopup
    <2>1. CASE TakeEvent
      BY <2>1 DEF TakeEvent, daemonVars
    <2>2. ASSUME NEW r \in UiRequest, Submit(r), UNCHANGED <<events, daemonVars>>
          PROVE  OpenTypeOK'
      <3>1. requests' \in Seq(UiRequest)
        BY <2>2 DEF Submit
      <3> QED
        BY <2>2, <3>1 DEF daemonVars
    <2> QED
      BY <1>6, <2>1, <2>2 DEF AnyPopup
  <1>7. CASE UNCHANGED OpenVars
    BY <1>7 DEF OpenVars, daemonVars
  <1> QED
    BY <1>1, <1>2, <1>3, <1>4, <1>5, <1>6, <1>7, SelectTypeStep DEF OpenNext, DaemonNext

\* Every variable of the daemon and of its channels keeps its type.
THEOREM TypeCorrect == OpenSpec => []OpenTypeOK
  BY InitType, TypeStep, PTL DEF OpenSpec

(***************************************************************************)
(* Who is where.                                                           *)
(***************************************************************************)
LEMMA InitIInv == OpenInit => DaemonIInv
  <1> SUFFICES ASSUME OpenInit PROVE DaemonIInv
    OBVIOUS
  <1>1. \A t \in Threads : thread[t].pc = "none"
    BY DEF OpenInit, DaemonInit, NoThread
  <1>2. mutex = Free /\ inFlight = FALSE /\ worker.pc = "select"
    BY DEF OpenInit, DaemonInit, Selecting
  <1>3. HolderWaits
    BY <1>1, <1>2, ThreadsAssumption DEF HolderWaits, Waiting, Threads
  <1>4. ClaimHasOneOwner
    BY <1>1, <1>2 DEF ClaimHasOneOwner, Claiming
  <1>5. ReassertsInHandler
    BY <1>1, <1>2 DEF ReassertsInHandler, Threads
  <1> QED
    BY <1>3, <1>4, <1>5, InitType DEF DaemonIInv

\* A step of an assertion thread moves that thread alone, along the closures
\* of start_unlock and reassert (daemon.rs:503-519, 557-582).
LEMMA ThreadMoves ==
    ASSUME OpenTypeOK, NEW t \in Threads, ThreadNext(t)
    PROVE  /\ \A u \in Threads \ {t} : thread'[u] = thread[u]
           /\ Acquire(t) => thread'[t].pc = "device"
           /\ AskPin(t) => thread'[t].pc = "pin"
           /\ SkipPin(t) => thread'[t].pc = "touch"
           /\ TakePin(t) => thread'[t].pc \in {"touch", "done"}
           /\ TouchKey(t) \/ GiveUp(t) => thread'[t].pc = "done"
           /\ EndUnlock(t) => thread'[t].pc = "report"
           /\ ReportFailure(t) \/ SendList(t) => thread'[t].pc = "none"
           /\ ReadClaim(t) \/ Look(t) \/ Tell(t) => thread'[t].pc \in {"look", "tell", "reload"}
           /\ Reload(t) => thread'[t].pc \in {"none", "send"}
  <1> USE DEF SetPc
  <1>1. thread \in [Threads -> ThreadRecord] /\ thread[t] \in ThreadRecord
    BY DEF OpenTypeOK, DaemonTypeOK
  <1>2. Acquire(t) => thread' = [thread EXCEPT ![t].pc = "device"]
    BY DEF Acquire
  <1>3. AskPin(t) => thread' = [thread EXCEPT ![t].pc = "pin", ![t].prompt = prompt]
    BY DEF AskPin
  <1>4. SkipPin(t) => thread' = [thread EXCEPT ![t].pc = "touch"]
    BY DEF SkipPin
  <1>5. \A ok \in BOOLEAN :
           Returns(t, ok) => thread' = [thread EXCEPT ![t].pc = "done", ![t].ok = ok]
    BY DEF Returns
  <1>6. TakePin(t) => \/ thread' = [thread EXCEPT ![t].pc = "touch"]
                      \/ thread' = [thread EXCEPT ![t].pc = "done", ![t].ok = FALSE]
    BY <1>5 DEF TakePin
  <1>7. TouchKey(t) \/ GiveUp(t) =>
          \E ok \in BOOLEAN : thread' = [thread EXCEPT ![t].pc = "done", ![t].ok = ok]
    BY <1>5 DEF TouchKey, GiveUp
  <1>8. EndUnlock(t) => thread' = [thread EXCEPT ![t].pc = "report"]
    BY DEF EndUnlock
  <1>9. ReportFailure(t) \/ SendList(t) => thread' = [thread EXCEPT ![t] = NoThread]
    BY DEF ReportFailure, SendList
  <1>10. ReadClaim(t) \/ Look(t) \/ Tell(t) =>
           /\ \A u \in Threads \ {t} : thread'[u] = thread[u]
           /\ thread'[t].pc \in {"look", "tell", "reload"}
    BY <1>1 DEF ReadClaim, Look, Tell, ThreadRecord
  <1>11. Reload(t) => /\ \A u \in Threads \ {t} : thread'[u] = thread[u]
                      /\ thread'[t].pc \in {"none", "send"}
    BY <1>1 DEF Reload, ThreadRecord, NoThread
  <1> QED
    BY <1>1, <1>2, <1>3, <1>4, <1>6, <1>7, <1>8, <1>9, <1>10, <1>11
    DEF ThreadNext, ThreadRecord, NoThread

\* It takes the mutex only when that is free, and has it from its first call on
\* the authenticator to its last (state.rs:140-146, session.rs:255-303).
LEMMA HolderStep ==
    ASSUME OpenTypeOK, HolderWaits, NEW t \in Threads, ThreadNext(t)
    PROVE  HolderWaits'
  <1> USE ThreadMoves DEF HolderWaits, Waiting
  <1>1. CASE Acquire(t)
    BY <1>1, ThreadsAssumption DEF Acquire, SessionFree, Threads
  <1>2. CASE AskPin(t) \/ SkipPin(t)
    BY <1>2 DEF AskPin, SkipPin, sharedVars
  <1>3. CASE TakePin(t)
    <2>1. CASE Head(answers).given
      <3>1. thread'[t].pc = "touch" /\ mutex' = mutex
        BY <1>3, <2>1 DEF TakePin, SetPc, OpenTypeOK, DaemonTypeOK, ThreadRecord
      <3> QED
        BY <1>3, <3>1 DEF TakePin
    <2>2. CASE ~Head(answers).given
      <3>1. thread'[t].pc = "done" /\ mutex' = Free
        BY <1>3, <2>2 DEF TakePin, Returns, OpenTypeOK, DaemonTypeOK, ThreadRecord
      <3> QED
        BY <1>3, <3>1, ThreadsAssumption DEF TakePin, Threads
    <2> QED
      BY <2>1, <2>2
  <1>4. CASE TouchKey(t) \/ GiveUp(t)
    BY <1>4, ThreadsAssumption DEF TouchKey, GiveUp, Returns, Threads
  <1>5. CASE EndUnlock(t)
    BY <1>5 DEF EndUnlock
  <1>6. CASE ReportFailure(t) \/ ReadClaim(t) \/ Look(t) \/ Tell(t) \/ Reload(t) \/ SendList(t)
    BY <1>6 DEF ReportFailure, ReadClaim, Look, Tell, Reload, SendList, sharedVars
  <1> QED
    BY <1>1, <1>2, <1>3, <1>4, <1>5, <1>6 DEF ThreadNext

\* It keeps the claim with its one owner, who lets go of it only at the end of
\* the unlock (state.rs:152-161).
LEMMA ClaimStep ==
    ASSUME OpenTypeOK, ClaimHasOneOwner, NEW t \in Threads, ThreadNext(t)
    PROVE  ClaimHasOneOwner'
  <1> USE ThreadMoves DEF ClaimHasOneOwner, Claiming
  <1>1. CASE EndUnlock(t)
    BY <1>1 DEF EndUnlock
  <1>2. CASE Acquire(t) \/ AskPin(t) \/ SkipPin(t)
    BY <1>2 DEF Acquire, AskPin, SkipPin, sharedVars
  <1>3. CASE TakePin(t) \/ TouchKey(t) \/ GiveUp(t)
    <2>1. /\ thread[t].pc \in {"device", "pin", "touch"} /\ thread'[t].pc \in {"touch", "done"}
          /\ inFlight' = inFlight
      BY <1>3 DEF TakePin, TouchKey, GiveUp
    <2>2. \A u \in Threads : Claiming(u)' <=> Claiming(u)
      BY <2>1
    <2> QED
      BY <2>1, <2>2
  <1>4. CASE ReportFailure(t) \/ ReadClaim(t) \/ Look(t) \/ Tell(t) \/ Reload(t) \/ SendList(t)
    <2>1. thread[t].pc \in {"report", "look", "tell", "reload", "send"} /\ inFlight' = inFlight
      BY <1>4 DEF ReportFailure, ReadClaim, Look, Tell, Reload, SendList, sharedVars
    <2>2. thread'[t].pc \in {"none", "look", "tell", "reload", "send"}
      BY <1>4
    <2>3. \A u \in Threads : Claiming(u)' <=> Claiming(u)
      BY <2>1, <2>2
    <2> QED
      BY <2>1, <2>3
  <1> QED
    BY <1>1, <1>2, <1>3, <1>4 DEF ThreadNext

\* It leaves a reassertion that is over as it is, and one that is not over
\* within its handler.
LEMMA ReassertStep ==
    ASSUME OpenTypeOK, ReassertsInHandler, NEW t \in Threads, ThreadNext(t)
    PROVE  ReassertsInHandler'
  <1> USE DEF ReassertsInHandler, AsksAgain, Threads
  <1>1. worker' = worker
    BY DEF ThreadNext
  <1>2. CASE t # Reasserter
    BY <1>1, <1>2, ThreadMoves
  <1>3. CASE t = Reasserter
    <2>1. /\ ~EndUnlock(t) /\ ~ReportFailure(t) /\ ~ReadClaim(t) /\ ~Look(t)
          /\ ~Tell(t) /\ ~Reload(t) /\ ~SendList(t)
      BY <1>3, ThreadsAssumption
      DEF EndUnlock, ReportFailure, ReadClaim, Look, Tell, Reload, SendList
    <2>2. thread[t].pc \notin {"none", "done"}
      BY <2>1 DEF ThreadNext, Acquire, AskPin, SkipPin, TakePin, TouchKey, GiveUp
    <2>3. thread'[t].pc \in {"device", "pin", "touch", "done"}
      BY <2>1, ThreadMoves DEF ThreadNext
    <2> QED
      BY <1>1, <1>3, <2>2, <2>3
  <1> QED
    BY <1>2, <1>3

\* The claim is taken only while nobody has it, for the one thread it starts,
\* and neither the mutex nor a reassertion is touched (daemon.rs:544-559).
LEMMA StartUnlockKeeps ==
    ASSUME DaemonIInv, StartUnlock, UNCHANGED mutex
    PROVE  HolderWaits' /\ ClaimHasOneOwner' /\ thread'[Reasserter] = thread[Reasserter]
  <1> USE DEF DaemonIInv, HolderWaits, Waiting, ClaimHasOneOwner, Claiming
  <1>1. CASE inFlight
    BY <1>1 DEF StartUnlock
  <1>2. CASE ~inFlight
    <2>1. PICK u \in Unlockers : thread[u].pc = "none" /\ Spawn(u)
      BY <1>2 DEF StartUnlock
    <2>2. thread \in [Threads -> ThreadRecord] /\ u \in Threads /\ u # Reasserter
      BY ThreadsAssumption DEF OpenTypeOK, DaemonTypeOK, Threads
    <2>3. thread'[u].pc = "wait" /\ \A t \in Threads \ {u} : thread'[t] = thread[t]
      BY <2>1, <2>2 DEF Spawn, NoThread
    <2>4. HolderWaits'
      BY <2>1, <2>2, <2>3
    <2>5. inFlight'
      BY <1>2 DEF StartUnlock
    <2>6. ClaimHasOneOwner'
      BY <1>2, <2>1, <2>2, <2>3, <2>5
    <2> QED
      BY <2>2, <2>3, <2>4, <2>6 DEF Threads
  <1> QED
    BY <1>1, <1>2

\* A reassertion that starts or that is over, and a handler that returns, make
\* no difference to who has the mutex and the claim (daemon.rs:503-519).
LEMMA ReasserterKeeps ==
    ASSUME DaemonIInv, UNCHANGED <<mutex, inFlight>>, ~Waiting(Reasserter),
           Spawn(Reasserter) \/ Return \/ UNCHANGED thread
    PROVE  HolderWaits' /\ ClaimHasOneOwner'
  <1>1. thread \in [Threads -> ThreadRecord] /\ Reasserter \in Threads
    BY DEF DaemonIInv, OpenTypeOK, DaemonTypeOK, Threads
  <1>2. \A t \in Unlockers : thread'[t] = thread[t]
    BY <1>1, ThreadsAssumption DEF Spawn, Return, Threads
  <1>3. ~Waiting(Reasserter)'
    BY <1>1 DEF Spawn, Return, NoThread, Waiting
  <1>4. HolderWaits'
    BY <1>2, <1>3 DEF DaemonIInv, HolderWaits, Waiting, Threads
  <1>5. \A t \in Threads : Claiming(t)' <=> Claiming(t)
    BY <1>2 DEF Claiming
  <1> QED
    BY <1>4, <1>5 DEF DaemonIInv, ClaimHasOneOwner

\* The steps of the worker, one handler after the other.
LEMMA WorkerStep ==
    ASSUME DaemonIInv, Select \/ Handle \/ EndDeliver \/ Shutdown
    PROVE  HolderWaits' /\ ClaimHasOneOwner' /\ ReassertsInHandler'
  <1> USE DEF sharedVars, threadVars
  <1> DEFINE r == thread[Reasserter]
  <1>0. /\ thread \in [Threads -> ThreadRecord] /\ Reasserter \in Threads
        /\ worker \in WorkerRecord
    BY DEF DaemonIInv, OpenTypeOK, DaemonTypeOK, Threads
  <1>1. ASSUME r.pc = "none", UNCHANGED <<mutex, inFlight, thread>>,
               ~(worker'.pc = "act" /\ worker'.job.type = "delete")
        PROVE  HolderWaits' /\ ClaimHasOneOwner' /\ ReassertsInHandler'
    BY <1>1, ReasserterKeeps DEF ReassertsInHandler, Waiting
  <1>2. CASE Select \/ Shutdown \/ EndDeliver
    <2>1. worker.pc \in {"select", "deliver"} /\ UNCHANGED <<mutex, inFlight, thread>>
      BY <1>2 DEF Select, SelectRequest, SelectHotkey, SelectTimer, SelectBinding,
         SelectSpentBinding, Shutdown, EndDeliver
    <2>2. \A j : Enter(j) => worker'.pc = "handle"
      BY DEF Enter, Selecting
    <2>3. SelectRequest \/ SelectHotkey \/ SelectTimer => worker'.pc = "handle"
      BY <2>2 DEF SelectRequest, SelectHotkey, SelectTimer
    <2>4. SelectBinding \/ EndDeliver => worker'.pc = "select"
      BY DEF SelectBinding, EndDeliver, Selecting
    <2>5. SelectSpentBinding \/ Shutdown => worker'.pc \in {"stopped", "panicked"}
      BY <1>0 DEF SelectSpentBinding, Shutdown, WorkerRecord
    <2> QED
      BY <1>1, <1>2, <2>1, <2>3, <2>4, <2>5 DEF Select, DaemonIInv, ReassertsInHandler
  <1>3. CASE HandleTimer \/ HandleHotkey
    <2>1. /\ worker.pc = "handle" /\ worker.job.type # "delete"
          /\ UNCHANGED <<mutex, inFlight, thread>>
      BY <1>3 DEF HandleTimer, HandleHotkey, Handling
    <2>2. worker'.job = worker.job
      BY <1>0, <1>3 DEF HandleTimer, HandleHotkey, Observe, WorkerRecord
    <2> QED
      BY <1>1, <2>1, <2>2 DEF DaemonIInv, ReassertsInHandler
  <1>4. CASE ActTimer \/ ActHotkey \/ ShowPopup \/ LookHotkey \/ TellHotkey \/ HidePopup
    <2>1. /\ ~(worker.pc \in {"await", "act", "reload", "send"} /\ AsksAgain)
          /\ UNCHANGED <<mutex, inFlight, thread>>
      BY <1>4
      DEF ActTimer, ActHotkey, ShowPopup, LookHotkey, TellHotkey, HidePopup, Acting, AsksAgain
    <2>2. \/ worker' = Selecting
          \/ \E e : Prepare("show", e) \/ Prepare("tell", e)
          \/ SendPrepared("look") \/ SendPrepared("start") \/ SendPrepared("deliver")
      BY <1>4 DEF ActTimer, ActHotkey, ShowPopup, LookHotkey, TellHotkey, HidePopup
    <2>3. worker'.pc \in {"select", "show", "look", "tell", "start", "deliver"}
      <3>1. \A e : Prepare("show", e) => worker'.pc = "show"
        BY <1>0 DEF Prepare, WorkerRecord
      <3>2. \A e : Prepare("tell", e) => worker'.pc = "tell"
        BY <1>0 DEF Prepare, WorkerRecord
      <3>3. /\ SendPrepared("look") => worker'.pc = "look"
            /\ SendPrepared("start") => worker'.pc = "start"
            /\ SendPrepared("deliver") => worker'.pc = "deliver"
        BY <1>0 DEF SendPrepared, WorkerRecord
      <3> QED
        BY <2>2, <3>1, <3>2, <3>3 DEF Selecting
    <2> QED
      BY <1>1, <2>1, <2>3 DEF DaemonIInv, ReassertsInHandler
  <1>5. CASE HandlePinResponse \/ HandleTouch \/ HandleUse
    <2>1. worker.pc = "handle" /\ UNCHANGED <<mutex, inFlight, thread>>
      BY <1>5 DEF HandlePinResponse, HandleTouch, HandleUse, Handling
    <2>2. \A e : Prepare("hide", e) => worker'.pc = "hide"
      BY <1>0 DEF Prepare, WorkerRecord
    <2>3. worker'.pc \in {"select", "hide"}
      BY <1>5, <2>2 DEF HandlePinResponse, HandleTouch, HandleUse, Selecting
    <2> QED
      BY <1>1, <2>1, <2>3 DEF DaemonIInv, ReassertsInHandler
  <1>6. CASE StartHotkey \/ HandleUnlock
    <2>1. worker.pc \in {"start", "handle"} /\ worker' = Selecting
      BY <1>6 DEF StartHotkey, HandleUnlock, Handling
    <2>2. r.pc = "none"
      BY <2>1 DEF DaemonIInv, ReassertsInHandler
    <2>3. CASE StartUnlock
      BY <1>6, <2>1, <2>2, <2>3, StartUnlockKeeps
      DEF StartHotkey, HandleUnlock, ReassertsInHandler, Selecting
    <2>4. CASE ~StartUnlock
      BY <1>1, <1>6, <2>1, <2>2, <2>4 DEF StartHotkey, HandleUnlock, Selecting
    <2> QED
      BY <2>3, <2>4
  <1>7. CASE HandleForm \/ HandleDelete
    <2>1. worker.pc = "handle" /\ AsksAgain
      BY <1>7 DEF HandleForm, HandleDelete, Handling, AsksAgain
    <2>2. r.pc = "none" /\ ~Waiting(Reasserter)
      BY <2>1 DEF DaemonIInv, ReassertsInHandler, Waiting
    <2>3. HolderWaits' /\ ClaimHasOneOwner'
      BY <1>7, <2>2, ReasserterKeeps DEF HandleForm, HandleDelete
    <2>4. CASE Continue("act") /\ UNCHANGED thread /\ HandleForm
      BY <1>0, <2>2, <2>3, <2>4 DEF Continue, HandleForm, Handling, ReassertsInHandler, WorkerRecord
    <2>5. CASE Continue("await") /\ Spawn(Reasserter)
      <3>1. thread'[Reasserter].pc = "wait"
        BY <1>0, <2>5 DEF Spawn, NoThread
      <3> QED
        BY <1>0, <2>1, <2>3, <2>5, <3>1
        DEF Continue, ReassertsInHandler, AsksAgain, WorkerRecord
    <2> QED
      BY <1>7, <2>4, <2>5 DEF HandleForm, HandleDelete
  <1>8. ASSUME Return, UNCHANGED <<mutex, inFlight>>, r.pc \in {"none", "done"}
        PROVE  HolderWaits' /\ ClaimHasOneOwner' /\ ReassertsInHandler'
    <2>1. HolderWaits' /\ ClaimHasOneOwner'
      BY <1>8, ReasserterKeeps DEF Waiting
    <2>2. thread'[Reasserter].pc = "none" /\ worker'.pc = "select"
      BY <1>0, <1>8 DEF Return, NoThread, Selecting
    <2> QED
      BY <2>1, <2>2 DEF ReassertsInHandler
  <1>9. CASE Resume
    <2>1. CASE r.ok
      <3>1. HolderWaits' /\ ClaimHasOneOwner'
        BY <1>9, <2>1, ReasserterKeeps DEF Resume, Waiting
      <3> QED
        BY <1>0, <1>9, <2>1, <3>1
        DEF Resume, Continue, DaemonIInv, ReassertsInHandler, AsksAgain, WorkerRecord
    <2>2. CASE ~r.ok
      BY <1>8, <1>9, <2>2 DEF Resume
    <2> QED
      BY <2>1, <2>2
  <1>10. CASE ActEdit \/ ActSave \/ ActDelete \/ ReloadList \/ SendAnswer
    <2>1. worker.pc \in {"act", "reload", "send"} /\ UNCHANGED <<mutex, inFlight>>
      BY <1>10 DEF ActEdit, ActSave, ActDelete, ReloadList, SendAnswer, Acting
    <2>2. r.pc # "none" => r.pc = "done" /\ r.ok /\ AsksAgain
      BY <2>1 DEF DaemonIInv, ReassertsInHandler
    <2>3. CASE Return
      BY <1>8, <2>1, <2>2, <2>3
    <2>4. CASE ~Return
      <3>1. UNCHANGED thread /\ worker'.pc \in {"reload", "send"} /\ worker'.job = worker.job
        BY <1>0, <1>10, <2>4 DEF ActEdit, ActSave, ActDelete, ReloadList, SendAnswer,
           Prepare, Continue, WorkerRecord
      <3>2. HolderWaits' /\ ClaimHasOneOwner'
        BY <2>1, <2>2, <3>1, ReasserterKeeps DEF Waiting
      <3> QED
        BY <2>2, <3>1, <3>2 DEF DaemonIInv, ReassertsInHandler, AsksAgain
    <2> QED
      BY <2>3, <2>4
  <1> QED
    BY <1>2, <1>3, <1>4, <1>5, <1>6, <1>7, <1>9, <1>10 DEF Handle

LEMMA IInvStep == DaemonIInv /\ [OpenNext]_OpenVars => DaemonIInv'
  <1> SUFFICES ASSUME DaemonIInv, [OpenNext]_OpenVars PROVE DaemonIInv'
    OBVIOUS
  <1>0. OpenTypeOK /\ OpenTypeOK'
    BY TypeStep DEF DaemonIInv
  <1>1. CASE Select \/ Handle \/ EndDeliver \/ Shutdown
    BY <1>0, <1>1, WorkerStep DEF DaemonIInv
  <1>2. ASSUME NEW t \in Threads, ThreadNext(t) PROVE DaemonIInv'
    BY <1>0, <1>2, HolderStep, ClaimStep, ReassertStep DEF DaemonIInv
  <1>3. CASE RegistrationEnds \/ Elapse \/ AnyPopup \/ UNCHANGED OpenVars
    <2>1. UNCHANGED <<mutex, inFlight, thread, worker>>
      BY <1>3 DEF RegistrationEnds, Elapse, AnyPopup, TakeEvent, OpenVars, daemonVars,
         sharedVars, threadVars
    <2>2. HolderWaits' /\ ClaimHasOneOwner'
      BY <2>1 DEF DaemonIInv, HolderWaits, ClaimHasOneOwner, Waiting, Claiming
    <2>3. ReassertsInHandler'
      BY <2>1 DEF DaemonIInv, ReassertsInHandler, AsksAgain
    <2> QED
      BY <1>0, <2>2, <2>3 DEF DaemonIInv
  <1> QED
    BY <1>1, <1>2, <1>3 DEF OpenNext, DaemonNext

\* Mutex, claim and reassertion are where the invariant says, always.
THEOREM Inductive == OpenSpec => []DaemonIInv
  BY InitIInv, IInvStep, PTL DEF OpenSpec

\* The claim of begin_unlock is held by exactly one thread that will release
\* it, or by none (state.rs:119-121, daemon.rs:550-566).
THEOREM ClaimIsNeverLost == OpenSpec => []ClaimHasOneOwner
  <1>1. DaemonIInv => ClaimHasOneOwner
    BY DEF DaemonIInv
  <1> QED
    BY <1>1, Inductive, PTL

\* Two assertion threads never wait for the user at the same time, though
\* reassert does not take the claim (pin.rs:40-42): the session's mutex is
\* held from the first call on the authenticator to the last.
THEOREM PromptsExclude == OpenSpec => []OnePromptAtATime
  <1>1. DaemonIInv => OnePromptAtATime
    BY DEF DaemonIInv, HolderWaits, OnePromptAtATime
  <1> QED
    BY <1>1, Inductive, PTL

(***************************************************************************)
(* What a step may never do.                                               *)
(***************************************************************************)
\* Only a save and a deletion write the table, and the deletion has its
\* assertion behind it (daemon.rs:450-497).
LEMMA RowsChange ==
    ASSUME DaemonIInv, [OpenNext]_OpenVars, ~(stored \subseteq stored')
    PROVE  /\ worker.job \in {Delete(id) : id \in stored \ stored'}
           /\ thread[Reasserter].pc = "done" /\ thread[Reasserter].ok
  <1>1. ActDelete
    <2>1. ~(\E t \in Threads : ThreadNext(t))
      BY DEF ThreadNext, Acquire, AskPin, SkipPin, TakePin, TouchKey, GiveUp, EndUnlock,
         ReportFailure, ReadClaim, Look, Tell, Reload, SendList, sharedVars
    <2>2. ~Select /\ ~Shutdown /\ ~EndDeliver /\ ~RegistrationEnds /\ ~Elapse
      BY DEF Select, SelectRequest, SelectHotkey, SelectTimer, SelectBinding,
         SelectSpentBinding, Shutdown, EndDeliver, RegistrationEnds, Elapse, sharedVars
    <2>3. /\ ~HandleTimer /\ ~ActTimer /\ ~HandleHotkey /\ ~ActHotkey /\ ~ShowPopup
          /\ ~LookHotkey /\ ~TellHotkey /\ ~StartHotkey
      BY DEF HandleTimer, ActTimer, HandleHotkey, ActHotkey, ShowPopup, LookHotkey, TellHotkey,
         StartHotkey, sharedVars
    <2>4. /\ ~HandleUnlock /\ ~HandlePinResponse /\ ~HandleTouch /\ ~HandleUse /\ ~HidePopup
          /\ ~HandleForm /\ ~HandleDelete /\ ~Resume /\ ~ActEdit /\ ~ReloadList /\ ~SendAnswer
      BY DEF HandleUnlock, HandlePinResponse, HandleTouch, HandleUse, HidePopup, HandleForm,
         HandleDelete, Resume, ActEdit, ReloadList, SendAnswer, sharedVars
    <2>5. ~ActSave
      BY DEF ActSave
    <2>6. ~AnyPopup /\ ~(UNCHANGED OpenVars)
      BY DEF AnyPopup, TakeEvent, OpenVars, daemonVars, sharedVars
    <2> QED
      BY <2>1, <2>2, <2>3, <2>4, <2>5, <2>6 DEF OpenNext, DaemonNext, Handle
  <1>2. worker.job \in Work
    BY DEF DaemonIInv, OpenTypeOK, DaemonTypeOK, WorkerRecord
  <1>3. worker.job = Delete(worker.job.id)
    BY <1>1, <1>2, RequestTypes DEF ActDelete, Acting
  <1>4. worker.job.id \in stored \ stored'
    BY <1>1 DEF ActDelete
  <1> QED
    BY <1>1, <1>3, <1>4 DEF ActDelete, Acting, DaemonIInv, ReassertsInHandler

\* A row disappears only for a Delete whose own assertion succeeded
\* (daemon.rs:471-490): never on the strength of an unlock that was under
\* way, or of one that a form asked for.
THEOREM DeletionsAreAsserted == OpenSpec => DeleteNeedsItsAssertion
  <1>1. DaemonIInv /\ [OpenNext]_OpenVars =>
          [stored \subseteq stored'
             \/ /\ worker.job \in {Delete(id) : id \in stored \ stored'}
                /\ thread[Reasserter].pc = "done" /\ thread[Reasserter].ok]_OpenVars
    BY RowsChange
  <1> QED
    BY <1>1, Inductive, PTL DEF OpenSpec, DeleteNeedsItsAssertion

\* What is made to be sent and tells a secret is made while the vault is unlocked.
MakesNothingLocked ==
    /\ worker'.out # worker.out /\ Reveals(worker'.out) => IsUnlocked(lock)
    /\ \A t \in Threads :
         thread'[t].out # thread[t].out /\ Reveals(thread'[t].out) => IsUnlocked(lock)

\* What is sent and tells a secret was made before.
SendsWhatItMade ==
    Len(events') > Len(events) =>
        LET sent == <<events'[Len(events')]>>
        IN  Reveals(sent) => sent = worker.out \/ \E t \in Threads : sent = thread[t].out

\* Only four kinds of event tell anything (state.rs).
LEMMA Telling ==
    /\ \A l : ~Reveals(<<LockChanged(l)>>)
    /\ \A n : ~Reveals(<<RequestPin(n)>>)
    /\ ~Reveals(<<>>) /\ ~Reveals(<<Show({})>>)
  BY DEF Reveals, LockChanged, RequestPin, Show

\* The daemon sends an event it holds, or one that tells nothing, or none.
LEMMA SaysWhatItMade ==
    ASSUME OpenTypeOK,
           \/ Len(events') =< Len(events)
           \/ Send(worker.out)
           \/ \E t \in Threads : Send(thread[t].out)
           \/ \E e \in DaemonEvent : Send(<<e>>) /\ ~Reveals(<<e>>)
    PROVE  SendsWhatItMade
  <1>1. events \in Seq(DaemonEvent) /\ Len(events) \in Nat /\ worker.out \in Outgoing
        /\ \A t \in Threads : thread[t].out \in Outgoing
    BY DEF OpenTypeOK, DaemonTypeOK, WorkerRecord, ThreadRecord
  <1>2. ASSUME NEW out \in Outgoing, Send(out)
        PROVE  Len(events') =< Len(events) \/ <<events'[Len(events')]>> = out
    <2>1. CASE out = <<>>
      BY <1>1, <1>2, <2>1, SendTypes
    <2>2. ASSUME NEW e \in DaemonEvent, out = <<e>>
          PROVE  <<events'[Len(events')]>> = out
      BY <1>1, <1>2, <2>2, SendTypes
    <2> QED
      BY <2>1, <2>2 DEF Outgoing
  <1>3. Len(events') =< Len(events) => ~(Len(events') > Len(events))
    <2>1. CASE Len(events') \in Int
      BY <1>1, <2>1
    <2> QED
      BY <1>1, <2>1
  <1>4. CASE Len(events') =< Len(events)
    BY <1>3, <1>4 DEF SendsWhatItMade
  <1>5. CASE Send(worker.out)
    BY <1>1, <1>2, <1>3, <1>5 DEF SendsWhatItMade
  <1>6. CASE \E t \in Threads : Send(thread[t].out)
    BY <1>1, <1>2, <1>3, <1>6 DEF SendsWhatItMade
  <1>7. ASSUME NEW e \in DaemonEvent, Send(<<e>>), ~Reveals(<<e>>)
        PROVE  SendsWhatItMade
    <2>1. events'[Len(events')] = e
      BY <1>1, <1>7, SendTypes
    <2> QED
      BY <1>7, <2>1 DEF SendsWhatItMade
  <1> QED
    BY <1>4, <1>5, <1>6, <1>7

\* A thread makes the list under the session, and nothing else that tells
\* anything (daemon.rs:532-537, 566-573).
LEMMA ThreadMakesNothingLocked ==
    ASSUME OpenTypeOK, NEW t \in Threads, ThreadNext(t)
    PROVE  MakesNothingLocked /\ SendsWhatItMade
  <1> USE DEF sharedVars
  <1>0. /\ thread \in [Threads -> ThreadRecord] /\ thread[t] \in ThreadRecord
        /\ events \in Seq(DaemonEvent) /\ prompt \in Prompt
    BY DEF OpenTypeOK, DaemonTypeOK
  <1>1. worker' = worker /\ \A u \in Threads \ {t} : thread'[u] = thread[u]
    BY ThreadMoves DEF ThreadNext
  <1>2. thread'[t].out = thread[t].out \/ ~Reveals(thread'[t].out) \/ IsUnlocked(lock)
        => MakesNothingLocked
    BY <1>1 DEF MakesNothingLocked
  <1>3. UNCHANGED events => SendsWhatItMade
    BY <1>0, SaysWhatItMade
  <1>4. \A pc : SetPc(t, pc) => thread'[t].out = thread[t].out
    BY <1>0 DEF SetPc, ThreadRecord
  <1>5. \A ok : Returns(t, ok) => thread'[t].out = thread[t].out
    BY <1>0 DEF Returns, ThreadRecord
  <1>6. thread' = [thread EXCEPT ![t] = NoThread] => ~Reveals(thread'[t].out)
    BY <1>0, Telling DEF NoThread
  <1>7. CASE Acquire(t) \/ SkipPin(t) \/ TakePin(t) \/ TouchKey(t) \/ GiveUp(t) \/ EndUnlock(t)
    BY <1>2, <1>3, <1>4, <1>5, <1>7
    DEF Acquire, SkipPin, TakePin, TouchKey, GiveUp, EndUnlock
  <1>8. CASE AskPin(t)
    <2>1. thread'[t].out = thread[t].out
      BY <1>0, <1>8 DEF AskPin, ThreadRecord
    <2> QED
      BY <1>0, <1>2, <1>8, <2>1, EventTypes, Telling, SaysWhatItMade DEF AskPin
  <1>9. CASE ReportFailure(t)
    BY <1>0, <1>2, <1>6, <1>9, EventTypes, Telling, SaysWhatItMade
    DEF ReportFailure, UiLockStates
  <1>10. CASE ReadClaim(t)
    <2>1. thread'[t].out \in {thread[t].out, <<LockChanged("waiting")>>}
      BY <1>0, <1>4, <1>10 DEF ReadClaim, ThreadRecord
    <2> QED
      BY <1>2, <1>3, <1>10, <2>1, Telling DEF ReadClaim
  <1>11. CASE Look(t)
    <2>1. thread'[t].out = <<LockChanged(SessionState)>>
      BY <1>0, <1>11 DEF Look, ThreadRecord
    <2> QED
      BY <1>2, <1>3, <1>11, <2>1, Telling DEF Look
  <1>12. CASE Tell(t)
    <2>1. thread'[t].out = <<>>
      BY <1>0, <1>12 DEF Tell, ThreadRecord
    <2> QED
      BY <1>2, <1>12, <2>1, Telling, SaysWhatItMade DEF Tell
  <1>13. CASE Reload(t)
    <2>1. IsUnlocked(lock) \/ thread'[t] = NoThread
      BY <1>0, <1>13 DEF Reload
    <2>2. ~Reveals(NoThread.out)
      BY Telling DEF NoThread
    <2> QED
      BY <1>2, <1>3, <1>13, <2>1, <2>2 DEF Reload
  <1>14. CASE SendList(t)
    BY <1>2, <1>6, <1>14, SaysWhatItMade DEF SendList
  <1> QED
    BY <1>7, <1>8, <1>9, <1>10, <1>11, <1>12, <1>13, <1>14 DEF ThreadNext

\* The worker decides what it makes under the session, which it looks at again
\* after whatever happened since the handler began (daemon.rs:323-357, 385-497).
LEMMA WorkerMakesNothingLocked ==
    ASSUME OpenTypeOK, Select \/ Handle \/ EndDeliver \/ Shutdown
    PROVE  MakesNothingLocked /\ SendsWhatItMade
  <1> USE DEF sharedVars, threadVars, loopVars, protocolVars
  <1>0. /\ events \in Seq(DaemonEvent) /\ stored \subseteq Ids /\ worker \in WorkerRecord
        /\ thread \in [Threads -> ThreadRecord] /\ Reasserter \in Threads
    BY DEF OpenTypeOK, DaemonTypeOK, Threads
  <1>1. UNCHANGED events => SendsWhatItMade
    BY <1>0, SaysWhatItMade
  <1>2. ~Reveals(Selecting.out) /\ ~Reveals(NoThread.out)
    BY Telling DEF Selecting, NoThread
  <1>3. \A t \in Threads : Spawn(t) =>
          \A u \in Threads : thread'[u] = thread[u] \/ ~Reveals(thread'[u].out)
    BY <1>0, Telling DEF Spawn, NoThread
  <1>4. Return => \A u \in Threads : thread'[u] = thread[u] \/ ~Reveals(thread'[u].out)
    BY <1>0, <1>2 DEF Return
  <1> DEFINE Threaded == \A u \in Threads : thread'[u] = thread[u] \/ ~Reveals(thread'[u].out)
             Worked == worker'.out = worker.out \/ ~Reveals(worker'.out) \/ IsUnlocked(lock)
  <1>5. Threaded /\ Worked => MakesNothingLocked
    BY DEF MakesNothingLocked
  <1> HIDE DEF Threaded, Worked
  <1>6. UNCHANGED thread \/ Spawn(Reasserter) \/ Return => Threaded
    BY <1>0, <1>3, <1>4 DEF Threaded
  <1>7. /\ worker' = Selecting \/ Return => Worked
        /\ \A j : Enter(j) => Worked
        /\ \A pc : Continue(pc) => Worked
        /\ Observe => Worked
    BY <1>0, <1>2 DEF Worked, Return, Enter, Continue, Observe, Selecting, WorkerRecord
  <1>8. \A pc, e : Prepare(pc, e) => worker'.out = <<e>>
    BY <1>0 DEF Prepare, WorkerRecord
  <1>9. \A pc : SendPrepared(pc) => Worked /\ SendsWhatItMade
    <2>1. \A pc : SendPrepared(pc) => worker'.out = <<>>
      BY <1>0 DEF SendPrepared, WorkerRecord
    <2>2. Send(worker.out) => SendsWhatItMade
      BY SaysWhatItMade
    <2> QED
      BY <2>1, <2>2, Telling DEF Worked, SendPrepared
  <1>10. StartUnlock => Threaded /\ SendsWhatItMade
    <2>1. CASE inFlight
      BY <1>1, <1>6, <2>1 DEF StartUnlock
    <2>2. CASE ~inFlight
      <3>1. StartUnlock => SendsWhatItMade
        BY <2>2, EventTypes, Telling, SaysWhatItMade DEF StartUnlock, UiLockStates
      <3>2. StartUnlock => Threaded
        BY <1>3, <2>2 DEF StartUnlock, Threaded, Threads
      <3> QED
        BY <3>1, <3>2
    <2> QED
      BY <2>1, <2>2
  <1>11. CASE Select \/ Shutdown \/ EndDeliver
    <2>1. UNCHANGED <<events, thread>>
      BY <1>11 DEF Select, SelectRequest, SelectHotkey, SelectTimer, SelectBinding,
         SelectSpentBinding, Shutdown, EndDeliver
    <2>2. CASE SelectRequest \/ SelectHotkey \/ SelectTimer
      BY <1>1, <1>5, <1>6, <1>7, <2>1, <2>2 DEF SelectRequest, SelectHotkey, SelectTimer
    <2>3. CASE SelectBinding \/ SelectSpentBinding \/ Shutdown \/ EndDeliver
      <3>1. worker'.out = worker.out \/ worker' = Selecting
        BY <1>0, <2>3 DEF SelectBinding, SelectSpentBinding, Shutdown, EndDeliver, WorkerRecord
      <3> QED
        BY <1>1, <1>5, <1>6, <1>7, <2>1, <3>1 DEF Worked
    <2> QED
      BY <1>11, <2>2, <2>3 DEF Select
  <1>12. CASE \/ HandleTimer \/ HandleHotkey \/ HandlePinResponse \/ HandleTouch
              \/ HandleForm \/ HandleDelete \/ Resume \/ ActSave \/ ActDelete
    <2>1. UNCHANGED events /\ Threaded
      BY <1>6, <1>12 DEF HandleTimer, HandleHotkey, HandlePinResponse, HandleTouch,
         HandleForm, HandleDelete, Resume, ActSave, ActDelete
    <2>2. Worked
      BY <1>7, <1>12 DEF HandleTimer, HandleHotkey, HandlePinResponse, HandleTouch,
         HandleForm, HandleDelete, Resume, ActSave, ActDelete
    <2> QED
      BY <1>1, <1>5, <2>1, <2>2
  <1>13. CASE ActTimer
    <2>1. worker.seen \in UiLockStates
      BY <1>0 DEF WorkerRecord
    <2>2. SendsWhatItMade
      BY <1>0, <1>1, <1>13, <2>1, EventTypes, Telling, SaysWhatItMade, SendTypes DEF ActTimer
    <2> QED
      BY <1>5, <1>6, <1>7, <1>13, <2>2 DEF ActTimer
  <1>14. CASE ActHotkey
    <2>1. Listed # {} => IsUnlocked(lock)
      BY DEF Listed
    <2>2. Reveals(<<Show(Listed)>>) => IsUnlocked(lock)
      BY <2>1, Telling
    <2>3. Worked
      BY <1>8, <1>14, <2>2, Telling DEF ActHotkey, Worked
    <2> QED
      BY <1>1, <1>5, <1>6, <1>14, <2>3 DEF ActHotkey
  <1>15. CASE LookHotkey
    <2>1. Worked
      BY <1>8, <1>15, Telling DEF LookHotkey, Worked
    <2> QED
      BY <1>1, <1>5, <1>6, <1>15, <2>1 DEF LookHotkey
  <1>16. CASE ShowPopup \/ TellHotkey \/ HidePopup
    BY <1>5, <1>6, <1>9, <1>16 DEF ShowPopup, TellHotkey, HidePopup
  <1>17. CASE StartHotkey \/ HandleUnlock
    BY <1>1, <1>5, <1>6, <1>7, <1>10, <1>17 DEF StartHotkey, HandleUnlock
  <1>18. CASE HandleUse
    <2>1. Worked
      BY <1>7, <1>18 DEF HandleUse, Opened, Worked
    <2> QED
      BY <1>1, <1>5, <1>6, <1>18, <2>1 DEF HandleUse
  <1>19. CASE ActEdit
    <2>1. Worked
      BY <1>7, <1>19 DEF ActEdit, Opened, Worked
    <2> QED
      BY <1>1, <1>5, <1>6, <1>19, <2>1 DEF ActEdit
  <1>20. CASE ReloadList
    <2>1. Worked
      BY <1>7, <1>20 DEF ReloadList, Worked
    <2> QED
      BY <1>1, <1>5, <1>6, <1>20, <2>1 DEF ReloadList
  <1>21. CASE SendAnswer
    BY <1>5, <1>6, <1>7, <1>21, SaysWhatItMade DEF SendAnswer
  <1> QED
    BY <1>11, <1>12, <1>13, <1>14, <1>15, <1>16, <1>17, <1>18, <1>19, <1>20, <1>21 DEF Handle

LEMMA StepSaysNothingLocked ==
    ASSUME OpenTypeOK, [OpenNext]_OpenVars
    PROVE  MakesNothingLocked /\ SendsWhatItMade
  <1> USE DEF sharedVars, threadVars, loopVars, protocolVars
  <1>1. CASE \/ Select \/ Handle \/ EndDeliver \/ Shutdown
             \/ \E t \in Threads : ThreadNext(t)
    BY <1>1, WorkerMakesNothingLocked, ThreadMakesNothingLocked
  <1>2. CASE RegistrationEnds \/ Elapse \/ AnyPopup \/ UNCHANGED OpenVars
    <2>1. UNCHANGED <<worker, thread>>
      BY <1>2 DEF RegistrationEnds, Elapse, AnyPopup, TakeEvent, OpenVars, daemonVars
    <2>2. Len(events') =< Len(events)
      BY <1>2 DEF RegistrationEnds, Elapse, AnyPopup, TakeEvent, OpenVars, OpenTypeOK
    <2> QED
      BY <2>1, <2>2, SaysWhatItMade DEF MakesNothingLocked
  <1> QED
    BY <1>1, <1>2 DEF OpenNext, DaemonNext

\* Metadata and plaintext are read for the popup only while the vault is
\* unlocked, and no other is ever sent (daemon.rs:317-322, 385-406, 421-438),
\* however the relock, the assertion threads and the handlers interleave.
THEOREM NothingLeavesLocked == OpenSpec => RevealsOnlyUnlocked
  <1>1. OpenTypeOK /\ [OpenNext]_OpenVars =>
          [/\ worker'.out # worker.out /\ Reveals(worker'.out) => IsUnlocked(lock)
           /\ \A t \in Threads :
                thread'[t].out # thread[t].out /\ Reveals(thread'[t].out) => IsUnlocked(lock)
           /\ Len(events') > Len(events) =>
                LET sent == <<events'[Len(events')]>> IN
                  Reveals(sent) => sent = worker.out \/ \E t \in Threads : sent = thread[t].out
          ]_OpenVars
    BY StepSaysNothingLocked DEF MakesNothingLocked, SendsWhatItMade
  <1> QED
    BY <1>1, TypeCorrect, PTL DEF OpenSpec, RevealsOnlyUnlocked

(***************************************************************************)
(* The daemon with its popup: the popup of ui/popup.rs is one of those     *)
(* module Daemon allows, so what is proved above of the daemon against any *)
(* of them holds of the two together.                                      *)
(***************************************************************************)
\* The types of both, and a popup that shows no form while it is hidden.
BothIInv == OpenTypeOK /\ PopupTypeOK /\ HiddenShowsNoForm

LEMMA InitBoth == Init => OpenInit /\ BothIInv
  <1> SUFFICES ASSUME Init PROVE OpenInit /\ BothIInv
    OBVIOUS
  <1>1. OpenInit
    BY DEF Init, OpenInit
  <1>2. PopupTypeOK /\ HiddenShowsNoForm
    BY ModeTypes DEF Init, PopupInit, PopupTypeOK, HiddenShowsNoForm, UiLockStates
  <1> QED
    BY <1>1, <1>2, InitType DEF BothIInv

\* Every step of the composition is, for the daemon, a step of its own or one
\* of a popup that takes the events in order and sends requests.
LEMMA StepBoth ==
    ASSUME BothIInv, [Next]_vars
    PROVE  BothIInv' /\ [OpenNext]_OpenVars
  <1> USE DEF BothIInv, HiddenShowsNoForm
  <1>1. CASE PopupStep
    <2>1. PopupNext \/ \E id \in Ids : NewSecret(id)
      BY <1>1 DEF PopupStep
    <2>2. events \in Seq(DaemonEvent)
      BY DEF OpenTypeOK
    <2>3. PopupTypeOK' /\ HiddenShowsNoForm' /\ (Takes \/ Says) /\ UNCHANGED daemonVars
      BY <1>1, <2>1, <2>2, PopupSteps DEF PopupStep
    <2>4. AnyPopup \/ UNCHANGED OpenVars
      BY <2>3 DEF Takes, Says, AnyPopup, TakeEvent, OpenVars, protocolVars
    <2>5. [OpenNext]_OpenVars
      BY <2>4 DEF OpenNext
    <2> QED
      BY <2>3, <2>5, TypeStep
  <1>2. CASE DaemonStep
    <2>1. OpenNext /\ UNCHANGED popupVars
      BY <1>2 DEF DaemonStep, OpenNext
    <2> QED
      BY <2>1, TypeStep DEF popupVars, PopupTypeOK
  <1>3. CASE UNCHANGED vars
    <2>1. UNCHANGED OpenVars /\ UNCHANGED popupVars
      BY <1>3 DEF vars, OpenVars
    <2> QED
      BY <2>1, TypeStep DEF popupVars, PopupTypeOK
  <1> QED
    BY <1>1, <1>2, <1>3 DEF Next

THEOREM BothCorrect == Spec => []BothIInv
  <1>1. BothIInv /\ [Next]_vars => BothIInv'
    BY StepBoth
  <1> QED
    BY <1>1, InitBoth, PTL DEF Spec

\* Every variable of popup, daemon and channels keeps its type.
THEOREM TypesOfBoth == Spec => []TypeOK
  <1>1. BothIInv => TypeOK
    BY DEF BothIInv, OpenTypeOK, TypeOK
  <1> QED
    BY <1>1, BothCorrect, PTL

\* A form, with its plaintext, and a prompt are gone once the popup is hidden
\* (popup.rs:230-231), whatever events arrive while it is.
THEOREM HiddenIsBare == Spec => []HiddenShowsNoForm
  <1>1. BothIInv => HiddenShowsNoForm
    BY DEF BothIInv
  <1> QED
    BY <1>1, BothCorrect, PTL

\* The daemon within the composition is the daemon against any popup: for the
\* daemon, the popup of ui/popup.rs only takes the events in order and sends
\* requests of the protocol.
THEOREM AnyPopupWillDo == Spec => OpenSpec
  <1>1. BothIInv /\ [Next]_vars => [OpenNext]_OpenVars
    BY StepBoth
  <1> QED
    BY <1>1, InitBoth, BothCorrect, PTL DEF Spec, OpenSpec

\* So the claim, the prompts, the deletions and what leaves the worker are as
\* proved above, with the popup of ui/popup.rs too.
THEOREM DaemonWithItsPopup ==
    Spec => /\ []ClaimHasOneOwner
            /\ []OnePromptAtATime
            /\ DeleteNeedsItsAssertion
            /\ RevealsOnlyUnlocked
  BY AnyPopupWillDo, ClaimIsNeverLost, PromptsExclude, DeletionsAreAsserted, NothingLeavesLocked
===============================================================================
