-------------------------------- MODULE Daemon --------------------------------
(***************************************************************************)
(* daemon.rs with state.rs and pin.rs: the worker loop, the assertion      *)
(* threads it spawns, and the session mutex, the claim and the channels    *)
(* they share.                                                             *)
(*                                                                         *)
(* The worker is one thread.  It takes one thing at a time from its        *)
(* select, and stays out of the select until its handler returned.  A      *)
(* handler, and the end of an unlock's thread, is cut into steps wherever  *)
(* it reads or writes what other threads see, and where it waits.  What it *)
(* read under the mutex it sends in a step of its own, after the mutex was *)
(* released: `out` holds the event in between.                             *)
(*                                                                         *)
(* Of the session only the lock is kept: see module Session for the rest.  *)
(***************************************************************************)
EXTENDS Protocol, LockState

CONSTANTS
    Unlockers,      \* slots for the threads of start_unlock
    Reasserter,     \* the thread of reassert: there is at most one
    Free,           \* the session mutex is not held
    VaultKey,       \* the inner key a successful assertion yields
    PinRequired,    \* hardware build (the authenticator wants its PIN), or mock
    BindOutcomes    \* how the portal may answer the request for the shortcut

ASSUME ThreadsAssumption ==
    /\ Reasserter \notin Unlockers
    /\ Free \notin Unlockers \cup {Reasserter}
    /\ VaultKey \in Keys
    /\ PinRequired \in BOOLEAN
    /\ BindOutcomes \subseteq {"granted", "refused"}

VARIABLES
    stored,         \* the ids in table `secrets`
    lock,           \* the lock of Shared::session
    mutex,          \* who holds Shared::session across a wait
    inFlight,       \* Shared::unlock_in_flight
    answers,        \* PinBroker::answers
    prompt,         \* number of the next PIN prompt
    thread,         \* the assertion threads
    worker,         \* the worker loop
    lastState,      \* its local last_state
    binding         \* the registration of the global shortcut

sharedVars == <<stored, lock, mutex, inFlight>>
threadVars == <<answers, prompt, thread>>
loopVars == <<lastState, binding>>
daemonVars == <<sharedVars, threadVars, worker, loopVars>>

Threads == Unlockers \cup {Reasserter}

\* The event that was made of what was read, and is not sent yet.
Outgoing == {<<>>} \cup {<<e>> : e \in DaemonEvent}

ThreadPcs == {"none", "wait", "device", "pin", "touch", "done",
              "report", "look", "tell", "reload", "send"}

\* `ok` is the result of Session::unlock, `prompt` the PIN prompt it opened.
ThreadRecord == [pc : ThreadPcs, ok : BOOLEAN, prompt : Prompt, out : Outgoing]

NoThread == [pc |-> "none", ok |-> FALSE, prompt |-> 0, out |-> <<>>]

Hotkey == [type |-> "hotkey"]
Timer == [type |-> "timer"]

Work == UiRequest \cup {Hotkey, Timer}

WorkerPcs == {"select", "handle", "await", "act", "show", "look", "tell", "start",
              "hide", "deliver", "reload", "send", "stopped", "panicked"}

\* `job` is what the handler works on, `seen` the lock state it read first.
WorkerRecord == [pc : WorkerPcs, job : Work, seen : UiLockStates, out : Outgoing]

Selecting == [pc |-> "select", job |-> Timer, seen |-> "locked", out |-> <<>>]

DaemonTypeOK ==
    /\ stored \subseteq Ids
    /\ lock \in LockRecord
    /\ mutex \in Threads \cup {Free}
    /\ inFlight \in BOOLEAN
    /\ answers \in Seq(PinResponses)
    /\ prompt \in Prompt
    /\ thread \in [Threads -> ThreadRecord]
    /\ worker \in WorkerRecord
    /\ lastState \in UiLockStates
    /\ binding \in {"pending", "granted", "refused", "bound", "spent"}

DaemonInit ==
    /\ stored \in SUBSET Ids
    /\ lock = Locked
    /\ mutex = Free
    /\ inFlight = FALSE
    /\ answers = <<>>
    /\ prompt = 0
    /\ thread = [t \in Threads |-> NoThread]
    /\ worker = Selecting
    /\ lastState = "locked"
    /\ binding = "pending"

(***************************************************************************)
(* Shared.  A with_session that does not wait inside is one step, enabled  *)
(* while no assertion thread holds the mutex.                              *)
(***************************************************************************)
SessionFree == mutex = Free

\* The session ticked, as a state for the popup.
SessionState == IF IsUnlocked(lock) THEN "unlocked" ELSE "locked"

\* ui_lock_state: the claim, and only if nobody holds it the session, ticked.
UiLockState == IF inFlight THEN "waiting" ELSE SessionState

\* ui_lock_state called by the worker.  It looks at the claim and then at the
\* session, but only the worker ever takes a claim: one it did not see is not
\* there when it has the session either, and the two looks are as one.  For a
\* thread they are not, see ReadClaim and Look.
ReadUiLockState ==
    /\ inFlight \/ SessionFree
    /\ lock' = IF inFlight THEN lock ELSE Ticked(lock)

\* Variant: a list that trusts the look at the lock before it.
ListedAnyway == stored

\* Session::list: nothing when locked.
Listed == IF IsUnlocked(lock) THEN stored ELSE {}

(***************************************************************************)
(* The assertion threads.                                                  *)
(***************************************************************************)
SetPc(t, pc) == thread' = [thread EXCEPT ![t].pc = pc]

Spawn(t) == thread' = [thread EXCEPT ![t] = [NoThread EXCEPT !.pc = "wait"]]

\* Variant: the assertion runs first, the mutex is taken after it.
AcquireLate(t) ==
    /\ thread[t].pc = "wait"
    /\ SetPc(t, "device")
    /\ UNCHANGED <<sharedVars, answers, prompt, events>>

\* Session::unlock begins, under the mutex.
Acquire(t) ==
    /\ thread[t].pc = "wait"
    /\ SessionFree
    /\ mutex' = t
    /\ SetPc(t, "device")
    /\ UNCHANGED <<stored, lock, inFlight, answers, prompt, events>>

\* PinBroker::request_pin: drain, prompt, wait.
AskPin(t) ==
    /\ PinRequired
    /\ thread[t].pc = "device"
    /\ answers' = <<>>
    /\ prompt' = (prompt + 1) % Prompts
    /\ Send(<<RequestPin(prompt)>>)
    /\ thread' = [thread EXCEPT ![t].pc = "pin", ![t].prompt = prompt]
    /\ UNCHANGED sharedVars

\* The mock authenticator asks for none.
SkipPin(t) ==
    /\ ~PinRequired
    /\ thread[t].pc = "device"
    /\ SetPc(t, "touch")
    /\ UNCHANGED <<sharedVars, answers, prompt, events>>

\* Session::unlock returns, and the mutex is released.
Returns(t, ok) ==
    /\ thread' = [thread EXCEPT ![t].pc = "done", ![t].ok = ok]
    /\ mutex' = Free
    /\ lock' = IF ok THEN Admitted(VaultKey) ELSE lock

TakePin(t) ==
    /\ thread[t].pc = "pin"
    /\ answers # <<>>
    /\ answers' = Tail(answers)
    /\ IF Head(answers).given
       THEN SetPc(t, "touch") /\ UNCHANGED <<mutex, lock>>
       ELSE Returns(t, FALSE)
    /\ UNCHANGED <<stored, inFlight, prompt, events>>

\* The key was touched, and the vault's verification blob agrees.
TouchKey(t) ==
    /\ thread[t].pc = "touch"
    /\ Returns(t, TRUE)
    /\ UNCHANGED <<stored, inFlight, answers, prompt, events>>

\* Variant: a PIN prompt with no timeout.
GiveUpNoTimeout(t) ==
    /\ thread[t].pc \in {"device", "touch"}
    /\ Returns(t, FALSE)
    /\ UNCHANGED <<stored, inFlight, answers, prompt, events>>

\* No device, no answer within PIN_TIMEOUT, a wrong PIN, no touch in time.
GiveUp(t) ==
    /\ thread[t].pc \in {"device", "pin", "touch"}
    /\ Returns(t, FALSE)
    /\ UNCHANGED <<stored, inFlight, answers, prompt, events>>

\* Variant: the claim is released only by an unlock that succeeded.
EndUnlockIfOk(t) ==
    /\ t \in Unlockers
    /\ thread[t].pc = "done"
    /\ inFlight' = ~thread[t].ok
    /\ SetPc(t, "report")
    /\ UNCHANGED <<stored, lock, mutex, answers, prompt, events>>

\* The rest of the closure of start_unlock.
EndUnlock(t) ==
    /\ t \in Unlockers
    /\ thread[t].pc = "done"
    /\ inFlight' = FALSE
    /\ SetPc(t, "report")
    /\ UNCHANGED <<stored, lock, mutex, answers, prompt, events>>

\* Variant: a failure that is logged and not sent.
ReportNothing(t) ==
    /\ thread[t].pc = "report"
    /\ ~thread[t].ok
    /\ thread' = [thread EXCEPT ![t] = NoThread]
    /\ UNCHANGED <<sharedVars, answers, prompt, events>>

ReportFailure(t) ==
    /\ thread[t].pc = "report"
    /\ ~thread[t].ok
    /\ Send(<<LockChanged("locked")>>)
    /\ thread' = [thread EXCEPT ![t] = NoThread]
    /\ UNCHANGED <<sharedVars, answers, prompt>>

\* lock_changed(ui_lock_state()): the claim, which may be one of a next unlock,
\* then the session, and only then the event.
ReadClaim(t) ==
    /\ thread[t].pc = "report"
    /\ thread[t].ok
    /\ IF inFlight
       THEN thread' = [thread EXCEPT ![t].pc = "tell", ![t].out = <<LockChanged("waiting")>>]
       ELSE SetPc(t, "look")
    /\ UNCHANGED <<sharedVars, answers, prompt, events>>

Look(t) ==
    /\ thread[t].pc = "look"
    /\ SessionFree
    /\ lock' = Ticked(lock)
    /\ thread' = [thread EXCEPT ![t].pc = "tell", ![t].out = <<LockChanged(SessionState)>>]
    /\ UNCHANGED <<stored, mutex, inFlight, answers, prompt, events>>

Tell(t) ==
    /\ thread[t].pc = "tell"
    /\ Send(thread[t].out)
    /\ thread' = [thread EXCEPT ![t].pc = "reload", ![t].out = <<>>]
    /\ UNCHANGED <<sharedVars, answers, prompt>>

\* refresh: the list is read; if the vault has relocked there is nothing to send.
Reload(t) ==
    /\ thread[t].pc = "reload"
    /\ SessionFree
    /\ lock' = Ticked(lock)
    /\ thread' = [thread EXCEPT ![t] =
         IF IsUnlocked(lock) THEN [@ EXCEPT !.pc = "send", !.out = <<Refresh(stored)>>]
                             ELSE NoThread]
    /\ UNCHANGED <<stored, mutex, inFlight, answers, prompt, events>>

SendList(t) ==
    /\ thread[t].pc = "send"
    /\ Send(thread[t].out)
    /\ thread' = [thread EXCEPT ![t] = NoThread]
    /\ UNCHANGED <<sharedVars, answers, prompt>>

ThreadNext(t) ==
    /\ \/ Acquire(t) \/ AskPin(t) \/ SkipPin(t) \/ TakePin(t) \/ TouchKey(t) \/ GiveUp(t)
       \/ EndUnlock(t) \/ ReportFailure(t) \/ ReadClaim(t) \/ Look(t) \/ Tell(t)
       \/ Reload(t) \/ SendList(t)
    /\ UNCHANGED <<requests, worker, loopVars>>

(***************************************************************************)
(* The worker's select.                                                    *)
(***************************************************************************)
Enter(job) == worker' = [Selecting EXCEPT !.pc = "handle", !.job = job]

Continue(pc) == worker' = [worker EXCEPT !.pc = pc]

\* The mutex is released, the event is made and not sent yet.
Prepare(pc, e) == worker' = [worker EXCEPT !.pc = pc, !.out = <<e>>]

\* The event is sent, and the handler goes on.
SendPrepared(pc) ==
    /\ Send(worker.out)
    /\ worker' = [worker EXCEPT !.pc = pc, !.out = <<>>]

\* Back to the select: with the handler's frame goes the result of reassert.
Return ==
    /\ worker' = Selecting
    /\ thread' = [thread EXCEPT ![Reasserter] = NoThread]

SelectRequest ==
    /\ worker.pc = "select"
    /\ Len(events) < MaxEvents
    /\ requests # <<>>
    /\ requests' = Tail(requests)
    /\ Enter(Head(requests))
    /\ UNCHANGED <<sharedVars, threadVars, loopVars, events>>

\* The hotkey, or SIGUSR1.  A press waits in its channel until it is taken,
\* so that it may be taken at any time is all there is to model.
SelectHotkey ==
    /\ worker.pc = "select"
    /\ Len(events) < MaxEvents
    /\ Enter(Hotkey)
    /\ UNCHANGED <<sharedVars, threadVars, loopVars, protocolVars>>

SelectTimer ==
    /\ worker.pc = "select"
    /\ Len(events) < MaxEvents
    /\ Enter(Timer)
    /\ UNCHANGED <<sharedVars, threadVars, loopVars, protocolVars>>

\* The oneshot of the registration task: kept when it holds a portal session,
\* read and left in place, with nothing in it, when it holds an error.
SelectBinding ==
    /\ worker.pc = "select"
    /\ \/ binding = "granted" /\ binding' = "bound"
       \/ binding = "refused" /\ binding' = "spent"
    /\ UNCHANGED <<sharedVars, threadVars, worker, lastState, protocolVars>>

\* No portal session, so the branch is polled again; a receiver polled after
\* it completed panics, and the panic ends the worker.
SelectSpentBinding ==
    /\ worker.pc = "select"
    /\ binding = "spent"
    /\ worker' = [worker EXCEPT !.pc = "panicked"]
    /\ UNCHANGED <<sharedVars, threadVars, loopVars, protocolVars>>

Shutdown ==
    /\ worker.pc = "select"
    /\ SessionFree
    /\ lock' = Locked
    /\ worker' = [worker EXCEPT !.pc = "stopped"]
    /\ UNCHANGED <<stored, mutex, inFlight, threadVars, loopVars, protocolVars>>

(***************************************************************************)
(* The timer branch.                                                       *)
(***************************************************************************)
Handling(type) == worker.pc = "handle" /\ worker.job.type = type

Acting(type) == worker.pc = "act" /\ worker.job.type = type

Observe == worker' = [worker EXCEPT !.pc = "act", !.seen = UiLockState]

HandleTimer ==
    /\ Handling("timer")
    /\ ReadUiLockState
    /\ Observe
    /\ UNCHANGED <<stored, mutex, inFlight, threadVars, loopVars, protocolVars>>

\* Send a change of state, and the countdown while unlocked.
ActTimer ==
    /\ Acting("timer")
    /\ lastState' = worker.seen
    /\ Send(IF worker.seen # lastState \/ worker.seen = "unlocked"
            THEN <<LockChanged(worker.seen)>> ELSE <<>>)
    /\ worker' = Selecting
    /\ UNCHANGED <<sharedVars, threadVars, binding, requests>>

(***************************************************************************)
(* start_unlock and on_hotkey.                                             *)
(***************************************************************************)
\* Variant: begin_unlock does not look whether there is a claim.
StartUnlockAgain ==
    /\ inFlight' = TRUE
    /\ Send(<<LockChanged("waiting")>>)
    /\ \E t \in Unlockers : thread[t].pc = "none" /\ Spawn(t)

StartUnlock ==
    IF inFlight
    THEN UNCHANGED <<inFlight, events, thread>>
    ELSE /\ inFlight' = TRUE
         /\ Send(<<LockChanged("waiting")>>)
         /\ \E t \in Unlockers : thread[t].pc = "none" /\ Spawn(t)

HandleHotkey ==
    /\ Handling("hotkey")
    /\ ReadUiLockState
    /\ Observe
    /\ UNCHANGED <<stored, mutex, inFlight, threadVars, loopVars, protocolVars>>

\* The list, if the vault was unlocked at the look before.
ActHotkey ==
    /\ Acting("hotkey")
    /\ \/ /\ worker.seen # "unlocked"
          /\ Prepare("show", Show({}))
          /\ UNCHANGED lock
       \/ /\ worker.seen = "unlocked"
          /\ SessionFree
          /\ Prepare("show", Show(Listed))
          /\ lock' = Ticked(lock)
    /\ UNCHANGED <<stored, mutex, inFlight, threadVars, loopVars, protocolVars>>

ShowPopup ==
    /\ worker.pc = "show"
    /\ SendPrepared("look")
    /\ UNCHANGED <<sharedVars, threadVars, loopVars, requests>>

LookHotkey ==
    /\ worker.pc = "look"
    /\ ReadUiLockState
    /\ Prepare("tell", LockChanged(UiLockState))
    /\ UNCHANGED <<stored, mutex, inFlight, threadVars, loopVars, protocolVars>>

TellHotkey ==
    /\ worker.pc = "tell"
    /\ SendPrepared("start")
    /\ UNCHANGED <<sharedVars, threadVars, loopVars, requests>>

StartHotkey ==
    /\ worker.pc = "start"
    /\ \/ /\ worker.seen # "unlocked"
          /\ StartUnlock
          /\ UNCHANGED lock
       \/ /\ worker.seen = "unlocked"
          /\ SessionFree
          /\ lock' = Touched(lock)
          /\ UNCHANGED <<inFlight, events, thread>>
    /\ worker' = Selecting
    /\ UNCHANGED <<stored, mutex, answers, prompt, loopVars, requests>>

(***************************************************************************)
(* on_request.                                                             *)
(***************************************************************************)
HandleUnlock ==
    /\ Handling("unlock")
    /\ StartUnlock
    /\ worker' = Selecting
    /\ UNCHANGED <<stored, lock, mutex, answers, prompt, loopVars, requests>>

HandlePinResponse ==
    /\ Handling("pin")
    /\ answers' = Append(answers, worker.job)
    /\ worker' = Selecting
    /\ UNCHANGED <<sharedVars, prompt, thread, loopVars, protocolVars>>

HandleTouch ==
    /\ Handling("touch")
    /\ SessionFree
    /\ lock' = Touched(lock)
    /\ worker' = Selecting
    /\ UNCHANGED <<stored, mutex, inFlight, threadVars, loopVars, protocolVars>>

\* Session::open, as in module Session; the popup is hidden before typing.
Opened(id) == id \in stored /\ IsUnlocked(lock)

LockAfterOpen(id) ==
    IF Opened(id) THEN Touched(lock) ELSE IF id \in stored THEN Ticked(lock) ELSE lock

HandleUse ==
    /\ Handling("use")
    /\ SessionFree
    /\ lock' = LockAfterOpen(worker.job.id)
    /\ IF Opened(worker.job.id) THEN Prepare("hide", Hide) ELSE worker' = Selecting
    /\ UNCHANGED <<stored, mutex, inFlight, threadVars, loopVars, protocolVars>>

HidePopup ==
    /\ worker.pc = "hide"
    /\ SendPrepared("deliver")
    /\ UNCHANGED <<sharedVars, threadVars, loopVars, requests>>

\* deliver returned: typed, copied, or failed.
EndDeliver ==
    /\ worker.pc = "deliver"
    /\ worker' = Selecting
    /\ UNCHANGED <<sharedVars, threadVars, loopVars, protocolVars>>

\* BeginEdit and Save ask for an assertion only if the vault is not unlocked.
HandleForm ==
    /\ Handling("edit") \/ Handling("save")
    /\ ReadUiLockState
    /\ IF UiLockState = "unlocked"
       THEN Continue("act") /\ UNCHANGED thread
       ELSE Continue("await") /\ Spawn(Reasserter)
    /\ UNCHANGED <<stored, mutex, inFlight, answers, prompt, loopVars, protocolVars>>

\* Variant: a deletion that asks only if the vault is not unlocked.
DeleteIfUnlocked ==
    /\ Handling("delete")
    /\ ReadUiLockState
    /\ IF UiLockState = "unlocked"
       THEN Continue("act") /\ UNCHANGED thread
       ELSE Continue("await") /\ Spawn(Reasserter)
    /\ UNCHANGED <<stored, mutex, inFlight, answers, prompt, loopVars, protocolVars>>

\* Delete locks the vault and asks for one in any case.
HandleDelete ==
    /\ Handling("delete")
    /\ SessionFree
    /\ lock' = Locked
    /\ Continue("await")
    /\ Spawn(Reasserter)
    /\ UNCHANGED <<stored, mutex, inFlight, answers, prompt, loopVars, protocolVars>>

\* reassert returns.
Resume ==
    /\ worker.pc = "await"
    /\ thread[Reasserter].pc = "done"
    /\ IF thread[Reasserter].ok THEN Continue("act") /\ UNCHANGED thread ELSE Return
    /\ UNCHANGED <<sharedVars, answers, prompt, loopVars, protocolVars>>

\* meta_for, then open: the form is sent if both succeed.
ActEdit ==
    /\ Acting("edit")
    /\ SessionFree
    /\ lock' = LockAfterOpen(worker.job.id)
    /\ IF Opened(worker.job.id)
       THEN Prepare("send", EditReady(worker.job.id)) /\ UNCHANGED thread
       ELSE Return
    /\ UNCHANGED <<stored, mutex, inFlight, answers, prompt, loopVars, protocolVars>>

\* Session::update of a row that is there, Session::add of one that is not.
\* Both write under the same with_session as their checks.
ActSave ==
    /\ Acting("save")
    /\ SessionFree
    /\ LET id == worker.job.id IN
         IF IsUnlocked(lock) /\ (worker.job.isUpdate <=> id \in stored)
         THEN /\ stored' = stored \cup {id}
              /\ lock' = Touched(lock)
              /\ Continue("reload")
              /\ UNCHANGED thread
         ELSE /\ lock' = Ticked(lock)
              /\ Return
              /\ UNCHANGED stored
    /\ UNCHANGED <<mutex, inFlight, answers, prompt, loopVars, protocolVars>>

\* Session::delete, which needs no key.
ActDelete ==
    /\ Acting("delete")
    /\ SessionFree
    /\ stored' = stored \ {worker.job.id}
    /\ IF worker.job.id \in stored THEN Continue("reload") /\ UNCHANGED thread ELSE Return
    /\ UNCHANGED <<lock, mutex, inFlight, answers, prompt, loopVars, protocolVars>>

\* refresh after a save or a deletion.
ReloadList ==
    /\ worker.pc = "reload"
    /\ SessionFree
    /\ lock' = Ticked(lock)
    /\ IF IsUnlocked(lock) THEN Prepare("send", Refresh(stored)) /\ UNCHANGED thread ELSE Return
    /\ UNCHANGED <<stored, mutex, inFlight, answers, prompt, loopVars, protocolVars>>

SendAnswer ==
    /\ worker.pc = "send"
    /\ Send(worker.out)
    /\ Return
    /\ UNCHANGED <<sharedVars, answers, prompt, loopVars, requests>>

Select ==
    SelectRequest \/ SelectHotkey \/ SelectTimer \/ SelectBinding \/ SelectSpentBinding

\* Every step of a handler but the end of `deliver`, whose length the portal
\* decides.
Handle ==
    \/ HandleTimer \/ ActTimer
    \/ HandleHotkey \/ ActHotkey \/ ShowPopup \/ LookHotkey \/ TellHotkey \/ StartHotkey
    \/ HandleUnlock \/ HandlePinResponse \/ HandleTouch \/ HandleUse \/ HidePopup
    \/ HandleForm \/ HandleDelete \/ Resume
    \/ ActEdit \/ ActSave \/ ActDelete \/ ReloadList \/ SendAnswer

(***************************************************************************)
(* The world: the end of the registration task, and the clock.             *)
(***************************************************************************)
RegistrationEnds ==
    /\ binding = "pending"
    /\ binding' \in BindOutcomes
    /\ UNCHANGED <<sharedVars, threadVars, worker, lastState, protocolVars>>

Elapse ==
    /\ lock.left > 0
    /\ lock' = Aged(lock)
    /\ UNCHANGED <<stored, mutex, inFlight, threadVars, worker, loopVars, protocolVars>>

DaemonNext ==
    \/ Select \/ Handle \/ EndDeliver \/ Shutdown
    \/ \E t \in Threads : ThreadNext(t)
    \/ RegistrationEnds \/ Elapse

(***************************************************************************)
(* The daemon against any popup: one that may send any request at any time *)
(* and takes the events in order.                                          *)
(***************************************************************************)
TakeEvent ==
    /\ events # <<>>
    /\ events' = Tail(events)
    /\ UNCHANGED <<requests, daemonVars>>

AnyPopup ==
    \/ TakeEvent
    \/ /\ \E r \in UiRequest : Submit(r)
       /\ UNCHANGED <<events, daemonVars>>

OpenVars == <<protocolVars, daemonVars>>

OpenInit ==
    /\ events = <<>>
    /\ requests = <<>>
    /\ DaemonInit

OpenNext == DaemonNext \/ AnyPopup

OpenSpec == OpenInit /\ [][OpenNext]_OpenVars

(***************************************************************************)
(* Fairness.  Threads run: a handler that can go on does, an assertion ends*)
(* (request_pin and the authenticator time out), the popup drains its      *)
(* channel, time passes.  The select takes what is ready, at random, so the*)
(* half-second timer is not starved.  Nothing is assumed of the user, nor  *)
(* of the portal: neither the registration nor a delivery need ever end.   *)
(***************************************************************************)
OpenFairness ==
    /\ WF_OpenVars(Handle)
    /\ \A t \in Threads : WF_OpenVars(ThreadNext(t))
    /\ WF_OpenVars(TakeEvent)
    /\ WF_OpenVars(Elapse)
    /\ SF_OpenVars(SelectTimer)

OpenTypeOK ==
    /\ events \in Seq(DaemonEvent)
    /\ requests \in Seq(UiRequest)
    /\ DaemonTypeOK

(***************************************************************************)
(* Safety                                                                  *)
(***************************************************************************)
\* A thread of start_unlock that has not yet released its claim.
Claiming(t) == t \in Unlockers /\ thread[t].pc \in {"wait", "device", "pin", "touch", "done"}

\* The claim of begin_unlock is held by exactly one thread that will release
\* it, or by none: it is neither lost, which would disable unlocking for good,
\* nor shared (state.rs:119-121, daemon.rs:550-566).
ClaimHasOneOwner ==
    /\ inFlight <=> \E t \in Threads : Claiming(t)
    /\ \A t, u \in Threads : Claiming(t) /\ Claiming(u) => t = u

\* What is typed follows the Hide.
Reveals(out) ==
    out # <<>> /\ LET e == out[1] IN
        \/ e.type \in {"edit", "hide"}
        \/ e.type \in {"show", "refresh"} /\ e.secrets # {}

\* Metadata and plaintext are read for the popup only while the vault is
\* unlocked, and no other is ever sent (daemon.rs:317-322, 385-406, 421-438),
\* however the relock, the assertion threads and the handlers interleave.  What
\* was read may be sent after a relock: the mutex is not held over the two.
RevealsOnlyUnlocked ==
    [][/\ worker'.out # worker.out /\ Reveals(worker'.out) => IsUnlocked(lock)
       /\ \A t \in Threads :
            thread'[t].out # thread[t].out /\ Reveals(thread'[t].out) => IsUnlocked(lock)
       /\ Len(events') > Len(events) =>
            LET sent == <<events'[Len(events')]>> IN
              Reveals(sent) => sent = worker.out \/ \E t \in Threads : sent = thread[t].out
      ]_OpenVars

\* A row disappears only for a Delete whose own assertion succeeded
\* (daemon.rs:471-490, README.md:52-53): never on the strength of an unlock
\* that was under way, or of one that a form asked for.
DeleteNeedsItsAssertion ==
    [][stored \subseteq stored'
         \/ /\ worker.job \in {Delete(id) : id \in stored \ stored'}
            /\ thread[Reasserter].pc = "done" /\ thread[Reasserter].ok]_OpenVars

\* The assertion threads of the reassertion and of start_unlock never wait
\* for the user at the same time: pin.rs:40-42 says begin_unlock sees to it,
\* which reassert does not call.
Waiting(t) == thread[t].pc \in {"device", "pin", "touch"}

OnePromptAtATime == \A t, u \in Threads : Waiting(t) /\ Waiting(u) => t = u

(***************************************************************************)
(* Liveness, under OpenFairness.                                           *)
(***************************************************************************)
\* No assertion wedges the worker: it is back at its select, or delivering,
\* again and again (pin.rs:28-31).
WorkerComesBack == []<>(worker.pc \in {"select", "deliver", "stopped", "panicked"})

\* An unlock that has the session ends, and unlocking is possible again.  One
\* that only waits for the mutex may find it taken again and again.
UnlockEnds == mutex \in Unlockers ~> ~inFlight

\* The user presses nothing any more, from some moment on.
LeftAlone == <>[][~SelectRequest /\ ~SelectHotkey]_OpenVars

\* A vault the user left alone is relocked: the worker's own timer is the only
\* thing that drops the key then (session.rs:10-12, daemon.rs:292-296).  It does
\* not run while a handler waits for the portal, nor once the worker is gone;
\* the process ends with a worker that stopped.
IdleRelocks ==
    LeftAlone =>
        <>[](~Resident(lock) \/ worker.pc \in {"deliver", "stopped", "panicked"})

\* The last that was said of the lock, of what the popup has not taken yet.
LastSaid ==
    LET said == {k \in DOMAIN events : events[k].type = "lock"}
    IN  {events[k].state : k \in {k \in said : \A n \in said : n <= k}}

\* The report of an unlock that ended took the claim of the next one for news.
ReportsNextClaim == \E t \in Unlockers : thread[t].out = <<LockChanged("waiting")>>

\* The popup is not left asking for a touch nobody waits for, although the timer,
\* the hotkey and the assertion threads all send it lock states that they read
\* earlier (daemon.rs:292-312, 348, 569): what was said last is corrected, if the
\* user leaves the daemon alone at last, and if no thread read, at the end of its
\* unlock, the claim of the next.  That thread may send its "waiting" last of all,
\* and the timer only sends what changed.
WaitingIsShownNoLonger ==
    LeftAlone /\ []~ReportsNextClaim =>
        (LastSaid = {"waiting"} ~> \/ LastSaid \in {{"locked"}, {"unlocked"}}
                                  \/ worker.pc \in {"deliver", "stopped", "panicked"})
===============================================================================
