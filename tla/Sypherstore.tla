----------------------------- MODULE Sypherstore -----------------------------
(***************************************************************************)
(* The daemon: the popup's thread, the worker, and the assertion threads,  *)
(* over the two channels between them.                                     *)
(***************************************************************************)
EXTENDS Popup, Daemon

vars == <<protocolVars, popupVars, daemonVars>>

TypeOK ==
    /\ events \in Seq(DaemonEvent)
    /\ requests \in Seq(UiRequest)
    /\ PopupTypeOK
    /\ DaemonTypeOK

Init ==
    /\ events = <<>>
    /\ requests = <<>>
    /\ PopupInit
    /\ DaemonInit

\* An id nothing refers to yet, for the form of a new secret.
Fresh(id) ==
    /\ id \notin stored
    /\ Save(id, FALSE) # worker.job
    /\ \A k \in DOMAIN requests : requests[k] # Save(id, FALSE)

\* shell::run ends, and the process with it, once the worker stopped.
PopupStep ==
    /\ worker.pc # "stopped"
    /\ PopupNext \/ \E id \in Ids : Fresh(id) /\ NewSecret(id)
    /\ UNCHANGED daemonVars

DaemonStep == DaemonNext /\ UNCHANGED popupVars

Next == PopupStep \/ DaemonStep

Spec == Init /\ [][Next]_vars

(***************************************************************************)
(* Safety                                                                  *)
(***************************************************************************)
\* A form, with its plaintext, and a prompt are gone once the popup is hidden
\* (popup.rs:230-231), whatever events arrive while it is.
HiddenShowsNoForm == ~visible => mode = ListMode

(***************************************************************************)
(* What comments of the source say, and the code does not do.              *)
(***************************************************************************)
PinAnswered == \E k \in DOMAIN requests : requests[k] \in PinResponses

\* "Hands the answer to whichever assertion thread is blocked on it."
\* (daemon.rs:373)
ReassertionGetsItsPin ==
    ~(PinAnswered /\ thread[Reasserter].pc = "pin" /\ worker.pc = "await")

\* "Not fatal: the CLI still works" (daemon.rs:262-265)
RefusedShortcutIsNotFatal == worker.pc # "panicked"
===============================================================================
