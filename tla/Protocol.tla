------------------------------- MODULE Protocol -------------------------------
(***************************************************************************)
(* The two channels of state.rs: events from the worker to the popup and   *)
(* requests from the popup to the worker.  Both are FIFO, lossless and     *)
(* unbounded; the bounds below limit only what starts new work.            *)
(*                                                                         *)
(* Left out are the messages that change nothing but a line of text: the   *)
(* events Error and Status, and the request Dismissed, which the worker    *)
(* logs.  An answer to a PIN prompt carries the number of that prompt,     *)
(* which the code does not: it serves to say which prompt it was meant for.*)
(***************************************************************************)
EXTENDS Integers, Sequences

CONSTANTS
    Ids,            \* the UUIDs of secrets
    Prompts,        \* PIN prompts are numbered modulo this
    Asked,          \* the types of request the user of an instance makes
    MaxRequests,    \* the popup sends only while fewer requests are queued
    MaxEvents       \* the worker takes on work only while fewer events are

ASSUME BoundsAssumption ==
    /\ Prompts \in Nat \ {0} /\ MaxRequests \in Nat \ {0} /\ MaxEvents \in Nat \ {0}
    /\ Asked \subseteq {"unlock", "touch", "use", "edit", "save", "delete", "pin"}

VARIABLES
    events,         \* calloop channel, worker and assertion threads to popup
    requests        \* mpsc channel and its bridge, popup to worker

protocolVars == <<events, requests>>

UiLockStates == {"locked", "waiting", "unlocked"}

Prompt == 0 .. Prompts - 1

(***************************************************************************)
(* DaemonEvent                                                             *)
(***************************************************************************)
Show(list) == [type |-> "show", secrets |-> list]
Hide == [type |-> "hide"]
LockChanged(state) == [type |-> "lock", state |-> state]
EditReady(id) == [type |-> "edit", id |-> id]
Refresh(list) == [type |-> "refresh", secrets |-> list]
RequestPin(n) == [type |-> "pin", prompt |-> n]

DaemonEvent ==
    {Show(s) : s \in SUBSET Ids} \cup {Hide} \cup {LockChanged(l) : l \in UiLockStates}
    \cup {EditReady(i) : i \in Ids} \cup {Refresh(s) : s \in SUBSET Ids}
    \cup {RequestPin(n) : n \in Prompt}

(***************************************************************************)
(* UiRequest                                                               *)
(***************************************************************************)
Unlock == [type |-> "unlock"]
Touch == [type |-> "touch"]
Use(id) == [type |-> "use", id |-> id]
BeginEdit(id) == [type |-> "edit", id |-> id]
Save(id, isUpdate) == [type |-> "save", id |-> id, isUpdate |-> isUpdate]
Delete(id) == [type |-> "delete", id |-> id]
PinResponse(n, given) == [type |-> "pin", prompt |-> n, given |-> given]

PinResponses == {PinResponse(n, g) : n \in Prompt, g \in BOOLEAN}

UiRequest ==
    {Unlock, Touch} \cup {Use(i) : i \in Ids} \cup {BeginEdit(i) : i \in Ids}
    \cup {Save(i, u) : i \in Ids, u \in BOOLEAN} \cup {Delete(i) : i \in Ids}
    \cup PinResponses

(***************************************************************************)
(* Sending.                                                                *)
(***************************************************************************)
Send(es) == events' = events \o es

Submit(r) ==
    /\ r.type \in Asked
    /\ Len(requests) < MaxRequests
    /\ requests' = Append(requests, r)
===============================================================================
