------------------------------- MODULE MCDaemon -------------------------------
(***************************************************************************)
(* Small instances of Daemon against any popup.  The slots for unlock      *)
(* threads are interchangeable, and so are the secrets.                    *)
(*                                                                         *)
(* Two constraints leave out states that differ only in messages under way.*)
(* The daemon never reads what it sent, so events may be taken at once; it *)
(* reads requests only in its select, so a request may be sent just in     *)
(* time.  A third has the registration of the shortcut end first of all:   *)
(* one that has not ended, or was refused and not polled again, leaves the *)
(* daemon as it is but for the hotkey.  Every run of the daemon has a      *)
(* counterpart among those kept, one that panics later among those that    *)
(* shut down.                                                              *)
(***************************************************************************)
EXTENDS Daemon, TLC

CONSTANTS mail, bank, u1, u2

TakenAtOnce == events # <<>> => Len(events') < Len(events)

JustInTime == requests # <<>> => worker.pc = "select"

RegisteredFirst ==
    /\ binding \in {"pending", "granted", "refused"} => binding' # binding
    /\ binding = "spent" => worker'.pc = "panicked"

\* Answers to prompts that nobody waits for any more pile up in the channel.
CONSTANT MaxAnswers

(***************************************************************************)
(* For liveness the same is asked of steps and not of states, none of which*)
(* keeps a fair action away for good: requests and answers are sent while  *)
(* the worker is at its select, an answer while a prompt waits for one, as *)
(* the next prompt would throw away any other.  Symmetry is no use there,  *)
(* so a thread is given the first free slot.  And nothing the run asks for *)
(* depends on when an event is sent, save one of the lock: the others are  *)
(* sent at once, and the vault starts full; the run for safety leaves both *)
(* open.                                                                   *)
(***************************************************************************)
SentInTime ==
    Len(requests') > Len(requests) =>
        /\ worker.pc = "select"
        /\ requests'[1] \in PinResponses =>
             Len(answers) < MaxAnswers /\ \E t \in Threads : thread[t].pc = "pin"

FirstSlot ==
    thread[u1].pc = "none" /\ thread[u2].pc = "none" => thread'[u2].pc = "none"

Holding == \E out \in {worker.out} \cup {thread[t].out : t \in Threads} :
             out # <<>> /\ out[1].type # "lock"

SentAtOnce == Holding /\ events = <<>> => events' # <<>>

FullInit == OpenInit /\ stored = Ids

FullSpec == FullInit /\ [][OpenNext]_OpenVars /\ OpenFairness

Symmetry == Permutations(Unlockers) \cup Permutations(Ids)
===============================================================================
