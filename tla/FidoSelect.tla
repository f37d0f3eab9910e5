------------------------------ MODULE FidoSelect ------------------------------
(***************************************************************************)
(* Which of the connected authenticators is asked.  Processes unlock the   *)
(* vault, create it, or enroll another key, while keys are plugged in and  *)
(* pulled out between any two of their steps.  A call that goes through    *)
(* opens all devices, asks each silently whether it holds a listed         *)
(* credential, and only then spends the PIN and the touch on one of them.  *)
(* Creating and enrolling do this twice: to register and, through          *)
(* assert_secret, to derive the new key's secret.                          *)
(***************************************************************************)
EXTENDS FiniteSets, Naturals

CONSTANTS
    Devices,        \* authenticators
    Creds,          \* bound: credential ids
    Procs,          \* processes
    Nothing         \* no device, no credential

ASSUME FidoAssumption ==
    /\ Nothing \notin Devices
    /\ Nothing \notin Creds

VARIABLES
    plugged,    \* the devices connected now
    holds,      \* the credentials each device answers for
    enrolled,   \* the vault's list of credentials
    op,         \* what each process is doing
    blind       \* history: credentials registered on a device that had not
                \* answered for what it held

vars == <<plugged, holds, enrolled, op, blind>>

Calls == {"none", "init", "enroll", "unlock"}

Steps == {"idle", "open", "probe", "pin", "touch", "done"}

Statuses == {"ok", "no_device", "refused", "all_enrolled", "ambiguous", "failed"}

\* `known` is the list read before the call, `cred` the credential registered
\* by it (or the one that answered an unlock).  `live` are the handles that
\* still work: one dies with its device's unplugging and does not come back.
\* `missed`, a history, are the devices that held a listed credential when they
\* were asked and whose probe failed all the same.
Operation ==
    [call : Calls, pc : Steps, known : SUBSET Creds, cred : Creds \cup {Nothing},
     live : SUBSET Devices, todo : SUBSET Devices, silent : SUBSET Devices,
     missed : SUBSET Devices, device : Devices \cup {Nothing}, status : Statuses]

Idle ==
    [call |-> "none", pc |-> "idle", known |-> {}, cred |-> Nothing, live |-> {},
     todo |-> {}, silent |-> {}, missed |-> {}, device |-> Nothing, status |-> "ok"]

TypeOK ==
    /\ plugged \in SUBSET Devices
    /\ holds \in [Devices -> SUBSET Creds]
    /\ enrolled \in SUBSET Creds
    /\ op \in [Procs -> Operation]
    /\ blind \in SUBSET Creds

\* No vault, and keys that have never seen one.
Init ==
    /\ plugged = {}
    /\ holds = [d \in Devices |-> {}]
    /\ enrolled = {}
    /\ op = [p \in Procs |-> Idle]
    /\ blind = {}

(***************************************************************************)
(* Helpers                                                                 *)
(***************************************************************************)
\* Registering comes first; what follows it is an assertion.
Registers(o) == o.call # "unlock" /\ o.cred = Nothing

\* The list of the request: to exclude, to derive from, or to unlock with.
AllowList(o) == IF o.cred = Nothing THEN o.known ELSE {o.cred}

\* What the pre-flight assertion asks; an empty list is not sent.
HoldsAny(o, d) == d \in o.live /\ holds[d] \cap AllowList(o) # {}

SetOp(p, o) == op' = [op EXCEPT ![p] = o]

\* A call that is over keeps only how it ended.
Ended(o, status) ==
    [Idle EXCEPT !.call = o.call, !.pc = "done", !.status = status]

\* The other handles are closed.
Picked(o, d) ==
    [o EXCEPT !.pc = "pin", !.device = d, !.live = @ \cap {d},
              !.todo = {}, !.silent = {}, !.missed = @ \cap {d}]

(***************************************************************************)
(* The hardware                                                            *)
(***************************************************************************)
Plug(d) ==
    /\ d \notin plugged
    /\ plugged' = plugged \cup {d}
    /\ UNCHANGED <<holds, enrolled, op, blind>>

Unplug(d) ==
    /\ d \in plugged
    /\ plugged' = plugged \ {d}
    /\ op' = [p \in Procs |-> [op[p] EXCEPT !.live = @ \ {d}, !.missed = @ \ {d}]]
    /\ UNCHANGED <<holds, enrolled, blind>>

\* A factory reset: the device no longer answers for anything it registered.
Reset(d) ==
    /\ d \in plugged
    /\ holds' = [holds EXCEPT ![d] = {}]
    /\ UNCHANGED <<plugged, enrolled, op, blind>>

(***************************************************************************)
(* One call of a process                                                   *)
(***************************************************************************)
Start(p, call) ==
    /\ op[p].pc = "idle"
    /\ (call = "init") <=> (enrolled = {})
    /\ SetOp(p, [Idle EXCEPT !.call = call, !.pc = "open", !.known = enrolled])
    /\ UNCHANGED <<plugged, holds, enrolled, blind>>

\* S are the devices that could be opened: one that cannot be is skipped.  The
\* only device is asked for an assertion without asking what it holds.
OpenAll(p, S) ==
    LET o == op[p]
        opened == [o EXCEPT !.pc = "probe", !.live = S, !.todo = S,
                              !.silent = {}, !.missed = {}]
    IN
    /\ o.pc = "open"
    /\ S \subseteq plugged
    /\ \/ /\ S = {}
          /\ SetOp(p, Ended(o, IF plugged = {} THEN "no_device" ELSE "failed"))
       \/ /\ \E d \in S : S = {d} /\ ~Registers(o) /\ SetOp(p, Picked(opened, d))
       \/ /\ S # {}
          /\ Registers(o) \/ \A d \in S : S # {d}
          /\ SetOp(p, opened)
    /\ UNCHANGED <<plugged, holds, enrolled, blind>>

\* d answers the probe: an assertion takes it, a registration passes it over.
ProbeAnswered(p, d) ==
    LET o == op[p] IN
    /\ o.pc = "probe"
    /\ d \in o.todo
    /\ HoldsAny(o, d)
    /\ SetOp(p, IF Registers(o) THEN [o EXCEPT !.todo = @ \ {d}] ELSE Picked(o, d))
    /\ UNCHANGED <<plugged, holds, enrolled, blind>>

\* Variant: the first device that is silent ends an assertion.
ProbeSilentOnce(p, d) ==
    LET o == op[p] IN
    /\ o.pc = "probe"
    /\ d \in o.todo
    /\ ~HoldsAny(o, d)
    /\ SetOp(p, IF Registers(o) THEN [o EXCEPT !.todo = @ \ {d}, !.silent = @ \cup {d}]
                                ELSE Ended(o, "refused"))
    /\ UNCHANGED <<plugged, holds, enrolled, blind>>

\* d answers that it holds none of them, or its handle is dead.
ProbeSilent(p, d) ==
    LET o == op[p] IN
    /\ o.pc = "probe"
    /\ d \in o.todo
    /\ ~HoldsAny(o, d)
    /\ SetOp(p, [o EXCEPT !.todo = @ \ {d}, !.silent = @ \cup {d}])
    /\ UNCHANGED <<plugged, holds, enrolled, blind>>

\* d refuses a silent assertion, or the exchange with it fails: holds_any makes
\* one `false` of every error, and d is taken to hold none of them.
ProbeFails(p, d) ==
    LET o == op[p] IN
    /\ o.pc = "probe"
    /\ d \in o.todo
    /\ HoldsAny(o, d)
    /\ SetOp(p, [o EXCEPT !.todo = @ \ {d}, !.silent = @ \cup {d},
                           !.missed = @ \cup {d}])
    /\ UNCHANGED <<plugged, holds, enrolled, blind>>

\* Every device has been asked.  A registration needs exactly one that is new.
Choose(p) ==
    LET o == op[p] IN
    /\ o.pc = "probe"
    /\ o.todo = {}
    /\ \/ ~Registers(o) /\ SetOp(p, Ended(o, "refused"))
       \/ Registers(o) /\ o.silent = {} /\ SetOp(p, Ended(o, "all_enrolled"))
       \/ \E d \in o.silent :
            /\ Registers(o)
            /\ SetOp(p, IF o.silent = {d} THEN Picked(o, d) ELSE Ended(o, "ambiguous"))
    /\ UNCHANGED <<plugged, holds, enrolled, blind>>

EnterPin(p) ==
    /\ op[p].pc = "pin"
    /\ SetOp(p, [op[p] EXCEPT !.pc = "touch"])
    /\ UNCHANGED <<plugged, holds, enrolled, blind>>

\* No PIN or a wrong one, no touch in time, a device that is gone, none of its
\* credentials listed, or an answer without what was asked for: no hmac-secret,
\* no id, an output of another length.
Fail(p) ==
    /\ op[p].pc \in {"pin", "touch"}
    /\ SetOp(p, Ended(op[p], "failed"))
    /\ UNCHANGED <<plugged, holds, enrolled, blind>>

\* An id that was never given out; ids are random.
Unused(c) ==
    /\ c \notin enrolled
    /\ \A d \in Devices : c \notin holds[d]
    /\ \A p \in Procs : c \notin op[p].known /\ c # op[p].cred

\* The device registers c, and its secret is derived next, opening all devices
\* again.  c is not among the known ones, so enroll_key's check of that passes.
Register(p, c) ==
    LET o == op[p] IN
    /\ o.pc = "touch"
    /\ Registers(o)
    /\ o.device \in o.live
    /\ Unused(c)
    /\ holds' = [holds EXCEPT ![o.device] = @ \cup {c}]
    /\ SetOp(p, [Idle EXCEPT !.call = o.call, !.pc = "open", !.known = o.known,
                             !.cred = c])
    /\ blind' = IF o.device \in o.missed THEN blind \cup {c} ELSE blind \ {c}
    /\ UNCHANGED <<plugged, enrolled>>

\* Variant: an answer without an id is taken for any listed credential.
MatchedAny(o, c, told) == IF told THEN {c} ELSE AllowList(o)

\* The device answers for c, and tells so unless it thinks that goes without
\* saying; then an only listed credential is taken to be meant.
Matched(o, c, told) ==
    IF told THEN {c} ELSE {a \in AllowList(o) : AllowList(o) = {a}}

\* Variant: the new credential is added to the list as it is by then.
AnswerTouchMerging(p, c, told) ==
    LET o == op[p] IN
    /\ o.pc = "touch"
    /\ ~Registers(o)
    /\ o.device \in o.live
    /\ c \in holds[o.device] \cap AllowList(o)
    /\ SetOp(p, [Ended(o, "ok") EXCEPT !.cred = c])
    /\ enrolled' = IF o.call = "unlock" THEN enrolled ELSE enrolled \cup {o.cred}
    /\ UNCHANGED <<plugged, holds, blind>>

\* What an unlock was answered with stays in the operation for its caller.  The
\* list is written whole, from the one read before the call.
AnswerTouch(p, c, told) ==
    LET o == op[p] IN
    /\ o.pc = "touch"
    /\ ~Registers(o)
    /\ o.device \in o.live
    /\ c \in holds[o.device] \cap AllowList(o)
    /\ \/ /\ Matched(o, c, told) = {}
          /\ SetOp(p, Ended(o, "failed"))
          /\ UNCHANGED enrolled
       \/ \E m \in Matched(o, c, told) :
            /\ SetOp(p, [Ended(o, "ok") EXCEPT !.cred = m])
            /\ enrolled' = IF o.call = "unlock" THEN enrolled
                                                ELSE o.known \cup {o.cred}
    /\ UNCHANGED <<plugged, holds, blind>>

Return(p) ==
    /\ op[p].pc = "done"
    /\ SetOp(p, Idle)
    /\ UNCHANGED <<plugged, holds, enrolled, blind>>

(***************************************************************************)
(* The specification                                                       *)
(***************************************************************************)
Step(p) ==
    \/ \E call \in Calls \ {"none"} : Start(p, call)
    \/ \E S \in SUBSET plugged : OpenAll(p, S)
    \/ \E d \in Devices : ProbeAnswered(p, d) \/ ProbeSilent(p, d) \/ ProbeFails(p, d)
    \/ Choose(p)
    \/ EnterPin(p) \/ Fail(p)
    \/ \E c \in Creds : Register(p, c)
    \/ \E c \in Creds, told \in BOOLEAN : AnswerTouch(p, c, told)
    \/ Return(p)

Next ==
    \/ \E d \in Devices : Plug(d) \/ Unplug(d) \/ Reset(d)
    \/ \E p \in Procs : Step(p)

Spec == Init /\ [][Next]_vars

(***************************************************************************)
(* Safety                                                                  *)
(***************************************************************************)
\* S has no two members.
AtMostOne(S) == \A x, y \in S : x = y

\* An authenticator is enrolled a second time only by a registration whose
\* probe of it had failed: of the entries for one device, at most one was
\* registered after the device had answered, however enrollments overlap and
\* devices come and go.  (What a second entry is for is another key to fall
\* back on, open_unenrolled; what a failed probe does to that is fido.rs:330.)
OneKeyPerDevice == \A d \in Devices : AtMostOne(holds[d] \cap (enrolled \ blind))

\* What makes it inductive.  Every list a call has read is such a list too; a
\* device that was silent without having been missed, or that is chosen so to
\* register, holds nothing listed for as long as it stays connected; the one that
\* registered the new credential so holds nothing else of the old list.
Apart(d, S) == holds[d] \cap S = {}

OpInv(o) ==
    /\ \A d \in Devices : AtMostOne(holds[d] \cap (o.known \ blind))
    /\ \A d \in (o.silent \cap o.live) \ o.missed : Apart(d, AllowList(o))
    /\ o.pc = "probe" /\ ~Registers(o) => o.live \subseteq o.todo \cup o.silent
    /\ o.pc \in {"pin", "touch"} /\ Registers(o) /\ o.device \in o.live \ o.missed
       => Apart(o.device, o.known)
    /\ o.call # "unlock" /\ o.cred \notin blind
       => \A d \in Devices : o.cred \in holds[d] => Apart(d, o.known)

FidoInv ==
    /\ TypeOK
    /\ OneKeyPerDevice
    /\ \A p \in Procs : OpInv(op[p])

\* A call that gives up for want of a device has not overlooked one: every
\* device that is still connected, and did not fail its probe, holds none of the
\* credentials asked for (open_enrolled).  That one that failed its probe is
\* passed over is what fido.rs:192-194 says may happen.
RefusedOnlyWithoutKey ==
    [][\A p \in Procs :
        op[p].pc = "probe" /\ op'[p].pc = "done" /\ op'[p].status = "refused"
        => \A d \in op[p].live \ op[p].missed : holds[d] \cap AllowList(op[p]) = {}]_vars

\* An unlock goes on with the enrollment whose credential the touched device
\* answered for, whether it says which or not: one it holds, of the list.
UnlocksWithWhatAnswered ==
    [][\A p \in Procs :
        op[p].pc = "touch" /\ op'[p].pc = "done" /\ op'[p].status = "ok"
        => op'[p].cred \in holds[op[p].device] \cap AllowList(op[p])]_vars
===============================================================================
