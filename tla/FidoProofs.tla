------------------------------ MODULE FidoProofs ------------------------------
(***************************************************************************)
(* Theorems about FidoSelect, for any devices, credentials and processes.  *)
(***************************************************************************)
EXTENDS FidoSelect, TLAPS

LEMMA IdleType ==
    Idle \in Operation
BY DEF Idle, Operation, Calls, Steps, Statuses

\* An operation that has ended, and one that has its device, are operations.
LEMMA EndedType ==
    ASSUME NEW o \in Operation, NEW s \in Statuses
    PROVE  Ended(o, s) \in Operation
BY DEF Ended, Idle, Operation, Calls, Steps, Statuses

LEMMA PickedType ==
    ASSUME NEW o \in Operation, NEW d \in Devices
    PROVE  Picked(o, d) \in Operation
BY DEF Picked, Operation, Steps

\* Every step keeps the types.
LEMMA TypeStep ==
    ASSUME TypeOK, Next
    PROVE  TypeOK'
<1> USE DEF TypeOK
<1>1. ASSUME NEW d \in Devices, Plug(d) \/ Reset(d) PROVE TypeOK'
  BY <1>1 DEF Plug, Reset
<1>2. ASSUME NEW d \in Devices, Unplug(d) PROVE TypeOK'
  <2> DEFINE n(p) == [op[p] EXCEPT !.live = @ \ {d}, !.missed = @ \ {d}]
  <2>1. ASSUME NEW o \in Operation
        PROVE  [o EXCEPT !.live = @ \ {d}, !.missed = @ \ {d}] \in Operation
    BY DEF Operation
  <2>2. op \in [Procs -> Operation]
    OBVIOUS
  <2>3. \A p \in Procs : n(p) \in Operation
    BY <2>1, <2>2
  <2>4. op' = [p \in Procs |-> n(p)]
    BY <1>2 DEF Unplug
  <2> HIDE DEF n
  <2>5. op' \in [Procs -> Operation]
    BY <2>3, <2>4
  <2>6. QED BY <1>2, <2>5 DEF Unplug
<1>3. ASSUME NEW p \in Procs, Step(p) PROVE TypeOK'
  <2> DEFINE o == op[p]
  <2>0. o \in Operation
    OBVIOUS
  <2> HIDE DEF o
  <2>a. ASSUME NEW n \in Operation, SetOp(p, n) PROVE op' \in [Procs -> Operation]
    BY <2>a DEF SetOp
  <2>1. ASSUME NEW call \in Calls \ {"none"}, Start(p, call) PROVE TypeOK'
    <3>1. [Idle EXCEPT !.call = call, !.pc = "open", !.known = enrolled] \in Operation
      BY DEF Idle, Operation, Calls, Steps, Statuses
    <3>2. QED BY <2>1, <2>a, <3>1 DEF Start
  <2>2. ASSUME NEW S \in SUBSET plugged, OpenAll(p, S) PROVE TypeOK'
    <3> DEFINE n == [o EXCEPT !.pc = "probe", !.live = S, !.todo = S, !.silent = {},
                          !.missed = {}]
    <3>1. n \in Operation
      BY <2>0 DEF Operation, Steps
    <3> HIDE DEF n
    <3>2. \A d \in S : Picked(n, d) \in Operation
      BY <3>1, PickedType
    <3>3. Ended(o, IF plugged = {} THEN "no_device" ELSE "failed") \in Operation
      BY <2>0, EndedType DEF Statuses
    <3>4. QED BY <2>2, <2>a, <3>1, <3>2, <3>3 DEF OpenAll, o, n
  <2>3. ASSUME NEW d \in Devices, ProbeAnswered(p, d) PROVE TypeOK'
    <3>1. [o EXCEPT !.todo = @ \ {d}] \in Operation
      BY <2>0 DEF Operation
    <3>2. Picked(o, d) \in Operation
      BY <2>0, PickedType
    <3>3. QED BY <2>3, <2>a, <3>1, <3>2 DEF ProbeAnswered, o
  <2>4. ASSUME NEW d \in Devices, ProbeSilent(p, d) PROVE TypeOK'
    <3>1. [o EXCEPT !.todo = @ \ {d}, !.silent = @ \cup {d}] \in Operation
      BY <2>0 DEF Operation
    <3>2. QED BY <2>4, <2>a, <3>1 DEF ProbeSilent, o
  <2>12. ASSUME NEW d \in Devices, ProbeFails(p, d) PROVE TypeOK'
    <3>1. [o EXCEPT !.todo = @ \ {d}, !.silent = @ \cup {d}, !.missed = @ \cup {d}]
            \in Operation
      BY <2>0 DEF Operation
    <3>2. QED BY <2>12, <2>a, <3>1 DEF ProbeFails, o
  <2>5. CASE Choose(p)
    <3>1. \A s \in Statuses : Ended(o, s) \in Operation
      BY <2>0, EndedType
    <3>2. \A d \in o.silent : Picked(o, d) \in Operation
      BY <2>0, PickedType DEF Operation
    <3>3. QED BY <2>5, <2>a, <3>1, <3>2 DEF Choose, o, Statuses
  <2>6. CASE EnterPin(p)
    <3>1. [o EXCEPT !.pc = "touch"] \in Operation
      BY <2>0 DEF Operation, Steps
    <3>2. QED BY <2>6, <2>a, <3>1 DEF EnterPin, o
  <2>7. CASE Fail(p)
    <3>1. Ended(o, "failed") \in Operation
      BY <2>0, EndedType DEF Statuses
    <3>2. QED BY <2>7, <2>a, <3>1 DEF Fail, o
  <2>8. ASSUME NEW c \in Creds, Register(p, c) PROVE TypeOK'
    <3>1. [Idle EXCEPT !.call = o.call, !.pc = "open", !.known = o.known, !.cred = c]
            \in Operation
      BY <2>0 DEF Idle, Operation, Calls, Steps, Statuses
    <3>2. QED BY <2>8, <2>a, <3>1 DEF Register, o
  <2>9. ASSUME NEW c \in Creds, NEW told \in BOOLEAN, AnswerTouch(p, c, told)
        PROVE  TypeOK'
    <3>1. c \in AllowList(o) /\ AllowList(o) \subseteq Creds
      BY <2>0, <2>9, FidoAssumption DEF AnswerTouch, AllowList, Operation, o
    <3>2. Matched(o, c, told) \subseteq Creds
      BY <3>1 DEF Matched
    <3>3. \A m \in Matched(o, c, told) : [Ended(o, "ok") EXCEPT !.cred = m] \in Operation
      BY <2>0, <3>2, EndedType DEF Operation, Statuses
    <3>4. Ended(o, "failed") \in Operation
      BY <2>0, EndedType DEF Statuses
    <3>5. o.call # "unlock" => o.known \cup {o.cred} \subseteq Creds
      BY <2>0, <2>9 DEF AnswerTouch, Registers, AllowList, Operation, Calls, o
    <3>6. QED BY <2>9, <2>a, <3>3, <3>4, <3>5 DEF AnswerTouch, o
  <2>10. CASE Return(p)
    BY <2>10, <2>a, IdleType DEF Return
  <2>11. QED
    BY <1>3, <2>1, <2>2, <2>3, <2>4, <2>5, <2>6, <2>7, <2>8, <2>9, <2>10, <2>12 DEF Step
<1>4. QED BY <1>1, <1>2, <1>3 DEF Next

\* Type correctness, for any devices, credentials and processes.
THEOREM FidoTypeCorrect == Spec => []TypeOK
<1>1. Init => TypeOK
  BY IdleType DEF Init, TypeOK
<1>2. TypeOK /\ [Next]_vars => TypeOK'
  <2>1. TypeOK /\ UNCHANGED vars => TypeOK'
    BY DEF TypeOK, vars
  <2>2. QED BY <2>1, TypeStep
<1>3. QED BY <1>1, <1>2, PTL DEF Spec

(***************************************************************************)
(* The list of authenticators                                              *)
(***************************************************************************)
\* An operation that has read nothing yet, or has just ended.
LEMMA EndedInv ==
    ASSUME NEW o, NEW s, \A d \in Devices : Nothing \notin holds[d]
    PROVE  OpInv(Idle) /\ OpInv(Ended(o, s))
BY DEF Ended, Idle, OpInv, AtMostOne, Registers, Apart

\* A device that is chosen to register was silent, so that if it is still
\* connected it holds nothing listed.
LEMMA PickedInv ==
    ASSUME NEW o \in Operation, NEW d \in Devices, OpInv(o),
           Registers(o) => d \in o.silent
    PROVE  OpInv(Picked(o, d))
<1> DEFINE n == Picked(o, d)
<1>1. /\ n.call = o.call /\ n.known = o.known /\ n.cred = o.cred
      /\ n.pc = "pin" /\ n.silent = {} /\ n.device = d /\ n.live = o.live \cap {d}
      /\ n.missed = o.missed \cap {d}
  BY DEF Picked, Operation
<1>2. Registers(n) <=> Registers(o)
  BY <1>1 DEF Registers
<1> HIDE DEF n
<1>3. Registers(n) /\ d \in n.live \ n.missed => Apart(d, n.known)
  BY <1>1, <1>2 DEF OpInv, AllowList, Registers
<1>4. OpInv(n)
  BY <1>1, <1>3 DEF OpInv
<1>5. QED BY <1>4 DEF n

\* A step that replaces one operation by a good one, and no device's
\* credentials, leaves all operations good.
LEMMA OthersKeep ==
    ASSUME TypeOK, \A q \in Procs : OpInv(op[q]),
           NEW p \in Procs, NEW n, OpInv(n), SetOp(p, n),
           UNCHANGED <<holds, blind>>
    PROVE  \A q \in Procs : OpInv(op[q])'
<1> SUFFICES ASSUME NEW q \in Procs PROVE OpInv(op[q])'
  OBVIOUS
<1>1. ASSUME NEW o, o = op'[q], OpInv(o) PROVE OpInv(op[q])'
  BY <1>1 DEF OpInv, AtMostOne, Apart, AllowList, Registers
<1>2. op'[q] = n \/ op'[q] = op[q]
  BY DEF SetOp, TypeOK
<1>3. QED BY <1>1, <1>2

\* Resetting a device takes credentials away, which disturbs nothing.
LEMMA ResetKeeps ==
    ASSUME FidoInv, NEW d \in Devices, Reset(d)
    PROVE  OneKeyPerDevice' /\ \A q \in Procs : OpInv(op[q])'
<1>1. /\ op' = op /\ enrolled' = enrolled /\ blind' = blind
      /\ \A e \in Devices : holds'[e] \subseteq holds[e]
  BY DEF Reset, FidoInv, TypeOK
<1>2. OneKeyPerDevice'
  BY <1>1 DEF FidoInv, OneKeyPerDevice, AtMostOne
<1>3. ASSUME NEW q \in Procs PROVE OpInv(op[q])'
  <2>1. op[q] \in Operation /\ OpInv(op[q])
    BY DEF FidoInv, TypeOK
  <2>2. QED
    BY <1>1, <2>1 DEF OpInv, AtMostOne, Apart, AllowList, Registers, Operation
<1>4. QED BY <1>2, <1>3

\* Pulling a device out only takes handles away.
LEMMA UnplugKeeps ==
    ASSUME FidoInv, NEW d \in Devices, Unplug(d)
    PROVE  OneKeyPerDevice' /\ \A q \in Procs : OpInv(op[q])'
<1>1. OneKeyPerDevice'
  BY DEF Unplug, FidoInv, OneKeyPerDevice
<1>2. ASSUME NEW q \in Procs PROVE OpInv(op[q])'
  <2> DEFINE o == op[q]  n == op'[q]
  <2>1. o \in Operation /\ OpInv(o)
    BY DEF FidoInv, TypeOK
  <2>2. n = [o EXCEPT !.live = @ \ {d}, !.missed = @ \ {d}]
    BY DEF Unplug
  <2>3. /\ n.call = o.call /\ n.pc = o.pc /\ n.known = o.known /\ n.cred = o.cred
        /\ n.live = o.live \ {d} /\ n.todo = o.todo /\ n.silent = o.silent
        /\ n.device = o.device /\ n.missed = o.missed \ {d}
    BY <2>1, <2>2 DEF Operation
  <2>4. Registers(n) <=> Registers(o)
    BY <2>3 DEF Registers
  <2>5. AllowList(n) = AllowList(o)
    BY <2>3 DEF AllowList
  <2> HIDE DEF o, n
  <2>6. OpInv(n)
    BY <2>1, <2>3, <2>4, <2>5 DEF OpInv
  <2>7. holds' = holds /\ blind' = blind
    BY DEF Unplug
  <2>8. QED
    BY <2>6, <2>7 DEF n, OpInv, AtMostOne, Apart, AllowList, Registers
<1>3. QED BY <1>1, <1>2

\* A new credential is in no list, and the device that registered it held
\* nothing of the list of the call it was registered for.
LEMMA RegisterKeeps ==
    ASSUME FidoInv, NEW p \in Procs, NEW c \in Creds, Register(p, c)
    PROVE  OneKeyPerDevice' /\ \A q \in Procs : OpInv(op[q])'
<1> DEFINE o == op[p]
<1>0. TypeOK /\ OneKeyPerDevice /\ \A q \in Procs : OpInv(op[q])
  BY DEF FidoInv
<1>1. o \in Operation /\ o.device \in Devices
  BY <1>0 DEF TypeOK, Operation, Register
<1>2. /\ c \notin enrolled
      /\ \A d \in Devices : c \notin holds[d]
      /\ \A q \in Procs : c \notin op[q].known /\ c # op[q].cred
  BY DEF Register, Unused
<1>3. /\ enrolled' = enrolled
      /\ holds' = [holds EXCEPT ![o.device] = @ \cup {c}]
      /\ blind' = IF o.device \in o.missed THEN blind \cup {c} ELSE blind \ {c}
  BY DEF Register
<1>4. \A d \in Devices : holds'[d] = IF d = o.device THEN holds[d] \cup {c} ELSE holds[d]
  BY <1>0, <1>1, <1>3 DEF TypeOK
<1>9. \A S : c \notin S => \A d \in Devices :
        holds'[d] \cap (S \ blind') = holds[d] \cap (S \ blind)
  BY <1>3, <1>4
<1>5. OneKeyPerDevice'
  BY <1>0, <1>2, <1>3, <1>9 DEF OneKeyPerDevice, AtMostOne
<1>6. ASSUME NEW q \in Procs, q # p PROVE OpInv(op[q])'
  <2>1. op'[q] = op[q]
    BY <1>0, <1>6 DEF Register, SetOp, TypeOK
  <2>2. c \notin AllowList(op[q]) /\ c \notin op[q].known /\ c # op[q].cred
    BY <1>2 DEF AllowList
  <2>3. \A d \in Devices :
          /\ holds'[d] \cap op[q].known = holds[d] \cap op[q].known
          /\ holds'[d] \cap AllowList(op[q]) = holds[d] \cap AllowList(op[q])
          /\ op[q].cred \in holds'[d] <=> op[q].cred \in holds[d]
    BY <1>4, <2>2
  <2>4. AllowList(op[q])' = AllowList(op[q]) /\ (Registers(op[q])' <=> Registers(op[q]))
    BY <2>1 DEF AllowList, Registers
  <2>5. op[q] \in Operation /\ OpInv(op[q])
    BY <1>0 DEF TypeOK
  <2>6. \A d \in Devices : AtMostOne(holds'[d] \cap (op[q].known \ blind'))
    BY <1>9, <2>2, <2>5 DEF OpInv
  <2>7. \A d \in (op[q].silent \cap op[q].live) \ op[q].missed : holds'[d] \cap AllowList(op[q]) = {}
    BY <2>3, <2>5 DEF OpInv, Apart, Operation
  <2>8. op[q].pc \in {"pin", "touch"} /\ Registers(op[q])
        /\ op[q].device \in op[q].live \ op[q].missed
        => holds'[op[q].device] \cap op[q].known = {}
    BY <2>3, <2>5 DEF OpInv, Apart, Operation
  <2>9. op[q].call # "unlock" /\ op[q].cred \notin blind' => \A d \in Devices :
            op[q].cred \in holds'[d] => holds'[d] \cap op[q].known = {}
    BY <1>3, <2>2, <2>3, <2>5 DEF OpInv, Apart
  <2>10. QED
    BY <2>1, <2>4, <2>5, <2>6, <2>7, <2>8, <2>9 DEF OpInv, Apart, AtMostOne
<1>7. OpInv(op[p])'
  <2> DEFINE n == op'[p]
  <2>1. n = [Idle EXCEPT !.call = o.call, !.pc = "open", !.known = o.known, !.cred = c]
    BY <1>0 DEF Register, SetOp, TypeOK
  <2>2. /\ n.call = o.call /\ n.pc = "open" /\ n.known = o.known /\ n.cred = c
        /\ n.live = {} /\ n.silent = {}
    BY <2>1 DEF Idle
  <2>3. o.device \notin o.missed => Apart(o.device, o.known)
    BY <1>0 DEF Register, OpInv
  <2>4. \A d \in Devices : AtMostOne(holds'[d] \cap (o.known \ blind'))
    <3>1. OpInv(o) /\ c \notin o.known
      BY <1>0, <1>2
    <3>2. QED BY <1>9, <3>1 DEF OpInv
  <2>5. c \notin blind' => \A d \in Devices : c \in holds'[d] => holds'[d] \cap o.known = {}
    BY <1>2, <1>3, <1>4, <2>3 DEF Apart
  <2>6. QED
    BY <2>2, <2>4, <2>5 DEF OpInv, Apart, AtMostOne
<1>8. QED BY <1>5, <1>6, <1>7

\* Every step of a process leaves what it goes on with good; only an answered
\* touch writes the list.
LEMMA ProcessKeeps ==
    ASSUME FidoInv, NEW p \in Procs, Step(p)
    PROVE  OneKeyPerDevice' /\ \A q \in Procs : OpInv(op[q])'
<1> DEFINE o == op[p]
<1>0. /\ TypeOK /\ OneKeyPerDevice /\ \A q \in Procs : OpInv(op[q])
      /\ o \in Operation /\ OpInv(o)
      /\ \A d \in Devices : Nothing \notin holds[d]
  BY FidoAssumption DEF FidoInv, TypeOK
<1> HIDE DEF o
<1>a. ASSUME NEW n, OpInv(n), SetOp(p, n), UNCHANGED <<holds, blind>>
      PROVE  \A q \in Procs : OpInv(op[q])'
  BY <1>0, <1>a, OthersKeep
<1>b. ASSUME UNCHANGED <<holds, enrolled, blind>> PROVE OneKeyPerDevice'
  BY <1>0, <1>b DEF OneKeyPerDevice, AtMostOne
<1>1. ASSUME NEW call \in Calls \ {"none"}, Start(p, call)
      PROVE  \A q \in Procs : OpInv(op[q])'
  <2> DEFINE n == [Idle EXCEPT !.call = call, !.pc = "open", !.known = enrolled]
  <2>1. /\ n.call = call /\ n.pc = "open" /\ n.known = enrolled /\ n.cred = Nothing
        /\ n.live = {} /\ n.silent = {}
    BY DEF Idle
  <2>2. OpInv(n)
    BY <1>0, <2>1 DEF OpInv, OneKeyPerDevice
  <2>3. QED BY <1>1, <1>a, <2>2 DEF Start
<1>2. ASSUME NEW S \in SUBSET plugged, OpenAll(p, S)
      PROVE  \A q \in Procs : OpInv(op[q])'
  <2> DEFINE n == [o EXCEPT !.pc = "probe", !.live = S, !.todo = S, !.silent = {},
                          !.missed = {}]
  <2>1. S \subseteq Devices /\ o.pc = "open"
    BY <1>0, <1>2 DEF TypeOK, OpenAll, o
  <2>2. /\ n.call = o.call /\ n.pc = "probe" /\ n.known = o.known /\ n.cred = o.cred
        /\ n.live = S /\ n.todo = S /\ n.silent = {} /\ n.missed = {}
    BY <1>0 DEF Operation
  <2>3. n \in Operation
    BY <1>0, <2>1 DEF Operation, Steps
  <2> HIDE DEF n
  <2>4. OpInv(n)
    BY <1>0, <2>2 DEF OpInv
  <2>5. ASSUME NEW d \in S, ~Registers(o) PROVE OpInv(Picked(n, d))
    BY <2>1, <2>2, <2>3, <2>4, <2>5, PickedInv DEF Registers
  <2>6. QED
    BY <1>0, <1>2, <1>a, <2>4, <2>5, EndedInv DEF OpenAll, o, n
<1>3. ASSUME NEW d \in Devices, ProbeAnswered(p, d)
      PROVE  \A q \in Procs : OpInv(op[q])'
  <2> DEFINE n == [o EXCEPT !.todo = @ \ {d}]
  <2>1. /\ n.call = o.call /\ n.pc = o.pc /\ n.known = o.known /\ n.cred = o.cred
        /\ n.live = o.live /\ n.silent = o.silent /\ n.device = o.device
        /\ n.missed = o.missed
    BY <1>0 DEF Operation
  <2> HIDE DEF n
  <2>2. Registers(o) => OpInv(n)
    BY <1>0, <2>1 DEF OpInv, Registers, AllowList
  <2>3. ~Registers(o) => OpInv(Picked(o, d))
    BY <1>0, PickedInv
  <2>4. SetOp(p, IF Registers(o) THEN n ELSE Picked(o, d)) /\ UNCHANGED <<holds, blind>>
    BY <1>3 DEF ProbeAnswered, o, n
  <2>5. QED BY <1>a, <2>2, <2>3, <2>4
<1>4. ASSUME NEW d \in Devices, ProbeSilent(p, d)
      PROVE  \A q \in Procs : OpInv(op[q])'
  <2> DEFINE n == [o EXCEPT !.todo = @ \ {d}, !.silent = @ \cup {d}]
  <2>1. /\ n.call = o.call /\ n.pc = o.pc /\ n.known = o.known /\ n.cred = o.cred
        /\ n.live = o.live /\ n.silent = o.silent \cup {d} /\ n.todo = o.todo \ {d}
        /\ n.device = o.device /\ n.missed = o.missed
    BY <1>0 DEF Operation
  <2> HIDE DEF n
  <2>2. d \in o.live => Apart(d, AllowList(o))
    BY <1>4 DEF ProbeSilent, HoldsAny, Apart, o
  <2>3. OpInv(n)
    BY <1>0, <2>1, <2>2 DEF OpInv, Registers, AllowList
  <2>4. SetOp(p, n) /\ UNCHANGED <<holds, blind>>
    BY <1>4 DEF ProbeSilent, o, n
  <2>5. QED BY <1>a, <2>3, <2>4
<1>13. ASSUME NEW d \in Devices, ProbeFails(p, d)
       PROVE  \A q \in Procs : OpInv(op[q])'
  <2> DEFINE n == [o EXCEPT !.todo = @ \ {d}, !.silent = @ \cup {d}, !.missed = @ \cup {d}]
  <2>1. /\ n.call = o.call /\ n.pc = o.pc /\ n.known = o.known /\ n.cred = o.cred
        /\ n.live = o.live /\ n.silent = o.silent \cup {d} /\ n.todo = o.todo \ {d}
        /\ n.device = o.device /\ n.missed = o.missed \cup {d}
    BY <1>0 DEF Operation
  <2> HIDE DEF n
  <2>2. o.pc = "probe"
    BY <1>13 DEF ProbeFails, o
  <2>3. OpInv(n)
    BY <1>0, <2>1, <2>2 DEF OpInv, Registers, AllowList
  <2>4. SetOp(p, n) /\ UNCHANGED <<holds, blind>>
    BY <1>13 DEF ProbeFails, o, n
  <2>5. QED BY <1>a, <2>3, <2>4
<1>5. ASSUME Choose(p) PROVE \A q \in Procs : OpInv(op[q])'
  <2>1. \A d \in o.silent : OpInv(Picked(o, d))
    BY <1>0, PickedInv DEF Operation
  <2>2. \A s : OpInv(Ended(o, s))
    BY <1>0, EndedInv
  <2>3. QED BY <1>5, <1>a, <2>1, <2>2 DEF Choose, o
<1>6. ASSUME EnterPin(p) PROVE \A q \in Procs : OpInv(op[q])'
  <2> DEFINE n == [o EXCEPT !.pc = "touch"]
  <2>1. /\ n.call = o.call /\ n.pc = "touch" /\ n.known = o.known /\ n.cred = o.cred
        /\ n.live = o.live /\ n.silent = o.silent /\ n.device = o.device
        /\ n.missed = o.missed
    BY <1>0 DEF Operation
  <2>2. o.pc = "pin" /\ SetOp(p, n) /\ UNCHANGED <<holds, blind>>
    BY <1>6 DEF EnterPin, o
  <2> HIDE DEF n
  <2>3. OpInv(n)
    BY <1>0, <2>1, <2>2 DEF OpInv, Registers, AllowList
  <2>4. QED BY <1>a, <2>2, <2>3
<1>7. ASSUME Fail(p) PROVE \A q \in Procs : OpInv(op[q])'
  BY <1>0, <1>7, <1>a, EndedInv DEF Fail, o
<1>8. ASSUME NEW c \in Creds, NEW told \in BOOLEAN, AnswerTouch(p, c, told)
      PROVE  OneKeyPerDevice' /\ \A q \in Procs : OpInv(op[q])'
  <2>1. \A s : OpInv(Ended(o, s))
    BY <1>0, EndedInv
  <2>2. \A m : OpInv([Ended(o, "ok") EXCEPT !.cred = m])
    BY DEF Ended, Idle, OpInv, AtMostOne, Registers, Apart
  <2>3. \A q \in Procs : OpInv(op[q])'
    BY <1>8, <1>a, <2>1, <2>2 DEF AnswerTouch, o
  <2>4. CASE UNCHANGED enrolled
    BY <1>8, <1>b, <2>3, <2>4 DEF AnswerTouch
  <2>5. CASE o.call # "unlock" /\ enrolled' = o.known \cup {o.cred}
    <3>1. \A d \in Devices : AtMostOne(holds[d] \cap (o.known \ blind))
      BY <1>0 DEF OpInv
    <3>2. o.cred \notin blind
          => \A d \in Devices : o.cred \in holds[d] => holds[d] \cap o.known = {}
      BY <1>0, <2>5 DEF OpInv, Apart
    <3>3. OneKeyPerDevice'
      BY <1>8, <2>5, <3>1, <3>2 DEF OneKeyPerDevice, AtMostOne, AnswerTouch
    <3>4. QED BY <2>3, <3>3
  <2>6. QED BY <1>8, <2>4, <2>5 DEF AnswerTouch, o
<1>9. ASSUME Return(p) PROVE \A q \in Procs : OpInv(op[q])'
  BY <1>0, <1>9, <1>a, EndedInv DEF Return
<1>10. ASSUME NEW c \in Creds, Register(p, c)
       PROVE  OneKeyPerDevice' /\ \A q \in Procs : OpInv(op[q])'
  BY <1>10, RegisterKeeps
<1>11. ASSUME NEW S \in SUBSET plugged, OpenAll(p, S)
       PROVE  UNCHANGED <<holds, enrolled, blind>>
  BY <1>11 DEF OpenAll
<1>12. QED
  BY <1>1, <1>2, <1>3, <1>4, <1>5, <1>6, <1>7, <1>8, <1>9, <1>10, <1>11,
     <1>13, <1>b
     DEF Step, Start, ProbeAnswered, ProbeSilent, ProbeFails, Choose, EnterPin, Fail, Return

\* The inductive invariant holds, for any devices, credentials and processes.
THEOREM FidoInductive == Spec => []FidoInv
<1>1. Init => FidoInv
  <2> SUFFICES ASSUME Init PROVE FidoInv
    OBVIOUS
  <2>1. TypeOK
    BY IdleType DEF Init, TypeOK
  <2>2. OneKeyPerDevice
    BY DEF Init, OneKeyPerDevice, AtMostOne
  <2>3. OpInv(Idle)
    BY EndedInv DEF Init
  <2>4. QED BY <2>1, <2>2, <2>3 DEF Init, FidoInv
<1>2. FidoInv /\ [Next]_vars => FidoInv'
  <2> SUFFICES ASSUME FidoInv, [Next]_vars PROVE FidoInv'
    OBVIOUS
  <2>1. CASE UNCHANGED vars
    BY <2>1 DEF vars, FidoInv, TypeOK, OneKeyPerDevice, AtMostOne, OpInv, Apart,
                AllowList, Registers
  <2>2. ASSUME NEW d \in Devices, Plug(d) PROVE FidoInv'
    <3>1. UNCHANGED <<holds, enrolled, op, blind>> /\ TypeOK'
      BY <2>2, TypeStep DEF FidoInv, Plug, Next
    <3>2. QED
      BY <3>1 DEF FidoInv, OneKeyPerDevice, AtMostOne, OpInv, Apart, AllowList, Registers
  <2>3. ASSUME NEW d \in Devices, Unplug(d) \/ Reset(d) PROVE FidoInv'
    BY <2>3, TypeStep, UnplugKeeps, ResetKeeps DEF FidoInv, Next
  <2>4. ASSUME NEW p \in Procs, Step(p) PROVE FidoInv'
    BY <2>4, TypeStep, ProcessKeeps DEF FidoInv, Next
  <2>5. QED BY <2>1, <2>2, <2>3, <2>4 DEF Next
<1>3. QED BY <1>1, <1>2, PTL DEF Spec

\* An authenticator is enrolled twice only where its probe had failed, however
\* enrollments overlap and devices come and go: that is how far open_unenrolled
\* keeps its promise.
THEOREM NoKeyEnrolledTwice == Spec => []OneKeyPerDevice
<1>1. FidoInv => OneKeyPerDevice
  BY DEF FidoInv
<1>2. QED BY <1>1, FidoInductive, PTL

\* A key that is connected throughout, could answer, and does not fail its probe
\* is not passed over: open_enrolled refuses only what it may refuse.
THEOREM EnrolledKeyIsFound == Spec => RefusedOnlyWithoutKey
<1> DEFINE Refused(p) ==
      op[p].pc = "probe" /\ op'[p].pc = "done" /\ op'[p].status = "refused"
<1>1. ASSUME FidoInv, [Next]_vars, NEW p \in Procs, Refused(p)
      PROVE  \A d \in op[p].live \ op[p].missed : holds[d] \cap AllowList(op[p]) = {}
  <2> DEFINE o == op[p]
  <2>0. TypeOK /\ o \in Operation /\ OpInv(o) /\ o.pc = "probe" /\ op'[p] # o
    BY <1>1 DEF FidoInv, TypeOK
  <2>1. ASSUME NEW d \in Devices, Plug(d) \/ Unplug(d) \/ Reset(d) PROVE FALSE
    <3>1. op'[p].pc = o.pc
      BY <2>0, <2>1 DEF Plug, Unplug, Reset, Operation
    <3>2. QED BY <1>1, <3>1
  <2>2. ASSUME NEW q \in Procs, Step(q), q # p PROVE FALSE
    <3>1. op'[p] = op[p]
      BY <2>0, <2>2 DEF Step, Start, OpenAll, ProbeAnswered, ProbeSilent,
            ProbeFails, Choose, EnterPin, Fail, Register, AnswerTouch, Return, SetOp, TypeOK
    <3>2. QED BY <2>0, <3>1
  <2>3. Step(p)
    BY <1>1, <2>0, <2>1, <2>2 DEF Next, vars
  <2>4. ASSUME NEW d \in Devices, ProbeAnswered(p, d) \/ ProbeSilent(p, d) \/ ProbeFails(p, d)
        PROVE  FALSE
    <3>1. op \in [Procs -> Operation]
      BY <2>0 DEF TypeOK
    <3>2. o.pc = "probe" /\ Picked(o, d).pc = "pin" /\ o = op[p]
      BY <2>0 DEF Picked, Operation
    <3>3. PICK n : SetOp(p, n) /\ n.pc \in {"probe", "pin"}
      <4>1. [o EXCEPT !.todo = @ \ {d}].pc = "probe"
        BY <2>0, <3>2 DEF Operation
      <4>2. [o EXCEPT !.todo = @ \ {d}, !.silent = @ \cup {d}].pc = "probe"
        BY <2>0, <3>2 DEF Operation
      <4>3. [o EXCEPT !.todo = @ \ {d}, !.silent = @ \cup {d}, !.missed = @ \cup {d}].pc = "probe"
        BY <2>0, <3>2 DEF Operation
      <4>4. CASE ProbeAnswered(p, d)
        BY <3>2, <4>1, <4>4 DEF ProbeAnswered
      <4>5. CASE ProbeSilent(p, d)
        BY <3>2, <4>2, <4>5 DEF ProbeSilent
      <4>6. CASE ProbeFails(p, d)
        BY <3>2, <4>3, <4>6 DEF ProbeFails
      <4>7. QED BY <2>4, <4>4, <4>5, <4>6
    <3>4. op'[p].pc \in {"probe", "pin"}
      BY <3>1, <3>3 DEF SetOp
    <3>5. QED BY <1>1, <3>4
  <2>5. Choose(p)
    BY <2>0, <2>3, <2>4 DEF Step, Start, OpenAll, EnterPin, Fail, Register,
          AnswerTouch, Return
  <2>6. o.todo = {} /\ ~Registers(o)
    <3>1. \A s \in Statuses : Ended(o, s).status = s
      BY DEF Ended, Idle
    <3>2. \A d : Picked(o, d).pc = "pin"
      BY <2>0 DEF Picked, Operation
    <3>3. QED BY <1>1, <2>0, <2>5, <3>1, <3>2 DEF Choose, SetOp, TypeOK, Statuses
  <2>7. QED BY <2>0, <2>6 DEF OpInv, Apart
<1>2. FidoInv /\ [Next]_vars => [\A p \in Procs : Refused(p) =>
        \A d \in op[p].live \ op[p].missed : holds[d] \cap AllowList(op[p]) = {}]_vars
  BY <1>1
<1>3. QED
  BY <1>2, FidoInductive, PTL DEF Spec, RefusedOnlyWithoutKey

\* An unlock goes on with what the touched device answered for, also where the
\* device leaves out the id.  This holds of every step from typed states.
THEOREM UnlockMatchesTheTouch == Spec => UnlocksWithWhatAnswered
<1> DEFINE Unlocked(p) ==
      op[p].pc = "touch" /\ op'[p].pc = "done" /\ op'[p].status = "ok"
<1>1. ASSUME TypeOK, [Next]_vars, NEW p \in Procs, Unlocked(p)
      PROVE  op'[p].cred \in holds[op[p].device] \cap AllowList(op[p])
  <2> DEFINE o == op[p]
  <2>0. o \in Operation /\ o.pc = "touch" /\ op'[p] # o
    BY <1>1 DEF TypeOK
  <2>1. ASSUME NEW d \in Devices, Plug(d) \/ Unplug(d) \/ Reset(d) PROVE FALSE
    <3>1. op'[p].pc = o.pc
      BY <2>0, <2>1 DEF Plug, Unplug, Reset, Operation
    <3>2. QED BY <1>1, <3>1
  <2>2. ASSUME NEW q \in Procs, Step(q), q # p PROVE FALSE
    <3>1. op'[p] = op[p]
      BY <1>1, <2>0, <2>2 DEF Step, Start, OpenAll, ProbeAnswered, ProbeSilent,
            ProbeFails, Choose, EnterPin, Fail, Register, AnswerTouch, Return, SetOp, TypeOK
    <3>2. QED BY <2>0, <3>1
  <2>3. Step(p)
    BY <1>1, <2>0, <2>1, <2>2 DEF Next, vars
  <2>4. ~Fail(p)
    BY <1>1 DEF Fail, SetOp, TypeOK, Ended, Idle
  <2>5. ASSUME NEW c \in Creds, Register(p, c) PROVE FALSE
    BY <1>1, <2>5 DEF Register, SetOp, TypeOK, Idle
  <2>6. PICK c \in Creds, told \in BOOLEAN : AnswerTouch(p, c, told)
    BY <2>0, <2>3, <2>4, <2>5 DEF Step, Start, OpenAll, ProbeAnswered, ProbeSilent,
          ProbeFails, Choose, EnterPin, Return
  <2>7. \A m \in Matched(o, c, told) : m = c
    BY <2>6 DEF Matched, AnswerTouch
  <2>8. op'[p].cred = c
    BY <1>1, <2>6, <2>7 DEF AnswerTouch, SetOp, TypeOK, Ended, Idle
  <2>9. QED BY <2>6, <2>8 DEF AnswerTouch
<1>2. TypeOK /\ [Next]_vars => [\A p \in Procs : Unlocked(p) =>
        op'[p].cred \in holds[op[p].device] \cap AllowList(op[p])]_vars
  BY <1>1
<1>3. QED
  BY <1>2, FidoTypeCorrect, PTL DEF Spec, UnlocksWithWhatAnswered
===============================================================================
