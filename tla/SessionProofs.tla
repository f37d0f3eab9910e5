----------------------------- MODULE SessionProofs -----------------------------
(***************************************************************************)
(* Theorems about Session for every number of processes, secrets,          *)
(* authenticators, outer keys and every timeout.                           *)
(***************************************************************************)
EXTENDS Session, TLAPS

USE VaultAssumption, TimeoutAssumption, NoKeyAssumption

(***************************************************************************)
(* The lock operators stay within lock records, and none of them admits a  *)
(* key that was not there: only Admitted does.                             *)
(***************************************************************************)
\* Dropping, ticking, touching and ageing a lock (session.rs:309-349) yield
\* a lock, whose key is the one there was or none.
LEMMA LockOperators ==
    ASSUME NEW l \in LockRecord
    PROVE  /\ Locked \in LockRecord /\ ~Resident(Locked)
           /\ \A m \in {Ticked(l), Touched(l), Aged(l)} :
                /\ m \in LockRecord
                /\ Resident(m) => Resident(l) /\ m.key = l.key
  BY DEF LockRecord, Locked, Resident, Ticked, Touched, Aged, Expired

\* Unlocking admits the key it is given (session.rs:296-297).
LEMMA AdmittedLock ==
    ASSUME NEW k \in Keys
    PROVE  Admitted(k) \in LockRecord /\ Admitted(k).key = k
  BY DEF LockRecord, Admitted

(***************************************************************************)
(* Envelopes.                                                              *)
(***************************************************************************)
\* What was sealed under a pair of keys and an identifier opens with them
\* (envelope.rs:131-229), and with nothing else.
LEMMA OpenSealed ==
    ASSUME NEW i, NEW j, NEW k, NEW l, NEW o, NEW q, NEW m, m # Unopened
    PROVE  OpenBytes(j, l, q, SealBytes(i, k, o, m)) =
             IF j = i /\ l = k /\ q = o THEN m ELSE Unopened
  BY DEF OpenBytes, SealBytes

\* A pair of keys passes the verification blob only if it is the pair the
\* blob was sealed under (envelope.rs:347-368).
LEMMA VerifyOnlySelf ==
    ASSUME NEW k, NEW o, NEW l, NEW q, VerifyKeys(l, q, SealVerification(k, o))
    PROVE  l = k /\ q = o
  BY DEF VerifyKeys, SealVerification, OpenBytes, SealBytes, VerificationPlaintext

(***************************************************************************)
(* Type correctness.                                                       *)
(***************************************************************************)
\* A session stays one when its lock is replaced, and when a call on it
\* returns (the assignments at the end of session.rs:191-303).
LEMMA SessionUpdates ==
    ASSUME NEW s \in SessionRecord, NEW l \in LockRecord
    PROVE  /\ [s EXCEPT !.lock = l] \in SessionRecord
           /\ Idle(s, l) \in SessionRecord
  BY DEF SessionRecord, Idle, Phases

\* The empty session of a process that is not running.
LEMMA ClosedSession ==
    Closed \in SessionRecord /\ [Closed EXCEPT !.phase = "open"].lock = Locked
  BY DEF SessionRecord, Closed, Phases, Locked, LockRecord, VaultAssumption

\* Opening a row's blob gives what was sealed in it or an error
\* (envelope.rs:187-229).
LEMMA OpenedRow ==
    ASSUME TypeOK, NEW p \in Procs, NEW id \in Stored
    PROVE  /\ OpenPayload(p, id) \in Contents \cup {Unopened}
           /\ OpenMeta(p, id) \in Contents \cup {Unopened}
  <1>1. rows[id] \in Row
    BY DEF TypeOK, Stored
  <1>2. rows[id].payload \in Blob /\ rows[id].meta \in Blob
    BY <1>1 DEF Row
  <1> QED
    BY <1>2 DEF OpenPayload, OpenMeta, OpenBytes, Blob

\* A row sealed by a session that holds a key (session.rs:447-482).
LEMMA SealedRowType ==
    ASSUME TypeOK, NEW p \in Procs, NEW id \in Ids, NEW c \in Contents,
           IsUnlocked(sess[p].lock)
    PROVE  SealedRow(p, id, c) \in Row
  <1>1. sess[p] \in SessionRecord
    BY DEF TypeOK
  <1>2. sess[p].lock.key \in Keys /\ sess[p].outer \in OuterKeys
    BY <1>1 DEF SessionRecord, LockRecord, IsUnlocked, Resident
  <1> QED
    BY <1>2 DEF SealedRow, SealBytes, Row, Blob, EnvelopeIds

\* The vault as `init` leaves it has the right type.
LEMMA InitType == Init => TypeOK
  <1> SUFFICES ASSUME Init PROVE TypeOK
    OBVIOUS
  <1>1. enrollments \in SUBSET Enrollment
    BY DEF Init, WrapFor, WrapKey, Enrollment
  <1>2. verifyBlob \in [id : {VerifyId}, inner : Keys, outer : OuterKeys,
                        msg : {VerificationPlaintext}]
    BY DEF Init, SealVerification, SealBytes
  <1>3. sess \in [Procs -> SessionRecord]
    BY ClosedSession DEF Init
  <1>4. reply \in Reply
    BY DEF Init, Reply, Calls, Errors
  <1> QED
    BY <1>1, <1>2, <1>3, <1>4 DEF TypeOK, Init

\* Every step of every process keeps the types.  That the key enroll_key
\* cloned is one (session.rs:189) is known of the keys, not of the types.
LEMMA TypeStep == TypeOK /\ KeysMatchVault /\ [Next]_vars => TypeOK'
  <1> SUFFICES ASSUME TypeOK, KeysMatchVault, [Next]_vars PROVE TypeOK'
    OBVIOUS
  <1> USE DEF TypeOK
  <1>1. CASE UNCHANGED vars
    BY <1>1 DEF vars
  <1>2. CASE Elapse
    BY <1>2, LockOperators, SessionUpdates DEF Elapse, SessionRecord
  <1>3. ASSUME NEW k \in OuterKeys, Adopt(k) PROVE TypeOK'
    BY <1>3 DEF Adopt
  <1>4. ASSUME NEW p \in Procs, Step(p) PROVE TypeOK'
    <2> DEFINE s == sess[p]
    <2>1. s \in SessionRecord /\ s.lock \in LockRecord
      BY DEF SessionRecord
    <2>2. ASSUME NEW l \in LockRecord, SetLock(p, l) PROVE sess' \in [Procs -> SessionRecord]
      BY <2>1, <2>2, SessionUpdates DEF SetLock
    <2>3. ASSUME NEW call \in Calls, NEW status \in Errors,
                 NEW value \in Contents \cup {NoContent} \cup Listing,
                 Answer(p, call, status, value)
          PROVE  reply' \in Reply
      BY <2>3 DEF Answer, Reply
    <2>4. Locked \in LockRecord /\ Ticked(s.lock) \in LockRecord
          /\ Touched(s.lock) \in LockRecord
      BY <2>1, LockOperators
    <2>5. CASE OpenLocked(p)
      BY <2>5, ClosedSession DEF OpenLocked, SessionRecord, Phases
    <2>6. CASE Exit(p)
      BY <2>6, ClosedSession DEF Exit
    <2>7. CASE StartUnlock(p)
      <3>1. [s EXCEPT !.phase = "unlocking", !.known = enrollments] \in SessionRecord
        BY <2>1 DEF SessionRecord, Phases
      <3> QED
        BY <3>1, <2>7 DEF StartUnlock
    <2>8. CASE FinishUnlock(p)
      <3>1. PICK e \in s.known :
              LET k == UnwrapKey(e.cred, e.blob)
                  ok == k # Unopened /\ VerifyKeys(k, s.outer, verifyBlob)
              IN  /\ sess' = [sess EXCEPT ![p] = Idle(@, IF ok THEN Admitted(k) ELSE @.lock)]
                  /\ Answer(p, "unlock", IF ok THEN "ok" ELSE "verification_failed", NoContent)
        BY <2>8 DEF FinishUnlock
      <3>2. UnwrapKey(e.cred, e.blob) \in Keys \cup {Unopened}
        BY <2>1 DEF SessionRecord, Enrollment, UnwrapKey
      <3>3. sess' \in [Procs -> SessionRecord]
        BY <3>1, <3>2, <2>1, AdmittedLock, SessionUpdates
      <3>4. reply' \in Reply
        BY <3>1, <2>3 DEF Calls, Errors
      <3> QED
        BY <3>3, <3>4, <2>8 DEF FinishUnlock
    <2>9. CASE FailAssertion(p)
      BY <2>9, <2>1, <2>3, SessionUpdates DEF FailAssertion, Calls, Errors
    <2>10. CASE LockNow(p)
      BY <2>10, <2>2, <2>4 DEF LockNow
    <2>11. CASE Tick(p)
      BY <2>11, <2>2, <2>4 DEF Tick
    <2>12. CASE Touch(p)
      BY <2>12, <2>2, <2>4 DEF Touch
    <2>13. CASE List(p)
      <3> DEFINE metas == [i \in Ids |-> IF i \in Stored THEN OpenMeta(p, i) ELSE NoContent]
      <3>1. Unopened \notin {metas[i] : i \in Ids} => metas \in Listing
        BY OpenedRow DEF Listing
      <3>2. reply' \in Reply
        BY <3>1, <2>3, <2>13 DEF List, Calls, Errors
      <3> QED
        BY <3>2, <2>2, <2>4, <2>13 DEF List
    <2>14. ASSUME NEW id \in Ids, OpenSecret(p, id) PROVE TypeOK'
      <3>1. reply' \in Reply
        BY <2>14, <2>3, OpenedRow DEF OpenSecret, Calls, Errors
      <3> QED
        BY <3>1, <2>2, <2>4, <2>14 DEF OpenSecret
    <2>15. ASSUME NEW id \in Ids, MetaFor(p, id) PROVE TypeOK'
      <3>1. reply' \in Reply
        BY <2>15, <2>3, OpenedRow DEF MetaFor, Calls, Errors
      <3> QED
        BY <3>1, <2>2, <2>4, <2>15 DEF MetaFor
    <2>16. ASSUME NEW id \in Ids, NEW c \in Contents, Add(p, id, c) \/ Update(p, id, c)
           PROVE  TypeOK'
      <3>1. rows' \in [Ids -> Row \cup {NoContent}]
        BY <2>16, SealedRowType DEF Add, Update, Write
      <3>2. reply' \in Reply
        BY <2>16, <2>3 DEF Add, Update, Write, Calls, Errors
      <3> QED
        BY <3>1, <3>2, <2>2, <2>4, <2>16 DEF Add, Update, Write
    <2>17. ASSUME NEW id \in Ids, Delete(p, id) PROVE TypeOK'
      BY <2>17, <2>3 DEF Delete, Calls, Errors
    <2>18. CASE StartEnroll(p)
      BY <2>18, <2>1, <2>2, <2>3, <2>4
      DEF StartEnroll, SessionRecord, LockRecord, Phases, Calls, Errors
    <2>19. ASSUME NEW c \in Creds, FinishEnroll(p, c) PROVE TypeOK'
      <3>1. WrapFor(c, s.kek) \in Enrollment
        BY <2>19, VaultAssumption
        DEF KeysMatchVault, FinishEnroll, WrapFor, WrapKey, Enrollment
      <3>2. enrollments' \in SUBSET Enrollment
        BY <3>1, <2>1, <2>19 DEF FinishEnroll, SessionRecord
      <3>3. sess' \in [Procs -> SessionRecord]
        <4>1. PICK l \in LockRecord : sess' = [sess EXCEPT ![p] = Idle(s, l)]
          BY <2>1, <2>4, <2>19 DEF FinishEnroll
        <4> QED
          BY <4>1, <2>1, SessionUpdates
      <3>4. reply' \in Reply
        BY <2>19, <2>3 DEF FinishEnroll, Calls, Errors
      <3> QED
        BY <3>2, <3>3, <3>4, <2>19 DEF FinishEnroll
    <2> QED
      BY <1>4, <2>5, <2>6, <2>7, <2>8, <2>9, <2>10, <2>11, <2>12, <2>13, <2>14,
         <2>15, <2>16, <2>17, <2>18, <2>19 DEF Step, Use
  <1> QED
    BY <1>1, <1>2, <1>3, <1>4 DEF Next

(***************************************************************************)
(* The inductive invariant.                                                *)
(***************************************************************************)
\* What IInv says of one session.
SessionGood(s) ==
    /\ Resident(s.lock) => s.lock.key = VaultKey /\ s.outer = MachineKey
    /\ s.phase = "enrolling" => s.kek = VaultKey
    /\ GoodList(s.known)

SessionsGood == \A p \in Procs : SessionGood(sess[p])

\* IInv, with what it says of sessions gathered in one conjunct.
LEMMA InvBySession ==
    IInv <=> /\ TypeOK
             /\ SessionsGood
             /\ RowsReadable
             /\ EnrollmentsOpen
             /\ verifyBlob = SealVerification(VaultKey, MachineKey)
  BY DEF IInv, KeysMatchVault, SessionsGood, SessionGood

\* A session that is not running is good, and so is one just opened, under
\* any outer key (session.rs:229-246).
LEMMA ClosedGood ==
    ASSUME NEW o
    PROVE  /\ SessionGood(Closed)
           /\ SessionGood([Closed EXCEPT !.phase = "open", !.outer = o])
  BY DEF SessionGood, Closed, Locked, Resident, GoodList

\* A good session stays good when its lock changes to one that holds its
\* own key, the vault's key under the vault's outer key, or none.
LEMMA UpdatedGood ==
    ASSUME NEW s \in SessionRecord, SessionGood(s), NEW l \in LockRecord,
           Resident(l) => l.key = VaultKey /\ s.outer = MachineKey
    PROVE  SessionGood([s EXCEPT !.lock = l]) /\ SessionGood(Idle(s, l))
  BY DEF SessionGood, SessionRecord, Idle, GoodList, Phases

\* The verification blob passes the vault's own pair and no other
\* (session.rs:281-294).
LEMMA UnlockAdmits ==
    ASSUME verifyBlob = SealVerification(VaultKey, MachineKey),
           NEW k, NEW o, VerifyKeys(k, o, verifyBlob)
    PROVE  k = VaultKey /\ o = MachineKey
  BY VerifyOnlySelf

\* Adding an authenticator that is not in a list (session.rs:199-209).
LEMMA AddedGood ==
    ASSUME NEW list, GoodList(list), NEW c, c \notin {e.cred : e \in list}
    PROVE  GoodList(list \cup {WrapFor(c, VaultKey)})
  BY DEF GoodList, WrapFor, WrapKey, UnwrapKey

\* A save by a session with the vault's keys leaves every row readable
\* (session.rs:447-482).
LEMMA SavedReadable ==
    ASSUME TypeOK, RowsReadable, NEW p \in Procs, NEW id \in Ids, NEW c \in Contents,
           SessionGood(sess[p]), IsUnlocked(sess[p].lock),
           rows' = [rows EXCEPT ![id] = SealedRow(p, id, c)]
    PROVE  RowsReadable'
  <1>1. sess[p].lock.key = VaultKey /\ sess[p].outer = MachineKey
    BY DEF SessionGood, IsUnlocked
  <1>2. c # Unopened
    BY VaultAssumption
  <1>3. OpenBytes(PayloadId(id), VaultKey, MachineKey, rows'[id].payload) = c
        /\ OpenBytes(MetaId(id), VaultKey, MachineKey, rows'[id].meta) = c
    BY <1>1 DEF TypeOK, SealedRow, SealBytes, OpenBytes
  <1>4. rows \in [Ids -> Row \cup {NoContent}]
    BY DEF TypeOK
  <1>5. ASSUME NEW i \in Ids, i # id PROVE rows'[i] = rows[i]
    BY <1>4, <1>5
  <1> QED
    BY <1>2, <1>3, <1>5 DEF RowsReadable, Stored

\* The vault as `init` leaves it satisfies the invariant.
LEMMA InitInv == Init => IInv
  <1> SUFFICES ASSUME Init PROVE IInv
    OBVIOUS
  <1>1. SessionsGood
    BY ClosedGood DEF Init, SessionsGood
  <1>2. RowsReadable
    BY DEF Init, RowsReadable, Stored
  <1>3. EnrollmentsOpen
    BY DEF Init, EnrollmentsOpen, GoodList, WrapFor, WrapKey, UnwrapKey
  <1> QED
    BY <1>1, <1>2, <1>3, InitType, InvBySession DEF Init

\* Every step preserves the invariant.
LEMMA InvStep == IInv /\ [Next]_vars => IInv'
  <1> SUFFICES ASSUME IInv, [Next]_vars PROVE IInv'
    OBVIOUS
  <1>1. /\ TypeOK /\ SessionsGood /\ RowsReadable /\ EnrollmentsOpen
        /\ verifyBlob = SealVerification(VaultKey, MachineKey)
    BY InvBySession
  <1>2. TypeOK'
    BY TypeStep DEF IInv
  <1>3. verifyBlob' = verifyBlob
    <2>1. CASE UNCHANGED vars \/ Elapse \/ \E k \in OuterKeys : Adopt(k)
      BY <2>1 DEF vars, Elapse, Adopt
    <2>2. ASSUME NEW p \in Procs, Use(p) PROVE verifyBlob' = verifyBlob
      BY <2>2 DEF Use, Touch, OpenSecret, Add, Update, Write, FinishEnroll
    <2>3. ASSUME NEW p \in Procs, StartUnlock(p) \/ FinishUnlock(p) \/ FailAssertion(p)
                                  \/ StartEnroll(p)
          PROVE  verifyBlob' = verifyBlob
      BY <2>3 DEF StartUnlock, FinishUnlock, FailAssertion, StartEnroll
    <2>4. ASSUME NEW p \in Procs, OpenLocked(p) \/ Exit(p) \/ LockNow(p) \/ Tick(p) \/ List(p)
          PROVE  verifyBlob' = verifyBlob
      BY <2>4 DEF OpenLocked, Exit, LockNow, Tick, List
    <2>5. ASSUME NEW p \in Procs, NEW id \in Ids, MetaFor(p, id) \/ Delete(p, id)
          PROVE  verifyBlob' = verifyBlob
      BY <2>5 DEF MetaFor, Delete
    <2> QED
      BY <2>1, <2>2, <2>3, <2>4, <2>5 DEF Next, Step
  <1>4. ASSUME rows' = rows PROVE RowsReadable'
    BY <1>1, <1>4 DEF RowsReadable, Stored
  <1>5. ASSUME enrollments' = enrollments PROVE EnrollmentsOpen'
    BY <1>1, <1>5 DEF EnrollmentsOpen
  <1>6. ASSUME NEW p \in Procs, NEW s, SessionGood(s), sess' = [sess EXCEPT ![p] = s]
        PROVE  SessionsGood'
    BY <1>1, <1>6 DEF SessionsGood, TypeOK
  <1>7. SessionsGood' /\ RowsReadable' /\ EnrollmentsOpen'
    <2>1. CASE UNCHANGED vars
      BY <2>1, <1>1, <1>4, <1>5 DEF vars, SessionsGood
    <2>2. CASE Elapse
      <3>1. ASSUME NEW p \in Procs PROVE SessionGood(sess'[p])
        <4>1. /\ sess[p] \in SessionRecord
              /\ sess[p].lock \in LockRecord
              /\ SessionGood(sess[p])
          BY <1>1 DEF TypeOK, SessionRecord, SessionsGood
        <4>2. sess'[p] = [sess[p] EXCEPT !.lock = Aged(sess[p].lock)]
          BY <2>2 DEF Elapse
        <4> QED
          BY <4>1, <4>2, LockOperators, UpdatedGood DEF SessionGood
      <3> QED
        BY <3>1, <2>2, <1>4, <1>5 DEF Elapse, SessionsGood
    <2>3. ASSUME NEW k \in OuterKeys, Adopt(k)
          PROVE  SessionsGood' /\ RowsReadable' /\ EnrollmentsOpen'
      BY <2>3, <1>1, <1>4, <1>5 DEF Adopt, SessionsGood
    <2>4. ASSUME NEW p \in Procs, Step(p)
          PROVE  SessionsGood' /\ RowsReadable' /\ EnrollmentsOpen'
      <3> DEFINE s == sess[p]
      <3>1. s \in SessionRecord /\ s.lock \in LockRecord /\ SessionGood(s)
        BY <1>1 DEF TypeOK, SessionRecord, SessionsGood
      <3>2. ASSUME NEW l \in {s.lock, Locked, Ticked(s.lock), Touched(s.lock)},
                   sess' = [sess EXCEPT ![p].lock = l]
                   \/ sess' = [sess EXCEPT ![p] = Idle(s, l)]
            PROVE  SessionsGood'
        <4>1. l \in LockRecord
              /\ (Resident(l) => l.key = VaultKey /\ s.outer = MachineKey)
          BY <3>1, LockOperators DEF SessionGood
        <4>2. SessionGood([s EXCEPT !.lock = l]) /\ SessionGood(Idle(s, l))
          BY <4>1, <3>1, UpdatedGood
        <4> QED
          BY <4>2, <3>2, <1>6
      <3>3. CASE OpenLocked(p)
        BY <3>3, <1>4, <1>5, <1>6, ClosedGood DEF OpenLocked
      <3>4. CASE Exit(p)
        BY <3>4, <1>4, <1>5, <1>6, ClosedGood DEF Exit
      <3>5. CASE StartUnlock(p)
        <4>1. SessionGood([s EXCEPT !.phase = "unlocking", !.known = enrollments])
          BY <1>1, <3>1 DEF SessionGood, SessionRecord, EnrollmentsOpen
        <4> QED
          BY <4>1, <3>5, <1>4, <1>5, <1>6 DEF StartUnlock
      <3>6. CASE FinishUnlock(p)
        <4>1. PICK e \in s.known :
                LET k == UnwrapKey(e.cred, e.blob)
                    ok == k # Unopened /\ VerifyKeys(k, s.outer, verifyBlob)
                IN  sess' = [sess EXCEPT ![p] = Idle(s, IF ok THEN Admitted(k) ELSE s.lock)]
          BY <3>6 DEF FinishUnlock
        <4> DEFINE k == UnwrapKey(e.cred, e.blob)
        <4>2. CASE VerifyKeys(k, s.outer, verifyBlob) /\ k # Unopened
          <5>1. k = VaultKey /\ s.outer = MachineKey
            BY <4>2, <1>1, UnlockAdmits
          <5>2. SessionGood(Idle(s, Admitted(k)))
            BY <5>1, <3>1, AdmittedLock, UpdatedGood, VaultAssumption
          <5> QED
            BY <5>2, <4>1, <4>2, <3>6, <1>4, <1>5, <1>6 DEF FinishUnlock
        <4>3. CASE ~(VerifyKeys(k, s.outer, verifyBlob) /\ k # Unopened)
          BY <4>1, <4>3, <3>6, <3>2, <1>4, <1>5 DEF FinishUnlock
        <4> QED
          BY <4>2, <4>3
      <3>7. CASE FailAssertion(p)
        BY <3>7, <3>2, <1>4, <1>5 DEF FailAssertion
      <3>8. CASE LockNow(p) \/ Tick(p) \/ Touch(p) \/ List(p)
        BY <3>8, <3>2, <1>4, <1>5 DEF LockNow, Tick, Touch, List, SetLock
      <3>9. ASSUME NEW id \in Ids, OpenSecret(p, id) \/ MetaFor(p, id)
            PROVE  SessionsGood' /\ RowsReadable' /\ EnrollmentsOpen'
        BY <3>9, <3>2, <1>1, <1>4, <1>5 DEF OpenSecret, MetaFor, SetLock, SessionsGood
      <3>10. ASSUME NEW id \in Ids, NEW c \in Contents, Add(p, id, c) \/ Update(p, id, c)
             PROVE  SessionsGood' /\ RowsReadable' /\ EnrollmentsOpen'
        <4>1. RowsReadable'
          BY <3>10, <3>1, <1>1, <1>4, SavedReadable DEF Add, Update, Write
        <4>2. SessionsGood'
          BY <3>10, <3>2, <1>1 DEF Add, Update, Write, SetLock, SessionsGood
        <4> QED
          BY <4>1, <4>2, <3>10, <1>5 DEF Add, Update, Write
      <3>11. ASSUME NEW id \in Ids, Delete(p, id)
             PROVE  SessionsGood' /\ RowsReadable' /\ EnrollmentsOpen'
        <4>1. RowsReadable'
          BY <3>11, <1>1 DEF Delete, RowsReadable, Stored, TypeOK
        <4> QED
          BY <4>1, <3>11, <1>1, <1>5 DEF Delete, SessionsGood
      <3>12. CASE StartEnroll(p)
        <4>1. CASE IsUnlocked(s.lock)
          <5>1. SessionGood([s EXCEPT !.phase = "enrolling", !.known = enrollments,
                                      !.kek = s.lock.key])
            BY <4>1, <3>1, <1>1 DEF SessionGood, SessionRecord, EnrollmentsOpen, IsUnlocked
          <5>2. sess' = [sess EXCEPT ![p] = [s EXCEPT !.phase = "enrolling",
                                !.known = enrollments, !.kek = s.lock.key]]
            BY <4>1, <3>12, <1>1 DEF StartEnroll, TypeOK
          <5>3. SessionsGood'
            BY <5>1, <5>2, <1>6
          <5> QED
            BY <5>3, <3>12, <1>4, <1>5 DEF StartEnroll
        <4>2. CASE ~IsUnlocked(s.lock)
          BY <4>2, <3>12, <3>2, <1>4, <1>5 DEF StartEnroll, SetLock
        <4> QED
          BY <4>1, <4>2
      <3>13. ASSUME NEW c \in Creds, FinishEnroll(p, c)
             PROVE  SessionsGood' /\ RowsReadable' /\ EnrollmentsOpen'
        <4>1. SessionsGood'
          BY <3>13, <3>2 DEF FinishEnroll
        <4>2. EnrollmentsOpen'
          BY <3>13, <3>1, <1>5, AddedGood DEF FinishEnroll, SessionGood, EnrollmentsOpen
        <4> QED
          BY <4>1, <4>2, <3>13, <1>4 DEF FinishEnroll
      <3> QED
        BY <2>4, <3>3, <3>4, <3>5, <3>6, <3>7, <3>8, <3>9, <3>10, <3>11, <3>12, <3>13
        DEF Step, Use
    <2> QED
      BY <2>1, <2>2, <2>3, <2>4 DEF Next
  <1> QED
    BY <1>1, <1>2, <1>3, <1>7
    DEF IInv, KeysMatchVault, SessionsGood, SessionGood, SealVerification, SealBytes

(***************************************************************************)
(* The theorems.                                                           *)
(***************************************************************************)
\* The inductive invariant holds of every reachable state of the code of
\* session.rs, whatever processes run it.
THEOREM Inductive == Spec => []IInv
  BY InitInv, InvStep, PTL DEF Spec

\* Rows, enrollments, sessions and replies keep their types (session.rs).
THEOREM TypeCorrect == Spec => []TypeOK
  <1>1. IInv => TypeOK
    BY DEF IInv
  <1> QED
    BY <1>1, Inductive, PTL

\* No session ever holds a key that is not the vault's, nor any key under an
\* outer key that is not the vault's (session.rs:281-294).
THEOREM HeldKeysAreTheVaults == Spec => []KeysMatchVault
  <1>1. IInv => KeysMatchVault
    BY DEF IInv
  <1> QED
    BY <1>1, Inductive, PTL

\* No sequence of saves, unlocks and adoptions makes a stored secret
\* unreadable (session.rs:447-482).
THEOREM SavedSecretsStayReadable == Spec => []RowsReadable
  <1>1. IInv => RowsReadable
    BY DEF IInv
  <1> QED
    BY <1>1, Inductive, PTL

\* Every enrolled authenticator opens the vault (session.rs:176-215).
THEOREM EnrolledKeysOpen == Spec => []EnrollmentsOpen
  <1>1. IInv => EnrollmentsOpen
    BY DEF IInv
  <1> QED
    BY <1>1, Inductive, PTL

\* A call that gives out or seals plaintext found the session unlocked: the
\* checks of ensure_unlocked (session.rs:419-425) stand before every use.
THEOREM PlaintextIsGuarded == Spec => PlaintextNeedsUnlock
  <1> DEFINE Guarded ==
        \A p \in Procs :
            /\ reply' # reply
            /\ reply'.by = p
            /\ reply'.call \in {"list", "meta", "open", "add", "update"}
            /\ reply'.status = "ok"
            => IsUnlocked(sess[p].lock)
  <1>1. [Next]_vars => [Guarded]_vars
    <2> SUFFICES ASSUME Next, reply' # reply, NEW p \in Procs, reply'.by = p,
                        reply'.call \in {"list", "meta", "open", "add", "update"},
                        reply'.status = "ok"
                 PROVE  IsUnlocked(sess[p].lock)
      OBVIOUS
    <2>1. PICK q \in Procs : Step(q)
      BY DEF Next, Elapse, Adopt
    <2>2. ~OpenLocked(q) /\ ~Exit(q) /\ ~StartUnlock(q) /\ ~LockNow(q) /\ ~Tick(q) /\ ~Touch(q)
      BY DEF OpenLocked, Exit, StartUnlock, LockNow, Tick, Touch
    <2>3. ~FinishUnlock(q) /\ ~FailAssertion(q) /\ ~StartEnroll(q)
      BY DEF FinishUnlock, FailAssertion, StartEnroll, Answer
    <2>4. (\A id \in Ids : ~Delete(q, id)) /\ (\A c \in Creds : ~FinishEnroll(q, c))
      BY DEF Delete, FinishEnroll, Answer
    <2>5. CASE List(q)
      <3>2. q = p
        BY <2>5 DEF List, Answer
      <3>3. ~IsUnlocked(sess[q].lock) => Answer(q, "list", "locked", NoContent)
        BY <2>5 DEF List
      <3>4. IsUnlocked(sess[q].lock)
        BY <3>3 DEF Answer
      <3> QED
        BY <3>2, <3>4
    <2>6. ASSUME NEW id \in Ids, OpenSecret(q, id) \/ MetaFor(q, id)
          PROVE  IsUnlocked(sess[p].lock)
      BY <2>6 DEF OpenSecret, MetaFor, Answer
    <2>7. ASSUME NEW id \in Ids, NEW c \in Contents, Add(q, id, c) \/ Update(q, id, c)
          PROVE  IsUnlocked(sess[p].lock)
      <3>1. q = p /\ reply'.status # "locked"
        BY <2>7 DEF Add, Update, Write, Answer
      <3> QED
        BY <3>1, <2>7 DEF Add, Update, Write, Answer
    <2> QED
      BY <2>1, <2>2, <2>3, <2>4, <2>5, <2>6, <2>7 DEF Step, Use
  <1> QED
    BY <1>1, PTL DEF Spec, PlaintextNeedsUnlock

(***************************************************************************)
(* The refinement: Session implements SecretStore.                         *)
(***************************************************************************)
\* The processes authorised in SecretStore: those whose session holds a key.
Authorised == {p \in Procs : Resident(sess[p].lock)}

\* Only a session with a key starts to enroll (session.rs:189), and nothing
\* drops the key while it waits: the refinement needs this beside IInv.
EnrollingHoldsKey ==
    \A p \in Procs : sess[p].phase = "enrolling" => Resident(sess[p].lock)

\* With the vault's keys both blobs of a row open to what was last saved in
\* it, so a session with a key reads exactly the abstract store.
LEMMA ReadsTheStore ==
    ASSUME IInv, NEW i \in Ids
    PROVE  /\ i \in Stored => StoreOfRows[i] \in Contents
           /\ StoreOfRows[i] = NoContent <=> i \notin Stored
           /\ \A p \in Authorised : i \in Stored =>
                /\ OpenPayload(p, i) = StoreOfRows[i]
                /\ OpenMeta(p, i) = StoreOfRows[i]
  <1>1. CASE i \notin Stored
    BY <1>1 DEF StoreOfRows
  <1>2. CASE i \in Stored
    <2>1. rows[i] \in Row
      BY <1>2 DEF IInv, TypeOK, Stored
    <2>2. rows[i].payload \in Blob
      BY <2>1 DEF Row
    <2>3. rows[i].payload.msg \in Contents
      BY <2>2 DEF Blob
    <2>4. StoreOfRows[i] = rows[i].payload.msg
      BY <1>2 DEF StoreOfRows
    <2>5. /\ OpenBytes(PayloadId(i), VaultKey, MachineKey, rows[i].payload) # Unopened
          /\ OpenBytes(MetaId(i), VaultKey, MachineKey, rows[i].meta)
               = OpenBytes(PayloadId(i), VaultKey, MachineKey, rows[i].payload)
      BY <1>2 DEF IInv, RowsReadable
    <2>6. OpenBytes(PayloadId(i), VaultKey, MachineKey, rows[i].payload) = rows[i].payload.msg
      BY <2>5 DEF OpenBytes
    <2>7. ASSUME NEW p \in Authorised
          PROVE  sess[p].lock.key = VaultKey /\ sess[p].outer = MachineKey
      BY DEF IInv, KeysMatchVault, Authorised
    <2> QED
      BY <1>2, <2>3, <2>4, <2>5, <2>6, <2>7 DEF OpenPayload, OpenMeta
  <1> QED
    BY <1>1, <1>2

\* What a change to one session does to the authorised processes.
LEMMA AuthorisedChange ==
    ASSUME NEW p \in Procs, \A q \in Procs \ {p} : sess'[q] = sess[q]
    PROVE  /\ Resident(sess'[p].lock) => Authorised' = Authorised \cup {p}
           /\ ~Resident(sess'[p].lock) => Authorised' = Authorised \ {p}
  BY DEF Authorised

\* A step that only withdraws keys, and tells nobody, is a Revoke.
LEMMA Revokes ==
    ASSUME rows' = rows, reply' = reply, Authorised' \subseteq Authorised
    PROVE  Store!Revoke
  BY DEF Store!Revoke, Authorised, StoreOfRows, Stored

\* A call that does not succeed is a Refuse.
LEMMA Refuses ==
    ASSUME NEW p \in Procs, rows' = rows, reply'.by = p, reply'.status # "ok",
           Authorised' \in {Authorised, Authorised \ {p}}
    PROVE  Store!Refuse(p)
  BY DEF Store!Refuse, Authorised, StoreOfRows, Stored

\* A lock that is replaced by what a tick leaves of it, and one that a call
\* touches after it found the session unlocked.
LEMMA LockChange ==
    ASSUME TypeOK, NEW p \in Procs
    PROVE  /\ SetLock(p, Locked) \/ SetLock(p, Ticked(sess[p].lock)) =>
                Authorised' \in {Authorised, Authorised \ {p}}
           /\ SetLock(p, Touched(sess[p].lock)) => Authorised' = Authorised
           /\ IsUnlocked(sess[p].lock) =>
                /\ p \in Authorised
                /\ SetLock(p, Ticked(sess[p].lock)) => Authorised' = Authorised
  <1> DEFINE s == sess[p]
  <1>1. s \in SessionRecord /\ s.lock \in LockRecord
    BY DEF TypeOK, SessionRecord
  <1>2. ASSUME NEW l, SetLock(p, l)
        PROVE  /\ Resident(l) => Authorised' = Authorised \cup {p}
               /\ ~Resident(l) => Authorised' = Authorised \ {p}
    <2>1. \A q \in Procs \ {p} : sess'[q] = sess[q]
      BY <1>2 DEF SetLock, TypeOK
    <2>2. sess'[p].lock = l
      BY <1>1, <1>2 DEF SetLock, TypeOK, SessionRecord
    <2> QED
      BY <2>1, <2>2, AuthorisedChange
  <1>3. p \in Authorised <=> Resident(s.lock)
    BY DEF Authorised
  <1>4. Resident(Ticked(s.lock)) => Resident(s.lock)
    BY <1>1, LockOperators
  <1>5. Resident(Touched(s.lock)) <=> Resident(s.lock)
    BY <1>1 DEF Touched, Resident, LockRecord
  <1>6. IsUnlocked(s.lock) => Resident(s.lock) /\ Ticked(s.lock) = s.lock
    BY <1>1 DEF IsUnlocked, Ticked, Expired, LockRecord
  <1>7. SetLock(p, Locked) \/ SetLock(p, Ticked(s.lock)) =>
          Authorised' \in {Authorised, Authorised \ {p}}
    <2>1. CASE SetLock(p, Locked)
      BY <1>1, <1>2, <2>1, LockOperators
    <2>2. CASE SetLock(p, Ticked(s.lock))
      BY <1>2, <1>3, <1>4, <2>2
    <2> QED
      BY <2>1, <2>2
  <1>8. SetLock(p, Touched(s.lock)) => Authorised' = Authorised
    BY <1>2, <1>3, <1>5
  <1>9. IsUnlocked(s.lock) =>
          p \in Authorised /\ (SetLock(p, Ticked(s.lock)) => Authorised' = Authorised)
    BY <1>2, <1>3, <1>6
  <1> QED
    BY <1>7, <1>8, <1>9

\* EnrollingHoldsKey is preserved by every step, whatever the keys are.
LEMMA EnrollingStep == TypeOK /\ EnrollingHoldsKey /\ [Next]_vars => EnrollingHoldsKey'
  <1> SUFFICES ASSUME TypeOK, EnrollingHoldsKey, [Next]_vars PROVE EnrollingHoldsKey'
    OBVIOUS
  <1>1. ASSUME sess' = sess PROVE EnrollingHoldsKey'
    BY <1>1 DEF EnrollingHoldsKey
  <1>2. CASE UNCHANGED vars \/ \E k \in OuterKeys : Adopt(k)
    BY <1>1, <1>2 DEF vars, Adopt
  <1>3. CASE Elapse
    <2>1. ASSUME NEW p \in Procs
          PROVE  sess'[p].phase = sess[p].phase /\ sess'[p].lock.key = sess[p].lock.key
      <3>1. sess[p] \in SessionRecord /\ sess[p].lock \in LockRecord
        BY DEF TypeOK, SessionRecord
      <3>2. sess'[p] = [sess[p] EXCEPT !.lock = Aged(sess[p].lock)]
        BY <1>3 DEF Elapse
      <3> QED
        BY <3>1, <3>2 DEF SessionRecord, LockRecord, Aged
    <2> QED
      BY <2>1 DEF EnrollingHoldsKey, Resident
  <1>4. ASSUME NEW p \in Procs, Step(p) PROVE EnrollingHoldsKey'
    <2> DEFINE s == sess[p]
    <2>1. s \in SessionRecord
      BY DEF TypeOK
    <2>2. ASSUME NEW t, sess' = [sess EXCEPT ![p] = t],
                 t.phase = "enrolling" => Resident(t.lock)
          PROVE  EnrollingHoldsKey'
      BY <2>2 DEF EnrollingHoldsKey, TypeOK
    <2>3. ASSUME NEW l, sess' = [sess EXCEPT ![p] = Idle(s, l)] PROVE EnrollingHoldsKey'
      <3>1. Idle(s, l).phase = "open"
        BY <2>1 DEF SessionRecord, Idle
      <3> QED
        BY <3>1, <2>2, <2>3
    <2>4. ASSUME NEW l, SetLock(p, l), IsOpen(p) PROVE EnrollingHoldsKey'
      <3>1. [s EXCEPT !.lock = l].phase = "open"
        BY <2>1, <2>4 DEF SessionRecord, IsOpen
      <3> QED
        BY <3>1, <2>2, <2>4 DEF SetLock
    <2>5. CASE OpenLocked(p) \/ Exit(p)
      BY <2>5, <2>2 DEF OpenLocked, Exit, Closed
    <2>6. CASE StartUnlock(p)
      <3>1. [s EXCEPT !.phase = "unlocking", !.known = enrollments].phase = "unlocking"
        BY <2>1 DEF SessionRecord
      <3>2. sess' = [sess EXCEPT ![p] = [s EXCEPT !.phase = "unlocking", !.known = enrollments]]
        BY <2>6 DEF StartUnlock, TypeOK
      <3> QED
        BY <3>1, <3>2, <2>2
    <2>7. CASE FinishUnlock(p) \/ FailAssertion(p) \/ \E c \in Creds : FinishEnroll(p, c)
      BY <2>7, <2>3 DEF FinishUnlock, FailAssertion, FinishEnroll
    <2>8. CASE LockNow(p) \/ Tick(p) \/ Touch(p) \/ List(p)
      BY <2>8, <2>4 DEF LockNow, Tick, Touch, List
    <2>9. ASSUME NEW id \in Ids, OpenSecret(p, id) \/ MetaFor(p, id) \/ Delete(p, id)
          PROVE  EnrollingHoldsKey'
      BY <2>9, <2>4, <1>1 DEF OpenSecret, MetaFor, Delete
    <2>10. ASSUME NEW id \in Ids, NEW c \in Contents, Add(p, id, c) \/ Update(p, id, c)
           PROVE  EnrollingHoldsKey'
      BY <2>10, <2>4, <1>1 DEF Add, Update, Write
    <2>11. CASE StartEnroll(p)
      <3>1. CASE IsUnlocked(s.lock)
        <4> DEFINE t == [s EXCEPT !.phase = "enrolling", !.known = enrollments,
                                  !.kek = s.lock.key]
        <4>1. t.lock = s.lock
          BY <2>1 DEF SessionRecord
        <4>2. sess' = [sess EXCEPT ![p] = t]
          BY <3>1, <2>11 DEF StartEnroll, TypeOK
        <4> QED
          BY <3>1, <4>1, <4>2, <2>2 DEF IsUnlocked
      <3>2. CASE ~IsUnlocked(s.lock)
        BY <3>2, <2>11, <2>4 DEF StartEnroll
      <3> QED
        BY <3>1, <3>2
    <2> QED
      BY <1>4, <2>5, <2>6, <2>7, <2>8, <2>9, <2>10, <2>11 DEF Step, Use
  <1> QED
    BY <1>2, <1>3, <1>4 DEF Next

\* Every step of a session is a step of the secret store, or none of it.
LEMMA StoreStep ==
    IInv /\ EnrollingHoldsKey /\ [Next]_vars => [Store!Next]_(Store!vars)
  <1> SUFFICES ASSUME IInv, EnrollingHoldsKey, [Next]_vars
               PROVE  Store!Next \/ UNCHANGED Store!vars
    OBVIOUS
  <1>1. TypeOK
    BY DEF IInv
  <1>2. ASSUME rows' = rows, reply' = reply, Authorised' \subseteq Authorised
        PROVE  Store!Next
    BY <1>2, Revokes DEF Store!Next
  <1>3. ASSUME NEW p \in Procs, NEW call, NEW status, NEW value, rows' = rows,
               Answer(p, call, status, value), status # "ok",
               Authorised' \in {Authorised, Authorised \ {p}}
        PROVE  Store!Next
    <2>1. reply'.by = p /\ reply'.status # "ok"
      BY <1>3 DEF Answer
    <2> QED
      BY <1>3, <2>1, Refuses DEF Store!Next
  <1>4. ASSUME sess' = sess PROVE Authorised' = Authorised
    BY <1>4 DEF Authorised
  <1>5. CASE UNCHANGED vars \/ \E k \in OuterKeys : Adopt(k)
    BY <1>2, <1>4, <1>5 DEF vars, Adopt
  <1>6. CASE Elapse
    <2>1. ASSUME NEW p \in Procs PROVE Resident(sess'[p].lock) => Resident(sess[p].lock)
      <3>1. sess[p] \in SessionRecord /\ sess[p].lock \in LockRecord
        BY <1>1 DEF TypeOK, SessionRecord
      <3>2. sess'[p].lock = Aged(sess[p].lock)
        BY <1>6, <3>1 DEF Elapse, SessionRecord
      <3> QED
        BY <3>1, <3>2, LockOperators
    <2>2. Authorised' \subseteq Authorised
      BY <2>1 DEF Authorised
    <2> QED
      BY <2>2, <1>2, <1>6 DEF Elapse
  <1>7. ASSUME NEW p \in Procs, Step(p) PROVE Store!Next
    <2> DEFINE s == sess[p]
    <2>1. s \in SessionRecord /\ s.lock \in LockRecord
      BY <1>1 DEF TypeOK, SessionRecord
    <2>2. p \in Authorised <=> Resident(s.lock)
      BY DEF Authorised
    <2>3. ASSUME NEW t, sess' = [sess EXCEPT ![p] = t]
          PROVE  /\ Resident(t.lock) => Authorised' = Authorised \cup {p}
                 /\ ~Resident(t.lock) => Authorised' = Authorised \ {p}
      <3>1. sess'[p] = t /\ \A q \in Procs \ {p} : sess'[q] = sess[q]
        BY <1>1, <2>3 DEF TypeOK
      <3> QED
        BY <3>1, AuthorisedChange
    <2>4. ASSUME NEW l, sess' = [sess EXCEPT ![p] = Idle(s, l)]
          PROVE  /\ Resident(l) => Authorised' = Authorised \cup {p}
                 /\ ~Resident(l) => Authorised' = Authorised \ {p}
      <3>1. Idle(s, l).lock = l
        BY <2>1 DEF Idle, SessionRecord
      <3> QED
        BY <3>1, <2>3, <2>4
    <2>5. CASE OpenLocked(p) \/ Exit(p)
      <3> DEFINE fresh == [Closed EXCEPT !.phase = "open", !.outer = sealedOuter]
      <3>1. ~Resident(Closed.lock) /\ ~Resident(fresh.lock)
        BY DEF Closed, Locked, Resident
      <3> HIDE DEF fresh
      <3>2. CASE sess' = [sess EXCEPT ![p] = Closed]
        BY <3>1, <3>2, <2>3, <2>5, <1>2 DEF OpenLocked, Exit
      <3>3. CASE sess' = [sess EXCEPT ![p] = fresh]
        BY <3>1, <3>3, <2>3, <2>5, <1>2 DEF OpenLocked, Exit
      <3> QED
        BY <2>5, <3>2, <3>3 DEF OpenLocked, Exit, fresh
    <2>6. CASE StartUnlock(p)
      <3>1. /\ sess' = [sess EXCEPT ![p] = [s EXCEPT !.phase = "unlocking", !.known = enrollments]]
            /\ [s EXCEPT !.phase = "unlocking", !.known = enrollments].lock = s.lock
        BY <1>1, <2>1, <2>6 DEF StartUnlock, TypeOK, SessionRecord
      <3>2. Authorised' = Authorised
        BY <3>1, <2>2, <2>3
      <3> QED
        BY <3>2, <1>2, <2>6 DEF StartUnlock
    <2>7. CASE FinishUnlock(p)
      <3>1. PICK e \in s.known :
              LET k == UnwrapKey(e.cred, e.blob)
                  ok == k # Unopened /\ VerifyKeys(k, s.outer, verifyBlob)
              IN  /\ sess' = [sess EXCEPT ![p] = Idle(s, IF ok THEN Admitted(k) ELSE s.lock)]
                  /\ Answer(p, "unlock", IF ok THEN "ok" ELSE "verification_failed", NoContent)
        BY <2>7 DEF FinishUnlock
      <3> DEFINE k == UnwrapKey(e.cred, e.blob)
                 ok == k # Unopened /\ VerifyKeys(k, s.outer, verifyBlob)
      <3> HIDE DEF k, ok
      <3>2. /\ sess' = [sess EXCEPT ![p] = Idle(s, IF ok THEN Admitted(k) ELSE s.lock)]
            /\ Answer(p, "unlock", IF ok THEN "ok" ELSE "verification_failed", NoContent)
        BY <3>1 DEF k, ok
      <3>3. CASE ok
        <4>1. k = VaultKey
          BY <3>3, UnlockAdmits DEF ok, IInv
        <4>2. Resident(Admitted(k))
          BY <4>1 DEF Admitted, Resident
        <4>3. Authorised' = Authorised \cup {p}
          BY <3>2, <3>3, <4>2, <2>4
        <4>4. Store!Authorise(p)
          BY <4>3, <3>2, <3>3, <2>7
          DEF Store!Authorise, Store!Returns, Answer, Authorised, FinishUnlock,
              StoreOfRows, Stored
        <4> QED
          BY <4>4 DEF Store!Next
      <3>4. CASE ~ok
        <4>1. Authorised' = Authorised
          BY <3>2, <3>4, <2>2, <2>4
        <4> QED
          BY <4>1, <3>2, <3>4, <1>3, <2>7 DEF FinishUnlock
      <3> QED
        BY <3>3, <3>4
    <2>8. CASE FailAssertion(p)
      <3>1. Authorised' = Authorised
        BY <2>8, <2>2, <2>4 DEF FailAssertion
      <3> QED
        BY <3>1, <2>8, <1>3 DEF FailAssertion
    <2>9. CASE LockNow(p) \/ Tick(p) \/ Touch(p)
      <3>1. Authorised' \subseteq Authorised
        BY <2>9, <1>1, LockChange DEF LockNow, Tick, Touch
      <3> QED
        BY <3>1, <2>9, <1>2 DEF LockNow, Tick, Touch
    <2>10. CASE List(p)
      <3> DEFINE metas == [i \in Ids |-> IF i \in Stored THEN OpenMeta(p, i) ELSE NoContent]
      <3>1. CASE ~IsUnlocked(s.lock) \/ Unopened \in {metas[i] : i \in Ids}
        <4>1. Authorised' \in {Authorised, Authorised \ {p}}
          BY <2>10, <1>1, LockChange DEF List
        <4>2. \E status \in {"locked", "envelope"} : Answer(p, "list", status, NoContent)
          BY <3>1, <2>10 DEF List
        <4> QED
          BY <4>1, <4>2, <1>3, <2>10 DEF List
      <3>2. CASE IsUnlocked(s.lock) /\ Unopened \notin {metas[i] : i \in Ids}
        <4>1. p \in Authorised /\ Authorised' = Authorised
          BY <3>2, <2>10, <1>1, LockChange DEF List
        <4>2. \A i \in Ids : metas[i] = StoreOfRows[i]
          BY <4>1, ReadsTheStore
        <4>3. metas = StoreOfRows
          BY <4>2 DEF StoreOfRows
        <4>4. Answer(p, "list", "ok", StoreOfRows)
          BY <3>2, <4>3, <2>10 DEF List
        <4>5. Store!ReadAll(p)
          BY <4>1, <4>4, <2>10
          DEF Store!ReadAll, Store!Returns, Answer, Authorised, List, StoreOfRows, Stored
        <4> QED
          BY <4>5 DEF Store!Next
      <3> QED
        BY <3>1, <3>2
    <2>11. ASSUME NEW id \in Ids, OpenSecret(p, id) \/ MetaFor(p, id) PROVE Store!Next
      <3>1. ASSUME p \in Authorised, Authorised' = Authorised, id \in Stored, rows' = rows,
                   NEW call \in {"open", "meta"}, Answer(p, call, "ok", StoreOfRows[id])
            PROVE  Store!Next
        <4>1. StoreOfRows[id] # NoContent
          BY <3>1, ReadsTheStore
        <4>2. Store!Read(p, id)
          BY <3>1, <4>1
          DEF Store!Read, Store!Returns, Answer, Authorised, StoreOfRows, Stored
        <4> QED
          BY <4>2 DEF Store!Next
      <3>2. rows' = rows
        BY <2>11 DEF OpenSecret, MetaFor
      <3>3. CASE id \notin Stored
        BY <3>2, <3>3, <2>11, <1>3, <1>4 DEF OpenSecret, MetaFor
      <3>4. CASE id \in Stored /\ ~IsUnlocked(s.lock)
        <4>1. Authorised' \in {Authorised, Authorised \ {p}}
          BY <3>4, <2>11, <1>1, LockChange DEF OpenSecret, MetaFor
        <4> QED
          BY <4>1, <3>2, <3>4, <2>11, <1>3 DEF OpenSecret, MetaFor
      <3>5. CASE id \in Stored /\ IsUnlocked(s.lock) /\ OpenSecret(p, id)
        <4>1. p \in Authorised
          BY <3>5, <1>1, LockChange
        <4>2. OpenPayload(p, id) = StoreOfRows[id]
          BY <4>1, <3>5, ReadsTheStore
        <4>3. OpenPayload(p, id) # Unopened
          BY <4>2, <3>5, ReadsTheStore, VaultAssumption
        <4>4. Answer(p, "open", "ok", StoreOfRows[id]) /\ SetLock(p, Touched(s.lock))
          BY <4>2, <4>3, <3>5 DEF OpenSecret
        <4> QED
          BY <4>1, <4>4, <3>1, <3>2, <3>5, <1>1, LockChange
      <3>6. CASE id \in Stored /\ IsUnlocked(s.lock) /\ MetaFor(p, id)
        <4>1. p \in Authorised
          BY <3>6, <1>1, LockChange
        <4>2. OpenMeta(p, id) = StoreOfRows[id]
          BY <4>1, <3>6, ReadsTheStore
        <4>3. OpenMeta(p, id) # Unopened
          BY <4>2, <3>6, ReadsTheStore, VaultAssumption
        <4>4. Answer(p, "meta", "ok", StoreOfRows[id]) /\ SetLock(p, Ticked(s.lock))
          BY <4>2, <4>3, <3>6 DEF MetaFor
        <4> QED
          BY <4>1, <4>4, <3>1, <3>2, <3>6, <1>1, LockChange
      <3> QED
        BY <2>11, <3>3, <3>4, <3>5, <3>6
    <2>12. ASSUME NEW id \in Ids, NEW c \in Contents, Add(p, id, c) \/ Update(p, id, c)
           PROVE  Store!Next
      <3>1. CASE ~IsUnlocked(s.lock)
        <4>1. Authorised' \in {Authorised, Authorised \ {p}}
          BY <3>1, <2>12, <1>1, LockChange DEF Add, Update, Write
        <4> QED
          BY <4>1, <3>1, <2>12, <1>3 DEF Add, Update, Write
      <3>2. CASE IsUnlocked(s.lock) /\ rows' = rows /\ sess' = sess
                 /\ \E v \in {"add", "update"}, w \in {"conflict", "not_found"} :
                      Answer(p, v, w, NoContent)
        BY <3>2, <1>3, <1>4
      <3>3. CASE /\ IsUnlocked(s.lock)
                 /\ SetLock(p, Touched(s.lock))
                 /\ rows' = [rows EXCEPT ![id] = SealedRow(p, id, c)]
                 /\ Answer(p, IF id \in Stored THEN "update" ELSE "add", "ok", c)
        <4>1. p \in Authorised /\ Authorised' = Authorised
          BY <3>3, <1>1, LockChange
        <4>2. StoreOfRows' = [StoreOfRows EXCEPT ![id] = c]
          <5>1. SealedRow(p, id, c) # NoContent
            BY <3>3, <1>1, SealedRowType, RowAssumption
          <5>2. rows'[id] = SealedRow(p, id, c) /\ rows'[id].payload.msg = c
            BY <3>3, <1>1 DEF TypeOK, SealedRow, SealBytes
          <5>3. \A i \in Ids \ {id} : rows'[i] = rows[i]
            BY <3>3, <1>1 DEF TypeOK
          <5> QED
            BY <5>1, <5>2, <5>3 DEF StoreOfRows, Stored
        <4>3. reply' = [by |-> p, call |-> IF StoreOfRows[id] = NoContent THEN "add" ELSE "update",
                        status |-> "ok", value |-> c]
          BY <3>3, ReadsTheStore DEF Answer
        <4>4. Store!Write(p, id, c)
          BY <4>1, <4>2, <4>3 DEF Store!Write, Store!Returns, Authorised
        <4> QED
          BY <4>4 DEF Store!Next
      <3> QED
        BY <2>12, <3>1, <3>2, <3>3 DEF Add, Update, Write
    <2>13. ASSUME NEW id \in Ids, Delete(p, id) PROVE Store!Next
      <3>1. Authorised' = Authorised
        BY <2>13, <1>4 DEF Delete
      <3>2. CASE id \in Stored
        <4>1. StoreOfRows' = [StoreOfRows EXCEPT ![id] = NoContent]
          BY <2>13, <1>1 DEF Delete, StoreOfRows, Stored, TypeOK
        <4>2. StoreOfRows[id] # NoContent
          BY <3>2, ReadsTheStore
        <4>3. Store!Remove(p, id)
          BY <3>1, <3>2, <4>1, <4>2, <2>13
          DEF Store!Remove, Store!Returns, Delete, Answer, Authorised
        <4> QED
          BY <4>3 DEF Store!Next
      <3>3. CASE id \notin Stored
        <4>1. rows' = rows
          BY <3>3, <2>13, <1>1 DEF Delete, Stored, TypeOK
        <4> QED
          BY <4>1, <3>1, <3>3, <2>13, <1>3 DEF Delete
      <3> QED
        BY <3>2, <3>3
    <2>14. CASE StartEnroll(p)
      <3>1. CASE IsUnlocked(s.lock)
        <4> DEFINE t == [s EXCEPT !.phase = "enrolling", !.known = enrollments,
                                  !.kek = s.lock.key]
        <4>1. t.lock = s.lock
          BY <2>1 DEF SessionRecord
        <4>2. sess' = [sess EXCEPT ![p] = t]
          BY <3>1, <2>14, <1>1 DEF StartEnroll, TypeOK
        <4>3. Authorised' = Authorised
          BY <4>1, <4>2, <2>2, <2>3
        <4> QED
          BY <4>3, <3>1, <2>14, <1>2 DEF StartEnroll
      <3>2. CASE ~IsUnlocked(s.lock)
        <4>1. Authorised' \in {Authorised, Authorised \ {p}}
          BY <3>2, <2>14, <1>1, LockChange DEF StartEnroll
        <4> QED
          BY <4>1, <3>2, <2>14, <1>3 DEF StartEnroll
      <3> QED
        BY <3>1, <3>2
    <2>15. ASSUME NEW c \in Creds, FinishEnroll(p, c) PROVE Store!Next
      <3>1. Resident(s.lock) /\ p \in Authorised
        BY <2>15, <2>2 DEF FinishEnroll, EnrollingHoldsKey
      <3>2. Resident(Touched(s.lock))
        BY <3>1, <2>1 DEF Touched, Resident, LockRecord
      <3>3. Authorised' = Authorised
        BY <3>1, <3>2, <2>4, <2>15 DEF FinishEnroll
      <3>4. CASE c \in {e.cred : e \in s.known}
        BY <3>3, <3>4, <2>15, <1>3 DEF FinishEnroll
      <3>5. CASE c \notin {e.cred : e \in s.known}
        <4>1. Store!Enroll(p)
          BY <3>1, <3>3, <3>5, <2>15
          DEF Store!Enroll, Store!Returns, FinishEnroll, Answer, Authorised, StoreOfRows, Stored
        <4> QED
          BY <4>1 DEF Store!Next
      <3> QED
        BY <3>4, <3>5
    <2> QED
      BY <1>7, <2>5, <2>6, <2>7, <2>8, <2>9, <2>10, <2>11, <2>12, <2>13, <2>14, <2>15
      DEF Step, Use
  <1> QED
    BY <1>5, <1>6, <1>7 DEF Next

\* The vault as `init` leaves it is an empty store that authorises nobody.
LEMMA StoreInit == Init => Store!Init
  <1> SUFFICES ASSUME Init PROVE Store!Init
    OBVIOUS
  <1>1. Stored = {}
    BY DEF Init, Stored
  <1>2. StoreOfRows = [i \in Ids |-> NoContent]
    BY <1>1 DEF StoreOfRows
  <1>3. Authorised = {}
    BY DEF Init, Authorised, Closed, Locked, Resident
  <1>4. \E p \in Procs :
          reply = [by |-> p, call |-> "none", status |-> "ok", value |-> NoContent]
    BY DEF Init
  <1> QED
    BY <1>2, <1>3, <1>4 DEF Store!Init, Authorised

\* Sessions over sealed rows are a secret store (session.rs:176-425): every
\* read, by any process, returns what was last written by whichever process,
\* and nothing but an authenticator's answer authorises.
THEOREM SessionsAreAStore == Spec => ImplementsStore
  <1>1. Init => EnrollingHoldsKey
    BY DEF Init, EnrollingHoldsKey, Closed
  <1>2. IInv /\ EnrollingHoldsKey /\ [Next]_vars => EnrollingHoldsKey'
    BY EnrollingStep DEF IInv
  <1>3. Spec => []EnrollingHoldsKey
    BY <1>1, <1>2, Inductive, PTL DEF Spec
  <1> QED
    BY <1>3, StoreInit, StoreStep, Inductive, PTL DEF Spec, ImplementsStore, Store!Spec
================================================================================
