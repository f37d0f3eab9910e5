-------------------------------- MODULE Session --------------------------------
(***************************************************************************)
(* vault/session.rs over the rows and the enrollment list of vault/db.rs:  *)
(* every process (the daemon, and each command of the CLI) opens its own   *)
(* Session on the one database of the vault.                               *)
(*                                                                         *)
(* A call that waits for the authenticator (unlock, enroll_key) is two     *)
(* steps, because other processes and the clock run during the wait: the   *)
(* first reads what the code reads before the assertion, the second does   *)
(* the rest.  Every other call is one step.  A call ends by setting        *)
(* `reply`, what its caller learns.                                        *)
(***************************************************************************)
EXTENDS LockState, Envelope, FiniteSets

CONSTANTS
    Procs,          \* processes with a session
    Ids,            \* the UUIDs of secrets
    Contents,       \* what one save stores: a metadata and payload pair
    NoContent,      \* a row that is absent
    Creds,          \* FIDO credentials, each with a secret of its own
    OuterKeys,      \* outer keys the TPM of this machine may hold sealed
    VaultKey,       \* the inner key generated when the vault was created
    MachineKey,     \* the outer key provisioned when it was created
    FirstCred       \* the authenticator enrolled at that moment

ASSUME VaultAssumption ==
    /\ VaultKey \in Keys
    /\ MachineKey \in OuterKeys
    /\ FirstCred \in Creds
    /\ NoContent \notin Contents
    /\ Unopened \notin Contents \cup Keys \cup {VerificationPlaintext}

VARIABLES
    rows,           \* table `secrets`: per id the two sealed blobs, or NoContent
    enrollments,    \* meta row `enrollments`
    verifyBlob,     \* meta row `verify_blob`
    sealedOuter,    \* the key sealed by the TPM of this machine
    sess,           \* the Session of each process
    reply           \* the outcome of the last call that returned

vars == <<rows, enrollments, verifyBlob, sealedOuter, sess, reply>>

(***************************************************************************)
(* Types                                                                   *)
(***************************************************************************)
EnvelopeIds == {PayloadId(i) : i \in Ids} \cup {MetaId(i) : i \in Ids}

Blob == [id : EnvelopeIds, inner : Keys, outer : OuterKeys, msg : Contents]

Row == [payload : Blob, meta : Blob]

ASSUME RowAssumption == NoContent \notin Row

Enrollment == [cred : Creds, blob : [wrap : Creds, key : Keys]]

Phases == {"closed", "open", "unlocking", "enrolling"}

\* `known` is the list a waiting call read, `kek` the key enroll_key cloned.
SessionRecord ==
    [phase : Phases, outer : OuterKeys, lock : LockRecord,
     known : SUBSET Enrollment, kek : Keys \cup {NoKey}]

Calls == {"none", "unlock", "list", "meta", "open", "add", "update", "delete", "enroll"}

Errors == {"ok", "locked", "not_found", "conflict", "verification_failed",
           "already_enrolled", "provider", "envelope"}

Listing == [Ids -> Contents \cup {NoContent}]

Reply == [by : Procs, call : Calls, status : Errors,
          value : Contents \cup {NoContent} \cup Listing]

TypeOK ==
    /\ rows \in [Ids -> Row \cup {NoContent}]
    /\ enrollments \in SUBSET Enrollment
    /\ verifyBlob \in [id : {VerifyId}, inner : Keys, outer : OuterKeys,
                       msg : {VerificationPlaintext}]
    /\ sealedOuter \in OuterKeys
    /\ sess \in [Procs -> SessionRecord]
    /\ reply \in Reply

(***************************************************************************)
(* Helpers                                                                 *)
(***************************************************************************)
Closed ==
    [phase |-> "closed", outer |-> MachineKey, lock |-> Locked,
     known |-> {}, kek |-> NoKey]

\* A session with nothing pending, as open_locked leaves it and as every
\* waiting call leaves it when it returns.
Idle(s, l) == [s EXCEPT !.phase = "open", !.lock = l, !.known = {}, !.kek = NoKey]

Answer(p, call, status, value) ==
    reply' = [by |-> p, call |-> call, status |-> status, value |-> value]

SetLock(p, l) == sess' = [sess EXCEPT ![p].lock = l]

\* Variant: the answer of whichever authenticator comes first, not of the new one.
WrapForFirst(c, key) == [cred |-> c, blob |-> WrapKey(FirstCred, key)]

\* wrap_for: the vault's inner key under the wrap key derived from the
\* authenticator's answer, which is a function of the credential.
WrapFor(c, key) == [cred |-> c, blob |-> WrapKey(c, key)]

IsOpen(p) == sess[p].phase = "open"

\* Variant: saving over a row keeps its old metadata.
SealedPayload(p, id, c) ==
    LET s == sess[p]
        fresh == [payload |-> SealBytes(PayloadId(id), s.lock.key, s.outer, c),
                  meta |-> SealBytes(MetaId(id), s.lock.key, s.outer, c)]
    IN  IF rows[id] = NoContent THEN fresh ELSE [fresh EXCEPT !.meta = rows[id].meta]

\* seal_meta and seal_payload under the keys of the session of p.
SealedRow(p, id, c) ==
    LET s == sess[p] IN
    [payload |-> SealBytes(PayloadId(id), s.lock.key, s.outer, c),
     meta |-> SealBytes(MetaId(id), s.lock.key, s.outer, c)]

OpenPayload(p, id) ==
    OpenBytes(PayloadId(id), sess[p].lock.key, sess[p].outer, rows[id].payload)

OpenMeta(p, id) ==
    OpenBytes(MetaId(id), sess[p].lock.key, sess[p].outer, rows[id].meta)

Stored == {i \in Ids : rows[i] # NoContent}

(***************************************************************************)
(* Initially: Session::initialize has just stored the enrollment of the    *)
(* first authenticator and the verification blob, and its process is gone. *)
(***************************************************************************)
Init ==
    /\ rows = [i \in Ids |-> NoContent]
    /\ enrollments = {WrapFor(FirstCred, VaultKey)}
    /\ verifyBlob = SealVerification(VaultKey, MachineKey)
    /\ sealedOuter = MachineKey
    /\ sess = [p \in Procs |-> Closed]
    /\ reply \in [by : Procs, call : {"none"}, status : {"ok"}, value : {NoContent}]

(***************************************************************************)
(* The life of a process: Session::open_locked, and its end, orderly or    *)
(* not.  The inner key is only ever in memory, so both ends lose it.       *)
(***************************************************************************)
OpenLocked(p) ==
    /\ sess[p].phase = "closed"
    /\ sess' = [sess EXCEPT ![p] = [Closed EXCEPT !.phase = "open", !.outer = sealedOuter]]
    /\ UNCHANGED <<rows, enrollments, verifyBlob, sealedOuter, reply>>

Exit(p) ==
    /\ sess[p].phase # "closed"
    /\ sess' = [sess EXCEPT ![p] = Closed]
    /\ UNCHANGED <<rows, enrollments, verifyBlob, sealedOuter, reply>>

(***************************************************************************)
(* `sypherstore recovery adopt`: seals whichever outer key was typed in.   *)
(* Nothing checks there that it is the key of this vault.                  *)
(***************************************************************************)
Adopt(k) ==
    /\ sealedOuter' = k
    /\ UNCHANGED <<rows, enrollments, verifyBlob, sess, reply>>

(***************************************************************************)
(* Session::unlock.                                                        *)
(***************************************************************************)
StartUnlock(p) ==
    /\ IsOpen(p)
    /\ sess' = [sess EXCEPT ![p].phase = "unlocking", ![p].known = enrollments]
    /\ UNCHANGED <<rows, enrollments, verifyBlob, sealedOuter, reply>>

\* The authenticator answered for the enrolled credential of e.
FinishUnlock(p) ==
    /\ sess[p].phase = "unlocking"
    /\ \E e \in sess[p].known :
         LET k == UnwrapKey(e.cred, e.blob)
             ok == k # Unopened /\ VerifyKeys(k, sess[p].outer, verifyBlob)
         IN  /\ sess' = [sess EXCEPT ![p] = Idle(@, IF ok THEN Admitted(k) ELSE @.lock)]
             /\ Answer(p, "unlock", IF ok THEN "ok" ELSE "verification_failed", NoContent)
    /\ UNCHANGED <<rows, enrollments, verifyBlob, sealedOuter>>

\* The provider failed: no device, no touch, a cancelled PIN prompt.  The
\* lock is left as it was.
FailAssertion(p) ==
    /\ sess[p].phase \in {"unlocking", "enrolling"}
    /\ sess' = [sess EXCEPT ![p] = Idle(@, @.lock)]
    /\ Answer(p, IF sess[p].phase = "unlocking" THEN "unlock" ELSE "enroll",
              "provider", NoContent)
    /\ UNCHANGED <<rows, enrollments, verifyBlob, sealedOuter>>

(***************************************************************************)
(* lock, tick, touch, and the clock.                                       *)
(***************************************************************************)
LockNow(p) ==
    /\ IsOpen(p)
    /\ SetLock(p, Locked)
    /\ UNCHANGED <<rows, enrollments, verifyBlob, sealedOuter, reply>>

Tick(p) ==
    /\ IsOpen(p)
    /\ SetLock(p, Ticked(sess[p].lock))
    /\ UNCHANGED <<rows, enrollments, verifyBlob, sealedOuter, reply>>

Touch(p) ==
    /\ IsOpen(p)
    /\ SetLock(p, Touched(sess[p].lock))
    /\ UNCHANGED <<rows, enrollments, verifyBlob, sealedOuter, reply>>

Elapse ==
    /\ \E p \in Procs : sess[p].lock.left > 0
    /\ sess' = [p \in Procs |-> [sess[p] EXCEPT !.lock = Aged(@)]]
    /\ UNCHANGED <<rows, enrollments, verifyBlob, sealedOuter, reply>>

(***************************************************************************)
(* Reading.  list decrypts the metadata of every row, or fails as a whole. *)
(***************************************************************************)
List(p) ==
    /\ IsOpen(p)
    /\ SetLock(p, Ticked(sess[p].lock))
    /\ LET metas == [i \in Ids |-> IF i \in Stored THEN OpenMeta(p, i) ELSE NoContent]
       IN  \/ /\ ~IsUnlocked(sess[p].lock)
              /\ Answer(p, "list", "locked", NoContent)
           \/ /\ IsUnlocked(sess[p].lock)
              /\ IF Unopened \in {metas[i] : i \in Ids}
                 THEN Answer(p, "list", "envelope", NoContent)
                 ELSE Answer(p, "list", "ok", metas)
    /\ UNCHANGED <<rows, enrollments, verifyBlob, sealedOuter>>

\* Session::open.  A missing row is reported before the lock is looked at.
OpenSecret(p, id) ==
    /\ IsOpen(p)
    /\ \/ /\ id \notin Stored
          /\ Answer(p, "open", "not_found", NoContent)
          /\ UNCHANGED sess
       \/ /\ id \in Stored
          /\ ~IsUnlocked(sess[p].lock)
          /\ Answer(p, "open", "locked", NoContent)
          /\ SetLock(p, Ticked(sess[p].lock))
       \/ /\ id \in Stored
          /\ IsUnlocked(sess[p].lock)
          /\ IF OpenPayload(p, id) = Unopened
             THEN /\ Answer(p, "open", "envelope", NoContent)
                  /\ UNCHANGED sess
             ELSE /\ Answer(p, "open", "ok", OpenPayload(p, id))
                  /\ SetLock(p, Touched(sess[p].lock))
    /\ UNCHANGED <<rows, enrollments, verifyBlob, sealedOuter>>

\* Variant: the key is looked for without a tick.
MetaForUnticked(p, id) ==
    /\ IsOpen(p)
    /\ id \in Stored
    /\ IF Resident(sess[p].lock) /\ OpenMeta(p, id) # Unopened
       THEN Answer(p, "meta", "ok", OpenMeta(p, id))
       ELSE Answer(p, "meta", "locked", NoContent)
    /\ UNCHANGED <<rows, enrollments, verifyBlob, sealedOuter, sess>>

\* Session::meta_for: as `open`, for the metadata, and without touching.
MetaFor(p, id) ==
    /\ IsOpen(p)
    /\ \/ /\ id \notin Stored
          /\ Answer(p, "meta", "not_found", NoContent)
          /\ UNCHANGED sess
       \/ /\ id \in Stored
          /\ SetLock(p, Ticked(sess[p].lock))
          /\ IF ~IsUnlocked(sess[p].lock)
             THEN Answer(p, "meta", "locked", NoContent)
             ELSE IF OpenMeta(p, id) = Unopened
                  THEN Answer(p, "meta", "envelope", NoContent)
                  ELSE Answer(p, "meta", "ok", OpenMeta(p, id))
    /\ UNCHANGED <<rows, enrollments, verifyBlob, sealedOuter>>

(***************************************************************************)
(* Writing.  add and update seal under the session's own pair of keys.     *)
(***************************************************************************)
\* Both writes, once ensure_unlocked passed: `hit` says whether the one SQL
\* statement found the row state it needs.
Write(p, id, c, call, hit, miss) ==
    /\ IsOpen(p)
    /\ \/ /\ ~IsUnlocked(sess[p].lock)
          /\ Answer(p, call, "locked", NoContent)
          /\ SetLock(p, Ticked(sess[p].lock))
          /\ UNCHANGED rows
       \/ /\ IsUnlocked(sess[p].lock)
          /\ ~hit
          /\ Answer(p, call, miss, NoContent)
          /\ UNCHANGED <<sess, rows>>
       \/ /\ IsUnlocked(sess[p].lock)
          /\ hit
          /\ Answer(p, call, "ok", c)
          /\ SetLock(p, Touched(sess[p].lock))
          /\ rows' = [rows EXCEPT ![id] = SealedRow(p, id, c)]
    /\ UNCHANGED <<enrollments, verifyBlob, sealedOuter>>

Add(p, id, c) == Write(p, id, c, "add", id \notin Stored, "conflict")

\* Variant: an update that inserts a row which is not there.
UpdateOrAdd(p, id, c) == Write(p, id, c, "update", TRUE, "not_found")

Update(p, id, c) == Write(p, id, c, "update", id \in Stored, "not_found")

\* Allowed while locked: removing a row needs no key.
Delete(p, id) ==
    /\ IsOpen(p)
    /\ rows' = [rows EXCEPT ![id] = NoContent]
    /\ Answer(p, "delete", IF id \in Stored THEN "ok" ELSE "not_found", NoContent)
    /\ UNCHANGED <<enrollments, verifyBlob, sealedOuter, sess>>

(***************************************************************************)
(* Session::enroll_key.  The key and the list are read before the new      *)
(* authenticator is touched twice; the whole list is written back after.   *)
(***************************************************************************)
StartEnroll(p) ==
    /\ IsOpen(p)
    /\ IF IsUnlocked(sess[p].lock)
       THEN /\ sess' = [sess EXCEPT ![p].phase = "enrolling",
                                    ![p].known = enrollments,
                                    ![p].kek = sess[p].lock.key]
            /\ UNCHANGED reply
       ELSE /\ SetLock(p, Ticked(sess[p].lock))
            /\ Answer(p, "enroll", "locked", NoContent)
    /\ UNCHANGED <<rows, enrollments, verifyBlob, sealedOuter>>

\* The authenticator registered c and answered for it.
FinishEnroll(p, c) ==
    /\ sess[p].phase = "enrolling"
    /\ IF c \in {e.cred : e \in sess[p].known}
       THEN /\ Answer(p, "enroll", "already_enrolled", NoContent)
            /\ sess' = [sess EXCEPT ![p] = Idle(@, @.lock)]
            /\ UNCHANGED enrollments
       ELSE /\ enrollments' = sess[p].known \cup {WrapFor(c, sess[p].kek)}
            /\ Answer(p, "enroll", "ok", NoContent)
            /\ sess' = [sess EXCEPT ![p] = Idle(@, Touched(@.lock))]
    /\ UNCHANGED <<rows, verifyBlob, sealedOuter>>

(***************************************************************************)
(* The specification.                                                      *)
(***************************************************************************)
Use(p) ==
    \/ Touch(p)
    \/ \E id \in Ids : OpenSecret(p, id)
    \/ \E id \in Ids, c \in Contents : Add(p, id, c) \/ Update(p, id, c)
    \/ \E c \in Creds : FinishEnroll(p, c)

Step(p) ==
    \/ OpenLocked(p) \/ Exit(p)
    \/ StartUnlock(p) \/ FinishUnlock(p) \/ FailAssertion(p)
    \/ LockNow(p) \/ Tick(p)
    \/ List(p)
    \/ \E id \in Ids : MetaFor(p, id) \/ Delete(p, id)
    \/ StartEnroll(p)
    \/ Use(p)

Next ==
    \/ Elapse
    \/ \E k \in OuterKeys : Adopt(k)
    \/ \E p \in Procs : Step(p)

Spec == Init /\ [][Next]_vars

(***************************************************************************)
(* Safety                                                                  *)
(***************************************************************************)

\* A session that holds an inner key holds the keys of this vault, both of
\* them: Session::unlock keeps no key the verification blob does not confirm
\* (session.rs:281-294), however the TPM was re-sealed in between.
KeysMatchVault ==
    \A p \in Procs :
        /\ Resident(sess[p].lock) => /\ sess[p].lock.key = VaultKey
                                     /\ sess[p].outer = MachineKey
        /\ sess[p].phase = "enrolling" => sess[p].kek = VaultKey

\* Whatever was saved, by whichever process, under whatever sequence of
\* unlocks, adoptions and relocks, stays readable with the vault's own keys,
\* and the two blobs of a row come from one save.
RowsReadable ==
    \A i \in Stored :
        LET payload == OpenBytes(PayloadId(i), VaultKey, MachineKey, rows[i].payload)
            meta == OpenBytes(MetaId(i), VaultKey, MachineKey, rows[i].meta)
        IN  payload # Unopened /\ meta = payload

\* Every authenticator on the list opens the vault, none is on it twice, and
\* one always is (session.rs:176-177: "every existing secret stays readable
\* by both"), however enrollments overlap with each other, with relocks and
\* with other outer keys.  Overlapping, one may drop what the other added:
\* the property is about those that are left, AddedAlongside about the rest.
GoodList(list) ==
    \A e \in list :
        /\ UnwrapKey(e.cred, e.blob) = VaultKey
        /\ \A f \in list : f.cred = e.cred => f = e

EnrollmentsOpen == enrollments # {} /\ GoodList(enrollments)

\* What makes the above inductive: the verification blob is that of the
\* vault's own keys, and every list a waiting call has read is a good one.
IInv ==
    /\ TypeOK
    /\ KeysMatchVault
    /\ RowsReadable
    /\ EnrollmentsOpen
    /\ \A p \in Procs : GoodList(sess[p].known)
    /\ verifyBlob = SealVerification(VaultKey, MachineKey)

\* Rule 1 of session.rs: a call that returns plaintext, or seals any, found
\* the key resident and its deadline ahead.
PlaintextNeedsUnlock ==
    [][\A p \in Procs :
        /\ reply' # reply
        /\ reply'.by = p
        /\ reply'.call \in {"list", "meta", "open", "add", "update"}
        /\ reply'.status = "ok"
        => IsUnlocked(sess[p].lock)]_vars


(***************************************************************************)
(* Refinement: the contents of the rows, and the sessions with a key.      *)
(***************************************************************************)
StoreOfRows == [i \in Ids |-> IF i \in Stored THEN rows[i].payload.msg ELSE NoContent]

Store == INSTANCE SecretStore
    WITH store <- StoreOfRows, auth <- {p \in Procs : Resident(sess[p].lock)}

\* Sessions over sealed rows are a secret store: a read returns what was last
\* written, a refused call changes nothing, and a process becomes authorised
\* by answering for an authenticator and by nothing else.
ImplementsStore == Store!Spec
==============================================================================
