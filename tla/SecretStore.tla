----------------------------- MODULE SecretStore -----------------------------
(***************************************************************************)
(* What a vault promises its callers, with no keys, blobs or deadlines: a  *)
(* map from identifiers to contents that a process may read and write only *)
(* while it is authorised, where only answering for an authenticator       *)
(* authorises, and where every read returns exactly what was last written. *)
(***************************************************************************)
CONSTANTS Procs, Ids, Contents, NoContent

VARIABLES
    store,      \* [Ids -> Contents or NoContent]
    auth,       \* the processes that are authorised now
    reply       \* the outcome of the last call that returned

vars == <<store, auth, reply>>

Returns(p, call, value) ==
    reply' = [by |-> p, call |-> call, status |-> "ok", value |-> value]

Init ==
    /\ store = [i \in Ids |-> NoContent]
    /\ auth = {}
    /\ \E p \in Procs :
         reply = [by |-> p, call |-> "none", status |-> "ok", value |-> NoContent]

\* An authenticator of the vault answered.
Authorise(p) ==
    /\ auth' = auth \cup {p}
    /\ Returns(p, "unlock", NoContent)
    /\ UNCHANGED store

\* A deadline passed, a process locked its session or ended.
Revoke ==
    /\ auth' \in SUBSET auth
    /\ UNCHANGED <<store, reply>>

\* A call is refused.  Finding the deadline passed may be what refuses it.
Refuse(p) ==
    /\ reply'.by = p
    /\ reply'.status # "ok"
    /\ auth' \in {auth, auth \ {p}}
    /\ UNCHANGED store

Read(p, i) ==
    /\ p \in auth
    /\ store[i] # NoContent
    /\ \E call \in {"open", "meta"} : Returns(p, call, store[i])
    /\ UNCHANGED <<store, auth>>

ReadAll(p) ==
    /\ p \in auth
    /\ Returns(p, "list", store)
    /\ UNCHANGED <<store, auth>>

Write(p, i, c) ==
    /\ p \in auth
    /\ Returns(p, IF store[i] = NoContent THEN "add" ELSE "update", c)
    /\ store' = [store EXCEPT ![i] = c]
    /\ UNCHANGED auth

\* Removing needs no authorisation.
Remove(p, i) ==
    /\ store[i] # NoContent
    /\ Returns(p, "delete", NoContent)
    /\ store' = [store EXCEPT ![i] = NoContent]
    /\ UNCHANGED auth

Enroll(p) ==
    /\ p \in auth
    /\ Returns(p, "enroll", NoContent)
    /\ UNCHANGED <<store, auth>>

Next ==
    \/ Revoke
    \/ \E p \in Procs :
         \/ Authorise(p) \/ Refuse(p) \/ ReadAll(p) \/ Enroll(p)
         \/ \E i \in Ids : Read(p, i) \/ Remove(p, i)
         \/ \E i \in Ids, c \in Contents : Write(p, i, c)

Spec == Init /\ [][Next]_vars
==============================================================================
