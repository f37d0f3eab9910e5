------------------------------ MODULE LockState ------------------------------
(***************************************************************************)
(* The lock half of vault/session.rs: the inner key, resident or not, and  *)
(* the deadline after which it must be dropped.                            *)
(*                                                                         *)
(* The code keeps `inner_kek : Option<Key>` and `deadline :                *)
(* Option<Instant>`.  Only the time left until the deadline matters, so a  *)
(* lock is a record [key, left] in which `left` counts whole units of time *)
(* down from Timeout and stays at 0 once the deadline is reached.  The two *)
(* options are always set and cleared together, so `left` is 0 while there *)
(* is no key.                                                              *)
(***************************************************************************)
EXTENDS Integers

CONSTANTS
    Keys,       \* the inner keys (inner_kek) there may be
    NoKey,      \* inner_kek = None
    Timeout     \* Config::unlock_timeout, in units of time

ASSUME TimeoutAssumption == Timeout \in Nat \ {0}
ASSUME NoKeyAssumption == NoKey \notin Keys

LockRecord == [key : Keys \cup {NoKey}, left : 0 .. Timeout]

\* Session::lock: the key is dropped, and its deadline with it.
Locked == [key |-> NoKey, left |-> 0]

\* The last two assignments of Session::unlock.
Admitted(k) == [key |-> k, left |-> Timeout]

\* The key is in memory, whether or not its deadline has passed.
Resident(l) == l.key # NoKey

\* Session::state: Unlocked, that is, a key whose deadline is still ahead.
IsUnlocked(l) == Resident(l) /\ l.left > 0

\* A key that outlived its deadline because nothing has ticked since.
Expired(l) == Resident(l) /\ l.left = 0

\* Variant: a tick that reports the lock and leaves the key in memory.
TickedInName(l) == l

\* Session::tick: drop the key if `now >= deadline`.
Ticked(l) == IF Expired(l) THEN Locked ELSE l

\* Variant: a touch that adds a window to what is left of this one.
TouchedFurther(l) == IF Resident(l) THEN [l EXCEPT !.left = l.left + Timeout] ELSE l

\* Session::touch: restart the window.  It looks at the key only and does
\* not tick, so the deadline of an expired key moves as well.
Touched(l) == IF Resident(l) THEN [l EXCEPT !.left = Timeout] ELSE l

\* A unit of time goes by.
Aged(l) == [l EXCEPT !.left = IF l.left > 0 THEN l.left - 1 ELSE 0]
==============================================================================
