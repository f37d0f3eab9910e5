-------------------------------- MODULE Delivery --------------------------------
(***************************************************************************)
(* daemon.rs deliver, paste.rs and config.rs: a secret is typed key by key *)
(* into the focused window through the RemoteDesktop portal, or copied to  *)
(* the clipboard for a while.  The worker delivers one secret at a time;   *)
(* the timers that clear the clipboard, the user, who also edits           *)
(* config.json, and the portal act beside it, and the daemon may end and   *)
(* start again at any step.                                                *)
(*                                                                         *)
(* A text is a sequence of kinds of characters: typed plainly, typed under *)
(* Shift, and without a keysym, or bytes that are no character at all.  A  *)
(* call of the portal that fails is taken to have done nothing.            *)
(***************************************************************************)
EXTENDS Integers, Sequences, SequencesExt

CONSTANTS
    Texts,          \* the secrets
    Tokens,         \* restore tokens are numbered modulo this
    MaxTimers,      \* bound: clipboard timers that run at a time
    NoToken

Kinds == {"plain", "capital", "control", "bytes"}

ASSUME DeliveryAssumption ==
    /\ Texts \subseteq Seq(Kinds)
    /\ Tokens \in Nat \ {0}
    /\ MaxTimers \in Nat \ {0}
    /\ NoToken \notin Nat

VARIABLES
    file,           \* config.json: the token, clipboard_fallback, and whether it parses
    config,         \* what the daemon read when it started
    valid,          \* the token the portal accepts
    typist,         \* whether the worker holds a Typist
    session,        \* the Typist's session at the portal
    job,            \* the delivery under way, or the last one
    held,           \* keys that are down
    lost,           \* history: keys that were down in this delivery as none could release them
    typed,          \* what the focused window has received of this delivery
    told,           \* what the popup says of it
    clipboard,      \* what is on it
    timers,         \* threads that will clear it
    uncleared,      \* history: one of them could not, since the last copy
    excused         \* history: the token was lost, to a failed save or a crash before it

configVars == <<file, config, excused>>
portalVars == <<valid, typist, session>>
keyVars == <<held, lost, typed>>
clipboardVars == <<clipboard, timers, uncleared>>
vars == <<configVars, portalVars, job, keyVars, told, clipboardVars>>

Token == (0 .. Tokens - 1) \cup {NoToken}

ConfigFile == [token : Token, fallback : BOOLEAN, sound : BOOLEAN]

Pcs == {"down", "idle", "connect", "consent", "save", "wait", "char", "press", "release",
        "unshift"}

\* `at` is the character to type, `ok` whether its tap succeeded.
JobRecord == [pc : Pcs, text : Texts \cup {<<>>}, at : Nat \ {0}, ok : BOOLEAN, token : Token]

At(pc) == job.pc = pc

\* Variant: characters are counted from zero.
JobFromZero(pc, text) == [pc |-> pc, text |-> text, at |-> 0, ok |-> TRUE, token |-> NoToken]

Job(pc, text) == [pc |-> pc, text |-> text, at |-> 1, ok |-> TRUE, token |-> NoToken]

TypeOK ==
    /\ file \in ConfigFile
    /\ config \in ConfigFile
    /\ valid \in Token
    /\ typist \in BOOLEAN
    /\ session \in {"none", "live", "dead"}
    /\ job \in JobRecord
    /\ held \subseteq {"shift", "key"}
    /\ lost \subseteq {"shift", "key"}
    /\ typed \in Seq([kind : Kinds, shift : BOOLEAN])
    /\ told \in {"nothing", "typed", "error"}
    /\ clipboard \in {"nothing", "secret", "other"}
    /\ timers \in 0 .. MaxTimers
    /\ uncleared \in BOOLEAN
    /\ excused \in BOOLEAN

Init ==
    /\ file = [token |-> NoToken, fallback |-> FALSE, sound |-> TRUE]
    /\ config = file
    /\ valid = NoToken
    /\ typist = FALSE /\ session = "none"
    /\ job = Job("idle", <<>>)
    /\ held = {} /\ lost = {} /\ typed = <<>>
    /\ told = "nothing"
    /\ clipboard = "nothing" /\ timers = 0 /\ uncleared = FALSE
    /\ excused = FALSE

(***************************************************************************)
(* deliver: the session with the portal, or the clipboard.                 *)
(***************************************************************************)
Goto(pc) == job' = [job EXCEPT !.pc = pc]

\* The end of a delivery, and the status or the error the popup shows for it.
Report(what) ==
    /\ told' = what
    /\ Goto("idle")

\* on_request Use: the session, once there is one, is kept whatever became of it.
Use ==
    /\ At("idle")
    /\ \E text \in Texts : job' = Job(IF typist THEN "wait" ELSE "connect", text)
    /\ typed' = <<>> /\ told' = "nothing"
    /\ lost' = lost \cap held
    /\ UNCHANGED <<configVars, portalVars, held, clipboardVars>>

\* The portal starts a session, with another token for the next one or with none.
Granted(token) ==
    /\ session' = "live"
    /\ valid' = token
    /\ job' = [job EXCEPT !.pc = "save", !.token = IF token = NoToken THEN config.token ELSE token]
    /\ UNCHANGED <<typist, told, clipboardVars>>

\* Variant: nothing will clear the clipboard.
CopyOnly ==
    /\ clipboard' = "secret" /\ uncleared' = FALSE
    /\ UNCHANGED timers

\* copy_via_clipboard: a thread of its own for each copy.
Copy ==
    /\ timers < MaxTimers
    /\ clipboard' = "secret" /\ uncleared' = FALSE
    /\ timers' = timers + 1

\* No portal, no consent, no keyboard: the clipboard if the configuration allows it,
\* which is reported as if the secret had been typed.  A start that grants no keyboard may
\* have used up the token.
Refused ==
    /\ \/ config.fallback /\ Copy /\ Report("typed")
       \/ Report("error") /\ UNCHANGED clipboardVars
    /\ valid' \in {valid, NoToken}
    /\ UNCHANGED <<typist, session>>

\* Typist::connect.  The portal takes the token it gave out last.
Connect ==
    /\ At("connect")
    /\ \/ /\ config.token # NoToken /\ config.token = valid
          /\ Granted((valid + 1) % Tokens)
       \/ /\ config.token = NoToken \/ config.token # valid
          /\ Goto("consent")
          /\ UNCHANGED <<portalVars, told, clipboardVars>>
       \/ Refused
    /\ UNCHANGED <<configVars, keyVars>>

\* The user answers the portal's dialog.
Consent ==
    /\ At("consent")
    /\ \/ \E token \in Token \ {config.token} : Granted(token)
       \/ Refused
    /\ UNCHANGED <<configVars, keyVars>>

\* Variant: a token is only saved where there was none.
FirstToken == IF config.token = NoToken THEN {job.token} \ {NoToken} ELSE {}

\* The token to save, if it is another than the daemon started with.
NewToken == {job.token} \ {NoToken, config.token}

\* Config::save of what the daemon read at its start: what the user has written to the
\* file since is gone.  It is not fatal if the save fails.
SaveToken ==
    /\ At("save")
    /\ \/ \E token \in NewToken : file' = [config EXCEPT !.token = token] /\ excused' = FALSE
       \/ NewToken = {} /\ UNCHANGED <<file, excused>>
       \/ NewToken # {} /\ excused' = TRUE /\ UNCHANGED file
    /\ typist' = TRUE
    /\ Goto("wait")
    /\ UNCHANGED <<config, valid, session, keyVars, told, clipboardVars>>

(***************************************************************************)
(* type_secret: one call of the portal for each press and each release.    *)
(***************************************************************************)
\* SecureBuf::as_str: every byte belongs to a character.
IsText == \A i \in DOMAIN job.text : job.text[i] # "bytes"

\* A secret that is not UTF-8 is not typed at all, nor copied instead.
NotText ==
    /\ At("wait") /\ ~IsText
    /\ Report("error")
    /\ UNCHANGED <<configVars, portalVars, keyVars, clipboardVars>>

\* FOCUS_RETURN_DELAY.
Wait ==
    /\ At("wait") /\ IsText
    /\ Goto("char")
    /\ UNCHANGED <<configVars, portalVars, keyVars, told, clipboardVars>>

Kind == job.text[job.at]

\* char_to_keysym has none: the character is left out.
Skip ==
    /\ At("char") /\ job.at <= Len(job.text) /\ Kind = "control"
    /\ job' = [job EXCEPT !.at = @ + 1]
    /\ UNCHANGED <<configVars, portalVars, keyVars, told, clipboardVars>>

Finish ==
    /\ At("char") /\ job.at > Len(job.text)
    /\ Report("typed")
    /\ UNCHANGED <<configVars, portalVars, keyVars, clipboardVars>>

Presses(key) == session = "live" /\ held' = held \cup {key} /\ UNCHANGED lost

\* A release that cannot be sent leaves the key down.
Releases(key) == session = "live" /\ held' = held \ {key} /\ UNCHANGED lost

Sticks(key) == lost' = lost \cup {key} /\ UNCHANGED held

\* The character is done: the next one, or the end of the delivery.
Character(ok) ==
    IF ok THEN job' = [job EXCEPT !.pc = "char", !.at = @ + 1, !.ok = TRUE] /\ UNCHANGED told
    ELSE Report("error")

\* Variant: a failed tap returns before Shift is released.
TappedEarlyReturn(ok) ==
    IF Kind = "capital" /\ ok
    THEN job' = [job EXCEPT !.pc = "unshift", !.ok = ok] /\ UNCHANGED told
    ELSE Character(ok)

\* The end of tap: Shift, where it is held for it, goes up whether the tap succeeded or not.
Tapped(ok) ==
    IF Kind = "capital"
    THEN job' = [job EXCEPT !.pc = "unshift", !.ok = ok] /\ UNCHANGED told
    ELSE Character(ok)

\* shifted_tap: only for ASCII capitals (needs_explicit_shift).
PressShift ==
    /\ At("char") /\ job.at <= Len(job.text) /\ Kind = "capital"
    /\ \/ Presses("shift") /\ Goto("press") /\ UNCHANGED told
       \/ Report("error") /\ UNCHANGED <<held, lost>>
    /\ UNCHANGED <<configVars, portalVars, typed, clipboardVars>>

Press ==
    /\ At("press") \/ (At("char") /\ job.at <= Len(job.text) /\ Kind = "plain")
    /\ \/ /\ Presses("key")
          /\ typed' = Append(typed, [kind |-> Kind, shift |-> "shift" \in held])
          /\ Goto("release") /\ UNCHANGED told
       \/ Tapped(FALSE) /\ UNCHANGED keyVars
    /\ UNCHANGED <<configVars, portalVars, clipboardVars>>

Release ==
    /\ At("release")
    /\ \/ Releases("key") /\ Tapped(TRUE)
       \/ Sticks("key") /\ Tapped(FALSE)
    /\ UNCHANGED <<configVars, portalVars, typed, clipboardVars>>

ReleaseShift ==
    /\ At("unshift")
    /\ \/ Releases("shift") /\ Character(job.ok)
       \/ Sticks("shift") /\ Character(FALSE)
    /\ UNCHANGED <<configVars, portalVars, typed, clipboardVars>>

Type == NotText \/ Wait \/ Skip \/ Finish \/ PressShift \/ Press \/ Release \/ ReleaseShift

(***************************************************************************)
(* The surroundings.                                                       *)
(***************************************************************************)
\* The portal ends the session, and the user may have withdrawn the grant.
SessionEnds ==
    /\ session' = IF session = "live" THEN "dead" ELSE session
    /\ valid' \in {valid, NoToken}
    /\ UNCHANGED <<configVars, typist, job, keyVars, told, clipboardVars>>

OtherCopies ==
    /\ clipboard' = "other"
    /\ UNCHANGED <<configVars, portalVars, job, keyVars, told, timers, uncleared>>

\* A timer clears the clipboard, whoever has put something there since.  If it cannot,
\* nobody is told and it does not try again.
TimerFires ==
    /\ timers > 0
    /\ timers' = timers - 1
    /\ \/ clipboard' = "nothing" /\ UNCHANGED uncleared
       \/ uncleared' = TRUE /\ UNCHANGED clipboard
    /\ UNCHANGED <<configVars, portalVars, job, keyVars, told>>

\* Nobody writes a token by hand.
EditConfig ==
    /\ \E fallback, sound \in BOOLEAN :
          file' = [file EXCEPT !.fallback = fallback, !.sound = sound]
    /\ UNCHANGED <<config, excused, portalVars, job, keyVars, told, clipboardVars>>

\* The daemon ends: its session, its timers and what it offers on the clipboard go with it.
Stops ==
    /\ ~At("down")
    /\ job' = Job("down", <<>>)
    /\ typist' = FALSE /\ session' = "none"
    /\ held' = {} /\ lost' = {} /\ typed' = <<>> /\ told' = "nothing"
    /\ timers' = 0 /\ uncleared' = FALSE
    /\ clipboard' = IF clipboard = "secret" THEN "nothing" ELSE clipboard
    /\ excused' = (excused \/ At("save"))
    /\ UNCHANGED <<file, config, valid>>

\* Config::load: a file that does not parse keeps the daemon from starting.
Starts ==
    /\ At("down")
    /\ file.sound
    /\ config' = file
    /\ Goto("idle")
    /\ UNCHANGED <<file, excused, portalVars, keyVars, told, clipboardVars>>

Surroundings == SessionEnds \/ OtherCopies \/ TimerFires \/ EditConfig \/ Stops \/ Starts

Next == Use \/ Connect \/ Consent \/ SaveToken \/ Type \/ Surroundings

\* The timers' threads come to their end; nothing is asked of the user, the portal and the worker.
Spec == Init /\ [][Next]_vars /\ WF_vars(TimerFires)

(***************************************************************************)
(* Properties                                                              *)
(***************************************************************************)
\* What the first characters of a text arrive as, however many: capitals under Shift,
\* those without a keysym not at all.
Strokes(text) ==
    LET strokes[n \in 0 .. Len(text)] ==
            IF n = 0 THEN <<>>
            ELSE IF text[n] = "control" THEN strokes[n - 1]
            ELSE Append(strokes[n - 1], [kind |-> text[n], shift |-> text[n] = "capital"])
    IN  strokes

Expected(text) == Strokes(text)[Len(text)]

\* "a Shift left stuck down would garble everything typed afterwards" (paste.rs:201-202):
\* unless a release could not be sent, capitals and nothing else arrive under Shift, in
\* the order of the secret, also in a delivery that follows a failed one; and what is
\* reported as typed through the portal has arrived whole.
AsWritten ==
    /\ lost = {} => IsPrefix(typed, Expected(job.text))
    /\ told = "typed" /\ typist /\ lost = {} => typed = Expected(job.text)

\* "the portal hands back a restore token so the consent dialog does not reappear"
\* (paste.rs:12-13): although a token is good for one start and the daemon never reads
\* the file again, the file has the token the portal will take, unless it was lost
\* between the grant and the save.
ConsentIsRemembered ==
    valid # NoToken /\ ~At("save") /\ ~excused => file.token = valid

\* However many copies overlap, and whatever becomes of the daemon, a secret does not
\* stay on the clipboard (paste.rs:263-296), unless a clear that came after it failed:
\* its error is ignored (paste.rs:291), and there may be no other timer.
ClipboardEmpties == clipboard = "secret" ~> clipboard # "secret" \/ uncleared
=================================================================================
