# Sypherstore: specification and proofs

TLA+ modules that model Sypherstore, TLC configurations that check them on small
instances, and TLAPS proofs of what holds for every instance. Line numbers refer
to the sources below `src/crates`; `session.rs` is
`sypher-core/src/vault/session.rs`, `daemon.rs` is `sypher-app/src/daemon.rs`, and
so on.

## The system

A password vault for one user. Every secret is sealed twice: under an *inner* key
that only an enrolled FIDO authenticator can unwrap, and under an *outer* key that
only this machine's TPM can unseal. A daemon keeps the vault open, shows a popup on
a global shortcut, and types the chosen secret; a command line works on the same
database.

| Component | State | Operations | Interacts with |
|---|---|---|---|
| Session (`session.rs`) | inner key and deadline; outer key; during a wait, the list it read | initialize, open_locked, unlock, lock, tick, touch, list, meta_for, open, add, update, delete, enroll_key | database, envelope, providers; one per process |
| Envelope, keys (`envelope.rs`, `keys.rs`) | none | seal and open, wrap and unwrap, verify, derive | Session |
| Database (`db.rs`) | rows, meta entries | one SQL statement each | Session, backup; shared by processes |
| Worker (`daemon.rs`) | the handler it is in, last lock state sent, shortcut registration | select over shutdown, hotkey, registration, SIGUSR1, requests, ticker | Session through a mutex; popup through two channels; assertion threads |
| Assertion threads (`daemon.rs`, `fido.rs`) | where in the assertion | take the mutex, ask for the PIN, wait for the touch, report | PIN broker, Session, popup |
| PIN broker (`pin.rs`) | channel of answers | drain, prompt, wait 120 s | popup by event, worker by channel |
| Shared (`state.rs`) | session mutex, claim on unlocking | with_session, begin_unlock, end_unlock, ui_lock_state | worker and threads |
| Popup (`popup.rs`, `editor.rs`) | mode, visibility, list, query, selection, form, lock state shown | events; keys and clicks by mode | worker |
| Shell (`shell.rs`) | surface, input that waits for a frame, frame owed | one pass of the loop: handlers, keys, surface, frame | compositor, Popup; a thread of its own |
| Delivery (`paste.rs`, `config.rs`) | portal session, keys that are down, restore token in `config.json`, clipboard | connect, consent, save the token, press and release, copy, clear | worker waits for it; portal; a thread per copy |
| Window tracking (`kwin.rs`, `active_window.js`) | window kept, script loaded in KWin | start in four steps, report, unload | KWin by bus calls, each handled by a task |
| Focused URL (`url.rs`) | none | a bounded walk of the accessibility tree, under a time limit | browsers; worker waits for it |
| Search (`domain.rs`, `fuzzy.rs`) | none | normalize, match, rank | popup; the form and the command line file a domain through it |
| FIDO provider (`fido.rs`) | none of its own; the handles of one call | provision, provision_excluding, assert_secret, assert_first_available | Session; the connected authenticators, shared by processes |
| TPM provider (`tpm.rs`) | two sealed files | provision, provision_with, unseal | Session, `recovery adopt` |
| Commands on files (`commands.rs`, `backup.rs`, `paths.rs`) | the vault directory: database and its log, sealed files, archives | init, recovery adopt, backup, restore | database, TPM provider; the daemon, through the files |

What is hard here, and what has to hold:

* *Waiting inside a handler.* The worker is one thread and awaits assertions and
  portal dialogs inside its handlers, while the answer, the timer and the hotkey
  wait for the worker. It must come back, and an unlock must end.
* *The session mutex and the claim.* An assertion holds the mutex for as long as
  the user takes; the claim is taken by one thread and released by another. Exactly
  one holder, one prompt at a time.
* *Looks that go stale.* The lock state is read, then something is done; the
  deadline, another thread or another process comes between. No plaintext and no
  metadata leaves a locked vault, and a deletion rests on its own assertion.
* *Messages that cross.* Events and requests are queued; a hidden popup receives
  lists, forms and prompts, and answers arrive after their prompt ended.
* *A frame is not the state.* Keys act on the frame after the one they were pressed
  in, a list may be replaced under a selection, a surface may be lost while it is
  drawn. What is acted on is a row of the list, and no frame both asks for a deletion
  and confirms it.
* *Key presses as calls that fail*, at a portal that may end the session or withdraw
  the grant, with a token that is good for one start, and clipboard timers that
  outlive their copy. What arrives is the secret; consent is asked for once.
* *Reports out of order*, from a script that outlives its daemon, and a URL read some
  time after the hotkey. The list is for where the user was.
* *Names of sites*, written in many ways and compared by their tails. The secrets of
  the site are offered, those of a look-alike are not.
* *Processes that share a database*, an outer key that `recovery adopt` may replace
  under them. Saved secrets stay readable, enrolled authenticators keep working.
* *Several authenticators at once*, plugged in and pulled out during a call that goes
  through all of them, and two processes that enroll. The key that can answer is
  found, and none that answers its probe is enrolled twice.
* *Commands made of several files*, killed or failing between two of them, while a
  log holds what the database file does not yet, and the daemon has both open. A vault
  once made goes on opening, an archive is a snapshot, and a restore can be undone, as
  far as the checkpoint reached and nobody saved after it.

## Modules

| Module | Models |
|---|---|
| `LockState` | the key and deadline of a Session: lock, tick, touch, state |
| `Envelope` | which keys and identifier open a ciphertext, symbolically |
| `Session` | several processes, each with a Session, over the rows, the enrollment list, the verification blob and the sealed outer key |
| `SecretStore` | what a vault promises: a map that an authorised process reads and writes. `Session` is shown to implement it |
| `SessionProofs` | theorems about `Session` |
| `FilesProofs`, `FidoProofs`, `DeliveryProofs`, `WindowProofs`, `LookupProofs` | theorems about `VaultFiles`, `FidoSelect`, `Delivery`, `Window` and `Lookup` |
| `DaemonProofs` | theorems about `Daemon` against any popup and, in its last section, about `Sypherstore` |
| `PopupProofs` | lemmas on the popup's steps that `DaemonProofs` and `WindowProofs` rest on |
| `Protocol` | the messages of `state.rs` and the two channels |
| `Daemon` | worker, assertion threads, PIN broker, `Shared`; also composed with a popup that may do anything (`OpenSpec`) |
| `Popup` | the popup's state machine |
| `Sypherstore` | popup and daemon over the two channels |
| `Window` | the popup's thread: event loop, surface, frames, keys, query, rows. Shown to implement `Popup` |
| `Delivery` | a secret is typed through the portal or copied; the token that saves the next consent |
| `Search` | hosts, matching and ranking, as operators |
| `Tracking` | which window the user comes from and what its browser shows |
| `Lookup` | from the site a secret is filed under to the list the popup opens with: `Tracking` and `Search` with saving, the hotkey and the popup's list |
| `FidoSelect` | which connected authenticator is asked, to unlock, init or enroll |
| `VaultFiles` | init, recovery adopt, backup and restore over the files of a vault directory, cut at every file they write |
| `MCSession`, `MCDaemon`, `MCSypherstore`, `MCWindow`, `MCVaultFiles`, `MCFidoSelect`, `MCDelivery`, `MCLookup` | constants, symmetry and constraints of the instances |

**Session.** A call that waits for an authenticator (`unlock`, `enroll_key`) is two
actions, since other processes and the clock run during the wait: `StartUnlock`
keeps the list the code reads before the assertion, `FinishUnlock` does the rest or
`FailAssertion` ends it. Two enrollments may overlap, each to write back the list it
read. Every other method is one action, with its tick, its
checks in the order of the code, its writes and its touch. `reply` is what the
caller learns. A deadline is the time left, counted down by `Elapse`; a key whose
time is up stays until something ticks. A ciphertext is the record of what it was
made from, so that a wrong key, a wrong row or a swapped blob does not open.

**Daemon.** Each handler of the worker is cut where it waits, where it reads what
another thread writes, and between what it reads under the mutex and what it sends or
does once the mutex is released: `worker.pc` says where it is, and `out` is the event
that has been read and not yet sent. A hotkey lists, shows, looks at the lock, tells
it and starts an unlock; a save writes and then lists; a use reads the secret, hides
the popup and delivers. A `with_session` that waits for nothing inside is one step,
enabled while no assertion thread holds the mutex; one that runs an assertion is
`Acquire` to `Returns`. The thread of `start_unlock` goes on after its assertion in the
steps of the code: release the claim, read the claim, look at the session, tell, list,
send. The worker's own `ui_lock_state` is one step, although it reads the claim and then
the session: only the worker ever takes a claim, so one that it did not see is not there
when it has the session either. Two slots for unlock threads let a thread that still
reports overlap with the next unlock. Of the Session only the lock is kept. The hardware build asks for a PIN on every assertion
(`fido.rs:378`), the mock build never: the constant `PinRequired`. A worker that
polls the registration's receiver again after it failed panics: "panicked".

**Popup.** A mode, visibility, the list and the lock state, exactly as
`handle_event`, `hide` and the key handlers change them. Any row may be the selected
one; which one it is, is left to `Window`. A dismissal by focus loss or Escape needs
the list mode; the compositor may take the surface in any mode.

**Window.** One pass of `shell.rs`'s loop is a dispatch of one or more handlers and
then `after_dispatch`: the keys of the *last* frame, the surface, the next frame.
`turn` is where the pass is, and a step ends where the code sends a request, so that
each step is one of `Popup` or none (`ImplementsPopup`). `input` is what was pressed
since the last frame, `frame` what that frame took of it: a key is acted on a pass
after it was pressed, whatever the popup has become. `query`, `ranked` and `selected`
are the row cache that the refinement hides. Any worker is at the other end. What
egui makes of a click or of text is left open.

**Delivery.** The worker's delivery is `job`, one character at a time, one call of the
portal per press and per release; any call may fail. `valid` is the token the portal
takes, `config` what the daemon read at its start, `file` what is on disk; the user
edits it, and the daemon may end at any step and start again. A text is a sequence of
kinds of characters: plain, capital (Shift), control (left out), and bytes that are no
UTF-8, for which nothing is typed at all. A timer's clear may fail, which nobody looks
at. `lost`, `excused` and `uncleared` are history: a key that no call could release, a
token that no save has recorded, a clear that failed since the last copy.

**Search, Tracking, Lookup.** A text is a sequence of pieces, words and the
punctuation that splits them, which is as much as the host rules look at. The Public
Suffix List and the fuzzy matcher are libraries, hence constants. `Tracking` cuts
`kwin::start` at each of its steps, keeps the reports under way in a sequence from
which any may be handled first (each is a task), and leaves a script behind when a
daemon dies before it unloads it. In `Lookup`, `vault` is the secrets' metadata and
`popup` what is listed; `site` in a secret and `origin` in the popup are history, what
the user meant and what the context was made from, so that the properties can compare
what is listed with what `Closeness` says of the two sites.

**FidoSelect.** `op[p]` is the call a process is in: open all devices, probe them one
after the other, choose, PIN, touch; init and enroll go through this twice, to
register and then (`assert_secret`) to derive the new key's secret, and only then
write the list. Enumeration has no order that the code relies on, so a probe takes
any device that is left. A handle dies with its device's unplugging (`live`), and
the code notices only by the error of the next request, which a probe takes for
"does not hold". The probe of a device that is still there may fail too (`ProbeFails`):
`missed` are the devices that were passed over so in this call, `blind` the credentials
that were registered on one, both history. `holds` is what each authenticator answers
for; it grows with a registration and is emptied by a factory reset. The session's own
part, the key and its wrapping, is in `Session`.

**VaultFiles.** A database is how many of the five entries that `initialize` writes
it has, and its rows; its log, when there is one, holds what SQLite reads. A sealed
file is the object it belongs to, since the TPM loads a private area only with the
public area it was made with. A command is a program counter and what it has read:
`Crash` kills it, `Fail` ends it with an error where the code may return one, and
each other action is its next file. `writer` is the one other process that has the
database open, at any step of a command; it may save, fold the log when that has grown
(`AutoCheckpoint`), close or be killed. When a restore takes the log from under it, it
goes on with what it had (`apart`), which reaches the file only if it closes before the
file is replaced. One that comes between the removal of the log and the replacement
leaves its log beside another database, of which SQLite may read either or a mixture. A
checkpoint may fold nothing, because it fails or finds the database busy. History:
`during` (what the database held while a command copied it), `refused` (its checkpoint
folded nothing), `later` (somebody saved after it), `whole` and `trusted` (until when a
vault has to open). Replacing one file is one step (`write_private_atomic`), and SQLite
is assumed to do what it documents: the log survives a kill, and the last connection
that closes folds it into the file.

Left out of the protocol are the messages that only change a line of text (Error,
Status) and Dismissed, which the worker logs. PIN answers carry the number of the
prompt they were typed into, which the code's do not: no guard reads it, it only
says which prompt an answer was meant for.

## Runs

Passing runs:

| Run | Shows | Instance |
|---|---|---|
| `Session_safety` | types, keys held, rows readable, enrollments open, plaintext only while unlocked, refinement of `SecretStore` | 2 processes, 1 secret, 2 contents, 3 credentials, 2 outer keys, window of 2 |
| `Daemon_safety` | one owner of the claim, nothing read for the popup while locked, deletions asserted; both ends of the registration | any popup, no PIN, 2 secrets, 2 unlock threads, window of 1 |
| `Daemon_liveness` | one prompt at a time, the worker comes back, an unlock ends; left alone the vault relocks, and the popup does not go on asking for a touch nobody waits for | any popup, 1 secret, 2 unlock threads, PIN |
| `Popup_safety` | a hidden popup has no form and no prompt | popup and daemon, mock build, 1 secret |
| `Window_safety` | cached rows match list and query, the selection is a row, a hidden popup has no surface, a newer mode is drawn, a deletion is confirmed by a frame that painted the question, refinement of `Popup` | any worker, 2 secrets, 2 queries, 2 kinds of input per frame |
| `Delivery_safety` | what arrives is the secret and capitals alone arrive under Shift; the token on disk is the one the portal takes; a secret does not stay on the clipboard unless a clear failed | 3 texts, 2 tokens, 2 timers |
| `Lookup_safety` | the context is of the last window; the site's secrets are offered, closest first; what is offered is exactly what has to do with the page, or everything if nothing has | 4 windows, 7 sites, 6 pages, 2 secrets, 2 reports under way, 1 script left behind |
| `Fido_safety` | an authenticator is enrolled twice, or a connected enrolled key passed over, only after its probe failed; an unlock goes on with the credential that answered | 2 devices, 3 credentials, 2 processes |
| `Files_safety` | a vault once made opens whatever is killed, archives are snapshots where the log could be folded, a restore keeps what it replaces but for what came after its checkpoint, nothing else but a save changes what the database holds, a backup survives its prune | 1 secret, 2 archives kept, 3 seconds, another process at any step |

Runs that end in a counterexample, each one a sentence of a comment that the code
does not keep:

| Run | The source says | What happens |
|---|---|---|
| `Reassert_pin` | hands the answer to the blocked assertion (`daemon.rs:373`) | the worker waits for the assertion and cannot take the answer |
| `Shortcut_refused` | not fatal (`daemon.rs:263`) | the receiver is polled after completion: panic |
| `Enroll_overlap` | the new authenticator is added alongside the old (`session.rs:176`) | two enrollments write back the list each has read, and the later write drops the other's key |

Seen while modelling, and not a run of its own:

* *Session.* `touch` makes an expired key usable again when it comes before the next
  tick, against `session.rs:318`. Nothing ticks while a delivery waits for the portal,
  nor while the command line waits for its user, against `session.rs:10`. One row that cannot be read fails the whole list
  (`session.rs:393`).
* *Daemon and popup.* What was read under the mutex is sent after it is released, so a
  list, a form or a secret may leave after a relock (`daemon.rs:334`, `423`, `386`), and
  a list after a newer one. The thread of an unlock that ended may read the claim of the
  next one and send its Waiting after that one failed and reported Locked, and the popup
  goes on asking for a touch (`daemon.rs:569`). Show puts a popup that prompts for a PIN back into its list,
  against `popup.rs:217`. Touch and Use wait on the worker for the mutex that the
  assertion of an unlock holds (`daemon.rs:379`, `state.rs:119`). An answer still on
  its way when the broker drains is taken by the next prompt, answers carrying no
  number (`pin.rs:69`). A Refresh that arrives while the popup is hidden is kept
  (`popup.rs:130`), and EditReady shows a hidden popup whose list was cleared. After a
  failed unlock Enter has no row to act on, though the footer offers it
  (`popup.rs:569`). An edit asked for during an unlock queues a second assertion
  (`state.rs:79`). When a save fails, what was written in the form is gone
  (`popup.rs:421`).
* *Window.* Neither egui's input nor `Shell::input` is cleared when the popup is hidden
  (`popup.rs:582`, `popup.rs:183`), so the Escape that hid it can dismiss the next
  Show, and a key pressed meanwhile acts on its first row. After a PIN or a
  confirmation the search box is not focused again (`popup.rs:25`). A Refresh keeps the
  index of the selection and not the secret. A relock leaves the names on screen until
  the next Show (`popup.rs:17`). Whether Ctrl is held is read when the frame is drawn,
  not when the key came. A click on a row's x and Enter in one frame delete without the
  question having been shown; so does Enter that is pressed after Ctrl+D but before the
  next frame is on screen, since it comes with the frame that paints the question
  (`popup.rs:378`). A frame whose swapchain is outdated returns without
  asking for another (`shell.rs:474`), and only the input of that frame brings one.
* *Delivery.* What was on the clipboard is not put back, though `paste.rs:17` and
  `config.rs:52` say so; the timer clears what another application has copied since, and
  if its clear fails the secret stays (`paste.rs:291`). Saving the token undoes what the user edited since the daemon
  started (`daemon.rs:638`). A session the portal has ended is kept, and every later
  delivery fails without trying the clipboard (`daemon.rs:632`). A copy is reported as
  "Typed." (`daemon.rs:403`). Typing begins a fixed time after the popup was told to
  hide, whatever has the focus by then (`paste.rs:156`).
* *Tracking.* A start that fails after the bus name was claimed may keep a window from
  the script of an earlier daemon for as long as it runs (`kwin.rs:137`, against
  `kwin.rs:107`). A report under way, or overtaken, makes the popup open for the window
  before (`kwin.rs:94`). Of two windows of one browser the first document in the tree
  is read (`url.rs:96`). An application that calls itself "Google Chrome" does not match
  the class `google-chrome`, and no host is found.
* *Search.* `www.com` becomes `com` and so the parent of every `.com`; a domain without
  a scheme but with a URL in its query becomes that URL's host (`domain.rs:74`). On a
  site without a secret, one that is bound to the browser by its application hides all
  others (`fuzzy.rs:138`), though `fuzzy.rs:88` shows everything where nothing matches.
* *Files.* An init that fails after the database was created leaves it, and the next
  init refuses, against `session.rs:121`. A restore while another process saves loses
  what it saved after the snapshot, against `commands.rs:413`, and one that opens the
  vault between the removal of the log and the replacement mixes two databases
  (`commands.rs:423`). A checkpoint that fails, or finds the database busy, goes
  unnoticed, and the archive then misses what the log holds, against `backup.rs:194`.
  adopt reports success with the recovery key of another vault,
  since the session it opens never compares the key (`commands.rs:330`). Two archives of
  one second share a name, which "never collide" (`backup.rs:82`), so a backup may replace
  the copy a restore has just made. A retention of 0
  prunes the backup just made (`config.rs:129`).
* *FIDO.* An error of a silent probe counts as "not enrolled", so a device that refuses
  probes, and is the only one or the only other one connected, is enrolled a second time
  (`fido.rs:330`, against `fido.rs:202`).

The daemon's safety is checked on the build without a PIN because, on the other, no
reassertion succeeds (`Reassert_pin`): a deletion would never be carried out and
`DeleteNeedsItsAssertion` would be empty. What PIN prompts add is checked by
`Daemon_liveness`.

### Bounds

* `Timeout` is in units of time; 2 suffices to have a key that is fresh, ageing and
  expired, 1 where only expiry matters.
* `Asked` names the requests the user of an instance makes; a run asks for those its
  property is about. `MaxRequests` and `MaxEvents` bound the queues by what *starts*
  work: the popup sends only while fewer requests are queued, the worker takes up
  work only while fewer events are queued. Handlers under way always go on.
* Prompts are numbered modulo `Prompts`, which is 1: no property of a run compares
  an answer with its prompt.
* `Daemon_*` use any popup. Two constraints (module `MCDaemon`) drop states that
  differ only in messages under way: events are taken at once (the daemon never
  reads them) and a request is sent when the worker is at its select (nothing else
  reads them). A third has the registration of the shortcut end first of all, since it
  changes only whether there is a hotkey, or whether the worker panics, which to all
  others is as a shutdown. `MaxAnswers` bounds the answers that nobody waits for. For liveness
  the restriction is put on steps, not on states, so that it takes away none of the
  daemon's obligations. That run goes further: the popup asks for a use, a
  deletion (which stands for the three requests that reassert) and an unlock, and an
  answer is sent while a prompt waits for one; events that are not of the lock are sent
  as soon as they are read, since no property of that run tells when; the vault starts
  full; and an unlock takes the first free slot, symmetry being no use for liveness.
* `Files_safety`: two archives kept and three seconds suffice for a prune to drop one
  and for two archives to share a second; one secret, since rows differ only in
  being there; three runs of a sealed object, since at most two are on disk. One of
  the four commands runs at a time, and one other process. `WholeOrNew` does not follow
  what comes after a restore that mixed two databases, nor the archives of a vault that
  init has not finished: the properties excuse the first, and the theorems cover both.
* `Fido_safety`: two devices give every outcome of the choice (none, one, several that
  are new; none, one, both that answer), three credentials one more than the list of
  a vault with a backup key, two processes the overlap of enrollments. A credential
  that is in no list and on no device may be given out again, ids being random.
  Probes fail; `OneFailedProbe` follows one failure at a time to all it leads to, and the
  theorems cover any number.
* `Window_safety`: two secrets, of which one query matches both and the other one, give
  every relation of list, query and selection. `MCWindow` takes requests at once (the
  window never looks at those it sent), drops one of the two lists of one secret, and
  gives forms one id, which nothing compares. `MaxInput` 2 has two keys, or a key and a
  click, in one frame; of arrows and letters it has down, Ctrl+N and Ctrl+D.
* `Delivery_safety`: two of the texts have each kind of character before and after the
  others, the third is not UTF-8. Tokens are numbered modulo
  2, so that the one on disk may be the portal's or the one before it.
* `Lookup_safety`: `MCLookup` has a parent, a sibling and a look-alike of github.com, two
  sites below one public suffix, and two addresses that end alike, each written in a way
  that needs another rule (scheme and capitals, trailing dot, port and www, a login). A
  Firefox, a Chrome whose document is as deep as the walk looks, a terminal and the
  popup. `OneAtATime` explores tracking and saving apart: with an empty vault the windows
  and the daemon do all they can up to the popup's opening; with secrets the daemon is
  tracking a Firefox, and everything is saved, listed, typed and deleted. They meet only
  at the hotkey, whose context is computed in both halves.
* Deadlock is not checked where the daemon may shut down, nor where the instance stops
  it (`Lookup_safety`, `Window_safety`). The runs of sessions and deliveries check it.
* Symmetry is used for safety only.

### Fairness

`OpenFairness`: a handler that can go on does; a thread's assertion ends, since
`request_pin` and the authenticator both time out; the popup drains its channel;
time passes; and the select, which picks among what is ready at random, does not
starve the ticker (strong fairness). Nothing is assumed of the user, of the portal's
answer to the registration, or of a delivery. `UnlockEnds` is about an unlock that
has the mutex: one that only waits for it may, without fairness of the mutex, find
it taken again by deletion after deletion. `IdleRelocks` and `WaitingIsShownNoLonger` are
about a daemon that its user leaves alone from some moment on: there is no other way to
say that a touch does not come again and again. The timer of `IdleRelocks` is the
daemon's (`daemon.rs:292`); the command line has none, and nothing is promised of it.
`Spec` of `Delivery`: the threads that clear the clipboard run to their end, which may be
a failure; nothing is asked of the user, the portal or the worker. `Session` has no
fairness.

## Proofs

`SessionProofs` proves, for any processes, secrets, contents, credentials and keys,
from the named assumptions of `LockState` and `Session` (constants that are
distinct, a positive window) and nothing else:

* `Inductive`: `Spec => []IInv`. `KeysMatchVault` alone is not inductive: an unlock
  judges a key by the list it read before the wait and by the verification blob, so
  the invariant adds that every such list is good and the blob is that of the
  vault's keys. `InvBySession` restates it per session (`SessionGood`), so that the
  step lemma `InvStep` has to look only at the session an action changes.
  `UnlockAdmits` is the central fact: an unlock that passes the verification has the
  vault's own pair of keys.
* `TypeCorrect`, `HeldKeysAreTheVaults`, `SavedSecretsStayReadable`,
  `EnrolledKeysOpen`: the invariants that follow.
* `PlaintextIsGuarded`: the action property, per kind of call.
* `SessionsAreAStore`: `Session` implements `SecretStore`. Beside `IInv` it needs that a
  process in an enrollment holds the key (`EnrollingHoldsKey`). Under the vault's keys
  both blobs of a row open to what was last saved, which maps the rows to the store's
  contents; each call is then Authorise, Revoke, Refuse, Read, ReadAll, Write, Remove or
  Enroll of the store, or changes nothing of it.

`DaemonProofs` proves, for any secrets, unlock threads, timeout and bounds, with or
without a PIN and against a popup that may do anything:

* `Inductive`: `OpenSpec => []DaemonIInv`. `ClaimHasOneOwner` says nothing of the mutex,
  and `OnePromptAtATime` nothing of the claim, which `reassert` does not take; so the
  invariant adds that a thread is between its first and its last call on the
  authenticator exactly while the mutex is its own (`HolderWaits`), and that the thread
  of a reassertion lives only within the handler that waits for it
  (`ReassertsInHandler`).
* `TypeCorrect`, `ClaimIsNeverLost` and `PromptsExclude` follow; `DeletionsAreAsserted` and
  `NothingLeavesLocked` are the action properties, shown of each step.
* Of the composition in `Sypherstore`: `TypesOfBoth` and `HiddenIsBare` by an invariant of
  popup and channels together; `AnyPopupWillDo`, that every step of the popup is one the
  open daemon allows, so that `DaemonWithItsPopup` has the daemon's theorems for the
  daemon as it runs.

`WindowProofs` proves, for any secrets, queries and keyboard and whatever `Rank` makes of a
list (`WindowAssumption`: secrets of that list, and a keyboard that has keys):

* `WindowInductive`: `WindowSpec => []WindowIInv`. The loop acts on a frame made of an
  earlier state, so the properties hold because of where in the loop a mode may change:
  the invariant adds which turns are taken in which mode (`TurnsShowTheirMode`), that
  only a surface with a size has shown a frame (`PaintedOnSurface`), that while rows react
  the frame is of the mode they react in (`RowsOfThisFrame`), and that the
  frame of an Enter that is about to confirm painted the question (`ConfirmationShown`).
* `WindowTypes`, `RowsAreOfTheQuery`, `EnterHasItsRow`, `SurfaceGoesWithPopup` and
  `NewModeIsDrawn` follow; `DeletionsAreConfirmed` is the action property.
* `LoopImplementsPopup`: the loop implements `Popup`, where the user may ask for saves and
  deletions (`{"save", "delete"} \subseteq Asked`). `Popup` bounds what an instance asks
  for by `Asked`; the loop of an instance without them would take a step that `Popup`
  withholds.

`LookupProofs` proves, for any windows, reports under way and scripts left behind, and for
any secrets, queries and matcher whose scores are at least 0 (`FuzzyAssumption`):

* `WindowsAreTracked`: `Spec => []TrackingIInv`. What the daemon kept is right only when
  nothing is under way, while reports come from a script it starts last of all and from
  those that earlier daemons left; so the invariant says what the *last* report under way
  is of, and that none is while no script can speak. `KeptWindowIsTheLast` follows.
* `PopupIsForTheWindow`, under `NamesTellApart`: an accessible application whose name goes
  with a window's class has no windows of another. It speaks of the desktop, no code sees
  to it, and without it `ContextIsOfTheWindow` is false.
* `LookupTypes`, `SiteComesFirst` and `OnlyRelatedAreListed`, under `HostsTellSites`: site by
  site and page by page, a host is filed the same again, only a site has a host, and two
  hosts match as their sites are to each other. That is what `NormalizeHost` and
  `MatchHosts` compute for single texts, and stays with TLC; the theorems carry it through
  saving, editing, ranking and the popup's life to lists of any length. The lemmas on the
  list: the tuples that `sort_by` compares are totally ordered (`PrecedesOrders`), sorting
  gives each secret one place (`Sorts`), and what is retained is listed by score
  (`Ranking`). `MeaningIsScored` relates the score to what the user meant.

`MCLookup` assumes both hypotheses, so that TLC evaluates them for the windows, sites and
pages of the run.

`FilesProofs` proves, for any secrets, retention and clock:

* `FilesInductive`: `Spec => []FilesInv`. `WholeVaultOpens` speaks of the database
  and the sealed files, but a restore may bring back any archive, and a command that
  is half through decides by what it has read; so the invariant says of every image
  that the vault may be made of again (log, file, archives, what a command holds)
  that it is whole (`ImagesWhole`), of each program counter how far the sealed files
  are (`SealGood`) and how far the copy is (`CopyGood`), and what each command may
  rely on at all (`TypeInv`). The lemmas follow those parts: `TypeInvStep`, `SealStep`,
  `WholeStep`, `CopyStep` and `StampStep`, with `OthersKeep` for the steps of the other
  process, which may come between any two of a command.
* `FilesTypeCorrect`, `VaultGoesOnOpening`, `ArchivesAreSnapshots`, `RestoreCanBeUndone`,
  `FailuresLoseNothing` and `ReportedBackupExists`, the properties of the run, with
  checkpoints that fail and restores beside another process. What each excuses is in its
  formula. The assumptions are `FilesAssumption` and `NoneAssumption`: the outer keys
  differ, the retention is one that the configuration allows, and `None` is no value of
  another kind.

`FidoProofs` proves, for any devices, credentials and processes:

* `FidoTypeCorrect`; `UnlockMatchesTheTouch`, a fact about steps from typed states.
* `FidoInductive`: `Spec => []FidoInv`, with probes that fail. `OneKeyPerDevice` is not inductive: what a call writes is the list it read before,
  and what it registers on is a device that was silent some steps ago. So the
  invariant says of each call that its list names a device once, and that a device
  passed as new, if it is still connected and did not fail its probe, holds nothing of
  that list; one that was pulled out has a dead handle and registers nothing. It also shows what the loss of
  one of two overlapping enrollments (`Enroll_overlap`) is good for: a code that merged its
  key into the list as it is by then would enroll one device twice, the mutant
  `AnswerTouchMerging`.
* `NoKeyEnrolledTwice` and `EnrolledKeyIsFound` follow from it.

`DeliveryProofs` proves, for any secrets, tokens and timers, from `DeliveryAssumption`:

* `DeliveryInductive`: `Spec => []DeliveryInv`. `ConsentIsRemembered` speaks of the file
  and the portal, while the token passes through the job and is compared with a
  configuration read long before; so the invariant adds that until there is a Typist the
  file's token is the one the daemon started with, and that between the grant and the
  save the job has the portal's. Types are not inductive alone either: what a press
  sends is a character only because presses are entered within the text. For what
  arrives, it adds which character each key press is of and why Shift is down
  (`ShiftInv`), and how many characters have arrived in each state (`ArrivedInv`).
* `DeliveryTypeCorrect`, `ConsentIsKept` and `ArrivesAsWritten` follow from it. What a text
  arrives as is defined by recursion over its characters (`Strokes`); the facts about it
  are proved for every length by a least character for which they would fail.

The inductive invariants were checked by TLC while they were found; no run repeats
them. Every invariant, action property and refinement of the passing runs is a theorem.
Model-checked only are the liveness properties (`IdleRelocks`, `WorkerComesBack`,
`UnlockEnds`, `WaitingIsShownNoLonger`, `ClipboardEmpties`), since fairness is out of the
prover's reach, and `HostsTellSites`, which is what the host rules of `Search` compute for
given texts.

## Plan

1. Proofs: that the host rules of `Search` only look at a text's tail where they compare
   (`IsParentDomain`, `RegistrableDomain`), as lemmas that hold for every text;
   `LookupTypeOK` without `HostsTellSites`, from the filed form alone.
2. Clamping of configured values; the calendar of backup names.

## Not modelled

* The text of a recovery key (base32 with a checksum), the CBOR encoding, the hex of the
  database, the framing of ciphertexts: conversions with a round trip that the unit
  tests cover, which the modules use as what they are for, a key that opens or does not.
* The contents of the form besides what files a secret: `editor.rs` keeps text fields
  and decides only whether they can be saved, which is a choice in `Window`.
* Drawing, fonts and colours; the Wayland and Vulkan calls, of which `Window` has what
  they may answer.
* Secure memory (locking, zeroing, redaction): properties of memory, not of the state.
* Clamping in `config.rs`, argument parsing, diagnostics (`doctor.rs`), logging and
  installation: pure I/O, or one `min` and `max` per value.
* The portal's handshake for the global shortcut, besides that it succeeds or fails; a
  restart of KWin, which drops the script without telling the daemon.
* The TPM's own handles and templates.
