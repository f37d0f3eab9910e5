--------------------------------- MODULE Lookup ---------------------------------
(***************************************************************************)
(* From the site a secret is filed under to the list the popup opens with. *)
(* Secrets are saved by the popup's form or the command line under a host  *)
(* the user writes in any way; at the hotkey the context is detected, as   *)
(* Tracking says, and the list is ranked and filtered, as Search says.     *)
(* What the vault encrypts, and the popup's other states, are in Session   *)
(* and Window; here the vault is its metadata.                             *)
(***************************************************************************)
EXTENDS Tracking

CONSTANTS
    Ids, Names,
    Texts,              \* what the command line is given for a secret, besides ids
    StartsWith(_, _),   \* whether an id starts with a text
    Applications,       \* what users write for an application, <<>> for none
    Sites,              \* what users mean by a domain
    Typed(_),           \* the ways they write a site
    SiteOf(_),          \* of a page
    NoSite,
    Closeness(_, _),    \* reference: how a secret's site relates to a page's
    Queries,
    Times

ASSUME LookupAssumption ==
    /\ NoSite \notin Sites
    /\ Names \subseteq Nat /\ Times \subseteq Nat
    /\ Applications \subseteq Seq(STRING)

VARIABLES
    vault,          \* the secrets' metadata, in the order listed
    popup           \* what the popup lists, and for which page

vars == <<trackingVars, vault, popup>>

\* History: the hotkey answered, the window whose document was read, its page.
Origin == [asked : Asked, source : Windows \cup {NoWindow}, page : Pages \cup {NoPage}]

Nowhere == [asked |-> [window |-> NoWindow, last |-> NoWindow, sure |-> FALSE],
            source |-> NoWindow, page |-> NoPage]

Closed == [open |-> FALSE, context |-> [host |-> NoHost, application |-> <<>>],
           secrets |-> <<>>, query |-> NoQuery, rows |-> <<>>, origin |-> Nowhere]

UsedIds == {vault[i].id : i \in DOMAIN vault}

\* normalize_host(..).unwrap_or_default()
OrEmpty(host) == IF host = NoHost THEN <<>> ELSE host

Filed(text) == OrEmpty(NormalizeHost(text))

Writings == {[site |-> NoSite, text |-> <<>>]}
                \cup UNION {{[site |-> s, text |-> t] : t \in Typed(s)} : s \in Sites}

\* What a query is matched with.
Fields ==
    {<<"name", n>> : n \in Names} \cup {<<"domain", Filed(w.text)>> : w \in Writings}
        \cup {<<"application", a>> : a \in Applications}

ASSUME FuzzyAssumption ==
    \A field \in Fields, query \in Queries : Fuzzy(field, query) \in Nat \cup {NoMatch}

---------------------------------------------------------------------------
\* `site` is what the user meant: history, no code reads it.
\* Editor::build, from a new form or one filled from a secret.
Built(id, name, written, application, now) ==
    [id |-> id, name |-> name, domain |-> Filed(written.text),
     application |-> application, updated |-> now, site |-> written.site]

AddByForm(id, name, written, application, now) ==
    /\ id \notin UsedIds
    /\ Listening
    /\ vault' = Append(vault, Built(id, name, written, application, now))
    /\ UNCHANGED <<trackingVars, popup>>

AddByCommand(id, name, written, application, now) ==
    /\ id \notin UsedIds
    /\ vault' = Append(vault, [id |-> id, name |-> name, domain |-> Filed(written.text),
                               application |-> application, updated |-> now,
                               site |-> written.site])
    /\ UNCHANGED <<trackingVars, popup>>

\* A save that adds whether or not the secret is new.
EditAdds(i, name, now) ==
    /\ i \in DOMAIN vault
    /\ Listening
    /\ Len(vault) < Cardinality(Ids)
    /\ vault' = Append(vault, Built(vault[i].id, name,
                                   [site |-> vault[i].site, text |-> vault[i].domain],
                                   vault[i].application, now))
    /\ UNCHANGED <<trackingVars, popup>>

\* The form opens with the domain as filed, and files it again.
Edit(i, name, now) ==
    /\ i \in DOMAIN vault
    /\ Listening
    /\ vault' = [vault EXCEPT ![i] =
                    Built(@.id, name, [site |-> @.site, text |-> @.domain],
                          @.application, now)]
    /\ UNCHANGED <<trackingVars, popup>>

\* An id names one secret; a text those of that name or, for want of one, those
\* whose id starts with it.
Targets(target) ==
    LET all == DOMAIN vault
        byId == {i \in all : vault[i].id = target}
        byName == {i \in all : vault[i].name = target}
        byPrefix == {i \in all : StartsWith(vault[i].id, target)}
    IN IF target \in Ids THEN byId ELSE IF byName # {} THEN byName ELSE byPrefix

DeleteByCommand(target) ==
    /\ Cardinality(Targets(target)) = 1
    /\ vault' = RemoveAt(vault, CHOOSE i \in Targets(target) : TRUE)
    /\ UNCHANGED <<trackingVars, popup>>

---------------------------------------------------------------------------
\* DaemonEvent::Show: a fresh query.
Opened(hotkey, source, context, secrets) ==
    [open |-> TRUE, context |-> context, secrets |-> secrets, query |-> NoQuery,
     rows |-> Rank(secrets, NoQuery, context),
     origin |-> [asked |-> hotkey, source |-> source, page |-> PageOf(source)]]

\* `source` is the window whose URL was read.
ShowPopup(hotkey, source, secrets) ==
    popup' = Opened(hotkey, source,
                    [host |-> HostOf(PageOf(source)),
                     application |-> IF hotkey.window = NoWindow THEN <<>>
                                     ELSE AppName(hotkey.window)],
                    secrets)

\* The list is empty while the vault is locked.
Listed(unlocked) == IF unlocked THEN vault ELSE <<>>

HotkeyAtOnce(unlocked) ==
    /\ DetectAtOnce
    /\ ShowPopup(Found, NoWindow, Listed(unlocked))
    /\ UNCHANGED vault

HotkeyInBrowser ==
    /\ AskBrowser
    /\ UNCHANGED <<vault, popup>>

UrlFound(mute, unlocked) ==
    /\ Answered
    /\ ShowPopup(asked, FindDocument(AppName(asked.window), mute), Listed(unlocked))
    /\ UNCHANGED vault

UrlTimesOut(unlocked) ==
    /\ Answered
    /\ ShowPopup(asked, NoWindow, Listed(unlocked))
    /\ UNCHANGED vault

\* After an unlock, a save or a deletion.
Refresh ==
    /\ start # "down"
    /\ popup' = [popup EXCEPT !.secrets = vault,
                              !.rows = Rank(vault, popup.query, popup.context)]
    /\ UNCHANGED <<trackingVars, vault>>

Type(query) ==
    /\ popup.open
    /\ popup' = [popup EXCEPT !.query = query,
                              !.rows = Rank(popup.secrets, query, popup.context)]
    /\ UNCHANGED <<trackingVars, vault>>

\* The list goes with the window; the context stays.
Hide ==
    /\ popup.open
    /\ popup' = [Closed EXCEPT !.context = popup.context]
    /\ UNCHANGED <<trackingVars, vault>>

---------------------------------------------------------------------------
Init ==
    /\ TrackingInit
    /\ vault = <<>>
    /\ popup = Closed

\* The popup dies with the daemon.
Desktop ==
    /\ TrackingNext
    /\ popup' = IF start' = "down" THEN Closed ELSE popup
    /\ UNCHANGED vault

Save ==
    \E name \in Names, now \in Times :
        \/ \E id \in Ids, written \in Writings, application \in Applications :
               \/ AddByForm(id, name, written, application, now)
               \/ AddByCommand(id, name, written, application, now)
        \/ \E i \in 1 .. Cardinality(Ids) : Edit(i, name, now)

Next ==
    \/ Desktop
    \/ Save
    \/ \E target \in Ids \cup Texts : DeleteByCommand(target)
    \/ \E unlocked \in BOOLEAN :
           \/ HotkeyAtOnce(unlocked)
           \/ \E mute \in SUBSET {w \in Shown : pages[w] # NoPage} : UrlFound(mute, unlocked)
           \/ UrlTimesOut(unlocked)
    \/ HotkeyInBrowser
    \/ Refresh
    \/ \E query \in Queries : Type(query)
    \/ Hide

Spec == Init /\ [][Next]_vars

---------------------------------------------------------------------------
LookupTypeOK ==
    /\ TrackingTypeOK
    /\ \A i \in DOMAIN vault :
           /\ vault[i].id \in Ids /\ vault[i].name \in Names
           /\ vault[i].domain = <<>> \/ vault[i].domain = NormalizeHost(vault[i].domain)
           /\ vault[i].application \in Applications
           /\ vault[i].updated \in Times
           /\ vault[i].site \in Sites \cup {NoSite}
    /\ Cardinality(UsedIds) = Len(vault)
    /\ popup.origin \in Origin
    /\ ToSet(popup.rows) \subseteq ToSet(popup.secrets)

\* Of the desktop, and of no code: an accessible application whose name goes
\* with a window's class has no windows of another.
NamesTellApart ==
    \A w \in Shown, n \in DOMAIN Registry :
        HasName(Registry[n], AppName(w)) =>
            \A k \in DOMAIN Registry[n].windows : Class[Registry[n].windows[k]] = Class[w]

\* Of the sites and pages, host by host: a host is filed the same again, only a
\* site has a host, and two hosts match as their sites are to each other.
HostsTellSites ==
    /\ \A w \in Writings : Filed(Filed(w.text)) = Filed(w.text)
    /\ \A page \in Pages \cup {NoPage} :
           /\ HostOf(page) = NoHost <=> SiteOf(page) = NoSite
           /\ \A w \in Writings :
                  HostScore(Filed(w.text), HostOf(page)) =
                      IF NoSite \in {SiteOf(page), w.site} THEN Unrelated
                                                         ELSE Closeness(w.site, SiteOf(page))

(***************************************************************************)
(* The list is made for where the user was: with this daemon's script      *)
(* running and its reports handled in order, the application is that of    *)
(* the last window that was not the popup, and a URL was read from a       *)
(* window of that application, whatever other browsers show                *)
(* (active_window.js, kwin.rs, daemon.rs detect_context, url.rs find_url). *)
(***************************************************************************)
ContextIsOfTheWindow ==
    LET hotkey == popup.origin.asked
        source == popup.origin.source
    IN popup.open /\ hotkey.sure =>
           /\ hotkey.last # NoWindow
           /\ popup.context.application = AppName(hotkey.last)
           /\ source # NoWindow => Class[source] = Class[hotkey.last]

\* Reference: how much a secret has to do with what the popup was opened over.
Meant(secret) ==
    LET site == SiteOf(popup.origin.page)
        bySite == IF NoSite \in {site, secret.site} THEN Unrelated
                  ELSE Closeness(secret.site, site)
        byApplication == /\ secret.application # <<>>
                         /\ Lower(secret.application) = popup.context.application
    IN IF bySite = Unrelated /\ byApplication THEN Registrable ELSE bySite

IsFound(secret) == FuzzyScore(secret, popup.query) # NoMatch

OnSite == popup.open /\ SiteOf(popup.origin.page) # NoSite

(***************************************************************************)
(* In whichever of the ways in Typed the user wrote a site, and in         *)
(* whichever the browser shows it, a secret of that site, of a parent or   *)
(* of a sibling that the query finds is listed, and the closer comes first *)
(* whatever the query prefers (domain.rs, fuzzy.rs rank, editor.rs build). *)
(***************************************************************************)
SiteIsOffered ==
    OnSite =>
        /\ \A secret \in ToSet(popup.secrets) :
               Meant(secret) # Unrelated /\ IsFound(secret) => secret \in ToSet(popup.rows)
        /\ \A i, j \in DOMAIN popup.rows :
               i < j => Meant(popup.rows[i]) >= Meant(popup.rows[j])

(***************************************************************************)
(* On a page with a site, the list is what the query finds that has to do  *)
(* with the page, and no secret of another owner, however alike the names; *)
(* only if that is nothing it is all that the query finds, as it is over   *)
(* any other window.  A secret bound to the browser by its application has *)
(* to do with every page: on a site without a secret it alone hides the    *)
(* rest (fuzzy.rs:138-139), where fuzzy.rs:88-92 would show everything,    *)
(* as nothing matches the host.                                            *)
(***************************************************************************)
OnlyRelatedAreOffered ==
    LET found == {s \in ToSet(popup.secrets) : IsFound(s)}
        related == {s \in found : Meant(s) # Unrelated}
    IN popup.open =>
           ToSet(popup.rows) = IF OnSite /\ related # {} THEN related ELSE found
=================================================================================
