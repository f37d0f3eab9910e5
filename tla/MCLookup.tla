-------------------------------- MODULE MCLookup --------------------------------
(***************************************************************************)
(* A small instance of Lookup: a Firefox, a Chrome, a terminal and the     *)
(* popup; sites that are parents, siblings and look-alikes of one another; *)
(* one way of writing each that needs another rule; ids that start alike.  *)
(***************************************************************************)
EXTENDS Lookup

CONSTANTS firefox, chrome, konsole, sypherstore, blank, s1, s2

MCWindows == {firefox, chrome, konsole, sypherstore}

MCClass == firefox :> <<"Firefox">> @@ chrome :> <<"Google", "-", "Chrome">>
           @@ konsole :> <<"org", ".", "kde", ".", "Konsole">>
           @@ sypherstore :> <<"sypherstore">>

MCBrowsers == {"firefox", "chrome"}

MCRegistry == <<[name |-> <<"Konsole">>, windows |-> <<konsole>>],
                [name |-> <<"Chrome">>, windows |-> <<chrome>>],
                [name |-> <<"Firefox">>, windows |-> <<firefox>>]>>

\* Chrome's document is as deep as the walk looks.
MCNesting == [w \in MCWindows |-> IF w = chrome THEN 5 ELSE 2]

MCLowerCase == "GitHub" :> "github" @@ "Firefox" :> "firefox" @@ "Chrome" :> "chrome"
               @@ "Google" :> "google" @@ "Konsole" :> "konsole" @@ "HTTPS" :> "https"
               @@ "About" :> "about"

MCHostless == {<<"about">>}

MCPublicSuffixes == {<<"com">>, <<"uk">>, <<"co", ".", "uk">>}

---------------------------------------------------------------------------
\* Sites by their labels, and who owns them.
Labels ==
    "github" :> <<"github", "com">> @@ "api" :> <<"api", "github", "com">>
    @@ "notgithub" :> <<"notgithub", "com">>
    @@ "bbc" :> <<"bbc", "co", "uk">> @@ "itv" :> <<"itv", "co", "uk">>
    @@ "router" :> <<"10", "0", "0", "1">> @@ "printer" :> <<"10", "1", "0", "1">>

Owner == [site \in DOMAIN Labels |-> IF site = "api" THEN "github" ELSE site]

MCSites == DOMAIN Labels

MCCloseness(secret, page) ==
    CASE secret = page -> Exact
      [] IsStrictSuffix(Labels[secret], Labels[page]) -> Parent
      [] OTHER -> IF Owner[secret] = Owner[page] THEN Registrable ELSE Unrelated

Pieces(label) == IF label = "notgithub" THEN <<"not", "github">> ELSE <<label>>

HostText(site) ==
    LET labels == Labels[site]
    IN FlattenSeq([n \in DOMAIN labels |->
                      (IF n = 1 THEN <<>> ELSE <<".">>) \o Pieces(labels[n])])

MCAddresses == {HostText("router"), HostText("printer")}

https == <<"https", ":", "/", "/">>

MCTyped(site) ==
    CASE site = "github" -> {<<"HTTPS", ":", "/", "/", "www", ".", "GitHub", ".", "com", "/",
                               "login">>}
      [] site = "api" -> {HostText(site)}
      [] site = "notgithub" -> {HostText(site) \o <<".">>}
      [] site = "bbc" -> {<<"www", ".">> \o HostText(site) \o <<":", "8443">>}
      [] site = "router" -> {<<"user", ":", "p", "@", "s", "@">> \o HostText(site)}
      [] OTHER -> {}

MCPages == {"github", "api", "notgithub", "itv", "printer", blank}

MCSiteOf(page) == IF page \in MCPages \ {blank} THEN page ELSE NoSite

MCUrl(page) ==
    CASE page = blank -> <<"About", ":", "blank">>
      [] page = "api" -> https \o <<"user", ":", "p", "@">> \o HostText(page) \o <<":", "8443", "/">>
      [] page = "notgithub" -> https \o HostText(page) \o <<".", "/", "u", "@", "x", "#", "f">>
      [] page = "itv" -> https \o <<"www", ".">> \o HostText(page)
      [] OTHER -> https \o HostText(page) \o <<"/", "go", "?", "to", "=">> \o https

MCApplications == {<<>>, <<"Firefox">>}

\* The query prefers github.com to what is below it, and finds nothing of others.
MCFuzzy(field, query) ==
    IF field[1] = "domain" /\ Contains(field[2], "github")
    THEN IF Contains(field[2], "api") THEN 3 ELSE 9
    ELSE NoMatch

MCStartsWith(id, text) == text = 2

ASSUME NamesTellApart /\ HostsTellSites

Symmetry == Permutations(Ids)

(***************************************************************************)
(* Tracking and saving meet only at the hotkey.  Without secrets the       *)
(* windows and the daemon do all they can, up to the popup's opening; with *)
(* secrets they are calm.  The properties read the list the popup holds,   *)
(* so a list older than the vault adds nothing to the vault it was; nor    *)
(* does a page that changes behind the popup, or the host the popup keeps  *)
(* when it is dismissed, which Show replaces.  No window is active only before  *)
(* the first one: after it, that is to the script as the popup is.         *)
(***************************************************************************)
Calm ==
    /\ start = "ready" /\ left = 0 /\ reports = <<>> /\ ~overtaken
    /\ active = firefox /\ cache = firefox
    /\ \A w \in Windows \ {firefox} : pages[w] = NoPage

OneAtATime ==
    \/ /\ vault = <<>>
       /\ popup = Closed \/ popup.open
       /\ active = NoWindow => last = NoWindow
       /\ \A w \in Windows : pages[w] \in {NoPage, "github"}
    \/ /\ Calm
       /\ popup.secrets \in {<<>>, vault}
       /\ popup = Closed \/ (asked = Idle /\ (popup.open \/ popup.context.host = NoHost))
       /\ popup.origin.page \in {NoPage, pages[firefox]}

ReducedSpec ==
    Init /\ [][(vault = <<>> => ~popup.open) /\ Next /\ OneAtATime']_vars
=================================================================================
