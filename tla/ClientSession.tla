--------------------------- MODULE ClientSession ---------------------------
(***************************************************************************)
(* Sign-in and sign-out of the wallet's web client, in the tabs of one     *)
(* browser.  A tab keeps its user in its session storage; the tabs share   *)
(* the local storage, where a sign-in that is under way has its state, and *)
(* the cookies of the identity server, whose login and logout pages are    *)
(* those of AccountController and ExternalController.  A request carries   *)
(* the cookies of the moment it is sent; those its answer sets count from  *)
(* the moment it arrives, and other tabs go on in between.  The rest of    *)
(* the protocol is the library's (oidc-client, IdentityServer4).           *)
(***************************************************************************)

CONSTANTS
    Tabs,           \* the browser's tabs
    Watched,        \* those whose navigations are known to come to an end
    Users,          \* who may log in
    ExternalUsers,  \* those who do so through the external provider
    None            \* nobody, or nothing

VARIABLES
    page,       \* what each tab shows
    stored,     \* the user in the session storage of each tab, or None
    signins,    \* the tabs whose sign-in request has its state in local storage
    cookie,     \* who is logged in at the identity server, or None
    external    \* the external cookie: who came back from the provider, for whose request

vars == <<page, stored, signins, cookie, external>>

(* The client's own pages, "stuck" being a callback that will load for     *)
(* ever; then a tab on its way through the identity server.                *)
Client == {"home", "private", "stuck"}
Places == Client \cup {"authorize", "login", "form", "signingIn", "denied", "provider", "returned",
                       "returning", "failed", "callback", "exchange", "ending", "logout", "prompt",
                       "signingOut", "loggedOut"}

(* The access token of a user, as good as new or expired. *)
Token == [user : Users, fresh : BOOLEAN]

(* A user authenticated by the provider, and the request to go on with. *)
External == [user : ExternalUsers, request : Tabs]

ASSUME ExternalAssumption == ExternalUsers \subseteq Users

ASSUME WatchedAssumption == Watched \subseteq Tabs

ASSUME NoneIsNothing == None \notin Users \cup Token \cup Tabs \cup External

(* A page: the tab whose sign-in request it goes on with; whom its form,   *)
(* its code or its sign-out is about; history: whether somebody else       *)
(* logged in since its request was accepted; whose tokens it has sent for; *)
(* whose token its pending call bears; whose data it shows.                *)
Page == [at : Places, request : Tabs \cup {None}, user : Users \cup {None}, overtaken : BOOLEAN,
         awaits : Users \cup {None}, bearer : Users \cup {None}, shows : Users \cup {None}]

(* Mutant: a page keeps the data of the page before. *)
NewPageShowsOn(t, at, request, user) ==
    [at |-> at, request |-> request, user |-> user, overtaken |-> FALSE,
     awaits |-> None, bearer |-> None, shows |-> page[t].shows]

NewPage(t, at, request, user) ==
    [at |-> at, request |-> request, user |-> user, overtaken |-> FALSE,
     awaits |-> None, bearer |-> None, shows |-> None]

Goto(t, at, request, user) == page' = [page EXCEPT ![t] = NewPage(t, at, request, user)]

(* The next page about the same request and the same user. *)
GoOn(t, at) == Goto(t, at, page[t].request, page[t].user)

Init ==
    /\ page = [t \in Tabs |-> [at |-> "home", request |-> None, user |-> None, overtaken |-> FALSE,
                               awaits |-> None, bearer |-> None, shows |-> None]]
    /\ stored = [t \in Tabs |-> None]
    /\ signins = {}
    /\ cookie = None
    /\ external = None

-----------------------------------------------------------------------------
(* Signing in. *)

isAuthenticated(t) == stored[t] # None

(* The state of a new request replaces that of the tab's last one. *)
signinRedirect(t) ==
    /\ signins' = signins \cup {t}
    /\ Goto(t, "authorize", t, None)

OpenHome(t) == Goto(t, "home", None, None) /\ UNCHANGED <<stored, signins, cookie, external>>

SignIn(t) == page[t].at = "home" /\ signinRedirect(t) /\ UNCHANGED <<stored, cookie, external>>

(* Mutant: the private pages are there for everybody. *)
OpenToAll(t) == Goto(t, "private", None, None) /\ UNCHANGED <<stored, signins, cookie, external>>

(* PrivateRoute, which looks whether there is a token, not how old it is.  *)
OpenPrivate(t) ==
    /\ IF isAuthenticated(t)
       THEN Goto(t, "private", None, None) /\ UNCHANGED signins
       ELSE signinRedirect(t)
    /\ UNCHANGED <<stored, cookie, external>>

(* The authorize endpoint: a code for whom the cookie names, or the login  *)
(* page.                                                                   *)
Authorize(t) ==
    /\ page[t].at = "authorize"
    /\ IF cookie = None THEN GoOn(t, "login") ELSE Goto(t, "callback", page[t].request, cookie)
    /\ UNCHANGED <<stored, signins, cookie, external>>

(* The login page, its form made out to whom the cookie names by now. *)
LoginForm(t) ==
    /\ page[t].at = "login"
    /\ Goto(t, "form", page[t].request, cookie)
    /\ UNCHANGED <<stored, signins, cookie, external>>

(* Mutant: any form will do. *)
AnyFormHolds(t) == TRUE

(* ValidateAntiForgeryToken: a form holds for whom it was made out to.     *)
FormHolds(t) == cookie = page[t].user

(* A password is accepted if anybody has one. *)
Login(t) ==
    /\ page[t].at = "form" /\ FormHolds(t) /\ Users # ExternalUsers
    /\ GoOn(t, "signingIn")
    /\ UNCHANGED <<stored, signins, cookie, external>>

(* What the server has accepted and the browser not yet heard of. *)
Accepted == {"signingIn", "logout", "signingOut"}

(* The answer sets the cookie and sends the tab back to the authorize      *)
(* endpoint; another tab may log out before it gets there.                 *)
LoggedIn(t, user) ==
    /\ cookie' = user
    /\ page' = [s \in Tabs |->
                  IF s = t THEN NewPage(t, "authorize", page[t].request, None)
                  ELSE [page[s] EXCEPT !.overtaken = @ \/ (page[s].at \in Accepted /\ user # cookie)]]
    /\ UNCHANGED <<stored, signins>>

SignedIn(t) ==
    /\ page[t].at = "signingIn"
    /\ \E user \in Users \ ExternalUsers : LoggedIn(t, user)
    /\ UNCHANGED external

CancelLogin(t) ==
    /\ page[t].at = "form" /\ FormHolds(t)
    /\ GoOn(t, "denied")
    /\ UNCHANGED <<stored, signins, cookie, external>>

(* The authorize endpoint calls the client back with an error, or with a   *)
(* code all the same if another tab has logged in; a denial of somebody    *)
(* who has logged out since is not found.                                  *)
Denied(t) ==
    /\ page[t].at = "denied"
    /\ IF cookie = None /\ page[t].user # None
       THEN Goto(t, "login", page[t].request, None)
       ELSE Goto(t, "callback", page[t].request, cookie)
    /\ UNCHANGED <<stored, signins, cookie, external>>

(* ExternalController.Challenge, a link of the login page. *)
Challenge(t) ==
    /\ page[t].at = "form"
    /\ Goto(t, "provider", page[t].request, None)
    /\ UNCHANGED <<stored, signins, cookie, external>>

(* The provider sends the user back, in a cookie that all tabs share. *)
ComeBack(t) ==
    /\ page[t].at = "provider"
    /\ \E user \in ExternalUsers : external' = [user |-> user, request |-> page[t].request]
    /\ Goto(t, "returned", None, None)
    /\ UNCHANGED <<stored, signins, cookie>>

(* ExternalController.Callback takes the user and the request from that    *)
(* cookie, whichever tab it came from, and throws if there is none.        *)
Callback(t) ==
    /\ page[t].at = "returned"
    /\ IF external = None THEN Goto(t, "failed", None, None)
                          ELSE Goto(t, "returning", external.request, external.user)
    /\ UNCHANGED <<stored, signins, cookie, external>>

ExternalSignedIn(t) ==
    /\ page[t].at = "returning"
    /\ LoggedIn(t, page[t].user)
    /\ external' = None

(* signinRedirectCallback takes the state of the request and sends for the *)
(* tokens; without a state, or with an error, the catch leaves the page    *)
(* loading.                                                                *)
signinRedirectCallback(t) ==
    /\ page[t].at = "callback"
    /\ signins' = signins \ {page[t].request}
    /\ IF page[t].request \in signins /\ page[t].user # None
       THEN page' = [page EXCEPT ![t] = [NewPage(t, "exchange", None, None) EXCEPT !.awaits = page[t].user]]
       ELSE Goto(t, "stuck", None, None)
    /\ UNCHANGED <<stored, cookie, external>>

(* The user is stored and loaded, and navigateToScreen replaces the page.  *)
(* If the tab is on its way out by now, either navigation may overtake the *)
(* other.                                                                  *)
UserLoaded(t) ==
    /\ page[t].awaits # None
    /\ stored' = [stored EXCEPT ![t] = [user |-> page[t].awaits, fresh |-> TRUE]]
    /\ \/ Goto(t, "private", None, None)
       \/ page[t].at = "ending" /\ page' = [page EXCEPT ![t].awaits = None]
    /\ UNCHANGED <<signins, cookie, external>>

(* Mutant: a sign-in that fails is tried once more. *)
ExchangeRetries(t) ==
    page[t].at = "exchange" /\ signinRedirect(t) /\ UNCHANGED <<stored, cookie, external>>

(* The tokens do not come, or the callback is loaded once more, without    *)
(* the state that is gone.                                                 *)
ExchangeFails(t) ==
    /\ page[t].at = "exchange"
    /\ Goto(t, "stuck", None, None)
    /\ UNCHANGED <<stored, signins, cookie, external>>

-----------------------------------------------------------------------------
(* Calls of the API. *)

(* The interceptor looks the token up for each call. *)
Bearer(t) == IF stored[t] = None THEN None ELSE stored[t].user

Call(t) ==
    /\ page[t].at = "private" /\ page[t].bearer = None
    /\ page' = [page EXCEPT ![t].bearer = Bearer(t)]
    /\ UNCHANGED <<stored, signins, cookie, external>>

(* The API answers the bearer of a token it accepts, with the bearer's     *)
(* accounts; a refusal changes nothing the page shows.                     *)
Answer(t) ==
    /\ page[t].bearer # None
    /\ \E data \in {page[t].bearer, page[t].shows} :
           page' = [page EXCEPT ![t].bearer = None, ![t].shows = data]
    /\ UNCHANGED <<stored, signins, cookie, external>>

-----------------------------------------------------------------------------
(* Signing out. *)

Expire(t) ==
    /\ stored[t] # None /\ stored[t].fresh
    /\ stored' = [stored EXCEPT ![t].fresh = FALSE]
    /\ UNCHANGED <<page, signins, cookie, external>>

(* signoutRedirect removes the user before it leaves the page, and names   *)
(* the user in the request it leaves with; clearStaleState drops the state *)
(* of sign-ins that have been waiting for long, of whichever tab.          *)
Removed(t) ==
    /\ stored' = [stored EXCEPT ![t] = None]
    /\ signins' \in SUBSET signins
    /\ UNCHANGED <<cookie, external>>

Logout(t) ==
    /\ page' = [page EXCEPT ![t].at = "ending", ![t].request = None, ![t].user = Bearer(t)]
    /\ Removed(t)

SignOut(t) == page[t].at = "private" /\ Logout(t)

(* The route /logout. *)
OpenLogout(t) == Goto(t, "ending", None, Bearer(t)) /\ Removed(t)

(* Mutant: an expired token is taken note of and left. *)
IgnoreExpired(t) == FALSE

Expired(t) == stored[t] # None /\ ~stored[t].fresh

(* The page runs on until it is left: a late answer may still be shown,    *)
(* and the tokens it has sent for may come after the old one is removed.   *)
AccessTokenExpired(t) ==
    page[t].at \in Client \cup {"exchange", "ending"} /\ Expired(t) /\ Logout(t)

(* Two user managers watch a private page, that of AuthProvider and that   *)
(* of SideMenu; the second to see the token expire finds no user any more  *)
(* and signs out as nobody.                                                *)
ExpiredAgain(t) ==
    page[t].at = "ending" /\ page[t].user # None /\ ~isAuthenticated(t) /\ Logout(t)

(* The end session endpoint goes by whom the request names, unless         *)
(* somebody else is logged in.                                             *)
EndSession(t) ==
    /\ page[t].at = "ending"
    /\ Goto(t, "logout", None, IF cookie \in {None, page[t].user} THEN page[t].user ELSE None)
    /\ UNCHANGED <<stored, signins, cookie, external>>

(* Mutant: nobody is asked. *)
LogoutAtOnce(t) ==
    /\ page[t].at = "logout"
    /\ page' = [page EXCEPT ![t].at = "signingOut"]
    /\ UNCHANGED <<stored, signins, cookie, external>>

(* AccountController.Logout asks first unless the request went by a name.  *)
LogoutPage(t) ==
    /\ page[t].at = "logout"
    /\ IF cookie = None THEN Goto(t, "loggedOut", None, None)
       ELSE IF page[t].user # None THEN page' = [page EXCEPT ![t].at = "signingOut"]
       ELSE Goto(t, "prompt", None, cookie)
    /\ UNCHANGED <<stored, signins, cookie, external>>

ConfirmLogout(t) ==
    /\ page[t].at = "prompt" /\ FormHolds(t)
    /\ GoOn(t, "signingOut")
    /\ UNCHANGED <<stored, signins, cookie, external>>

SignedOut(t) ==
    /\ page[t].at = "signingOut"
    /\ cookie' = None
    /\ Goto(t, "loggedOut", None, None)
    /\ UNCHANGED <<stored, signins, external>>

(* The route /logout/callback, which no page leads to unless the server is *)
(* told of it: the local storage is cleared, whichever tab wrote into it.  *)
signoutRedirectCallback(t) ==
    /\ signins' = {}
    /\ Goto(t, "home", None, None)
    /\ UNCHANGED <<stored, cookie, external>>

-----------------------------------------------------------------------------
(* What the user does, and what happens without anybody doing anything.    *)
User(t) ==
    \/ OpenHome(t) \/ OpenPrivate(t) \/ OpenLogout(t)
    \/ SignIn(t) \/ Login(t) \/ CancelLogin(t) \/ Challenge(t) \/ ComeBack(t)
    \/ SignOut(t) \/ ConfirmLogout(t) \/ signoutRedirectCallback(t)

(* A navigation and a request come to an end. *)
Redirects(t) ==
    \/ Authorize(t) \/ LoginForm(t) \/ SignedIn(t) \/ Denied(t) \/ Callback(t) \/ ExternalSignedIn(t)
    \/ signinRedirectCallback(t) \/ UserLoaded(t) \/ ExchangeFails(t)
    \/ EndSession(t) \/ LogoutPage(t) \/ SignedOut(t)

Happens(t) ==
    \/ Redirects(t) \/ AccessTokenExpired(t) \/ ExpiredAgain(t)
    \/ Call(t) \/ Answer(t) \/ Expire(t)

Next == \E t \in Tabs : User(t) \/ Happens(t)

Spec == Init /\ [][Next]_vars

(* Navigations come to an end and the timer of a token goes off, in these  *)
(* tabs at least.                                                          *)
FairSpec == Spec /\ \A t \in Watched : WF_vars(Redirects(t) \/ AccessTokenExpired(t))

-----------------------------------------------------------------------------
TypeOK ==
    /\ page \in [Tabs -> Page]
    /\ stored \in [Tabs -> Token \cup {None}]
    /\ signins \subseteq Tabs
    /\ cookie \in Users \cup {None}
    /\ external \in External \cup {None}

(* Nobody is on a private page without a token, and tokens come only to    *)
(* the page that has sent for them, be it on its way out by now.           *)
TokensAreWhereTheyBelong ==
    \A t \in Tabs :
        /\ page[t].at = "private" => stored[t] # None
        /\ page[t].awaits # None => page[t].at \in {"exchange", "ending"}
        /\ page[t].at = "exchange" => page[t].awaits # None
        /\ page[t].at = "returning" => page[t].user # None

(* What a page asked for, and what it shows, is its user's: that of the    *)
(* token in the tab, or of the token it has just let go.                   *)
PagesHaveOneUser ==
    \A t \in Tabs : \A u \in {page[t].bearer, page[t].shows} \ {None} :
        \/ page[t].at = "private" /\ u = stored[t].user
        \/ page[t].at = "ending"

(* A request that goes on with a request has one of a tab's.               *)
RequestsAreTabs ==
    \A t \in Tabs :
        page[t].at \in {"authorize", "login", "form", "signingIn", "denied", "provider", "returning"} =>
            page[t].request # None

(* What the server has accepted it has accepted of whom the cookie names,  *)
(* or of nobody but those who have logged in since.                        *)
AcceptedInTime ==
    \A t \in Tabs :
        page[t].at \in Accepted /\ ~page[t].overtaken =>
            cookie \in {None, page[t].user} \/ (page[t].at = "logout" /\ page[t].user = None)

SessionInv ==
    TypeOK /\ TokensAreWhereTheyBelong /\ PagesHaveOneUser /\ RequestsAreTabs /\ AcceptedInTime
-----------------------------------------------------------------------------
(* However sign-ins, late answers, expiries and sign-outs in several tabs  *)
(* mix, a tab shows the data of the user whose token it holds, unless it   *)
(* is on its way out (the interceptor of oauth.js, UserLoaded and logout   *)
(* of authService.js).                                                     *)
ShowsItsUsersData ==
    \A t \in Tabs : page[t].shows # None => page[t].at = "ending" \/ page[t].shows = Bearer(t)

(* No form and no sign-out of a tab, however old, ends the session of      *)
(* somebody else: it names, or was made out to, whoever is logged in, or   *)
(* it had been accepted when they logged in and is answered late.  Only    *)
(* those who come back from the provider replace anybody (the cookie       *)
(* belongs to all tabs; AccountController.Login and Logout).               *)
NobodyElseIsLoggedOut ==
    [][cookie # None /\ cookie' # cookie =>
           \E t \in Tabs :
               /\ page'[t].at # page[t].at
               /\ \/ page[t].at \in {"signingIn", "signingOut"} /\ (page[t].user = cookie \/ page[t].overtaken)
                  \/ page[t].at = "returning" /\ cookie' = page[t].user]_vars

(* Where a tab waits for its user: not where the page's token has expired. *)
Settled(t) ==
    /\ page[t].at \in Client \cup {"form", "provider", "failed", "prompt", "loggedOut"}
    /\ ~(page[t].at = "private" /\ Expired(t))

(* If the user types no more addresses into a tab, its sign-ins, sign-outs *)
(* and expiries come to a page that stays: whatever fails, is lost or goes *)
(* on in other tabs, the tab is not sent to and fro for ever, and no       *)
(* private page stays when its token has expired, although PrivateRoute    *)
(* opened it and the session at the server goes on (accessTokenExpired and *)
(* signinRedirectCallback of authService.js).  A tab does so by itself,    *)
(* be the others as slow as they like.                                     *)
SignInSettles ==
    \A t \in Watched : <>[][~OpenPrivate(t) /\ ~OpenLogout(t)]_vars => []<>Settled(t)

=============================================================================
