------------------------ MODULE ClientSessionProofs ------------------------
(***************************************************************************)
(* What ClientSession's run checks for two tabs and two users, proved for  *)
(* any number of either.                                                   *)
(***************************************************************************)
EXTENDS ClientSession, TLAPS

(* Navigation makes a page without calls and without data, and leaves the  *)
(* other tabs alone.                                                       *)
LEMMA GotoMakesAPage ==
    ASSUME page \in [Tabs -> Page], NEW t \in Tabs, NEW at \in Places,
           NEW request \in Tabs \cup {None}, NEW user \in Users \cup {None},
           Goto(t, at, request, user)
    PROVE  /\ page' \in [Tabs -> Page]
           /\ page'[t] = NewPage(t, at, request, user)
           /\ \A s \in Tabs \ {t} : page'[s] = page[s]
BY DEF Goto, NewPage, Page

(* The user of a tab's token is a user, or nobody. *)
LEMMA BearerType ==
    ASSUME TypeOK, NEW t \in Tabs
    PROVE  /\ Bearer(t) \in Users \cup {None}
           /\ stored[t] # None => stored[t] \in Token /\ Bearer(t) = stored[t].user /\ Bearer(t) # None
BY NoneIsNothing DEF TypeOK, Bearer, Token

(* What SessionInv says of one tab after a step. *)
SafeTab(t) ==
    /\ page[t].at = "private" => stored[t] # None
    /\ page[t].awaits # None => page[t].at \in {"exchange", "ending"}
    /\ page[t].at = "exchange" => page[t].awaits # None
    /\ page[t].at = "returning" => page[t].user # None
    /\ \A u \in {page[t].bearer, page[t].shows} \ {None} :
           (page[t].at = "private" /\ u = stored[t].user) \/ page[t].at = "ending"
    /\ page[t].at \in {"authorize", "login", "form", "signingIn", "denied", "provider", "returning"} =>
           page[t].request # None
    /\ page[t].at \in Accepted /\ ~page[t].overtaken =>
           cookie \in {None, page[t].user} \/ (page[t].at = "logout" /\ page[t].user = None)

LEMMA TabByTab ==
    /\ SessionInv <=> TypeOK /\ \A t \in Tabs : SafeTab(t)
    /\ SessionInv' <=> TypeOK' /\ \A t \in Tabs : SafeTab(t)'
BY DEF SessionInv, TokensAreWhereTheyBelong, PagesHaveOneUser, RequestsAreTabs, AcceptedInTime, SafeTab

(* A step has to keep the invariant in the tab it is taken in, as long as  *)
(* it logs nobody in.                                                      *)
LEMMA OneTabAtATime ==
    ASSUME SessionInv, TypeOK', NEW t \in Tabs, SafeTab(t)', cookie' \in {None, cookie},
           \A s \in Tabs \ {t} : page'[s] = page[s] /\ stored'[s] = stored[s]
    PROVE  SessionInv'
<1>1. ASSUME NEW s \in Tabs \ {t} PROVE SafeTab(s)'
  BY <1>1, TabByTab DEF SafeTab
<1> QED BY <1>1, TabByTab

(* A navigation that leaves the tokens alone and does not lead to a page   *)
(* that needs one.                                                         *)
LEMMA LeavingIsSafe ==
    ASSUME SessionInv, NEW t \in Tabs, NEW at \in Places \ {"private", "exchange"},
           NEW request \in Tabs \cup {None}, NEW user \in Users \cup {None},
           Goto(t, at, request, user), UNCHANGED stored, signins' \subseteq Tabs,
           cookie' \in {None, cookie}, external' \in External \cup {None},
           at = "returning" => user # None,
           at \in {"authorize", "login", "form", "signingIn", "denied", "provider", "returning"} =>
               request # None,
           at \in Accepted => cookie' \in {None, user} \/ (at = "logout" /\ user = None)
    PROVE  SessionInv'
<1>1. TypeOK /\ page \in [Tabs -> Page]
  BY DEF SessionInv, TypeOK
<1>2. /\ page' \in [Tabs -> Page]
      /\ page'[t] = NewPage(t, at, request, user)
      /\ \A s \in Tabs \ {t} : page'[s] = page[s]
  BY <1>1, GotoMakesAPage
<1>3. TypeOK'
  BY <1>1, <1>2 DEF TypeOK
<1>4. SafeTab(t)'
  BY <1>2 DEF SafeTab, NewPage
<1> QED BY <1>2, <1>3, <1>4, OneTabAtATime

(* A sign-out lets the token go, and all that remains of its page is on    *)
(* its way out.                                                            *)
LEMMA LogoutIsSafe ==
    ASSUME SessionInv, NEW t \in Tabs, Logout(t)
    PROVE  SessionInv'
<1>1. TypeOK /\ Bearer(t) \in Users \cup {None} /\ page \in [Tabs -> Page]
  BY BearerType DEF SessionInv, TypeOK
<1>2. /\ page' \in [Tabs -> Page] /\ page'[t].at = "ending"
      /\ page'[t].awaits = page[t].awaits
      /\ \A s \in Tabs \ {t} : page'[s] = page[s]
  <2> DEFINE left == [page[t] EXCEPT !.at = "ending", !.request = None, !.user = Bearer(t)]
  <2>1. page[t] \in Page /\ "ending" \in Places
    BY <1>1 DEF Places
  <2>2. left \in Page /\ left.at = "ending" /\ left.awaits = page[t].awaits
    BY <1>1, <2>1 DEF Page
  <2>3. page' = [page EXCEPT ![t] = left]
    BY DEF Logout
  <2> HIDE DEF left
  <2> QED BY <1>1, <2>2, <2>3
<1>3. /\ stored' \in [Tabs -> Token \cup {None}] /\ stored'[t] = None
      /\ \A s \in Tabs \ {t} : stored'[s] = stored[s]
  BY <1>1 DEF Logout, Removed, TypeOK
<1>4. TypeOK' /\ UNCHANGED cookie
  BY <1>1, <1>2, <1>3 DEF Logout, Removed, TypeOK
<1>5. SafeTab(t)'
  BY <1>2, <1>3 DEF SafeTab, Accepted
<1> QED BY <1>2, <1>3, <1>4, <1>5, OneTabAtATime

(* A login overtakes what the server has accepted of others. *)
LEMMA LoggedInIsSafe ==
    ASSUME SessionInv, NEW t \in Tabs, NEW user \in Users, LoggedIn(t, user),
           page[t].request # None, external' \in External \cup {None}
    PROVE  SessionInv'
<1>0. TypeOK /\ page \in [Tabs -> Page] /\ page[t].request \in Tabs
  BY DEF SessionInv, TypeOK, Page
<1>1. /\ page' \in [Tabs -> Page]
      /\ page'[t] = NewPage(t, "authorize", page[t].request, None)
  <2>1. \A s \in Tabs : page[s] \in Page
    BY <1>0
  <2>2. \A s \in Tabs : [page[s] EXCEPT !.overtaken = @ \/ (page[s].at \in Accepted /\ user # cookie)] \in Page
    BY <2>1 DEF Page
  <2>3. NewPage(t, "authorize", page[t].request, None) \in Page
    BY <1>0 DEF NewPage, Page, Places
  <2> QED BY <2>2, <2>3 DEF LoggedIn
<1>2. \A s \in Tabs \ {t} :
          /\ page'[s].at = page[s].at /\ page'[s].request = page[s].request /\ page'[s].user = page[s].user
          /\ page'[s].awaits = page[s].awaits
          /\ page'[s].bearer = page[s].bearer /\ page'[s].shows = page[s].shows
          /\ page'[s].overtaken = (page[s].overtaken \/ (page[s].at \in Accepted /\ user # cookie))
  BY <1>0 DEF LoggedIn, Page
<1>3. TypeOK' /\ UNCHANGED stored /\ cookie' = user
  BY <1>0, <1>1 DEF LoggedIn, TypeOK
<1>4. SafeTab(t)'
  BY <1>1 DEF SafeTab, NewPage, Accepted
<1>5. ASSUME NEW s \in Tabs \ {t} PROVE SafeTab(s)'
  <2>1. SafeTab(s)
    BY TabByTab
  <2>2. CASE user = cookie
    BY <1>2, <1>3, <2>1, <2>2 DEF SafeTab
  <2>3. CASE user # cookie
    <3>1. page'[s].at \in Accepted => page'[s].overtaken
      BY <1>2, <2>3
    <3> QED BY <1>2, <1>3, <2>1, <3>1 DEF SafeTab
  <2> QED BY <2>2, <2>3
<1> QED BY <1>3, <1>4, <1>5, TabByTab

(* Whatever a user does keeps the invariant. *)
LEMMA UserIsSafe ==
    ASSUME SessionInv, NEW t \in Tabs, User(t)
    PROVE  SessionInv'
<1>0. /\ TypeOK /\ stored \in [Tabs -> Token \cup {None}] /\ signins \subseteq Tabs
      /\ cookie \in Users \cup {None} /\ external \in External \cup {None} /\ page[t] \in Page
      /\ page[t].request \in Tabs \cup {None} /\ page[t].user \in Users \cup {None}
      /\ page \in [Tabs -> Page] /\ SafeTab(t)
  BY TabByTab DEF TypeOK, Page
<1>1. CASE OpenHome(t)
  BY <1>0, <1>1, LeavingIsSafe DEF OpenHome, Places, Client, Accepted
<1>2. CASE OpenPrivate(t)
  <2>1. CASE isAuthenticated(t)
    <3>1. /\ page' \in [Tabs -> Page] /\ page'[t] = NewPage(t, "private", None, None)
          /\ \A s \in Tabs \ {t} : page'[s] = page[s]
      <4>1. Goto(t, "private", None, None) /\ "private" \in Places
        BY <1>2, <2>1 DEF OpenPrivate, Places, Client
      <4> QED BY <1>0, <4>1 DEF Goto, NewPage, Page
    <3>2. TypeOK' /\ UNCHANGED <<stored, cookie>>
      BY <1>0, <1>2, <2>1, <3>1 DEF OpenPrivate, TypeOK
    <3>3. SafeTab(t)'
      BY <2>1, <3>1, <3>2 DEF SafeTab, NewPage, isAuthenticated, Accepted
    <3> QED BY <3>1, <3>2, <3>3, OneTabAtATime
  <2>2. CASE ~isAuthenticated(t)
    BY <1>0, <1>2, <2>2, NoneIsNothing, LeavingIsSafe
       DEF OpenPrivate, signinRedirect, Places, Accepted
  <2> QED BY <2>1, <2>2
<1>3. CASE OpenLogout(t)
  <2>1. Bearer(t) \in Users \cup {None}
    BY <1>0, BearerType
  <2>2. /\ page' \in [Tabs -> Page] /\ page'[t] = NewPage(t, "ending", None, Bearer(t))
        /\ \A s \in Tabs \ {t} : page'[s] = page[s]
    BY <1>0, <1>3, <2>1, GotoMakesAPage DEF OpenLogout, Places
  <2>3. /\ stored' \in [Tabs -> Token \cup {None}] /\ stored'[t] = None
        /\ \A s \in Tabs \ {t} : stored'[s] = stored[s]
    BY <1>0, <1>3 DEF OpenLogout, Removed
  <2>4. TypeOK' /\ UNCHANGED cookie
    BY <1>0, <1>3, <2>2, <2>3 DEF OpenLogout, Removed, TypeOK
  <2>5. SafeTab(t)'
    BY <2>2, <2>3 DEF SafeTab, NewPage, Accepted
  <2> QED BY <2>2, <2>3, <2>4, <2>5, OneTabAtATime
<1>4. CASE SignIn(t)
  BY <1>0, <1>4, NoneIsNothing, LeavingIsSafe DEF SignIn, signinRedirect, Places, Accepted
<1>5. CASE Login(t)
  BY <1>0, <1>5, LeavingIsSafe DEF Login, GoOn, FormHolds, Places, SafeTab
<1>6. CASE CancelLogin(t)
  BY <1>0, <1>6, LeavingIsSafe DEF CancelLogin, GoOn, Places, SafeTab, Accepted
<1>7. CASE Challenge(t)
  BY <1>0, <1>7, LeavingIsSafe DEF Challenge, Places, SafeTab, Accepted
<1>8. CASE ComeBack(t)
  <2>1. page[t].request \in Tabs
    BY <1>0, <1>8 DEF ComeBack, SafeTab
  <2>2. external' \in External
    BY <1>8, <2>1 DEF ComeBack, External
  <2> QED BY <1>0, <1>8, <2>2, LeavingIsSafe DEF ComeBack, Places, Accepted
<1>9. CASE SignOut(t)
  BY <1>9, LogoutIsSafe DEF SignOut
<1>10. CASE ConfirmLogout(t)
  BY <1>0, <1>10, LeavingIsSafe DEF ConfirmLogout, GoOn, FormHolds, Places, SafeTab
<1>11. CASE signoutRedirectCallback(t)
  BY <1>0, <1>11, LeavingIsSafe DEF signoutRedirectCallback, Places, Client, Accepted
<1> QED BY <1>1, <1>2, <1>3, <1>4, <1>5, <1>6, <1>7, <1>8, <1>9, <1>10, <1>11 DEF User

(* So does whatever comes to an end by itself. *)
LEMMA RedirectsAreSafe ==
    ASSUME SessionInv, NEW t \in Tabs, Redirects(t)
    PROVE  SessionInv'
<1>0. /\ TypeOK /\ stored \in [Tabs -> Token \cup {None}] /\ signins \subseteq Tabs
      /\ cookie \in Users \cup {None} /\ external \in External \cup {None} /\ page[t] \in Page
      /\ page[t].request \in Tabs \cup {None} /\ page[t].user \in Users \cup {None}
      /\ page \in [Tabs -> Page] /\ SafeTab(t)
  BY TabByTab DEF TypeOK, Page
<1>1. CASE Authorize(t)
  BY <1>0, <1>1, LeavingIsSafe DEF Authorize, GoOn, Places, SafeTab, Accepted
<1>2. CASE LoginForm(t)
  BY <1>0, <1>2, LeavingIsSafe DEF LoginForm, Places, SafeTab, Accepted
<1>3. CASE SignedIn(t)
  BY <1>0, <1>3, LoggedInIsSafe DEF SignedIn, SafeTab
<1>4. CASE Denied(t)
  BY <1>0, <1>4, LeavingIsSafe DEF Denied, Places, SafeTab, Accepted
<1>5. CASE Callback(t)
  <2>1. external # None =>
            external.request \in Tabs /\ external.user \in Users /\ external.request # None /\ external.user # None
    BY <1>0, ExternalAssumption, NoneIsNothing DEF External
  <2> QED BY <1>0, <1>5, <2>1, LeavingIsSafe DEF Callback, Places, Accepted
<1>6. CASE ExternalSignedIn(t)
  BY <1>0, <1>6, LoggedInIsSafe DEF ExternalSignedIn, SafeTab
<1>7. CASE signinRedirectCallback(t)
  <2>1. CASE page[t].request \in signins /\ page[t].user # None
    <3> DEFINE new == [NewPage(t, "exchange", None, None) EXCEPT !.awaits = page[t].user]
    <3>1. new \in Page /\ new.at = "exchange" /\ new.awaits = page[t].user /\ new.bearer = None /\ new.shows = None
      BY <1>0 DEF NewPage, Page, Places
    <3>2. page' = [page EXCEPT ![t] = new]
      BY <1>7, <2>1 DEF signinRedirectCallback
    <3> HIDE DEF new
    <3>3. page' \in [Tabs -> Page] /\ page'[t] = new /\ \A s \in Tabs \ {t} : page'[s] = page[s]
      BY <1>0, <3>1, <3>2
    <3>4. TypeOK' /\ UNCHANGED <<stored, cookie>>
      BY <1>0, <1>7, <3>3 DEF signinRedirectCallback, TypeOK
    <3>5. SafeTab(t)'
      BY <2>1, <3>1, <3>3 DEF SafeTab, Accepted
    <3> QED BY <3>3, <3>4, <3>5, OneTabAtATime
  <2>2. CASE ~(page[t].request \in signins /\ page[t].user # None)
    BY <1>0, <1>7, <2>2, LeavingIsSafe DEF signinRedirectCallback, Places, Client, Accepted
  <2> QED BY <2>1, <2>2
<1>8. CASE UserLoaded(t)
  <2>1. page[t].awaits \in Users
    BY <1>0, <1>8 DEF UserLoaded, Page
  <2>2. /\ page' \in [Tabs -> Page] /\ \A s \in Tabs \ {t} : page'[s] = page[s]
        /\ \/ page'[t] = NewPage(t, "private", None, None)
           \/ page[t].at = "ending" /\ page'[t] = [page[t] EXCEPT !.awaits = None]
    <3>1. CASE Goto(t, "private", None, None)
      <4>1. "private" \in Places
        BY DEF Places, Client
      <4> QED BY <1>0, <3>1, <4>1 DEF Goto, NewPage, Page
    <3>2. CASE page[t].at = "ending" /\ page' = [page EXCEPT ![t].awaits = None]
      <4>1. [page[t] EXCEPT !.awaits = None] \in Page
        BY <1>0 DEF Page
      <4> QED BY <1>0, <3>2, <4>1
    <3> QED BY <1>8, <3>1, <3>2 DEF UserLoaded
  <2>3. /\ stored' \in [Tabs -> Token \cup {None}] /\ stored'[t] \in Token
        /\ \A s \in Tabs \ {t} : stored'[s] = stored[s]
    BY <1>0, <1>8, <2>1 DEF UserLoaded, Token
  <2>4. stored'[t] # None
    BY <2>3, NoneIsNothing
  <2>5. TypeOK' /\ UNCHANGED cookie
    BY <1>0, <1>8, <2>2, <2>3 DEF UserLoaded, TypeOK
  <2>6. SafeTab(t)'
    <3>1. CASE page'[t] = NewPage(t, "private", None, None)
      BY <2>4, <3>1 DEF SafeTab, NewPage, Accepted
    <3>2. CASE page[t].at = "ending" /\ page'[t] = [page[t] EXCEPT !.awaits = None]
      <4>1. page'[t].at = "ending" /\ page'[t].awaits = None
        BY <1>0, <3>2 DEF Page
      <4> QED BY <4>1 DEF SafeTab, Accepted
    <3> QED BY <2>2, <3>1, <3>2
  <2> QED BY <2>2, <2>3, <2>5, <2>6, OneTabAtATime
<1>9. CASE ExchangeFails(t)
  BY <1>0, <1>9, LeavingIsSafe DEF ExchangeFails, Places, Client, Accepted
<1>10. CASE EndSession(t)
  BY <1>0, <1>10, LeavingIsSafe DEF EndSession, Places, SafeTab
<1>11. CASE LogoutPage(t)
  <2>1. CASE cookie = None
    BY <1>0, <1>11, <2>1, LeavingIsSafe DEF LogoutPage, Places, SafeTab, Accepted
  <2>2. CASE cookie # None /\ page[t].user # None
    <3>1. /\ page' \in [Tabs -> Page]
          /\ page'[t] = [page[t] EXCEPT !.at = "signingOut"]
          /\ \A s \in Tabs \ {t} : page'[s] = page[s]
      BY <1>0, <1>11, <2>2 DEF LogoutPage, Page, Places
    <3>2. TypeOK' /\ UNCHANGED <<stored, cookie>>
      BY <1>0, <1>11, <3>1 DEF LogoutPage, TypeOK
    <3>3. /\ page'[t].at = "signingOut" /\ page'[t].user = page[t].user
          /\ page'[t].bearer = page[t].bearer /\ page'[t].shows = page[t].shows
          /\ page'[t].overtaken = page[t].overtaken /\ page'[t].awaits = page[t].awaits
      BY <1>0, <3>1 DEF Page
    <3>4. page[t].at = "logout"
      BY <1>11 DEF LogoutPage
    <3>5. SafeTab(t)'
      BY <1>0, <2>2, <3>2, <3>3, <3>4 DEF SafeTab, Accepted
    <3> QED BY <3>1, <3>2, <3>5, OneTabAtATime
  <2>3. CASE cookie # None /\ page[t].user = None
    BY <1>0, <1>11, <2>3, LeavingIsSafe DEF LogoutPage, Places, SafeTab, Accepted
  <2> QED BY <2>1, <2>2, <2>3
<1>12. CASE SignedOut(t)
  BY <1>0, <1>12, LeavingIsSafe DEF SignedOut, Places, SafeTab, Accepted
<1> QED BY <1>1, <1>2, <1>3, <1>4, <1>5, <1>6, <1>7, <1>8, <1>9, <1>10, <1>11, <1>12 DEF Redirects

(* Calls, their answers and the timer of a token keep it as well. *)
LEMMA CallsAreSafe ==
    ASSUME SessionInv, NEW t \in Tabs, Call(t) \/ Answer(t) \/ Expire(t)
    PROVE  SessionInv'
<1>0. /\ TypeOK /\ stored \in [Tabs -> Token \cup {None}]
      /\ page \in [Tabs -> Page] /\ page[t] \in Page /\ SafeTab(t)
  BY TabByTab DEF TypeOK
<1>1. CASE Call(t)
  <2>1. Bearer(t) \in Users \cup {None} /\ Bearer(t) = stored[t].user
    BY <1>0, <1>1, BearerType DEF Call, SafeTab
  <2>2. /\ page' \in [Tabs -> Page]
        /\ page'[t] = [page[t] EXCEPT !.bearer = Bearer(t)]
        /\ \A s \in Tabs \ {t} : page'[s] = page[s]
    BY <1>0, <1>1, <2>1 DEF Call, Page
  <2>3. TypeOK' /\ UNCHANGED <<stored, cookie>>
    BY <1>0, <1>1, <2>2 DEF Call, TypeOK
  <2>4. /\ page'[t].at = "private" /\ page'[t].bearer = Bearer(t) /\ page'[t].shows = page[t].shows
        /\ page'[t].awaits = page[t].awaits
    BY <1>0, <1>1, <2>2 DEF Call, Page
  <2>5. SafeTab(t)'
    BY <1>0, <1>1, <2>1, <2>3, <2>4 DEF Call, SafeTab, Accepted
  <2> QED BY <2>2, <2>3, <2>5, OneTabAtATime
<1>2. CASE Answer(t)
  <2>1. PICK data \in {page[t].bearer, page[t].shows} :
            page' = [page EXCEPT ![t].bearer = None, ![t].shows = data]
    BY <1>2 DEF Answer
  <2>2. data \in Users \cup {None}
    BY <1>0, <2>1 DEF Page
  <2>3. /\ page' \in [Tabs -> Page]
        /\ page'[t] = [page[t] EXCEPT !.bearer = None, !.shows = data]
        /\ \A s \in Tabs \ {t} : page'[s] = page[s]
    BY <1>0, <2>1, <2>2 DEF Page
  <2>4. TypeOK' /\ UNCHANGED <<stored, cookie>>
    BY <1>0, <1>2, <2>3 DEF Answer, TypeOK
  <2>5. /\ page'[t].at = page[t].at /\ page'[t].request = page[t].request
        /\ page'[t].user = page[t].user /\ page'[t].overtaken = page[t].overtaken
        /\ page'[t].bearer = None /\ page'[t].shows = data /\ page'[t].awaits = page[t].awaits
    BY <1>0, <2>3 DEF Page
  <2>6. SafeTab(t)'
    BY <1>0, <2>1, <2>4, <2>5 DEF SafeTab
  <2> QED BY <2>3, <2>4, <2>6, OneTabAtATime
<1>3. CASE Expire(t)
  <2>1. stored[t] \in Token /\ stored[t].user \in Users
    BY <1>0, <1>3 DEF Expire, Token
  <2>2. /\ stored' \in [Tabs -> Token \cup {None}] /\ stored'[t] \in Token
        /\ stored'[t].user = stored[t].user
        /\ \A s \in Tabs \ {t} : stored'[s] = stored[s]
    BY <1>0, <1>3, <2>1 DEF Expire, Token
  <2>3. TypeOK' /\ UNCHANGED <<page, cookie>>
    BY <1>0, <1>3, <2>2 DEF Expire, TypeOK
  <2>4. stored'[t] # None
    BY <2>2, NoneIsNothing
  <2>5. SafeTab(t)'
    BY <1>0, <2>2, <2>3, <2>4 DEF SafeTab
  <2> QED BY <2>2, <2>3, <2>5, OneTabAtATime
<1> QED BY <1>1, <1>2, <1>3

(* The invariant of the tabs holds in every behaviour: no private page     *)
(* without a token, tokens only for the page that has sent for them, no    *)
(* data that is not its user's, and nothing accepted of somebody else.     *)
THEOREM SessionInvariance == Spec => []SessionInv
<1>1. Init => SessionInv
  BY NoneIsNothing DEF Init, SessionInv, TypeOK, Page, Places, Client, TokensAreWhereTheyBelong,
                       PagesHaveOneUser, RequestsAreTabs, AcceptedInTime, Accepted
<1>2. SessionInv /\ [Next]_vars => SessionInv'
  <2> SUFFICES ASSUME SessionInv, [Next]_vars
               PROVE  SessionInv'
    OBVIOUS
  <2>1. CASE Next
    BY <2>1, UserIsSafe, RedirectsAreSafe, LogoutIsSafe, CallsAreSafe
       DEF Next, Happens, AccessTokenExpired, ExpiredAgain
  <2>2. CASE UNCHANGED vars
    BY <2>2 DEF vars, SessionInv, TypeOK, TokensAreWhereTheyBelong, PagesHaveOneUser,
                RequestsAreTabs, AcceptedInTime
  <2> QED BY <2>1, <2>2
<1> QED BY <1>1, <1>2, PTL DEF Spec

(* However sign-ins, late answers, expiries and sign-outs of any number of *)
(* tabs mix, a tab shows the data of the user whose token it holds, unless *)
(* it is on its way out (oauth.js, authService.js).                        *)
THEOREM TabsShowTheirUsersData == Spec => []ShowsItsUsersData
<1>1. SessionInv => ShowsItsUsersData
  BY BearerType DEF SessionInv, ShowsItsUsersData, TokensAreWhereTheyBelong, PagesHaveOneUser
<1> QED BY <1>1, SessionInvariance, PTL

(* No tab's sign-out or form, however old, ends the session of somebody it *)
(* neither names nor was made out to, unless it had been accepted when     *)
(* they logged in (AccountController.Login and Logout).                    *)
THEOREM SessionsAreTheirUsers == Spec => NobodyElseIsLoggedOut
<1>1. SessionInv /\ [Next]_vars =>
          [cookie # None /\ cookie' # cookie =>
              \E t \in Tabs :
                  /\ page'[t].at # page[t].at
                  /\ \/ page[t].at \in {"signingIn", "signingOut"} /\ (page[t].user = cookie \/ page[t].overtaken)
                     \/ page[t].at = "returning" /\ cookie' = page[t].user]_vars
  <2> SUFFICES ASSUME SessionInv, Next, cookie # None, cookie' # cookie
               PROVE  \E t \in Tabs :
                          /\ page'[t].at # page[t].at
                          /\ \/ /\ page[t].at \in {"signingIn", "signingOut"}
                                /\ page[t].user = cookie \/ page[t].overtaken
                             \/ page[t].at = "returning" /\ cookie' = page[t].user
    BY DEF vars
  <2>1. PICK t \in Tabs : User(t) \/ Happens(t)
    BY DEF Next
  <2>2. SignedIn(t) \/ SignedOut(t) \/ ExternalSignedIn(t)
    BY <2>1 DEF User, Happens, Redirects, OpenHome, OpenPrivate, OpenLogout, SignIn, Login, CancelLogin,
                Challenge, ComeBack, SignOut, ConfirmLogout, signoutRedirectCallback, Authorize, LoginForm,
                Denied, Callback, signinRedirectCallback, UserLoaded, ExchangeFails, EndSession, LogoutPage,
                AccessTokenExpired, ExpiredAgain, Call, Answer, Expire, Logout, Removed
  <2>3. page \in [Tabs -> Page] /\ SafeTab(t)
    BY TabByTab DEF TypeOK
  <2>4. CASE SignedIn(t)
    <3>1. page'[t].at = "authorize"
      BY <2>3, <2>4 DEF SignedIn, LoggedIn, NewPage
    <3> QED BY <2>3, <2>4, <3>1 DEF SignedIn, SafeTab, Accepted
  <2>5. CASE SignedOut(t)
    <3>1. page'[t].at = "loggedOut"
      BY <2>3, <2>5 DEF SignedOut, Goto, NewPage
    <3> QED BY <2>3, <2>5, <3>1 DEF SignedOut, SafeTab, Accepted
  <2>6. CASE ExternalSignedIn(t)
    <3>1. page'[t].at = "authorize" /\ cookie' = page[t].user
      BY <2>3, <2>6 DEF ExternalSignedIn, LoggedIn, NewPage
    <3> QED BY <2>6, <3>1 DEF ExternalSignedIn
  <2> QED BY <2>2, <2>4, <2>5, <2>6
<1> QED BY <1>1, SessionInvariance, PTL DEF Spec, NobodyElseIsLoggedOut
============================================================================
