-------------------------------- MODULE Login --------------------------------
(***************************************************************************)
(* Signing in with Google: OAuthHandler (internal/auth/oauth.go), the      *)
(* cookies it and SessionManager (internal/auth/session.go) set, and the   *)
(* users table (internal/db/db.go).  The server keeps nothing of a sign-in *)
(* but the row: the state and the session live in the cookies of the       *)
(* browser.  A callback is several steps (the two calls to Google, the     *)
(* upsert, the answer) and any of them may come between those of another   *)
(* callback of the same browser, a new sign-in or a sign-out.              *)
(***************************************************************************)
EXTENDS Naturals, Sequences

CONSTANTS Browser,
          Account,     \* Google accounts
          Domain,      \* the domains e-mail addresses have
          Allowed,     \* ALLOWED_DOMAINS; empty: no restriction
          Nothing,     \* no cookie, no row; the empty fields of an answer
          MaxStates,   \* bound: the states that are drawn
          MaxCodes     \* bound: the callbacks with a code of Google's

ASSUME LoginAssumption == /\ Allowed \subseteq Domain
                          /\ Nothing \notin Account \cup Domain \cup Nat
                          /\ MaxStates \in Nat
                          /\ MaxCodes \in Nat

VARIABLES beganBy,   \* the states drawn, and the browser each was set in
          domain,    \* Google's side: the domain of each account's address
          users,     \* the users table: id and domain of the address, by google_id
          stateOf,   \* per browser, its oauth_state cookie
          session,   \* per browser, the user id its stevy_session cookie signs
          callback,  \* per code, how far the callback that came with it is
          signedAs   \* history: per browser, the account its session is of

loginVars == <<beganBy, domain, users, stateOf, session, callback, signedAs>>

Cookies == <<stateOf, session, signedAs>>

Code == 1 .. MaxCodes

NoCallback == [stage |-> "none"]
Over       == [stage |-> "over"]

\* What fetchUserInfo reads from an answer that is not about an account.
Blank == [id |-> Nothing, domain |-> Nothing]

LoginInit ==
  /\ beganBy = <<>>
  /\ domain \in [Account -> Domain]
  /\ users = [a \in {} |-> Nothing]
  /\ stateOf = [b \in Browser |-> Nothing]
  /\ session = [b \in Browser |-> Nothing]
  /\ callback = [c \in Code |-> NoCallback]
  /\ signedAs = [b \in Browser |-> Nothing]

\* emailAllowed.  An empty address is of no domain.
EmailAllowed(d) == Allowed = {} \/ d \in Allowed
-----------------------------------------------------------------------------
(* The browser is sent to Google, and comes back. *)

\* Login: a new state, in the cookie and in the URL of Google's page.
BeginLogin(b) ==
  /\ Len(beganBy) < MaxStates
  /\ beganBy' = Append(beganBy, b)
  /\ stateOf' = [stateOf EXCEPT ![b] = Len(beganBy) + 1]
  /\ UNCHANGED <<domain, users, session, callback, signedAs>>

\* Mutant of StateMatches: only the cookie is looked for.
StateMatchesAny(b, s) == stateOf[b] # Nothing

\* The test of the state against the cookie.
StateMatches(b, s) == stateOf[b] = s

\* Callback, begun: Google's page for state s was answered by the owner of
\* account a and is opened in browser b, perhaps not the one that began it.
\* A code serves once; a state serves as often as its cookie lasts.
BeginCallback(c, b, s, a) ==
  /\ callback[c] = NoCallback
  /\ s \in DOMAIN beganBy
  /\ StateMatches(b, s)
  /\ callback' = [callback EXCEPT ![c] =
                    [stage |-> "exchanged", browser |-> b, state |-> s, account |-> a,
                     info |-> Blank, user |-> Nothing]]
  /\ UNCHANGED <<beganBy, domain, users, Cookies>>

\* Mutant of Admitted: an account that is known is admitted.
AdmittedKnown(info) == info.id \in DOMAIN users \/ EmailAllowed(info.domain)

\* What fetchUserInfo returned goes on when its address is allowed.
Admitted(info) == EmailAllowed(info.domain)

\* The answers fetchUserInfo may read: the account's, or one of an error,
\* which decodes into empty fields: the status of the answer is not tested.
UserInfos(a) == {[id |-> a, domain |-> domain[a]], Blank}

FetchUserInfo(c) ==
  LET call == callback[c]
  IN  /\ call.stage = "exchanged"
      /\ \E info \in UserInfos(call.account) :
            callback' = [callback EXCEPT ![c] =
                           IF Admitted(info) THEN [call EXCEPT !.stage = "fetched", !.info = info]
                                             ELSE Over]
      /\ UNCHANGED <<beganBy, domain, users, Cookies>>

\* Mutant of RowId: the id that was drawn is the row's.
RowIdDrawn(a, drawn) == drawn

\* The id of the row after an upsert that drew an id, which the conflicting
\* row keeps.
RowId(a, drawn) == IF a \in DOMAIN users THEN users[a].id ELSE drawn

\* DB.UpsertUser: one statement.  The code's number stands for the id drawn.
UpsertUser(c) ==
  LET call == callback[c]
      row  == [id |-> RowId(call.info.id, c), domain |-> call.info.domain]
  IN  /\ call.stage = "fetched"
      /\ users' = [a \in DOMAIN users \cup {call.info.id} |->
                     IF a = call.info.id THEN row ELSE users[a]]
      /\ callback' = [callback EXCEPT ![c] = [call EXCEPT !.stage = "upserted", !.user = row.id]]
      /\ UNCHANGED <<beganBy, domain, Cookies>>

\* SessionManager.Set: the answer reaches the browser.
SetSession(c) ==
  LET call == callback[c]
  IN  /\ call.stage = "upserted"
      /\ session' = [session EXCEPT ![call.browser] = call.user]
      /\ signedAs' = [signedAs EXCEPT ![call.browser] = call.account]
      /\ callback' = [callback EXCEPT ![c] = Over]
      /\ UNCHANGED <<beganBy, domain, users, stateOf>>

\* One of the calls of a callback fails, or its answer is lost.
DropCallback(c) ==
  /\ callback[c] \notin {NoCallback, Over}
  /\ callback' = [callback EXCEPT ![c] = Over]
  /\ UNCHANGED <<beganBy, domain, users, Cookies>>
-----------------------------------------------------------------------------
(* The cookies go, and the accounts change. *)

\* SessionManager.Clear, by Logout, and the end of the cookie's MaxAge.
EndSession(b) ==
  /\ session[b] # Nothing
  /\ session' = [session EXCEPT ![b] = Nothing]
  /\ signedAs' = [signedAs EXCEPT ![b] = Nothing]
  /\ UNCHANGED <<beganBy, domain, users, stateOf, callback>>

\* The state's cookie lasts ten minutes.
ExpireState(b) ==
  /\ stateOf[b] # Nothing
  /\ stateOf' = [stateOf EXCEPT ![b] = Nothing]
  /\ UNCHANGED <<beganBy, domain, users, session, callback, signedAs>>

\* The owner of an account changes its address.
ChangeAddress(a, d) ==
  /\ domain[a] # d
  /\ domain' = [domain EXCEPT ![a] = d]
  /\ UNCHANGED <<beganBy, users, callback, Cookies>>
-----------------------------------------------------------------------------
LoginNext ==
  \/ \E b \in Browser : \/ BeginLogin(b)
                        \/ EndSession(b)
                        \/ ExpireState(b)
  \/ \E c \in Code : \/ \E b \in Browser, s \in 1 .. MaxStates, a \in Account : BeginCallback(c, b, s, a)
                     \/ FetchUserInfo(c)
                     \/ UpsertUser(c)
                     \/ SetSession(c)
                     \/ DropCallback(c)
  \/ \E a \in Account, d \in Domain : ChangeAddress(a, d)

LoginSpec == LoginInit /\ [][LoginNext]_loginVars
-----------------------------------------------------------------------------
\* UserID and GetUserByID: the account of the row a session's id is the id of.
CurrentUser(b) == {a \in DOMAIN users : users[a].id = session[b]}

\* A session shows the account its browser signed in with: the row an upsert
\* found, or made, is the one every later request of the session reads, also
\* when the account signs in at several browsers or twice at a time
\* (OAuthHandler.Callback, DB.UpsertUser, Handler.currentUser).  It takes
\* ALLOWED_DOMAINS: without, the blank answer to a failed userinfo call is
\* admitted, and signs its browser in as the account with no id.
SessionShowsItsAccount ==
  \A b \in Browser : session[b] # Nothing => CurrentUser(b) = {signedAs[b]}

\* A browser is signed in only by a sign-in that began in it, whatever pages
\* of Google's it is led to, in whatever order they are answered
\* (OAuthHandler.Callback's comparison of the state with the cookie).
CallbackReturnsToItsBrowser ==
  \A c \in Code : callback[c].stage \in {"exchanged", "fetched", "upserted"} =>
                     callback[c].browser = beganBy[callback[c].state]

\* The table never holds the address of an account at a domain that is not
\* allowed, however the address changes between the calls of a callback and
\* between sign-ins (emailAllowed tests the address that is stored).
StoredAddressesAreAllowed == \A a \in DOMAIN users : EmailAllowed(users[a].domain)
=============================================================================
