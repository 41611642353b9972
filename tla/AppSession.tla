------------------------------ MODULE AppSession ------------------------------
(****************************************************************************)
(* The session of the app on one device, over the account of Account:       *)
(* the tokens it stores (storage/token_storage.dart), the one refresh that  *)
(* everybody shares (services/auth_service.dart), the API calls and the     *)
(* socket that ask for it (api_service.dart, chat_realtime_service.dart),   *)
(* sign-in, logout and restarts.                                            *)
(*                                                                          *)
(* An API call matters here only when its access token is refused, and so   *)
(* does the socket: calls start with a token that will be refused, and the  *)
(* retry after a refresh changes nothing.  Writes to the secure storage     *)
(* take effect in the order they are made.                                  *)
(****************************************************************************)
EXTENDS Account

CONSTANTS
    Api,     \* API calls that may be under way
    Socket,  \* the reconnection of ChatRealtimeService
    Splash   \* the check of the splash screen

ASSUME AppAssumption == Socket \notin Api /\ Splash \notin Api \cup {Socket}

VARIABLES
    stored,  \* the refresh token in the secure storage, 0 if none
    access,  \* the access token in memory
    screen,  \* where the user is; all screens without a session are "auth"
    call,    \* who has been refused, and who waits for the refresh
    rf,      \* _refreshInFlight
    login,   \* the sign-in under way
    signup,  \* the sign-up under way, and whether its screen is still shown
    tried,   \* _refreshAttempted of the socket
    causes,  \* history: what may rightly end the stored session
    quiet    \* history: the refresh that ended the session told nobody, for only
             \* the socket waited for it and the app had been put away

appVars == <<stored, access, screen, call, rf, login, signup, tried, causes, quiet>>
vars == <<serverVars, appVars>>

Caller == Api \cup {Socket, Splash}
NoRefresh == [pc |-> "idle", req |-> {}, ok |-> FALSE]
NoLogin == [req |-> {}, mounted |-> FALSE]
Nobody == [c \in Caller |-> "idle"]
Waiting == {c \in Caller : call[c] = "waiting"}

Init ==
    /\ ServerInit
    /\ stored = 0 /\ access = "none" /\ screen = "splash"
    /\ call = Nobody /\ rf = NoRefresh /\ login = NoLogin
    /\ signup = "none" /\ tried = FALSE /\ causes = {} /\ quiet = FALSE

------------------------------------------------------------------------------
(* The tokens *)

Clear == stored' = 0 /\ access' = "none"

\* saveTokens; what may end this session from here on starts afresh, but for what
\* is still under way that was meant for an earlier one.
Save(t, overlap) ==
    /\ stored' = t /\ access' = "good"
    /\ causes' = {c \in {"expiry", "overlap"} :
         \/ c = "expiry" /\ (~row.valid \/ t \in dead)
         \/ c = "overlap" /\ \/ overlap \/ signup # "none"
                             \/ \E r \in Request : At(r, "refresh", "delete")}

AccessExpires ==
    /\ access = "good" /\ access' = "stale"
    /\ UNCHANGED <<serverVars, stored, screen, call, rf, login, signup, tried, causes,
                   quiet>>

------------------------------------------------------------------------------
(* The shared refresh *)

JoinAlone(c) ==  \* mutant: every caller starts a refresh of its own
    /\ call' = [call EXCEPT ![c] = "waiting"]
    /\ rf' = [NoRefresh EXCEPT !.pc = "token"]

\* refreshSession: wait for the refresh under way, or start one.
Join(c) ==
    /\ call' = [call EXCEPT ![c] = "waiting"]
    /\ rf' = IF rf.pc = "idle" THEN [rf EXCEPT !.pc = "token"] ELSE rf

SplashCheck ==
    /\ screen = "splash" /\ call[Splash] = "idle"
    /\ Join(Splash)
    /\ UNCHANGED <<serverVars, stored, access, screen, login, signup, tried, causes,
                   quiet>>

Send(c) ==
    /\ screen = "home" /\ access # "good" /\ call[c] = "idle"
    /\ call' = [call EXCEPT ![c] = "sent"]
    /\ UNCHANGED <<serverVars, stored, access, screen, rf, login, signup, tried, causes,
                   quiet>>

\* _sendWithRefresh gets its 401.
Refused(c) ==
    /\ call[c] = "sent"
    /\ Join(c)
    /\ UNCHANGED <<serverVars, stored, access, screen, login, signup, tried, causes,
                   quiet>>

\* _handleConnectError: once per connection that succeeded.
SocketRefused ==
    /\ screen = "home" /\ access = "stale" /\ call[Socket] = "idle" /\ ~tried
    /\ tried' = TRUE
    /\ Join(Socket)
    /\ UNCHANGED <<serverVars, stored, access, screen, login, signup, causes, quiet>>

SocketConnected ==
    /\ screen = "home" /\ access = "good" /\ tried
    /\ tried' = FALSE
    /\ UNCHANGED <<serverVars, stored, access, screen, call, rf, login, signup, causes,
                   quiet>>

\* _performRefreshSession has read the storage.
RefreshStart(r) ==
    /\ rf.pc = "token"
    /\ IF stored = 0
       THEN rf' = [rf EXCEPT !.pc = "done"] /\ UNCHANGED req
       ELSE Open(r, "refresh", "read", stored, TRUE)
            /\ rf' = [rf EXCEPT !.pc = "wait", !.req = {r}]
    /\ UNCHANGED <<user, mail, row, issued, dead, faults>>
    /\ UNCHANGED <<stored, access, screen, call, login, signup, tried, causes, quiet>>

\* The answer: the tokens are saved, or whatever is stored is cleared.
RefreshAnswered(r) ==
    /\ rf.pc = "wait" /\ rf.req = {r} /\ req[r].pc \in Answer
    /\ LET ok == req[r].pc = "ok"
       IN  /\ rf' = [rf EXCEPT !.pc = "done", !.req = {}, !.ok = ok]
           /\ IF ok THEN Save(req[r].arg, FALSE) ELSE Clear /\ UNCHANGED causes
    /\ Close(r)
    /\ UNCHANGED <<user, mail, row, issued, dead, faults>>
    /\ UNCHANGED <<screen, call, login, signup, tried, quiet>>

\* No answer arrives: the exception clears the session, the request may go on.
RefreshLost(r) ==
    /\ rf.pc = "wait" /\ rf.req = {r} /\ Fault
    /\ rf' = [rf EXCEPT !.pc = "done", !.req = {}, !.ok = FALSE]
    /\ Clear /\ Close(r)
    /\ causes' = causes \cup {"fault"}
    /\ UNCHANGED <<user, mail, row, issued, dead, screen, call, login, signup, tried, quiet>>

\* The refresh is over for those who mind what became of it: on success the splash
\* screen opens the app and calls are repeated, otherwise they send the user to a
\* screen without a session, in place of the one that is shown.
Resume(minding) ==
    /\ rf.pc = "done"
    /\ rf' = NoRefresh
    /\ call' = [c \in Caller |-> IF call[c] \in {"waiting", "dropped"} THEN "idle" ELSE call[c]]
    /\ \/ /\ rf.ok
          /\ screen' = IF Splash \in minding THEN "home" ELSE screen
          /\ UNCHANGED <<login, signup, quiet>>
       \/ /\ ~rf.ok /\ minding # {}
          /\ screen' = "auth"
          /\ login' = [login EXCEPT !.mounted = FALSE]
          /\ signup' = IF signup = "none" THEN signup ELSE "left"
          /\ quiet' = FALSE
       \/ /\ ~rf.ok /\ minding = {}
          /\ quiet' = (screen = "home" /\ (quiet \/ call[Socket] = "dropped"))
          /\ UNCHANGED <<screen, login, signup>>
    /\ UNCHANGED <<serverVars, stored, access, tried, causes>>

RefreshDoneQuiet == Resume(Waiting \ {Socket})  \* mutant: the socket tells nobody

RefreshDone == Resume(Waiting)

------------------------------------------------------------------------------
(* Sign-in, sign-up, logout, restart *)

SigninStart(r) ==
    /\ screen = "auth" /\ login = NoLogin /\ signup # "shown"
    /\ Open(r, "signin", "read", 0, TRUE)
    /\ login' = [req |-> {r}, mounted |-> TRUE]
    /\ UNCHANGED <<user, mail, row, issued, dead, faults>>
    /\ UNCHANGED <<stored, access, screen, call, rf, signup, tried, causes, quiet>>

SigninAnswered(r) ==
    /\ login.req = {r} /\ req[r].pc \in Answer
    /\ login' = NoLogin
    /\ CASE req[r].pc = "ok" ->
              Save(req[r].arg, rf.pc # "idle")
              /\ screen' = IF login.mounted THEN "home" ELSE screen
         [] req[r].pc = "forbidden" -> Clear /\ UNCHANGED <<screen, causes>>
         [] OTHER -> UNCHANGED <<stored, access, screen, causes>>
    /\ Close(r)
    /\ UNCHANGED <<user, mail, row, issued, dead, faults, call, rf, signup, tried, quiet>>

SigninLost(r) ==
    /\ login.req = {r} /\ Fault
    /\ login' = NoLogin
    /\ Close(r)
    /\ UNCHANGED <<user, mail, row, issued, dead, stored, access, screen, call, rf,
                   signup, tried, causes, quiet>>

\* The user goes from the sign-in to the sign-up screen and signs up, this account
\* or another one.
SignupSent ==
    /\ screen = "auth" /\ signup = "none"
    /\ signup' = "shown" /\ login' = [login EXCEPT !.mounted = FALSE]
    /\ UNCHANGED <<serverVars, stored, access, screen, call, rf, tried, causes, quiet>>

\* AuthService.signup clears the session that is stored by the time it succeeds,
\* whatever is shown; all its screens are without a session.
SignupAnswered ==
    /\ signup # "none" /\ signup' = "none"
    /\ Clear \/ UNCHANGED <<stored, access>>
    /\ UNCHANGED <<serverVars, screen, call, rf, login, tried, causes, quiet>>

\* The socket no longer minds what becomes of the refresh it waits for.
Disconnected == [call EXCEPT ![Socket] = IF @ = "waiting" THEN "dropped" ELSE @]

\* The app is put away and disconnects; when it is back, connect() opens a socket
\* with the access token there is.
PutAway ==
    /\ screen = "home" /\ call[Socket] = "waiting"
    /\ call' = Disconnected
    /\ UNCHANGED <<serverVars, stored, access, screen, rf, login, signup, tried, causes,
                   quiet>>

Logout ==
    /\ screen = "home"
    /\ Clear /\ screen' = "auth" /\ call' = Disconnected /\ quiet' = FALSE
    /\ UNCHANGED <<serverVars, rf, login, signup, tried, causes>>

\* The process ends; only the secure storage survives.
Restart ==
    /\ screen # "splash"
    /\ screen' = "splash" /\ access' = "none" /\ tried' = FALSE
    /\ call' = Nobody /\ rf' = NoRefresh /\ login' = NoLogin
    /\ signup' = "none" /\ quiet' = FALSE
    /\ req' = [r \in Request |->
         IF r \notin rf.req \cup login.req THEN req[r]
         ELSE IF req[r].pc \in Answer THEN Free ELSE [req[r] EXCEPT !.waited = FALSE]]
    /\ UNCHANGED <<user, mail, row, issued, dead, faults, stored, causes>>

\* Another device of the user signs in, or refreshes with the token it has; a
\* refresh that does not find the row expired is like a sign-in.  Nothing changes
\* what such a sign-in has read, so it starts at issueTokens.
OtherSignin(r) ==
    /\ user = "verified"
    /\ Open(r, "signin", "issue", 0, FALSE)
    /\ UNCHANGED <<user, mail, row, issued, dead, faults, appVars>>

OtherRefresh(r) ==
    /\ issued # 0 /\ ~row.valid
    /\ Open(r, "refresh", "read", issued, FALSE)
    /\ UNCHANGED <<user, mail, row, issued, dead, faults, appVars>>

------------------------------------------------------------------------------
\* Steps of the server; causes notes what of it concerns the stored session: that
\* it expires, and that the refresh the app waits for fails.
ServerStep ==
    /\ UNCHANGED <<stored, access, screen, call, rf, login, signup, tried, quiet>>
    /\ \/ Server
       \/ TokenExpires(stored)
    /\ causes' = causes
         \cup {c \in {"expiry"} : stored # 0 /\ (RowExpires \/ stored \in dead')}
         \cup {c \in {"fault"} : \E r \in rf.req : req'[r].pc = "failed"}

AppStep ==
    \/ AccessExpires \/ SplashCheck \/ SocketRefused \/ SocketConnected
    \/ RefreshDone \/ SignupSent \/ SignupAnswered \/ PutAway \/ Logout \/ Restart
    \/ \E c \in Api : Send(c) \/ Refused(c)
    \/ \E r \in Request :
         \/ RefreshStart(r) \/ RefreshAnswered(r) \/ RefreshLost(r)
         \/ SigninStart(r) \/ SigninAnswered(r) \/ SigninLost(r)
         \/ OtherSignin(r) \/ OtherRefresh(r)

Next == ServerStep \/ AppStep

Spec == Init /\ [][Next]_vars

------------------------------------------------------------------------------
(* Properties *)

\* The state has its shape, and the server keeps an answer for exactly those
\* requests whose answer the app will take: one refresh, shared, and one sign-in.
TypeOK ==
    /\ ServerOK
    /\ stored \in 0 .. issued /\ access \in {"none", "good", "stale"}
    /\ screen \in {"splash", "home", "auth"}
    /\ call \in [Caller -> {"idle", "sent", "waiting", "dropped"}]
    /\ rf \in [pc : {"idle", "token", "wait", "done"}, req : SUBSET Request, ok : BOOLEAN]
    /\ login \in [req : SUBSET Request, mounted : BOOLEAN]
    /\ signup \in {"none", "shown", "left"} /\ tried \in BOOLEAN /\ quiet \in BOOLEAN
    /\ causes \subseteq {"expiry", "overlap", "fault"}
    /\ {r \in Request : req[r].waited} = rf.req \cup login.req
    /\ rf.req \cap login.req = {} /\ (rf.req # {} => rf.pc = "wait")

\* Signup and any number of resendVerification calls that run into each other
\* leave at most one mail younger than the cooldown.
OneMailPerCooldown == Cardinality(Recent) <= 1

\* No verification mail is committed for a user who is already verified, however
\* a resend and the opening of a link overlap.
NoMailToVerified ==
    [][\A m \in Mail : mail'[m] = "recent" /\ mail[m] # "recent" => user # "verified"]_vars

\* The app loses the session it stores only by logging out, by a sign-up that
\* succeeds on the screens without a session, or because a token or the row of
\* refresh_tokens expired, a refresh failed for want of an answer, or a refresh or a
\* sign-up meant for an earlier session was still under way when it was stored.
\* Signing in elsewhere, other calls that refresh at the same time, and a restart
\* in the middle of a refresh do not end it.
SessionKept ==
    [][stored # 0 /\ stored' = 0 =>
         causes' # {} \/ Logout \/ (SignupAnswered /\ screen = "auth")]_vars

\* Whoever is inside the app has a session, or is about to be sent out by the
\* refresh that has just ended it.  The app stays inside without a session only
\* when it was put away while nobody but its socket waited for that refresh; and
\* when an earlier refresh or sign-up overlapped the sign-in.
HomeHasSession ==
    screen = "home" /\ stored = 0 /\ "overlap" \notin causes =>
        quiet \/ (rf.pc = "done" /\ ~rf.ok /\ (Waiting # {} \/ call[Socket] = "dropped"))
==============================================================================
