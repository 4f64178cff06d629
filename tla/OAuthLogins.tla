---------------------------- MODULE OAuthLogins ----------------------------
(***************************************************************************)
(* The logins that are made through the management API.                    *)
(*   internal/api/handlers/management/auth_files.go      Request...Token,  *)
(*       GetAuthStatus, the callback forwarders                            *)
(*   internal/api/handlers/management/oauth_sessions.go  oauthSessionStore *)
(*   internal/api/handlers/management/oauth_callback.go  the callbacks     *)
(*                                                                         *)
(* A login has a session, which its client asks about, and a goroutine of  *)
(* its own that waits for the callback of the provider, exchanges its code *)
(* for a token and saves that.  The callback comes by a file, written by   *)
(* whichever handler the browser reaches.  For a login in the web UI a     *)
(* forwarder listens on the provider's port and sends the browser there;   *)
(* one for a new login takes the port from the one before.  A device login *)
(* waits for the provider instead, and a login of a plugin has no          *)
(* goroutine: the client's questions carry it on.                          *)
(*                                                                         *)
(* The logins here are with one provider, so they share its port.  Times   *)
(* are ticks left.                                                         *)
(***************************************************************************)
EXTENDS Integers

CONSTANTS
    Logins,
    Kinds,         \* of the logins: "web", "manual", "device", "plugin"
    Browsers,      \* requests that bring a callback
    Askers,        \* requests that ask for the status
    NoLogin,
    TTL,           \* of a session (ten minutes)
    WaitTime,      \* for a callback (five minutes)
    DeviceTime     \* for the provider of a device login (fifteen minutes)

ASSUME LoginsAssumption ==
    /\ Kinds \subseteq {"web", "manual", "device", "plugin"} /\ NoLogin \notin Logins
    /\ TTL \in Nat /\ WaitTime \in Nat /\ DeviceTime \in Nat

VARIABLES
    kind,          \* of each login
    oauthSession,  \* oauthSessions.sessions
    login,         \* the handler of each login, then its goroutine
    portOwner,     \* callbackForwarders[port]
    listening,     \* logins whose forwarder listens
    callbackFile,  \* per login
    browser, asker,
    token,         \* logins whose token is saved
    told,          \* history: the last answer about each login
    timedOut,      \* history: logins whose session ended by time
    overlapped     \* history: logins that two questions carried on at once

loginVars == <<kind, oauthSession, login, portOwner, listening, callbackFile, browser, asker,
               token, told, timedOut, overlapped>>

NoSession == [status |-> "none", left |-> 0]
Preparing == {"claim", "stopOther", "listen", "publish"}
Ended == {"refused", "over"}

LoginsTypeOK ==
    /\ kind \in [Logins -> Kinds]
    /\ oauthSession \in [Logins -> {NoSession} \cup [status: {"pending", "error"}, left: 0..TTL]]
    /\ login \in [Logins ->
          [at: {"new", "device", "wait", "read", "exchange", "save", "fail", "complete",
                "release", "shut"} \cup Preparing \cup Ended,
           left: -1..(WaitTime + DeviceTime), prev: Logins \cup {NoLogin}]]
    /\ portOwner \in Logins \cup {NoLogin} /\ listening \subseteq Logins
    /\ callbackFile \in [Logins -> {"none", "torn", "code", "error"}]
    /\ browser \in [Browsers -> [at: {"idle", "write", "finish", "lost"},
                                 of: Logins \cup {NoLogin}, brings: {"code", "error"}]]
    /\ asker \in [Askers -> [at: {"idle", "poll", "save", "rollback", "fail", "complete"},
                             of: Logins \cup {NoLogin}]]
    /\ token \subseteq Logins
    /\ told \in [Logins -> {"nothing", "wait", "ok", "error"}]
    /\ timedOut \subseteq Logins /\ overlapped \subseteq Logins

LoginsInit ==
    /\ kind \in [Logins -> Kinds]
    /\ oauthSession = [l \in Logins |-> NoSession]
    /\ login = [l \in Logins |-> [at |-> "new", left |-> 0, prev |-> NoLogin]]
    /\ portOwner = NoLogin /\ listening = {}
    /\ callbackFile = [l \in Logins |-> "none"]
    /\ browser = [b \in Browsers |-> [at |-> "idle", of |-> NoLogin, brings |-> "code"]]
    /\ asker = [k \in Askers |-> [at |-> "idle", of |-> NoLogin]]
    /\ token = {} /\ told = [l \in Logins |-> "nothing"]
    /\ timedOut = {} /\ overlapped = {}

-----------------------------------------------------------------------------
(* The sessions.                                                           *)

IsPending(l) == oauthSession[l].status = "pending"

Registered(l) == [oauthSession EXCEPT ![l] = [status |-> "pending", left |-> TTL]]

\* Mutant: a login that succeeds ends the sessions of its provider.
CompletedAll(l) == [m \in Logins |-> NoSession]

Completed(l) == [oauthSession EXCEPT ![l] = NoSession]

\* An error keeps the session for another while.
WithError(l) ==
    [oauthSession EXCEPT ![l] = IF @ = NoSession THEN @ ELSE [status |-> "error", left |-> TTL]]

-----------------------------------------------------------------------------
(* A login begins.                                                         *)

Waits(step) == step \in {"wait", "read", "device"}
To(l, step) ==
    [login EXCEPT ![l].at = step, ![l].left = IF Waits(step) THEN @ ELSE 0]

FirstStep == [web |-> "claim", manual |-> "wait", device |-> "device", plugin |-> "over"]
Patience == [web |-> 0, manual |-> WaitTime, device |-> DeviceTime, plugin |-> 0]

RequestToken(l) ==
    /\ login[l].at = "new"
    /\ oauthSession' = Registered(l)
    /\ login' = [login EXCEPT ![l].at = FirstStep[kind[l]], ![l].left = Patience[kind[l]]]
    /\ UNCHANGED <<kind, portOwner, listening, callbackFile, browser, asker, token, told,
                   timedOut, overlapped>>

\* startCallbackForwarder: the one that has the port is taken out of the map, ...
ClaimPort(l) ==
    /\ login[l].at = "claim"
    /\ portOwner' = NoLogin
    /\ login' = [login EXCEPT ![l].prev = portOwner,
                     ![l].at = IF portOwner = NoLogin THEN "listen" ELSE "stopOther"]
    /\ UNCHANGED <<kind, oauthSession, listening, callbackFile, browser, asker, token, told,
                   timedOut, overlapped>>

\* ... then stopped, ...
StopOther(l) ==
    /\ login[l].at = "stopOther"
    /\ listening' = listening \ {login[l].prev}
    /\ login' = To(l, "listen")
    /\ UNCHANGED <<kind, oauthSession, portOwner, callbackFile, browser, asker, token, told,
                   timedOut, overlapped>>

\* ... and the new one listens, if nobody else does, ...
ListenOnPort(l) ==
    /\ login[l].at = "listen" /\ listening = {}
    /\ listening' = {l} /\ login' = To(l, "publish")
    /\ UNCHANGED <<kind, oauthSession, portOwner, callbackFile, browser, asker, token, told,
                   timedOut, overlapped>>

\* (another program may have the port; the session stays behind)
ListenFails(l) ==
    /\ login[l].at = "listen" /\ login' = To(l, "refused")
    /\ UNCHANGED <<kind, oauthSession, portOwner, listening, callbackFile, browser, asker,
                   token, told, timedOut, overlapped>>

\* ... and is entered in the map.
Publish(l) ==
    /\ login[l].at = "publish" /\ portOwner' = l
    /\ login' = [login EXCEPT ![l].at = "wait", ![l].left = WaitTime]
    /\ UNCHANGED <<kind, oauthSession, listening, callbackFile, browser, asker, token, told,
                   timedOut, overlapped>>

-----------------------------------------------------------------------------
(* The goroutine of a login.                                               *)

\* The step after the last one: a forwarder has to be stopped.
Leave(l) == IF kind[l] = "web" THEN "release" ELSE "over"

LookAround(l) ==
    /\ login[l].at = "wait"
    /\ login' = To(l, IF ~IsPending(l) THEN Leave(l)
                      ELSE IF login[l].left < 0 THEN "fail" ELSE "read")
    /\ UNCHANGED <<kind, oauthSession, portOwner, listening, callbackFile, browser, asker,
                   token, told, timedOut, overlapped>>

\* A file is removed as soon as it was read.  One that is half written has no
\* state in it, so it is taken for an error; its writer goes on with a file that
\* has no name any more.
Outcome == [none |-> "wait", torn |-> "fail", error |-> "fail", code |-> "exchange"]

ReadCallback(l) ==
    /\ login[l].at = "read" /\ login' = To(l, Outcome[callbackFile[l]])
    /\ callbackFile' = [callbackFile EXCEPT ![l] = "none"]
    /\ browser' = [b \in Browsers |->
           IF browser[b].of = l /\ browser[b].at = "finish" THEN [browser[b] EXCEPT !.at = "lost"]
           ELSE browser[b]]
    /\ UNCHANGED <<kind, oauthSession, portOwner, listening, asker, token, told, timedOut,
                   overlapped>>

\* The provider answers, or not, the exchange and a device login.
ProviderAnswers(l) ==
    /\ login[l].at \in {"exchange", "device"}
    /\ \E step \in {"save", "fail"} : login' = To(l, step)
    /\ UNCHANGED <<kind, oauthSession, portOwner, listening, callbackFile, browser, asker,
                   token, told, timedOut, overlapped>>

\* saveTokenRecord: a hook may fail before the token is saved or after.
SaveToken(l) ==
    /\ login[l].at = "save"
    /\ \E saved \in BOOLEAN, step \in {"complete", "fail"} :
        /\ step = "complete" => saved
        /\ token' = IF saved THEN token \cup {l} ELSE token
        /\ login' = To(l, step)
    /\ UNCHANGED <<kind, oauthSession, portOwner, listening, callbackFile, browser, asker,
                   told, timedOut, overlapped>>

FailLogin(l) ==
    /\ login[l].at = "fail" /\ login' = To(l, Leave(l))
    /\ oauthSession' = WithError(l)
    /\ UNCHANGED <<kind, portOwner, listening, callbackFile, browser, asker, token, told,
                   timedOut, overlapped>>

CompleteLogin(l) ==
    /\ login[l].at = "complete" /\ login' = To(l, Leave(l))
    /\ oauthSession' = Completed(l)
    /\ UNCHANGED <<kind, portOwner, listening, callbackFile, browser, asker, token, told,
                   timedOut, overlapped>>

\* stopCallbackForwarderInstance: it stops its own and nobody else's.
ReleasePort(l) ==
    /\ login[l].at = "release" /\ login' = To(l, "shut")
    /\ portOwner' = IF portOwner = l THEN NoLogin ELSE portOwner
    /\ UNCHANGED <<kind, oauthSession, listening, callbackFile, browser, asker, token, told,
                   timedOut, overlapped>>

\* Mutant: whoever listens on the port is stopped.
ShutAnyForwarder(l) ==
    /\ login[l].at = "shut" /\ login' = To(l, "over")
    /\ listening' = {}
    /\ UNCHANGED <<kind, oauthSession, portOwner, callbackFile, browser, asker, token, told,
                   timedOut, overlapped>>

ShutForwarder(l) ==
    /\ login[l].at = "shut" /\ login' = To(l, "over")
    /\ listening' = listening \ {l}
    /\ UNCHANGED <<kind, oauthSession, portOwner, callbackFile, browser, asker, token, told,
                   timedOut, overlapped>>

LoginStep(l) ==
    \/ ClaimPort(l) \/ StopOther(l) \/ ListenOnPort(l) \/ ListenFails(l) \/ Publish(l)
    \/ LookAround(l) \/ ReadCallback(l) \/ ProviderAnswers(l) \/ SaveToken(l)
    \/ FailLogin(l) \/ CompleteLogin(l) \/ ReleasePort(l) \/ ShutForwarder(l)

-----------------------------------------------------------------------------
(* Callbacks.  A client has the state of a login once the login has begun. *)

Begun(l) == login[l].at \notin Preparing \cup {"new", "refused"}

\* WriteOAuthCallbackFileForPendingSession: the session is pending, ...
AcceptCallback(b, l) ==
    /\ browser[b].at = "idle" /\ Begun(l) /\ IsPending(l)
    /\ \E what \in {"code", "error"} :
        browser' = [browser EXCEPT ![b] = [at |-> "write", of |-> l, brings |-> what]]
    /\ UNCHANGED <<kind, oauthSession, login, portOwner, listening, callbackFile, asker, token,
                   told, timedOut, overlapped>>

\* ... the file is created or emptied, ...
OpenCallbackFile(b) ==
    /\ browser[b].at = "write"
    /\ callbackFile' = [callbackFile EXCEPT ![browser[b].of] = "torn"]
    /\ browser' = [browser EXCEPT ![b].at = "finish"]
    /\ UNCHANGED <<kind, oauthSession, login, portOwner, listening, asker, token, told, timedOut,
                   overlapped>>

\* ... and written, unless it was removed meanwhile.
WriteCallbackFile(b) ==
    /\ browser[b].at \in {"finish", "lost"}
    /\ callbackFile' = IF browser[b].at = "lost" THEN callbackFile
                       ELSE [callbackFile EXCEPT ![browser[b].of] = browser[b].brings]
    /\ browser' = [browser EXCEPT ![b] = [at |-> "idle", of |-> NoLogin, brings |-> "code"]]
    /\ UNCHANGED <<kind, oauthSession, login, portOwner, listening, asker, token, told, timedOut,
                   overlapped>>

-----------------------------------------------------------------------------
(* GetAuthStatus.                                                          *)

Tell(l, answer) == told' = [told EXCEPT ![l] = answer]
AskerDone(k) == [asker EXCEPT ![k] = [at |-> "idle", of |-> NoLogin]]

\* A session that is not there is one that was completed.
Answer == [none |-> "ok", error |-> "error", pending |-> "wait"]

AskStatus(k, l) ==
    /\ asker[k].at = "idle" /\ Begun(l)
    /\ ~(kind[l] = "plugin" /\ IsPending(l))
    /\ Tell(l, Answer[oauthSession[l].status])
    /\ UNCHANGED <<kind, oauthSession, login, portOwner, listening, callbackFile, browser,
                   asker, token, timedOut, overlapped>>

\* A pending login of a plugin is polled.
AskPlugin(k, l) ==
    /\ asker[k].at = "idle" /\ Begun(l) /\ kind[l] = "plugin" /\ IsPending(l)
    /\ asker' = [asker EXCEPT ![k] = [at |-> "poll", of |-> l]]
    /\ overlapped' = IF \E j \in Askers : asker[j].of = l THEN overlapped \cup {l}
                     ELSE overlapped
    /\ UNCHANGED <<kind, oauthSession, login, portOwner, listening, callbackFile, browser,
                   token, told, timedOut>>

PluginAnswers(k) ==
    /\ asker[k].at = "poll"
    /\ \/ /\ asker' = AskerDone(k) /\ Tell(asker[k].of, "wait")
       \/ /\ \E step \in {"save", "fail"} : asker' = [asker EXCEPT ![k].at = step]
          /\ UNCHANGED told
    /\ UNCHANGED <<kind, oauthSession, login, portOwner, listening, callbackFile, browser,
                   token, timedOut, overlapped>>

\* savePluginLoginRecords: what was saved is removed again when a hook fails, ...
SavePluginToken(k) ==
    /\ asker[k].at = "save"
    /\ \E step \in {"complete", "rollback", "fail"} :
        /\ asker' = [asker EXCEPT ![k].at = step]
        /\ token' = IF step = "fail" THEN token ELSE token \cup {asker[k].of}
    /\ UNCHANGED <<kind, oauthSession, login, portOwner, listening, callbackFile, browser,
                   told, timedOut, overlapped>>

\* ... if the store lets it.
Rollback(k) ==
    /\ asker[k].at = "rollback"
    /\ asker' = [asker EXCEPT ![k].at = "fail"]
    /\ token' \in {token, token \ {asker[k].of}}
    /\ UNCHANGED <<kind, oauthSession, login, portOwner, listening, callbackFile, browser,
                   told, timedOut, overlapped>>

EndPluginLogin(k) ==
    /\ asker' = AskerDone(k)
    /\ \/ /\ asker[k].at = "fail" /\ Tell(asker[k].of, "error")
          /\ oauthSession' = WithError(asker[k].of)
       \/ /\ asker[k].at = "complete" /\ Tell(asker[k].of, "ok")
          /\ oauthSession' = Completed(asker[k].of)
    /\ UNCHANGED <<kind, login, portOwner, listening, callbackFile, browser, token, timedOut,
                   overlapped>>

-----------------------------------------------------------------------------
(* Time.  Who looks at the sessions purges those that are over.            *)

\* Mutant: a session that has no error stays.
PurgedErrors(s) ==
    IF s.left = 0 THEN IF s.status = "error" THEN NoSession ELSE s
    ELSE [s EXCEPT !.left = @ - 1]

Purged(s) == IF s.left = 0 THEN NoSession ELSE [s EXCEPT !.left = @ - 1]

LoginTick ==
    /\ \A l \in Logins : login[l].at = "device" => login[l].left > 0
    /\ oauthSession' = [l \in Logins |-> Purged(oauthSession[l])]
    /\ timedOut' = timedOut \cup
           {l \in Logins : oauthSession[l] # NoSession /\ oauthSession'[l] = NoSession}
    /\ login' = [l \in Logins |->
           IF Waits(login[l].at) /\ login[l].left >= 0 THEN [login[l] EXCEPT !.left = @ - 1]
           ELSE login[l]]
    /\ UNCHANGED <<kind, portOwner, listening, callbackFile, browser, asker, token, told,
                   overlapped>>

LoginsNext ==
    \/ \E l \in Logins : RequestToken(l) \/ LoginStep(l)
    \/ \E b \in Browsers : OpenCallbackFile(b) \/ WriteCallbackFile(b)
    \/ \E b \in Browsers, l \in Logins : AcceptCallback(b, l)
    \/ \E k \in Askers, l \in Logins : AskStatus(k, l) \/ AskPlugin(k, l)
    \/ \E k \in Askers : PluginAnswers(k) \/ SavePluginToken(k) \/ Rollback(k) \/ EndPluginLogin(k)
    \/ LoginTick

\* Goroutines keep running and time goes on.  And the provider answers, or the
\* connection to it breaks, which no code here enforces: the exchanges of Codex, Claude
\* and Antigravity use a client without a timeout and a context that never ends.
LoginsFairness ==
    /\ \A l \in Logins : WF_loginVars(LoginStep(l))
    /\ WF_loginVars(LoginTick)

LoginsSpec == LoginsInit /\ [][LoginsNext]_loginVars /\ LoginsFairness

-----------------------------------------------------------------------------
(* Properties.                                                             *)

\* A client is told that its login succeeded only if the token is saved, unless
\* the session ended by time or two questions carried a plugin's login on at once.
OkIsTrue ==
    \A l \in Logins \ (timedOut \cup overlapped) : told[l] = "ok" => l \in token

\* Likewise what it was told, ok or an error, is the end: nobody tells it to wait
\* afterwards, and no token appears after an error.
ToldIsFinal ==
    \A l \in Logins \ (timedOut \cup overlapped) :
        /\ told[l] \in {"ok", "error"} => told'[l] # "wait"
        /\ told[l] = "error" => (l \in token' => l \in token)

\* A client that asks about its login is told what became of it, whatever other
\* logins of the provider do meanwhile.
LoginIsTold == [][OkIsTrue' /\ ToldIsFinal]_loginVars

\* The map names a forwarder that listens; one that waits for a callback listens, unless
\* a later login took the port; and a login that is over leaves none behind.
PortIsServed ==
    /\ portOwner # NoLogin => portOwner \in listening
    /\ \A l \in Logins :
        /\ kind[l] = "web" /\ login[l].at \in {"wait", "read", "exchange"} =>
              l \in listening \/ \E m \in Logins : login[m].prev = l
        /\ login[l].at \in Ended => l \notin listening

\* Once its goroutine has ended, a login has no session that is still pending: whichever
\* way it went, nobody asks on for what will not come.  (A plugin's login has no
\* goroutine, and one whose port is taken leaves its session to time.)
NoneAsksForEver ==
    \A l \in Logins : login[l].at \in {"release", "shut", "over"} /\ kind[l] # "plugin" =>
        ~IsPending(l)

\* Every login comes to its end, without a forwarder and without a session that is
\* still pending, whoever fails and whichever callbacks come, if its provider answers.
LoginEnds ==
    /\ [][NoneAsksForEver']_loginVars
    /\ <>[](\A l \in Logins :
              /\ login[l].at \in Ended \cup {"new"}
              /\ kind[l] # "plugin" => ~IsPending(l) \/ login[l].at = "new")

-----------------------------------------------------------------------------
(* What no text of the repository promises, and a reader would expect.     *)

OkMeansSaved == \A l \in Logins : told[l] = "ok" => l \in token
CallbackCounts ==
    \A b \in Browsers : browser[b].at = "lost" => browser[b].brings = "error"

-----------------------------------------------------------------------------
(* The inductive invariant.                                                *)

Serving == {"wait", "read", "exchange", "save", "fail", "complete", "release", "shut"}

\* Who has the port, who had it, and who listens.
PortInv ==
    /\ portOwner # NoLogin => portOwner \in listening
    /\ \A l \in Logins :
        /\ l \in listening => kind[l] = "web" /\ login[l].at \in Serving \cup {"publish"}
        /\ login[l].at = "publish" => l \in listening
        /\ login[l].at \in Preparing => kind[l] = "web"
        /\ login[l].at = "device" => kind[l] # "web"
        /\ login[l].at \in {"new", "claim"} => login[l].prev = NoLogin
        /\ login[l].at = "shut" => portOwner # l
        /\ portOwner = l => login[l].at \in Serving
        /\ kind[l] = "web" /\ login[l].at \in Serving =>
              l \in listening \/ \E m \in Logins : login[m].prev = l
        /\ \A m \in Logins : login[m].prev = l =>
              login[l].at \in Serving \cup {"over"} /\ portOwner # l

\* Who carries a login on: its goroutine, or the questions about a plugin's.
CarriedInv ==
    /\ \A l \in Logins :
        /\ kind[l] = "plugin" => login[l].at \in {"new", "over"}
        /\ login[l].at = "complete" => l \in token
        /\ oauthSession[l].status = "error" => login[l].at \in {"release", "shut", "over"}
    /\ \A k \in Askers :
        /\ asker[k].at = "idle" <=> asker[k].of = NoLogin
        /\ asker[k].of # NoLogin => kind[asker[k].of] = "plugin" /\ login[asker[k].of].at = "over"

\* What the session and the answers of a login say, unless its time was over or
\* two questions carried it on at once.
ToldInv ==
    \A l \in Logins \ (timedOut \cup overlapped) :
        /\ told[l] = "error" => oauthSession[l].status = "error"
        /\ told[l] = "ok" => oauthSession[l] = NoSession /\ login[l].at # "new"
        /\ oauthSession[l] = NoSession /\ login[l].at # "new" => l \in token
        /\ \A k \in Askers : asker[k].of = l =>
              /\ IsPending(l)
              /\ asker[k].at = "complete" => l \in token
              /\ \A j \in Askers : asker[j].of = l => j = k

LoginsInv == LoginsTypeOK /\ PortInv /\ CarriedInv /\ ToldInv
==============================================================================
