--------------------------- MODULE OAuthLoginsProofs ---------------------------
(***************************************************************************)
(* Proofs about OAuthLogins, for any logins, browsers, askers and times.   *)
(***************************************************************************)
EXTENDS OAuthLogins, TLAPS

-----------------------------------------------------------------------------
(* Types.                                                                  *)

Steps == {"new", "device", "wait", "read", "exchange", "save", "fail", "complete",
          "release", "shut"} \cup Preparing \cup Ended

LoginRecord == [at: Steps, left: -1..(WaitTime + DeviceTime), prev: Logins \cup {NoLogin}]
SessionRecord == {NoSession} \cup [status: {"pending", "error"}, left: 0..TTL]
AskerRecord == [at: {"idle", "poll", "save", "rollback", "fail", "complete"},
                of: Logins \cup {NoLogin}]
BrowserRecord == [at: {"idle", "write", "finish", "lost"}, of: Logins \cup {NoLogin},
                  brings: {"code", "error"}]

LEMMA RecordTypes ==
    ASSUME LoginsTypeOK
    PROVE  /\ login \in [Logins -> LoginRecord] /\ oauthSession \in [Logins -> SessionRecord]
           /\ asker \in [Askers -> AskerRecord] /\ browser \in [Browsers -> BrowserRecord]
BY DEF LoginsTypeOK, LoginRecord, SessionRecord, AskerRecord, BrowserRecord, Steps

\* Moving a login to a step leaves the others, and who had the port before it.
LEMMA ToFacts ==
    ASSUME login \in [Logins -> LoginRecord], NEW l \in Logins, NEW step \in Steps
    PROVE  /\ To(l, step) \in [Logins -> LoginRecord]
           /\ To(l, step)[l].at = step /\ To(l, step)[l].prev = login[l].prev
           /\ \A m \in Logins \ {l} : To(l, step)[m] = login[m]
<1>1. 0 \in -1..(WaitTime + DeviceTime)
  BY LoginsAssumption
<1>. QED
  BY <1>1 DEF To, LoginRecord

LEMMA SessionFacts ==
    ASSUME oauthSession \in [Logins -> SessionRecord], NEW l \in Logins
    PROVE  /\ Registered(l) \in [Logins -> SessionRecord]
           /\ Completed(l) \in [Logins -> SessionRecord]
           /\ WithError(l) \in [Logins -> SessionRecord]
           /\ \A m \in Logins \ {l} : /\ Registered(l)[m] = oauthSession[m]
                                      /\ Completed(l)[m] = oauthSession[m]
                                      /\ WithError(l)[m] = oauthSession[m]
           /\ Registered(l)[l].status = "pending" /\ Completed(l)[l] = NoSession
           /\ IF oauthSession[l] = NoSession THEN WithError(l)[l] = NoSession
              ELSE WithError(l)[l].status = "error"
           /\ oauthSession[l] = NoSession <=> oauthSession[l].status = "none"
           /\ oauthSession[l].status \in {"none", "pending", "error"}
<1>1. [status |-> "pending", left |-> TTL] \in SessionRecord
      /\ [status |-> "error", left |-> TTL] \in SessionRecord
  BY LoginsAssumption DEF SessionRecord
<1>. QED
  BY <1>1 DEF Registered, Completed, WithError, SessionRecord, NoSession

LEMMA PurgedFacts ==
    ASSUME NEW s \in SessionRecord
    PROVE  Purged(s) \in SessionRecord /\ (Purged(s) = NoSession \/ Purged(s).status = s.status)
<1>1. CASE s = NoSession
  BY <1>1 DEF Purged, NoSession, SessionRecord
<1>2. CASE s \in [status: {"pending", "error"}, left: 0..TTL] /\ s.left = 0
  BY <1>2 DEF Purged, SessionRecord
<1>3. CASE s \in [status: {"pending", "error"}, left: 0..TTL] /\ s.left # 0
  <2>1. s.left - 1 \in 0..TTL
    BY <1>3, LoginsAssumption
  <2>. QED
    BY <1>3, <2>1 DEF Purged, SessionRecord
<1>. QED
  BY <1>1, <1>2, <1>3 DEF SessionRecord

\* Every operation of a login keeps its record.
LEMMA LoginRecordStep ==
    ASSUME LoginsTypeOK, NEW l \in Logins, LoginStep(l) PROVE login' \in [Logins -> LoginRecord]
<1>0. login \in [Logins -> LoginRecord]
  BY RecordTypes
<1>1. CASE ClaimPort(l)
  <2>1. portOwner \in Logins \cup {NoLogin}
    BY DEF LoginsTypeOK
  <2>. QED
    BY <1>0, <1>1, <2>1 DEF ClaimPort, LoginRecord, Steps, Preparing
<1>2. CASE Publish(l)
  <2>1. WaitTime \in -1..(WaitTime + DeviceTime)
    BY LoginsAssumption
  <2>. QED
    BY <1>0, <1>2, <2>1 DEF Publish, LoginRecord, Steps
<1>3. CASE LookAround(l)
  BY <1>0, <1>3, ToFacts DEF LookAround, Leave, Steps, Ended
<1>4. CASE ReadCallback(l)
  <2>1. Outcome[callbackFile[l]] \in Steps
    BY DEF LoginsTypeOK, Outcome, Steps
  <2>. QED
    BY <1>0, <1>4, <2>1, ToFacts DEF ReadCallback
<1>5. CASE \E step \in Steps : login' = To(l, step)
  BY <1>0, <1>5, ToFacts
<1>6. CASE StopOther(l) \/ ListenOnPort(l) \/ ListenFails(l) \/ ProviderAnswers(l)
           \/ SaveToken(l) \/ FailLogin(l) \/ CompleteLogin(l) \/ ReleasePort(l)
           \/ ShutForwarder(l)
  <2>1. {"listen", "publish", "refused", "save", "fail", "complete", "release", "over", "shut"}
          \subseteq Steps
    BY DEF Steps, Preparing, Ended
  <2>2. \E step \in Steps : login' = To(l, step)
    BY <1>6, <2>1 DEF StopOther, ListenOnPort, ListenFails, ProviderAnswers, SaveToken,
         FailLogin, CompleteLogin, ReleasePort, ShutForwarder, Leave
  <2>. QED
    BY <1>5, <2>2
<1>. QED
  BY <1>1, <1>2, <1>3, <1>4, <1>6 DEF LoginStep

LEMMA LoginsTypeStep ==
    ASSUME LoginsTypeOK, CarriedInv, [LoginsNext]_loginVars PROVE LoginsTypeOK'
<1>0. /\ login \in [Logins -> LoginRecord] /\ oauthSession \in [Logins -> SessionRecord]
      /\ asker \in [Askers -> AskerRecord] /\ browser \in [Browsers -> BrowserRecord]
  BY RecordTypes
<1>b. /\ kind \in [Logins -> Kinds] /\ portOwner \in Logins \cup {NoLogin} /\ listening \subseteq Logins
      /\ callbackFile \in [Logins -> {"none", "torn", "code", "error"}]
      /\ token \subseteq Logins /\ told \in [Logins -> {"nothing", "wait", "ok", "error"}]
      /\ timedOut \subseteq Logins /\ overlapped \subseteq Logins
  BY DEF LoginsTypeOK
<1>a. ASSUME login' \in [Logins -> LoginRecord], oauthSession' \in [Logins -> SessionRecord],
             asker' \in [Askers -> AskerRecord], browser' \in [Browsers -> BrowserRecord],
             kind' = kind, portOwner' \in Logins \cup {NoLogin}, listening' \subseteq Logins,
             callbackFile' \in [Logins -> {"none", "torn", "code", "error"}],
             token' \subseteq Logins, told' \in [Logins -> {"nothing", "wait", "ok", "error"}],
             timedOut' \subseteq Logins, overlapped' \subseteq Logins
      PROVE  LoginsTypeOK'
  BY <1>a, <1>b DEF LoginsTypeOK, LoginRecord, SessionRecord, AskerRecord, BrowserRecord, Steps
<1>1. ASSUME NEW l \in Logins, RequestToken(l) PROVE LoginsTypeOK'
  <2>1. kind[l] \in {"web", "manual", "device", "plugin"}
    BY <1>b, LoginsAssumption
  <2>2. FirstStep[kind[l]] \in Steps
    BY <2>1 DEF FirstStep, Steps, Preparing, Ended
  <2>3. Patience[kind[l]] \in -1..(WaitTime + DeviceTime)
    BY <2>1, LoginsAssumption DEF Patience
  <2>4. login' \in [Logins -> LoginRecord]
    <3>1. ASSUME NEW step \in Steps, NEW left \in -1..(WaitTime + DeviceTime)
          PROVE  [login EXCEPT ![l].at = step, ![l].left = left] \in [Logins -> LoginRecord]
      BY <1>0 DEF LoginRecord
    <3>. QED
      BY <1>1, <2>2, <2>3, <3>1 DEF RequestToken
  <2>. QED
    BY <1>0, <1>1, <1>a, <1>b, <2>4, SessionFacts DEF RequestToken
<1>2. ASSUME NEW l \in Logins, LoginStep(l) PROVE LoginsTypeOK'
  <2>1. login' \in [Logins -> LoginRecord]
    BY <1>2, LoginRecordStep
  <2>2. CASE ClaimPort(l) \/ StopOther(l) \/ ListenOnPort(l) \/ ListenFails(l) \/ Publish(l)
             \/ LookAround(l) \/ ProviderAnswers(l) \/ ReleasePort(l) \/ ShutForwarder(l)
    BY <1>0, <1>a, <1>b, <2>1, <2>2 DEF ClaimPort, StopOther, ListenOnPort, ListenFails, Publish,
         LookAround, ProviderAnswers, ReleasePort, ShutForwarder
  <2>3. CASE ReadCallback(l)
    <3>1. browser' \in [Browsers -> BrowserRecord]
      BY <1>0, <2>3 DEF ReadCallback, BrowserRecord
    <3>. QED
      BY <1>0, <1>a, <1>b, <2>1, <2>3, <3>1 DEF ReadCallback
  <2>4. CASE SaveToken(l)
    BY <1>0, <1>a, <1>b, <2>1, <2>4 DEF SaveToken
  <2>5. CASE FailLogin(l) \/ CompleteLogin(l)
    BY <1>0, <1>a, <1>b, <2>1, <2>5, SessionFacts DEF FailLogin, CompleteLogin
  <2>. QED
    BY <1>2, <2>2, <2>3, <2>4, <2>5 DEF LoginStep
<1>3. ASSUME NEW b \in Browsers, OpenCallbackFile(b) \/ WriteCallbackFile(b) PROVE LoginsTypeOK'
  <2>1. browser' \in [Browsers -> BrowserRecord]
    <3>1. [browser EXCEPT ![b].at = "finish"] \in [Browsers -> BrowserRecord]
      BY <1>0 DEF BrowserRecord
    <3>2. [at |-> "idle", of |-> NoLogin, brings |-> "code"] \in BrowserRecord
      BY DEF BrowserRecord
    <3>. QED
      BY <1>0, <1>3, <3>1, <3>2 DEF OpenCallbackFile, WriteCallbackFile
  <2>2. browser[b].brings \in {"code", "error"}
    BY <1>0 DEF BrowserRecord
  <2>3. callbackFile' \in [Logins -> {"none", "torn", "code", "error"}]
    BY <1>b, <1>3, <2>2 DEF OpenCallbackFile, WriteCallbackFile
  <2>. QED
    BY <1>0, <1>3, <1>a, <1>b, <2>1, <2>3 DEF OpenCallbackFile, WriteCallbackFile
<1>4. ASSUME NEW b \in Browsers, NEW l \in Logins, AcceptCallback(b, l) PROVE LoginsTypeOK'
  <2>1. browser' \in [Browsers -> BrowserRecord]
    BY <1>0, <1>4 DEF AcceptCallback, BrowserRecord
  <2>. QED
    BY <1>0, <1>4, <1>a, <1>b, <2>1 DEF AcceptCallback
<1>5. ASSUME NEW k \in Askers, NEW l \in Logins, AskStatus(k, l) \/ AskPlugin(k, l)
      PROVE  LoginsTypeOK'
  <2>1. CASE AskStatus(k, l)
    <3>1. Answer[oauthSession[l].status] \in {"ok", "error", "wait"}
      BY <1>0, SessionFacts DEF Answer
    <3>. QED
      BY <1>0, <1>a, <1>b, <2>1, <3>1 DEF AskStatus, Tell
  <2>2. CASE AskPlugin(k, l)
    <3>1. asker' \in [Askers -> AskerRecord]
      BY <1>0, <2>2 DEF AskPlugin, AskerRecord
    <3>. QED
      BY <1>0, <1>a, <1>b, <2>2, <3>1 DEF AskPlugin
  <2>. QED
    BY <1>5, <2>1, <2>2
<1>6. ASSUME NEW k \in Askers,
             PluginAnswers(k) \/ SavePluginToken(k) \/ Rollback(k) \/ EndPluginLogin(k)
      PROVE  LoginsTypeOK'
  <2>1. asker' \in [Askers -> AskerRecord]
    <3>1. ASSUME NEW step \in {"save", "fail", "complete", "rollback"}
          PROVE  [asker EXCEPT ![k].at = step] \in [Askers -> AskerRecord]
      BY <1>0 DEF AskerRecord
    <3>2. AskerDone(k) \in [Askers -> AskerRecord]
      <4>1. [at |-> "idle", of |-> NoLogin] \in AskerRecord
        BY DEF AskerRecord
      <4>. QED
        BY <1>0, <4>1 DEF AskerDone
    <3>. QED
      BY <1>6, <3>1, <3>2, Zenon DEF PluginAnswers, SavePluginToken, Rollback, EndPluginLogin
  <2>2. CASE PluginAnswers(k)
    BY <1>0, <1>a, <1>b, <2>1, <2>2 DEF PluginAnswers, Tell
  <2>3. CASE SavePluginToken(k) \/ Rollback(k)
    <3>1. asker[k].of \in Logins
      BY <1>0, <2>3 DEF CarriedInv, AskerRecord, SavePluginToken, Rollback
    <3>. QED
      BY <1>0, <1>a, <1>b, <2>1, <2>3, <3>1 DEF SavePluginToken, Rollback
  <2>4. CASE EndPluginLogin(k)
    <3>1. asker[k].of \in Logins
      BY <1>0, <2>4 DEF CarriedInv, AskerRecord, EndPluginLogin
    <3>2. told' \in [Logins -> {"nothing", "wait", "ok", "error"}]
      BY <1>b, <2>4 DEF EndPluginLogin, Tell
    <3>3. oauthSession' \in [Logins -> SessionRecord]
      BY <1>0, <2>4, <3>1, SessionFacts DEF EndPluginLogin
    <3>. QED
      BY <1>0, <1>a, <1>b, <2>1, <2>4, <3>2, <3>3 DEF EndPluginLogin
  <2>. QED
    BY <1>6, <2>2, <2>3, <2>4
<1>7. ASSUME LoginTick PROVE LoginsTypeOK'
  <2>1. login' \in [Logins -> LoginRecord]
    <3>1. ASSUME NEW l \in Logins, login[l].left >= 0
          PROVE  [login[l] EXCEPT !.left = @ - 1] \in LoginRecord
      <4>1. login[l].left - 1 \in -1..(WaitTime + DeviceTime)
        BY <1>0, <3>1, LoginsAssumption DEF LoginRecord
      <4>. QED
        BY <1>0, <4>1 DEF LoginRecord
    <3>. QED
      BY <1>0, <1>7, <3>1 DEF LoginTick
  <2>2. oauthSession' \in [Logins -> SessionRecord]
    BY <1>0, <1>7, PurgedFacts DEF LoginTick
  <2>. QED
    BY <1>0, <1>7, <1>a, <1>b, <2>1, <2>2 DEF LoginTick
<1>8. CASE UNCHANGED loginVars
  BY <1>8, <1>a, <1>b, <1>0 DEF loginVars
<1>. QED
  BY <1>1, <1>2, <1>3, <1>4, <1>5, <1>6, <1>7, <1>8, Zenon DEF LoginsNext

-----------------------------------------------------------------------------
(* The provider's port.                                                    *)

\* Steps that leave the port, the forwarders and the places of the logins alone.
LEMMA PortUntouched ==
    ASSUME PortInv, kind' = kind, portOwner' = portOwner, listening' = listening,
           \A l \in Logins : login'[l].at = login[l].at /\ login'[l].prev = login[l].prev
    PROVE  PortInv'
BY DEF PortInv

\* A goroutine goes on, without touching the port or the forwarders.
LEMMA PortWhileServing ==
    ASSUME PortInv, kind' = kind, portOwner' = portOwner, listening' = listening,
           NEW l \in Logins, login[l].at \in (Serving \ {"shut"}) \cup {"device"},
           login'[l].at \in (Serving \ {"shut"}) \cup {"over"},
           login'[l].at = "over" => kind[l] # "web",
           \A m \in Logins : login'[m].prev = login[m].prev,
           \A m \in Logins \ {l} : login'[m].at = login[m].at
    PROVE  PortInv'
<1>0. login'[l].at \notin Preparing \cup {"new", "publish", "device", "shut"}
  BY DEF Serving, Preparing
<1>1. portOwner = l => l \in listening
  BY LoginsAssumption DEF PortInv
<1>2. l \in listening => kind[l] = "web" /\ login'[l].at \in Serving
  BY DEF PortInv
<1>3. kind[l] = "web" => login[l].at \in Serving
  BY DEF PortInv
<1>. QED
  BY <1>0, <1>1, <1>2, <1>3 DEF PortInv, Preparing

LEMMA PortStep ==
    ASSUME LoginsTypeOK, PortInv, [LoginsNext]_loginVars PROVE PortInv'
<1>0. /\ login \in [Logins -> LoginRecord] /\ kind \in [Logins -> Kinds]
      /\ \A l \in Logins : login[l].at \in Steps
  BY RecordTypes DEF LoginsTypeOK, LoginRecord
<1>a. ASSUME NEW l \in Logins, NEW step \in Steps, login' = To(l, step)
      PROVE  /\ login'[l].at = step
             /\ \A m \in Logins : login'[m].prev = login[m].prev
             /\ \A m \in Logins \ {l} : login'[m] = login[m]
  BY <1>0, <1>a, ToFacts
<1>b. {"listen", "publish", "refused", "save", "fail", "complete", "release", "over", "shut",
       "wait", "read", "exchange"} \subseteq Steps
  BY DEF Steps, Preparing, Ended
<1>1. ASSUME NEW l \in Logins, RequestToken(l) PROVE PortInv'
  <2>1. kind[l] \in {"web", "manual", "device", "plugin"}
    BY <1>0, LoginsAssumption
  <2>2. FirstStep[kind[l]] \in {"claim", "wait", "device", "over"}
        /\ (FirstStep[kind[l]] = "claim" <=> kind[l] = "web")
    BY <2>1 DEF FirstStep
  <2>3. /\ login'[l].at = FirstStep[kind[l]] /\ login'[l].prev = login[l].prev
        /\ \A m \in Logins \ {l} : login'[m] = login[m]
    BY <1>0, <1>1 DEF RequestToken, LoginRecord
  <2>4. kind' = kind /\ portOwner' = portOwner /\ listening' = listening /\ login[l].at = "new"
    BY <1>1 DEF RequestToken
  <2>5. /\ l \notin listening /\ portOwner # l /\ login[l].prev = NoLogin
        /\ \A m \in Logins : login[m].prev # l
    BY <2>4 DEF PortInv, Serving
  <2>. QED
    BY <2>2, <2>3, <2>4, <2>5 DEF PortInv, Preparing, Serving
<1>2. ASSUME NEW l \in Logins, ClaimPort(l) PROVE PortInv'
  <2>1. /\ login'[l].prev = portOwner
        /\ login'[l].at = IF portOwner = NoLogin THEN "listen" ELSE "stopOther"
        /\ \A m \in Logins \ {l} : login'[m] = login[m]
    BY <1>0, <1>2 DEF ClaimPort, LoginRecord
  <2>2. /\ kind' = kind /\ portOwner' = NoLogin /\ listening' = listening
        /\ login[l].at = "claim"
    BY <1>2 DEF ClaimPort
  <2>3. /\ l \notin listening /\ portOwner # l /\ login[l].prev = NoLogin /\ kind[l] = "web"
        /\ \A m \in Logins : login[m].prev # l
    BY <2>2 DEF PortInv, Serving, Preparing
  <2>. QED
    BY <2>1, <2>2, <2>3, LoginsAssumption DEF PortInv, Preparing, Serving
<1>3. ASSUME NEW l \in Logins, StopOther(l) PROVE PortInv'
  <2>1. /\ login'[l].at = "listen"
        /\ \A m \in Logins : login'[m].prev = login[m].prev
        /\ \A m \in Logins \ {l} : login'[m] = login[m]
    BY <1>3, <1>a, <1>b DEF StopOther
  <2>2. /\ kind' = kind /\ portOwner' = portOwner /\ listening' = listening \ {login[l].prev}
        /\ login[l].at = "stopOther"
    BY <1>3 DEF StopOther
  <2>3. portOwner \in Logins \cup {NoLogin}
    BY DEF LoginsTypeOK
  <2>4. portOwner # NoLogin => portOwner # login[l].prev
    BY <2>3 DEF PortInv
  <2>5. \A m \in Logins : login[m].at = "publish" => m # login[l].prev
    BY DEF PortInv, Serving
  <2>6. /\ l \notin listening /\ kind[l] = "web" /\ \A m \in Logins : login[m].prev # l
        /\ portOwner # l
    BY <2>2 DEF PortInv, Serving, Preparing
  <2>. QED
    BY <2>1, <2>2, <2>4, <2>5, <2>6 DEF PortInv, Preparing, Serving
<1>4. ASSUME NEW l \in Logins, ListenOnPort(l) PROVE PortInv'
  <2>1. /\ login'[l].at = "publish"
        /\ \A m \in Logins : login'[m].prev = login[m].prev
        /\ \A m \in Logins \ {l} : login'[m] = login[m]
    BY <1>4, <1>a, <1>b DEF ListenOnPort
  <2>2. /\ kind' = kind /\ portOwner' = portOwner /\ listening = {} /\ listening' = {l}
        /\ login[l].at = "listen"
    BY <1>4 DEF ListenOnPort
  <2>3. portOwner = NoLogin /\ kind[l] = "web" /\ \A m \in Logins : login[m].prev # l
    BY <2>2 DEF PortInv, Serving, Preparing
  <2>. QED
    BY <2>1, <2>2, <2>3, LoginsAssumption DEF PortInv, Preparing, Serving
<1>5. ASSUME NEW l \in Logins, ListenFails(l) PROVE PortInv'
  <2>1. /\ login'[l].at = "refused"
        /\ \A m \in Logins : login'[m].prev = login[m].prev
        /\ \A m \in Logins \ {l} : login'[m] = login[m]
    BY <1>5, <1>a, <1>b DEF ListenFails
  <2>2. /\ kind' = kind /\ portOwner' = portOwner /\ listening' = listening
        /\ login[l].at = "listen"
    BY <1>5 DEF ListenFails
  <2>3. l \notin listening /\ portOwner # l /\ \A m \in Logins : login[m].prev # l
    BY <2>2 DEF PortInv, Serving
  <2>. QED
    BY <2>1, <2>2, <2>3 DEF PortInv, Preparing, Serving
<1>6. ASSUME NEW l \in Logins, Publish(l) PROVE PortInv'
  <2>1. /\ login'[l].at = "wait" /\ login'[l].prev = login[l].prev
        /\ \A m \in Logins \ {l} : login'[m] = login[m]
    BY <1>0, <1>6 DEF Publish, LoginRecord
  <2>2. /\ kind' = kind /\ portOwner' = l /\ listening' = listening
        /\ login[l].at = "publish"
    BY <1>6 DEF Publish
  <2>3. /\ l \in listening /\ kind[l] = "web" /\ \A m \in Logins : login[m].prev # l
    BY <2>2 DEF PortInv, Serving, Preparing
  <2>. QED
    BY <2>1, <2>2, <2>3 DEF PortInv, Preparing, Serving
<1>7. ASSUME NEW l \in Logins,
             LookAround(l) \/ ReadCallback(l) \/ ProviderAnswers(l) \/ SaveToken(l)
             \/ FailLogin(l) \/ CompleteLogin(l)
      PROVE  PortInv'
  <2>1. kind' = kind /\ portOwner' = portOwner /\ listening' = listening
    BY <1>7 DEF LookAround, ReadCallback, ProviderAnswers, SaveToken, FailLogin, CompleteLogin
  <2>2. login[l].at \in (Serving \ {"shut"}) \cup {"device"}
    BY <1>7 DEF LookAround, ReadCallback, ProviderAnswers, SaveToken, FailLogin, CompleteLogin,
         Serving
  <2>3. \E step \in {"wait", "read", "exchange", "save", "fail", "complete", Leave(l)} :
            login' = To(l, step)
    <3>1. CASE ReadCallback(l)
      <4>1. Outcome[callbackFile[l]] \in {"wait", "fail", "exchange"}
        BY DEF LoginsTypeOK, Outcome
      <4>. QED
        BY <3>1, <4>1 DEF ReadCallback
    <3>2. CASE LookAround(l)
      BY <3>2 DEF LookAround
    <3>3. CASE ProviderAnswers(l) \/ SaveToken(l) \/ FailLogin(l) \/ CompleteLogin(l)
      BY <3>3 DEF ProviderAnswers, SaveToken, FailLogin, CompleteLogin
    <3>. QED
      BY <1>7, <3>1, <3>2, <3>3
  <2>4. PICK step \in {"wait", "read", "exchange", "save", "fail", "complete", Leave(l)} :
            login' = To(l, step)
    BY <2>3
  <2>5. step \in (Serving \ {"shut"}) \cup {"over"} /\ (step = "over" => kind[l] # "web")
    BY DEF Leave, Serving
  <2>6. step \in Steps
    BY <1>b DEF Leave
  <2>7. /\ login'[l].at = step
        /\ \A m \in Logins : login'[m].prev = login[m].prev
        /\ \A m \in Logins \ {l} : login'[m] = login[m]
    BY <1>a, <2>4, <2>6
  <2>. QED
    BY <2>1, <2>2, <2>5, <2>7, PortWhileServing
<1>8. ASSUME NEW l \in Logins, ReleasePort(l) PROVE PortInv'
  <2>1. /\ login'[l].at = "shut"
        /\ \A m \in Logins : login'[m].prev = login[m].prev
        /\ \A m \in Logins \ {l} : login'[m] = login[m]
    BY <1>8, <1>a, <1>b DEF ReleasePort
  <2>2. /\ kind' = kind /\ portOwner' = (IF portOwner = l THEN NoLogin ELSE portOwner)
        /\ listening' = listening /\ login[l].at = "release"
    BY <1>8 DEF ReleasePort
  <2>3. portOwner' # l /\ portOwner' \in {NoLogin, portOwner}
    BY <2>2, LoginsAssumption
  <2>. QED
    BY <2>1, <2>2, <2>3, LoginsAssumption DEF PortInv, Preparing, Serving
<1>9. ASSUME NEW l \in Logins, ShutForwarder(l) PROVE PortInv'
  <2>1. /\ login'[l].at = "over"
        /\ \A m \in Logins : login'[m].prev = login[m].prev
        /\ \A m \in Logins \ {l} : login'[m] = login[m]
    BY <1>9, <1>a, <1>b DEF ShutForwarder
  <2>2. /\ kind' = kind /\ portOwner' = portOwner /\ listening' = listening \ {l}
        /\ login[l].at = "shut"
    BY <1>9 DEF ShutForwarder
  <2>3. portOwner # l
    BY <2>2 DEF PortInv
  <2>. QED
    BY <2>1, <2>2, <2>3 DEF PortInv, Preparing, Serving
<1>10. ASSUME NEW l \in Logins, LoginStep(l) PROVE PortInv'
  BY <1>2, <1>3, <1>4, <1>5, <1>6, <1>7, <1>8, <1>9, <1>10 DEF LoginStep
<1>11. ASSUME NEW b \in Browsers, OpenCallbackFile(b) \/ WriteCallbackFile(b) PROVE PortInv'
  BY <1>11, PortUntouched DEF OpenCallbackFile, WriteCallbackFile
<1>12. ASSUME NEW b \in Browsers, NEW l \in Logins, AcceptCallback(b, l) PROVE PortInv'
  BY <1>12, PortUntouched DEF AcceptCallback
<1>13. ASSUME NEW k \in Askers, NEW l \in Logins, AskStatus(k, l) \/ AskPlugin(k, l)
       PROVE  PortInv'
  BY <1>13, PortUntouched DEF AskStatus, AskPlugin
<1>14. ASSUME NEW k \in Askers,
              PluginAnswers(k) \/ SavePluginToken(k) \/ Rollback(k) \/ EndPluginLogin(k)
       PROVE  PortInv'
  BY <1>14, PortUntouched DEF PluginAnswers, SavePluginToken, Rollback, EndPluginLogin
<1>15. ASSUME LoginTick PROVE PortInv'
  <2>1. \A l \in Logins : login'[l].at = login[l].at /\ login'[l].prev = login[l].prev
    BY <1>0, <1>15 DEF LoginTick, LoginRecord
  <2>. QED
    BY <1>15, <2>1, PortUntouched DEF LoginTick
<1>16. CASE UNCHANGED loginVars
  BY <1>16, PortUntouched DEF loginVars
<1>. QED
  BY <1>1, <1>10, <1>11, <1>12, <1>13, <1>14, <1>15, <1>16, Zenon DEF LoginsNext

-----------------------------------------------------------------------------
(* Who carries a login on, and what is said about it.                      *)

\* A goroutine goes on, and only tells its session.
LEMMA GoneOn ==
    ASSUME LoginsTypeOK, CarriedInv, ToldInv, NEW l \in Logins,
           login[l].at \notin {"new", "over"}, login'[l].at # "new",
           \A m \in Logins \ {l} : login'[m].at = login[m].at,
           token \subseteq token', \A m \in Logins \ {l} : m \in token' => m \in token,
           login'[l].at = "complete" => l \in token',
           \A m \in Logins \ {l} : oauthSession'[m] = oauthSession[m],
           \/ oauthSession' = oauthSession /\ oauthSession[l].status # "error"
           \/ oauthSession' = oauthSession /\ login'[l].at \in {"release", "shut", "over"}
           \/ /\ oauthSession' = WithError(l) /\ login'[l].at \in {"release", "over"}
           \/ oauthSession' = Completed(l) /\ login[l].at = "complete",
           UNCHANGED <<kind, asker, told, timedOut, overlapped>>
    PROVE  CarriedInv' /\ ToldInv'
<1>0. oauthSession \in [Logins -> SessionRecord] /\ asker \in [Askers -> AskerRecord]
  BY RecordTypes
<1>1. kind[l] # "plugin" /\ \A k \in Askers : asker[k].of # l
  <2>1. kind[l] # "plugin"
    BY DEF CarriedInv
  <2>2. l # NoLogin
    BY LoginsAssumption
  <2>. QED
    BY <2>1, <2>2 DEF CarriedInv
<1>2. \/ oauthSession'[l] = oauthSession[l]
      \/ oauthSession'[l].status = "error" /\ oauthSession[l] # NoSession
      \/ oauthSession'[l] = NoSession /\ login[l].at = "complete"
  BY <1>0, SessionFacts
<1>3. oauthSession'[l].status = "error" => login'[l].at \in {"release", "shut", "over"}
  BY <1>0, SessionFacts, <1>2 DEF NoSession
<1>4. CarriedInv'
  <2>1. \A m \in Logins :
          /\ kind[m] = "plugin" => login'[m].at \in {"new", "over"}
          /\ login'[m].at = "complete" => m \in token'
          /\ oauthSession'[m].status = "error" => login'[m].at \in {"release", "shut", "over"}
    BY <1>1, <1>3 DEF CarriedInv
  <2>2. ASSUME NEW k \in Askers
        PROVE  /\ asker[k].at = "idle" <=> asker[k].of = NoLogin
               /\ asker[k].of # NoLogin =>
                     kind[asker[k].of] = "plugin" /\ login'[asker[k].of].at = "over"
    <3>1. asker[k].of \in Logins \cup {NoLogin}
      BY <1>0 DEF AskerRecord
    <3>. QED
      BY <1>1, <3>1 DEF CarriedInv
  <2>. QED
    BY <2>1, <2>2 DEF CarriedInv
<1>5. ASSUME NEW m \in Logins \ (timedOut \cup overlapped), m # l
      PROVE  /\ told'[m] = "error" => oauthSession'[m].status = "error"
             /\ told'[m] = "ok" => oauthSession'[m] = NoSession /\ login'[m].at # "new"
             /\ oauthSession'[m] = NoSession /\ login'[m].at # "new" => m \in token'
             /\ \A k \in Askers : asker'[k].of = m =>
                   /\ oauthSession'[m].status = "pending"
                   /\ asker'[k].at = "complete" => m \in token'
                   /\ \A j \in Askers : asker'[j].of = m => j = k
  BY <1>5 DEF ToldInv, IsPending
<1>6. ASSUME l \notin timedOut \cup overlapped
      PROVE  /\ told'[l] = "error" => oauthSession'[l].status = "error"
             /\ told'[l] = "ok" => oauthSession'[l] = NoSession /\ login'[l].at # "new"
             /\ oauthSession'[l] = NoSession /\ login'[l].at # "new" => l \in token'
  <2>1. oauthSession[l].status = "error" => oauthSession'[l].status = "error"
    <3>1. login[l].at = "complete" => oauthSession[l].status # "error"
      BY DEF CarriedInv
    <3>2. NoSession.status # "error"
      BY DEF NoSession
    <3>. QED
      BY <1>2, <3>1
  <2>2. oauthSession[l] = NoSession => oauthSession'[l] = NoSession
    BY <1>2
  <2>3. oauthSession'[l] = NoSession => oauthSession[l] = NoSession \/ login[l].at = "complete"
    <3>1. NoSession.status # "error"
      BY DEF NoSession
    <3>. QED
      BY <1>2, <3>1
  <2>4. /\ told[l] = "error" => oauthSession[l].status = "error"
        /\ told[l] = "ok" => oauthSession[l] = NoSession
        /\ oauthSession[l] = NoSession => l \in token
        /\ login[l].at = "complete" => l \in token
    BY <1>6 DEF ToldInv, CarriedInv
  <2>. QED
    BY <2>1, <2>2, <2>3, <2>4
<1>. QED
  BY <1>1, <1>4, <1>5, <1>6 DEF ToldInv, IsPending

LEMMA ToldUntouched ==
    ASSUME LoginsTypeOK, CarriedInv, ToldInv,
           \A l \in Logins : login'[l].at = login[l].at,
           UNCHANGED <<kind, oauthSession, asker, token, told, timedOut, overlapped>>
    PROVE  CarriedInv' /\ ToldInv'
<1>1. \A k \in Askers : asker[k].of \in Logins \cup {NoLogin}
  BY RecordTypes DEF AskerRecord
<1>2. CarriedInv'
  BY <1>1 DEF CarriedInv
<1>3. ToldInv'
  BY DEF ToldInv, IsPending
<1>. QED
  BY <1>2, <1>3

LEMMA GoroutineStep ==
    ASSUME LoginsTypeOK, PortInv, CarriedInv, ToldInv, NEW l \in Logins, LoginStep(l)
    PROVE  CarriedInv' /\ ToldInv'
<1>0. /\ login \in [Logins -> LoginRecord] /\ login' \in [Logins -> LoginRecord]
      /\ oauthSession \in [Logins -> SessionRecord]
      /\ token \subseteq Logins
  BY RecordTypes, LoginRecordStep DEF LoginsTypeOK
<1>a. ASSUME NEW step \in Steps, login' = To(l, step)
      PROVE  login'[l].at = step /\ \A m \in Logins \ {l} : login'[m].at = login[m].at
  BY <1>0, <1>a, ToFacts
<1>b. {"listen", "publish", "refused", "save", "fail", "complete", "release", "over", "shut",
       "wait", "read", "exchange"} \subseteq Steps
  BY DEF Steps, Preparing, Ended
<1>c. login[l].at \notin {"release", "shut", "over"} => oauthSession[l].status # "error"
  BY DEF CarriedInv
<1>1. CASE ClaimPort(l) \/ StopOther(l) \/ ListenOnPort(l) \/ ListenFails(l) \/ Publish(l)
  <2>1. /\ login[l].at \in {"claim", "stopOther", "listen", "publish"}
        /\ UNCHANGED <<kind, oauthSession, asker, token, told, timedOut, overlapped>>
    BY <1>1 DEF ClaimPort, StopOther, ListenOnPort, ListenFails, Publish
  <2>2. /\ login'[l].at \in {"stopOther", "listen", "publish", "refused", "wait"}
        /\ \A m \in Logins \ {l} : login'[m].at = login[m].at
    <3>1. CASE ClaimPort(l)
      BY <1>0, <3>1 DEF ClaimPort, LoginRecord
    <3>2. CASE Publish(l)
      BY <1>0, <3>2 DEF Publish, LoginRecord
    <3>3. CASE StopOther(l) \/ ListenOnPort(l) \/ ListenFails(l)
      BY <3>3, <1>a, <1>b DEF StopOther, ListenOnPort, ListenFails
    <3>. QED
      BY <1>1, <3>1, <3>2, <3>3
  <2>. QED
    BY <1>c, <2>1, <2>2, GoneOn
<1>2. CASE LookAround(l)
  <2>1. \E step \in {Leave(l), "fail", "read"} :
            login' = To(l, step) /\ (step \in {"fail", "read"} => IsPending(l))
    <3>1. CASE ~IsPending(l)
      <4>1. login' = To(l, Leave(l)) /\ Leave(l) \notin {"fail", "read"}
        BY <1>2, <3>1 DEF LookAround, Leave
      <4>. QED
        BY <4>1
    <3>2. CASE IsPending(l)
      BY <1>2, <3>2 DEF LookAround
    <3>. QED
      BY <3>1, <3>2
  <2>2. PICK step \in {Leave(l), "fail", "read"} :
            login' = To(l, step) /\ (step \in {"fail", "read"} => IsPending(l))
    BY <2>1
  <2>3. /\ login'[l].at = step /\ \A m \in Logins \ {l} : login'[m].at = login[m].at
    BY <2>2, <1>a, <1>b DEF Leave
  <2>4. step \in {"release", "over"} \/ oauthSession[l].status # "error"
    BY <2>2 DEF Leave, IsPending
  <2>5. /\ login[l].at = "wait" /\ login'[l].at \notin {"new", "complete"}
        /\ UNCHANGED <<kind, oauthSession, asker, token, told, timedOut, overlapped>>
    BY <1>2, <2>3 DEF LookAround, Leave
  <2>. QED
    BY <2>3, <2>4, <2>5, GoneOn
<1>3. CASE ReadCallback(l) \/ ProviderAnswers(l)
  <2>1. PICK step \in {"wait", "fail", "exchange", "save"} : login' = To(l, step)
    <3>1. CASE ReadCallback(l)
      <4>1. Outcome[callbackFile[l]] \in {"wait", "fail", "exchange"}
        BY DEF LoginsTypeOK, Outcome
      <4>. QED
        BY <3>1, <4>1 DEF ReadCallback
    <3>2. CASE ProviderAnswers(l)
      BY <3>2 DEF ProviderAnswers
    <3>. QED
      BY <1>3, <3>1, <3>2
  <2>2. /\ login'[l].at = step /\ \A m \in Logins \ {l} : login'[m].at = login[m].at
    BY <2>1, <1>a, <1>b
  <2>3. /\ login[l].at \in {"read", "exchange", "device"}
        /\ UNCHANGED <<kind, oauthSession, asker, token, told, timedOut, overlapped>>
    BY <1>3 DEF ReadCallback, ProviderAnswers
  <2>. QED
    BY <1>c, <2>2, <2>3, GoneOn
<1>4. CASE SaveToken(l)
  <2>1. PICK saved \in BOOLEAN, step \in {"complete", "fail"} :
          /\ step = "complete" => saved
          /\ token' = IF saved THEN token \cup {l} ELSE token
          /\ login' = To(l, step)
    BY <1>4 DEF SaveToken
  <2>2. /\ login'[l].at = step /\ \A m \in Logins \ {l} : login'[m].at = login[m].at
    BY <2>1, <1>a, <1>b
  <2>3. /\ login[l].at = "save"
        /\ UNCHANGED <<kind, oauthSession, asker, told, timedOut, overlapped>>
    BY <1>4 DEF SaveToken
  <2>. QED
    BY <1>c, <2>1, <2>2, <2>3, GoneOn
<1>5. CASE FailLogin(l) \/ CompleteLogin(l)
  <2>1. login'[l].at = Leave(l) /\ \A m \in Logins \ {l} : login'[m].at = login[m].at
    BY <1>5, <1>a, <1>b DEF FailLogin, CompleteLogin, Leave
  <2>2. Leave(l) \in {"release", "over"}
    BY DEF Leave
  <2>3. \/ oauthSession' = WithError(l) /\ login[l].at = "fail"
        \/ oauthSession' = Completed(l) /\ login[l].at = "complete"
    BY <1>5 DEF FailLogin, CompleteLogin
  <2>4. \A m \in Logins \ {l} : oauthSession'[m] = oauthSession[m]
    BY <1>0, <2>3, SessionFacts
  <2>5. UNCHANGED <<kind, asker, token, told, timedOut, overlapped>>
    BY <1>5 DEF FailLogin, CompleteLogin
  <2>. QED
    BY <2>1, <2>2, <2>3, <2>4, <2>5, GoneOn
<1>6. CASE ReleasePort(l) \/ ShutForwarder(l)
  <2>1. /\ login'[l].at \in {"shut", "over"}
        /\ \A m \in Logins \ {l} : login'[m].at = login[m].at
    BY <1>6, <1>a, <1>b DEF ReleasePort, ShutForwarder
  <2>2. /\ login[l].at \in {"release", "shut"}
        /\ UNCHANGED <<kind, oauthSession, asker, token, told, timedOut, overlapped>>
    BY <1>6 DEF ReleasePort, ShutForwarder
  <2>. QED
    BY <2>1, <2>2, GoneOn
<1>. QED
  BY <1>1, <1>2, <1>3, <1>4, <1>5, <1>6 DEF LoginStep

\* One question of a client changes at most its asker, its login's session and
\* token, and what is said of it.
LEMMA QuestionStep ==
    ASSUME LoginsTypeOK, CarriedInv, ToldInv, NEW k \in Askers,
           \/ \E l \in Logins : AskStatus(k, l) \/ AskPlugin(k, l)
           \/ PluginAnswers(k) \/ SavePluginToken(k) \/ Rollback(k) \/ EndPluginLogin(k)
    PROVE  CarriedInv' /\ ToldInv'
<1>0. /\ oauthSession \in [Logins -> SessionRecord] /\ asker \in [Askers -> AskerRecord]
      /\ \A j \in Askers : asker[j].of \in Logins \cup {NoLogin}
      /\ token \subseteq Logins
      /\ told \in [Logins -> {"nothing", "wait", "ok", "error"}]
      /\ timedOut \subseteq Logins /\ overlapped \subseteq Logins
  BY RecordTypes DEF LoginsTypeOK, AskerRecord
<1>a. \A l \in Logins : /\ oauthSession[l] = NoSession <=> oauthSession[l].status = "none"
                        /\ oauthSession[l].status \in {"none", "pending", "error"}
  BY <1>0, SessionFacts
<1>1. ASSUME NEW l \in Logins, AskStatus(k, l) PROVE CarriedInv' /\ ToldInv'
  <2>1. /\ UNCHANGED <<kind, oauthSession, login, asker, token, timedOut, overlapped>>
        /\ login[l].at # "new"
    BY <1>1 DEF AskStatus, Begun
  <2>2. /\ told'[l] = Answer[oauthSession[l].status]
        /\ \A m \in Logins \ {l} : told'[m] = told[m]
    BY <1>0, <1>1 DEF AskStatus, Tell
  <2>3. /\ told'[l] = "error" => oauthSession[l].status = "error"
        /\ told'[l] = "ok" => oauthSession[l] = NoSession
    BY <1>a, <2>2 DEF Answer
  <2>4. CarriedInv'
    BY <2>1 DEF CarriedInv
  <2>5. ToldInv'
    BY <2>1, <2>2, <2>3 DEF ToldInv, IsPending
  <2>. QED
    BY <2>4, <2>5
<1>2. ASSUME NEW l \in Logins, AskPlugin(k, l) PROVE CarriedInv' /\ ToldInv'
  <2>1. /\ UNCHANGED <<kind, oauthSession, login, token, told, timedOut>>
        /\ login[l].at # "new" /\ kind[l] = "plugin" /\ IsPending(l) /\ asker[k].at = "idle"
        /\ overlapped' = IF \E j \in Askers : asker[j].of = l THEN overlapped \cup {l}
                         ELSE overlapped
    BY <1>2 DEF AskPlugin, Begun
  <2>2. /\ asker'[k].at = "poll" /\ asker'[k].of = l
        /\ \A j \in Askers \ {k} : asker'[j] = asker[j]
    BY <1>0, <1>2 DEF AskPlugin
  <2>3. login[l].at = "over" /\ asker[k].of = NoLogin /\ l # NoLogin
    BY <2>1, LoginsAssumption DEF CarriedInv
  <2>4. CarriedInv'
    BY <2>1, <2>2, <2>3, <1>0 DEF CarriedInv
  <2>5. ASSUME NEW m \in Logins \ (timedOut \cup overlapped'), NEW j \in Askers, asker'[j].of = m
        PROVE  /\ IsPending(m)
               /\ asker'[j].at = "complete" => m \in token
               /\ \A i \in Askers : asker'[i].of = m => i = j
    <3>1. m \notin overlapped
      BY <2>1
    <3>2. CASE m = l
      <4>1. \A i \in Askers : asker[i].of # l
        BY <2>1, <3>2
      <4>. QED
        BY <2>1, <2>2, <2>5, <3>2, <4>1
    <3>3. CASE m # l
      BY <2>2, <2>5, <3>1, <3>3 DEF ToldInv
    <3>. QED
      BY <3>2, <3>3
  <2>6. ToldInv'
    <3>1. \A m \in Logins \ (timedOut \cup overlapped') : m \notin timedOut \cup overlapped
      BY <2>1
    <3>. QED
      BY <2>1, <2>5, <3>1 DEF ToldInv, IsPending
  <2>. QED
    BY <2>4, <2>6
<1>3. ASSUME PluginAnswers(k) \/ SavePluginToken(k) \/ Rollback(k) \/ EndPluginLogin(k)
      PROVE  CarriedInv' /\ ToldInv'
  <2>. DEFINE l == asker[k].of
  <2>1. l \in Logins /\ kind[l] = "plugin" /\ login[l].at = "over"
    BY <1>0, <1>3 DEF CarriedInv, PluginAnswers, SavePluginToken, Rollback, EndPluginLogin
  <2>. HIDE DEF l
  <2>2. UNCHANGED <<kind, login, timedOut, overlapped>>
    BY <1>3 DEF PluginAnswers, SavePluginToken, Rollback, EndPluginLogin
  <2>3. asker[k].of = l
    BY DEF l
  \* Nothing else changes.
  <2>4. /\ \A m \in Logins \ {l} : /\ told'[m] = told[m] /\ oauthSession'[m] = oauthSession[m]
                                   /\ m \in token' <=> m \in token
        /\ \A j \in Askers \ {k} : asker'[j] = asker[j]
    <3>1. CASE PluginAnswers(k)
      BY <1>0, <2>3, <3>1 DEF PluginAnswers, Tell, AskerDone
    <3>2. CASE SavePluginToken(k) \/ Rollback(k)
      BY <1>0, <2>3, <3>2 DEF SavePluginToken, Rollback
    <3>3. CASE EndPluginLogin(k)
      BY <1>0, <2>1, <2>3, <3>3, SessionFacts DEF EndPluginLogin, Tell, AskerDone
    <3>. QED
      BY <1>3, <3>1, <3>2, <3>3
  <2>5. \/ asker'[k].at = "idle" /\ asker'[k].of = NoLogin
        \/ asker'[k].at # "idle" /\ asker'[k].of = l
    <3>1. AskerDone(k)[k].at = "idle" /\ AskerDone(k)[k].of = NoLogin
      BY <1>0 DEF AskerDone
    <3>2. CASE asker' = AskerDone(k)
      BY <3>1, <3>2
    <3>3. CASE \E step \in {"save", "fail", "complete", "rollback"} :
                  asker' = [asker EXCEPT ![k].at = step]
      BY <1>0, <2>3, <3>3 DEF AskerRecord
    <3>. QED
      BY <1>3, <3>2, <3>3 DEF PluginAnswers, SavePluginToken, Rollback, EndPluginLogin
  <2>6. CarriedInv'
    <3>1. \A m \in Logins :
            /\ kind[m] = "plugin" => login[m].at \in {"new", "over"}
            /\ login[m].at = "complete" => m \in token'
            /\ oauthSession'[m].status = "error" => login[m].at \in {"release", "shut", "over"}
      BY <2>1, <2>4 DEF CarriedInv
    <3>2. \A j \in Askers :
            /\ asker'[j].at = "idle" <=> asker'[j].of = NoLogin
            /\ asker'[j].of # NoLogin =>
                  kind[asker'[j].of] = "plugin" /\ login[asker'[j].of].at = "over"
      BY <2>1, <2>4, <2>5, LoginsAssumption DEF CarriedInv
    <3>. QED
      BY <2>2, <3>1, <3>2 DEF CarriedInv
  \* The other logins.
  <2>7. ASSUME NEW m \in Logins \ (timedOut \cup overlapped), m # l
        PROVE  /\ told'[m] = "error" => oauthSession'[m].status = "error"
               /\ told'[m] = "ok" => oauthSession'[m] = NoSession /\ login'[m].at # "new"
               /\ oauthSession'[m] = NoSession /\ login'[m].at # "new" => m \in token'
               /\ \A j \in Askers : asker'[j].of = m =>
                     /\ oauthSession'[m].status = "pending"
                     /\ asker'[j].at = "complete" => m \in token'
                     /\ \A i \in Askers : asker'[i].of = m => i = j
    <3>1. \A j \in Askers : asker'[j].of = m => asker'[j] = asker[j]
      BY <2>4, <2>5, <2>7, LoginsAssumption
    <3>. QED
      BY <2>2, <2>4, <2>7, <3>1 DEF ToldInv, IsPending
  \* The login that was asked about.
  <2>8. ASSUME l \notin timedOut \cup overlapped
        PROVE  /\ told'[l] = "error" => oauthSession'[l].status = "error"
               /\ told'[l] = "ok" => oauthSession'[l] = NoSession /\ login'[l].at # "new"
               /\ oauthSession'[l] = NoSession /\ login'[l].at # "new" => l \in token'
               /\ \A j \in Askers : asker'[j].of = l =>
                     /\ oauthSession'[l].status = "pending"
                     /\ asker'[j].at = "complete" => l \in token'
                     /\ \A i \in Askers : asker'[i].of = l => i = j
    <3>1. /\ oauthSession[l].status = "pending" /\ oauthSession[l] # NoSession
          /\ told[l] \notin {"ok", "error"}
          /\ asker[k].at = "complete" => l \in token
          /\ \A i \in Askers : asker[i].of = l => i = k
      BY <2>1, <2>3, <2>8, <1>a DEF ToldInv, IsPending
    <3>2. \A i \in Askers : asker'[i].of = l => i = k
      BY <3>1, <2>4
    <3>3. CASE PluginAnswers(k) \/ SavePluginToken(k) \/ Rollback(k)
      <4>1. oauthSession' = oauthSession
        BY <3>3 DEF PluginAnswers, SavePluginToken, Rollback
      <4>2. told'[l] \notin {"ok", "error"}
        BY <1>0, <2>1, <2>3, <3>1, <3>3 DEF PluginAnswers, SavePluginToken, Rollback, Tell
      <4>3. asker'[k].at = "complete" => l \in token'
        <5>1. CASE PluginAnswers(k)
          BY <1>0, <5>1 DEF PluginAnswers, AskerDone, AskerRecord
        <5>2. CASE SavePluginToken(k)
          BY <1>0, <2>3, <5>2 DEF SavePluginToken, AskerRecord
        <5>3. CASE Rollback(k)
          BY <1>0, <5>3 DEF Rollback, AskerRecord
        <5>. QED
          BY <3>3, <5>1, <5>2, <5>3
      <4>. QED
        BY <3>1, <3>2, <4>1, <4>2, <4>3
    <3>4. CASE EndPluginLogin(k)
      <4>1. asker'[k].of = NoLogin /\ l # NoLogin
        BY <1>0, <2>1, <3>4, LoginsAssumption DEF EndPluginLogin, AskerDone
      <4>2. token' = token /\ login'[l].at = "over"
        BY <2>1, <2>2, <3>4 DEF EndPluginLogin
      <4>3. \/ told'[l] = "error" /\ oauthSession'[l].status = "error"
            \/ told'[l] = "ok" /\ oauthSession'[l] = NoSession /\ asker[k].at = "complete"
        BY <1>0, <2>1, <2>3, <3>1, <3>4, SessionFacts DEF EndPluginLogin, Tell
      <4>4. NoSession.status # "error"
        BY DEF NoSession
      <4>. QED
        BY <3>1, <3>2, <4>1, <4>2, <4>3, <4>4
    <3>. QED
      BY <1>3, <3>3, <3>4
  <2>9. ToldInv'
    BY <2>2, <2>7, <2>8 DEF ToldInv, IsPending
  <2>. QED
    BY <2>6, <2>9
<1>. QED
  BY <1>1, <1>2, <1>3

LEMMA ToldStep ==
    ASSUME LoginsTypeOK, PortInv, CarriedInv, ToldInv, [LoginsNext]_loginVars
    PROVE  CarriedInv' /\ ToldInv'
<1>0. /\ login \in [Logins -> LoginRecord] /\ oauthSession \in [Logins -> SessionRecord]
      /\ kind \in [Logins -> Kinds]
      /\ \A k \in Askers : asker[k].of \in Logins \cup {NoLogin}
  BY RecordTypes DEF LoginsTypeOK, AskerRecord
<1>1. ASSUME NEW l \in Logins, RequestToken(l) PROVE CarriedInv' /\ ToldInv'
  <2>1. /\ login[l].at = "new" /\ oauthSession' = Registered(l)
        /\ UNCHANGED <<kind, asker, token, told, timedOut, overlapped>>
    BY <1>1 DEF RequestToken
  <2>2. FirstStep[kind[l]] \in {"claim", "wait", "device", "over"}
        /\ (kind[l] = "plugin" => FirstStep[kind[l]] = "over")
    BY <1>0, LoginsAssumption DEF FirstStep
  <2>3. /\ login'[l].at = FirstStep[kind[l]]
        /\ \A m \in Logins \ {l} : login'[m] = login[m]
    BY <1>0, <1>1 DEF RequestToken, LoginRecord
  <2>4. /\ oauthSession'[l].status = "pending" /\ oauthSession'[l] # NoSession
        /\ \A m \in Logins \ {l} : oauthSession'[m] = oauthSession[m]
    BY <1>0, <2>1, SessionFacts DEF NoSession
  <2>5. \A k \in Askers : asker[k].of # l
    BY <2>1, LoginsAssumption DEF CarriedInv
  <2>6. l \notin timedOut \cup overlapped => told[l] \notin {"ok", "error"}
    BY <2>1 DEF ToldInv, CarriedInv
  <2>7. CarriedInv'
    BY <1>0, <2>1, <2>2, <2>3, <2>4, <2>5 DEF CarriedInv
  <2>8. ToldInv'
    BY <2>1, <2>3, <2>4, <2>5, <2>6 DEF ToldInv, IsPending
  <2>. QED
    BY <2>7, <2>8
<1>2. ASSUME NEW l \in Logins, LoginStep(l) PROVE CarriedInv' /\ ToldInv'
  BY <1>2, GoroutineStep
<1>3. ASSUME NEW b \in Browsers, OpenCallbackFile(b) \/ WriteCallbackFile(b)
      PROVE  CarriedInv' /\ ToldInv'
  BY <1>3, ToldUntouched DEF OpenCallbackFile, WriteCallbackFile
<1>4. ASSUME NEW b \in Browsers, NEW l \in Logins, AcceptCallback(b, l)
      PROVE  CarriedInv' /\ ToldInv'
  BY <1>4, ToldUntouched DEF AcceptCallback
<1>5. ASSUME NEW k \in Askers, NEW l \in Logins, AskStatus(k, l) \/ AskPlugin(k, l)
      PROVE  CarriedInv' /\ ToldInv'
  BY <1>5, QuestionStep
<1>6. ASSUME NEW k \in Askers,
             PluginAnswers(k) \/ SavePluginToken(k) \/ Rollback(k) \/ EndPluginLogin(k)
      PROVE  CarriedInv' /\ ToldInv'
  BY <1>6, QuestionStep
<1>7. ASSUME LoginTick PROVE CarriedInv' /\ ToldInv'
  <2>1. UNCHANGED <<kind, asker, token, told, overlapped>> /\ timedOut \subseteq timedOut'
    BY <1>7 DEF LoginTick
  <2>2. \A l \in Logins : login'[l].at = login[l].at
    BY <1>0, <1>7 DEF LoginTick, LoginRecord
  <2>3. ASSUME NEW l \in Logins
        PROVE  /\ \/ oauthSession'[l].status = oauthSession[l].status
                  \/ oauthSession'[l] = NoSession
               /\ oauthSession'[l] = NoSession => oauthSession[l] = NoSession \/ l \in timedOut'
               /\ oauthSession[l] = NoSession => oauthSession'[l] = NoSession
    <3>1. oauthSession'[l] = Purged(oauthSession[l])
      BY <1>7 DEF LoginTick
    <3>2. oauthSession[l] = NoSession => Purged(oauthSession[l]) = NoSession
      BY DEF Purged, NoSession
    <3>. QED
      BY <1>0, <1>7, <3>1, <3>2, PurgedFacts DEF LoginTick
  <2>4. NoSession.status = "none"
    BY DEF NoSession
  <2>5. CarriedInv'
    BY <1>0, <2>1, <2>2, <2>3, <2>4 DEF CarriedInv
  <2>6. ToldInv'
    <3>1. \A l \in Logins \ (timedOut' \cup overlapped) : l \notin timedOut \cup overlapped
      BY <2>1
    <3>2. ASSUME NEW l \in Logins \ (timedOut' \cup overlapped)
          PROVE  /\ oauthSession'[l] = NoSession <=> oauthSession[l] = NoSession
                 /\ oauthSession'[l].status = oauthSession[l].status
      BY <2>3, <2>4
    <3>. QED
      BY <2>1, <2>2, <3>1, <3>2 DEF ToldInv, IsPending
  <2>. QED
    BY <2>5, <2>6
<1>8. CASE UNCHANGED loginVars
  BY <1>8, ToldUntouched DEF loginVars
<1>. QED
  BY <1>1, <1>2, <1>3, <1>4, <1>5, <1>6, <1>7, <1>8, Zenon DEF LoginsNext

-----------------------------------------------------------------------------
(* The invariant and what it says.                                         *)

\* Types, who has the port, who carries each login on, and what its client was
\* told, for any number of logins, callbacks and questions.
THEOREM LoginsInvariance == LoginsSpec => []LoginsInv
<1>1. LoginsInit => LoginsInv
  <2>. SUFFICES ASSUME LoginsInit PROVE LoginsInv
    OBVIOUS
  <2>. USE DEF LoginsInit
  <2>1. LoginsTypeOK
    <3>1. 0 \in -1..(WaitTime + DeviceTime)
      BY LoginsAssumption
    <3>. QED
      BY <3>1 DEF LoginsTypeOK
  <2>2. PortInv
    BY LoginsAssumption DEF PortInv, Preparing, Serving
  <2>3. CarriedInv
    BY LoginsAssumption DEF CarriedInv, NoSession
  <2>4. ToldInv
    BY LoginsAssumption DEF ToldInv
  <2>. QED
    BY <2>1, <2>2, <2>3, <2>4 DEF LoginsInv
<1>2. LoginsInv /\ [LoginsNext]_loginVars => LoginsInv'
  BY LoginsTypeStep, PortStep, ToldStep DEF LoginsInv
<1>. QED
  BY <1>1, <1>2, PTL DEF LoginsSpec

\* The forwarder the map names listens, one whose login waits listens unless a later
\* login took the port, and none is left behind (startCallbackForwarder and
\* stopCallbackForwarderInstance).
THEOREM PortServed == LoginsSpec => []PortIsServed
<1>1. LoginsInv => PortIsServed
  BY DEF LoginsInv, PortInv, PortIsServed, Serving, Preparing, Ended
<1>. QED
  BY <1>1, LoginsInvariance, PTL

\* What GetAuthStatus said last is true and final, unless the session's time was over
\* or two questions carried a plugin's login on at once.
THEOREM ToldTruly == LoginsSpec => LoginIsTold
<1>1. ASSUME LoginsInv, [LoginsNext]_loginVars PROVE ToldIsFinal
  <2>. SUFFICES ASSUME NEW l \in Logins \ (timedOut \cup overlapped)
                PROVE  /\ told[l] \in {"ok", "error"} => told'[l] # "wait"
                       /\ told[l] = "error" => (l \in token' => l \in token)
    BY DEF ToldIsFinal
  <2>. SUFFICES ASSUME told[l] \in {"ok", "error"}
                PROVE  told'[l] # "wait" /\ (told[l] = "error" => (l \in token' => l \in token))
    OBVIOUS
  <2>. DEFINE Final == told'[l] # "wait" /\ (told[l] = "error" => (l \in token' => l \in token))
  <2>0. /\ oauthSession \in [Logins -> SessionRecord]
        /\ told \in [Logins -> {"nothing", "wait", "ok", "error"}] /\ token \subseteq Logins
    <3>1. LoginsTypeOK
      BY <1>1 DEF LoginsInv
    <3>. QED
      BY <3>1, RecordTypes DEF LoginsTypeOK
  <2>1. ~IsPending(l) /\ (told[l] = "error" => oauthSession[l].status = "error")
    <3>1. told[l] = "ok" => oauthSession[l] = NoSession
      BY <1>1 DEF LoginsInv, ToldInv
    <3>2. told[l] = "error" => oauthSession[l].status = "error"
      BY <1>1 DEF LoginsInv, ToldInv
    <3>. QED
      BY <3>1, <3>2 DEF IsPending, NoSession
  <2>2. \A k \in Askers : asker[k].of # l
    BY <1>1, <2>1 DEF LoginsInv, ToldInv
  <2>3. told[l] = "error" => login[l].at # "save"
    BY <1>1, <2>1 DEF LoginsInv, CarriedInv
  <2>4. ASSUME told' = told, token' = token PROVE Final
    BY <2>4
  <2>5. ASSUME NEW m \in Logins, RequestToken(m) \/ LoginStep(m) PROVE Final
    <3>1. CASE SaveToken(m)
      BY <2>3, <3>1 DEF SaveToken
    <3>2. CASE ~SaveToken(m)
      <4>1. told' = told /\ token' = token
        BY <2>5, <3>2 DEF RequestToken, LoginStep, ClaimPort, StopOther, ListenOnPort,
             ListenFails, Publish, LookAround, ReadCallback, ProviderAnswers, FailLogin,
             CompleteLogin, ReleasePort, ShutForwarder
      <4>. QED
        BY <2>4, <4>1
    <3>. QED
      BY <3>1, <3>2
  <2>6. ASSUME NEW b \in Browsers,
               OpenCallbackFile(b) \/ WriteCallbackFile(b) \/ \E m \in Logins : AcceptCallback(b, m)
        PROVE  Final
    BY <2>4, <2>6 DEF OpenCallbackFile, WriteCallbackFile, AcceptCallback
  <2>7. ASSUME NEW k \in Askers, NEW m \in Logins, AskStatus(k, m) PROVE Final
    <3>1. CASE m = l
      <4>1. Answer[oauthSession[l].status] # "wait"
        BY <2>0, <2>1, SessionFacts DEF Answer, IsPending
      <4>. QED
        BY <2>0, <2>7, <3>1, <4>1 DEF AskStatus, Tell
    <3>2. CASE m # l
      BY <2>0, <2>7, <3>2 DEF AskStatus, Tell
    <3>. QED
      BY <3>1, <3>2
  <2>8. ASSUME NEW k \in Askers, NEW m \in Logins, AskPlugin(k, m) PROVE Final
    BY <2>4, <2>8 DEF AskPlugin
  <2>9. ASSUME NEW k \in Askers,
               PluginAnswers(k) \/ SavePluginToken(k) \/ Rollback(k) \/ EndPluginLogin(k)
        PROVE  Final
    <3>1. asker[k].of # l
      BY <2>2
    <3>. QED
      BY <2>0, <2>9, <3>1 DEF PluginAnswers, SavePluginToken, Rollback, EndPluginLogin, Tell
  <2>10. ASSUME LoginTick \/ UNCHANGED loginVars PROVE Final
    BY <2>4, <2>10 DEF LoginTick, loginVars
  <2>. HIDE DEF Final
  <2>11. Final
    BY <1>1, <2>5, <2>6, <2>7, <2>8, <2>9, <2>10, Zenon DEF LoginsNext
  <2>. QED
    BY <2>11 DEF Final
<1>2. LoginsInv' => OkIsTrue'
  BY DEF LoginsInv, ToldInv, OkIsTrue
<1>3. LoginsInv /\ LoginsInv' /\ [LoginsNext]_loginVars => [OkIsTrue' /\ ToldIsFinal]_loginVars
  BY <1>1, <1>2
<1>. QED
  BY <1>3, LoginsInvariance, PTL DEF LoginsSpec, LoginIsTold

\* No step but the request of a token makes a session pending.
LEMMA NotPendingAgain ==
    ASSUME LoginsInv, [LoginsNext]_loginVars, NEW m \in Logins, ~IsPending(m), ~RequestToken(m)
    PROVE  ~IsPending(m)'
<1>0. oauthSession \in [Logins -> SessionRecord]
  BY RecordTypes DEF LoginsInv
<1>1. ASSUME oauthSession' = oauthSession PROVE ~IsPending(m)'
  BY <1>1 DEF IsPending
<1>2. ASSUME NEW l \in Logins, RequestToken(l) PROVE ~IsPending(m)'
  <2>1. l # m
    BY <1>2
  <2>. QED
    BY <1>0, <1>2, <2>1, SessionFacts DEF RequestToken, IsPending
<1>3. ASSUME NEW l \in Logins, oauthSession' = WithError(l) \/ oauthSession' = Completed(l)
      PROVE  ~IsPending(m)'
  <2>1. CASE l = m
    <3>1. WithError(m)[m].status # "pending" /\ Completed(m)[m].status # "pending"
      BY <1>0, SessionFacts DEF NoSession
    <3>. QED
      BY <1>3, <2>1, <3>1 DEF IsPending
  <2>2. CASE l # m
    BY <1>0, <1>3, <2>2, SessionFacts DEF IsPending
  <2>. QED
    BY <2>1, <2>2
<1>4. ASSUME LoginTick PROVE ~IsPending(m)'
  <2>1. oauthSession'[m] = Purged(oauthSession[m]) /\ oauthSession[m] \in SessionRecord
    BY <1>0, <1>4 DEF LoginTick
  <2>2. Purged(oauthSession[m]) = NoSession \/ Purged(oauthSession[m]).status = oauthSession[m].status
    BY <2>1, PurgedFacts
  <2>. QED
    BY <2>1, <2>2 DEF IsPending, NoSession
<1>5. ASSUME NEW l \in Logins, LoginStep(l) PROVE ~IsPending(m)'
  <2>1. oauthSession' = oauthSession \/ oauthSession' = WithError(l) \/ oauthSession' = Completed(l)
    BY <1>5 DEF LoginStep, ClaimPort, StopOther, ListenOnPort, ListenFails, Publish, LookAround,
       ReadCallback, ProviderAnswers, SaveToken, FailLogin, CompleteLogin, ReleasePort, ShutForwarder
  <2>. QED
    BY <2>1, <1>1, <1>3
<1>6. ASSUME NEW k \in Askers, EndPluginLogin(k) PROVE ~IsPending(m)'
  <2>1. asker[k].at # "idle"
    BY <1>6 DEF EndPluginLogin
  <2>2. asker[k].of \in Logins
    BY <2>1, RecordTypes DEF LoginsInv, CarriedInv, AskerRecord
  <2>. QED
    BY <1>3, <1>6, <2>2 DEF EndPluginLogin
<1>7. ASSUME NEW b \in Browsers,
             OpenCallbackFile(b) \/ WriteCallbackFile(b) \/ \E l \in Logins : AcceptCallback(b, l)
      PROVE  ~IsPending(m)'
  BY <1>1, <1>7 DEF OpenCallbackFile, WriteCallbackFile, AcceptCallback
<1>8. ASSUME NEW k \in Askers,
             \/ PluginAnswers(k) \/ SavePluginToken(k) \/ Rollback(k)
             \/ \E l \in Logins : AskStatus(k, l) \/ AskPlugin(k, l)
      PROVE  ~IsPending(m)'
  BY <1>1, <1>8 DEF PluginAnswers, SavePluginToken, Rollback, AskStatus, AskPlugin
<1>9. ASSUME UNCHANGED loginVars PROVE ~IsPending(m)'
  BY <1>1, <1>9 DEF loginVars
<1>. QED
  BY <1>2, <1>4, <1>5, <1>6, <1>7, <1>8, <1>9 DEF LoginsNext

\* A login comes to its last steps only when its session is not pending any more.
LEMMA EndsUnpending ==
    ASSUME LoginsInv, [LoginsNext]_loginVars, NEW m \in Logins, kind[m] # "plugin",
           login'[m].at \in {"release", "shut", "over"}
    PROVE  \/ login[m].at \in {"release", "shut", "over"} /\ ~RequestToken(m)
           \/ ~IsPending(m)'
<1>0. /\ login \in [Logins -> LoginRecord] /\ oauthSession \in [Logins -> SessionRecord]
      /\ kind \in [Logins -> Kinds]
  BY RecordTypes DEF LoginsInv, LoginsTypeOK
<1>1. ASSUME login' = login, ~RequestToken(m) PROVE login[m].at \in {"release", "shut", "over"}
  BY <1>1
<1>2. CASE RequestToken(m)
  <2>1. login'[m].at = FirstStep[kind[m]]
    BY <1>0, <1>2 DEF RequestToken, LoginRecord
  <2>2. FirstStep[kind[m]] \notin {"release", "shut", "over"}
    BY <1>0, LoginsAssumption DEF FirstStep
  <2>. QED
    BY <2>1, <2>2
<1>3. ASSUME NEW l \in Logins \ {m}, RequestToken(l) \/ LoginStep(l), ~RequestToken(m)
      PROVE  login[m].at \in {"release", "shut", "over"}
  <2>1. login'[m] = login[m]
    BY <1>0, <1>3 DEF RequestToken, LoginStep, ClaimPort, StopOther, ListenOnPort, ListenFails,
       Publish, LookAround, ReadCallback, ProviderAnswers, SaveToken, FailLogin, CompleteLogin,
       ReleasePort, ShutForwarder, To
  <2>. QED
    BY <2>1
<1>4. CASE LoginStep(m)
  <2>1. CASE FailLogin(m) \/ CompleteLogin(m)
    <3>1. WithError(m)[m].status # "pending" /\ Completed(m)[m].status # "pending"
      BY <1>0, SessionFacts DEF NoSession
    <3>. QED
      BY <2>1, <3>1 DEF FailLogin, CompleteLogin, IsPending
  <2>2. CASE LookAround(m)
    <3>1. CASE ~IsPending(m)
      BY <2>2, <3>1 DEF LookAround, IsPending
    <3>2. CASE IsPending(m)
      <4>1. login' = To(m, "fail") \/ login' = To(m, "read")
        BY <2>2, <3>2 DEF LookAround
      <4>2. login'[m].at \in {"fail", "read"}
        BY <1>0, <4>1 DEF To, LoginRecord
      <4>. QED
        BY <4>2
    <3>. QED
      BY <3>1, <3>2
  <2>3. CASE ReleasePort(m) \/ ShutForwarder(m)
    BY <2>3 DEF ReleasePort, ShutForwarder, RequestToken
  <2>4. CASE ReadCallback(m)
    <3>1. Outcome[callbackFile[m]] \in {"wait", "fail", "exchange"}
      BY <2>4 DEF Outcome, LoginsInv, LoginsTypeOK
    <3>2. login'[m].at = Outcome[callbackFile[m]]
      BY <1>0, <2>4 DEF ReadCallback, To, LoginRecord
    <3>. QED
      BY <3>1, <3>2
  <2>5. CASE ProviderAnswers(m)
    <3>1. login'[m].at \in {"save", "fail"}
      BY <1>0, <2>5 DEF ProviderAnswers, To, LoginRecord
    <3>. QED
      BY <3>1
  <2>6. CASE SaveToken(m)
    <3>1. login'[m].at \in {"complete", "fail"}
      BY <1>0, <2>6 DEF SaveToken, To, LoginRecord
    <3>. QED
      BY <3>1
  <2>7. CASE ClaimPort(m) \/ StopOther(m) \/ ListenOnPort(m) \/ ListenFails(m) \/ Publish(m)
    <3>1. login'[m].at \in {"listen", "stopOther", "publish", "refused", "wait"}
      BY <1>0, <2>7 DEF ClaimPort, StopOther, ListenOnPort, ListenFails, Publish, To, LoginRecord
    <3>. QED
      BY <3>1
  <2>. QED
    BY <1>4, <2>1, <2>2, <2>3, <2>4, <2>5, <2>6, <2>7 DEF LoginStep
<1>5. CASE LoginTick
  <2>1. login'[m].at = login[m].at
    BY <1>0, <1>5 DEF LoginTick, LoginRecord
  <2>2. ~RequestToken(m)
    BY <2>1 DEF RequestToken
  <2>. QED
    BY <2>1, <2>2
<1>6. ASSUME NEW b \in Browsers,
             OpenCallbackFile(b) \/ WriteCallbackFile(b) \/ \E l \in Logins : AcceptCallback(b, l)
      PROVE  login' = login
  BY <1>6 DEF OpenCallbackFile, WriteCallbackFile, AcceptCallback
<1>7. ASSUME NEW k \in Askers,
             \/ PluginAnswers(k) \/ SavePluginToken(k) \/ Rollback(k) \/ EndPluginLogin(k)
             \/ \E l \in Logins : AskStatus(k, l) \/ AskPlugin(k, l)
      PROVE  login' = login
  BY <1>7 DEF PluginAnswers, SavePluginToken, Rollback, EndPluginLogin, AskStatus, AskPlugin
<1>8. UNCHANGED loginVars => login' = login
  BY DEF loginVars
<1>. QED
  BY <1>1, <1>2, <1>3, <1>4, <1>5, <1>6, <1>7, <1>8 DEF LoginsNext

\* A login whose goroutine has ended has no session that is still pending (the deferred
\* stops and SetOAuthSessionError or CompleteOAuthSession before each return).
THEOREM NoneAsksOn == LoginsSpec => []NoneAsksForEver
<1>1. LoginsInit => NoneAsksForEver
  BY DEF LoginsInit, NoneAsksForEver
<1>2. LoginsInv /\ NoneAsksForEver /\ [LoginsNext]_loginVars => NoneAsksForEver'
  <2>. SUFFICES ASSUME LoginsInv, NoneAsksForEver, [LoginsNext]_loginVars, NEW m \in Logins,
                       login'[m].at \in {"release", "shut", "over"}, kind'[m] # "plugin"
                PROVE  ~IsPending(m)'
    BY DEF NoneAsksForEver
  <2>1. kind' = kind
    BY DEF LoginsNext, loginVars, RequestToken, LoginStep, ClaimPort, StopOther, ListenOnPort,
       ListenFails, Publish, LookAround, ReadCallback, ProviderAnswers, SaveToken, FailLogin,
       CompleteLogin, ReleasePort, ShutForwarder, OpenCallbackFile, WriteCallbackFile,
       AcceptCallback, AskStatus, AskPlugin, PluginAnswers, SavePluginToken, Rollback,
       EndPluginLogin, LoginTick
  <2>2. CASE login[m].at \in {"release", "shut", "over"} /\ ~RequestToken(m)
    <3>1. ~IsPending(m)
      BY <2>1, <2>2 DEF NoneAsksForEver
    <3>. QED
      BY <2>2, <3>1, NotPendingAgain
  <2>. QED
    BY <2>1, <2>2, EndsUnpending
<1>. QED
  BY <1>1, <1>2, LoginsInvariance, PTL DEF LoginsSpec

==============================================================================
