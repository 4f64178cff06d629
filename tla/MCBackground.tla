----------------------------- MODULE MCBackground -----------------------------
(***************************************************************************)
(* The goroutines that get and renew credentials, for one run of TLC: the  *)
(* refresh loop, and the logins.  The modules share no variable, so one of *)
(* them takes steps in a behaviour, and part says which.  In "refresh" no  *)
(* auth is disabled; "login" is one login of any kind; "port" is two that  *)
(* share the provider's port: callbacks with a code come for l2, and a     *)
(* client asks about l1.                                                   *)
(***************************************************************************)
EXTENDS MCRefreshLoop, OAuthLogins

CONSTANTS l1, l2

VARIABLE part

backgroundVars == <<part, vars, loginVars>>

BackgroundInit ==
    /\ part \in {"refresh", "login", "port"}
    /\ Init /\ LoginsInit
    \* The initial states of a part count once.
    /\ part # "login" => kind[l1] = "web"
    /\ kind[l2] = "web"

BackgroundNext ==
    /\ UNCHANGED part
    /\ \/ part = "refresh" /\ Next /\ UNCHANGED loginVars
          /\ \A a \in Auths : ~auth'[a].disabled
       \/ part = "login" /\ LoginsNext /\ login'[l2].at = "new" /\ UNCHANGED vars
       \/ /\ part = "port" /\ LoginsNext /\ UNCHANGED vars
          /\ told'[l2] = "nothing"
          /\ \A b \in Browsers : browser'[b].of # l1 /\ browser'[b].brings = "code"

\* The fairness of RefreshLoop and of OAuthLogins.
BackgroundSpec ==
    /\ BackgroundInit /\ [][BackgroundNext]_backgroundVars
    /\ WF_vars(part = "refresh" /\ LoopStep)
    /\ SF_vars(part = "refresh" /\ SelectTimer)
    /\ \A w \in Workers : WF_vars(part = "refresh" /\ WorkerStep(w))
    /\ \A c \in Clients :
        WF_vars(part = "refresh" /\ (CommitStep(c) \/ Unschedule(c) \/ MarkDirty(c) \/ OfferWake(c)))
    /\ SF_vars(part = "refresh" /\ Tick)
    /\ \A l \in Logins : WF_loginVars(part # "refresh" /\ LoginStep(l))
    /\ WF_loginVars(part # "refresh" /\ LoginTick)
==============================================================================
