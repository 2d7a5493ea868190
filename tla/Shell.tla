------------------------------- MODULE Shell -------------------------------
(***************************************************************************)
(* The session of the browser: the login page with its second factor       *)
(* (frontend/chatbot_ui/src/pages/LoginPage.jsx), who is logged in         *)
(* (context/AuthContext.jsx, services/api/auth.js, mfa.js and storage.js), *)
(* the routes of App.jsx, the frame with its menu (components/             *)
(* AppLayout.jsx) and the assistant that is chosen there, which follows the*)
(* address (context/AssistantContext.jsx).                                 *)
(*                                                                         *)
(* The server answers or refuses at any time; what a 401 does to the       *)
(* storage is HttpClient's.  An answer that carries a user's data is       *)
(* written to the storage whoever is logged in by then.                    *)
(***************************************************************************)
EXTENDS Naturals

CONSTANTS Users, Nobody

ASSUME ShellAssumption == Nobody \notin Users

VARIABLES
  token,        \* storage: whose tokens, in localStorage
  userData,     \* storage: whose data, and user of AuthContext
  isAuthenticated, loading,
  answers,      \* whose data is asked for: GET or PATCH /auth/users/me
  late,         \* history: such an answer came to another session than its own, and what
                \* it left has not gone with a logout or a page load
  mfaStage,     \* "login", "setup" or "verify"
  tempToken,    \* whose
  isLoading,
  attempt,      \* the request of the login page: which, and whose; none or one
  agents,       \* whose assistants are listed
  currentAgent,
  assistantId   \* the assistant in the address

sessionVars == <<token, userData, isAuthenticated, loading, answers, late>>
loginVars == <<mfaStage, tempToken, isLoading, attempt>>
agentVars == <<agents, currentAgent, assistantId>>
shellVars == <<sessionVars, loginVars, agentVars>>

AssistantsOf(u) == IF u = Nobody THEN {} ELSE {<<u, 1>>, <<u, 2>>}
NoAgent == <<Nobody, 0>>
Agents == UNION {AssistantsOf(u) : u \in Users}

ShellTypeOK ==
  /\ {token, userData, tempToken, agents} \subseteq Users \cup {Nobody}
  /\ {isAuthenticated, loading, late, isLoading} \subseteq BOOLEAN
  /\ answers \subseteq Users
  /\ mfaStage \in {"login", "setup", "verify"}
  /\ attempt \subseteq [what : {"login", "init", "verify"}, of : Users]
  /\ {currentAgent, assistantId} \subseteq Agents \cup {NoAgent}

(* A page load: what the storage holds is all there is, and a token is looked up
   before anything is shown. *)
ShellInit ==
  /\ token \in Users \cup {Nobody} /\ userData = token
  /\ isAuthenticated = FALSE /\ loading = (token # Nobody)
  /\ answers = {token} \ {Nobody} /\ late = FALSE
  /\ mfaStage = "login" /\ tempToken = Nobody /\ isLoading = FALSE /\ attempt = {}
  /\ agents = Nobody /\ currentAgent = NoAgent
  /\ assistantId \in Agents \cup {NoAgent}
-----------------------------------------------------------------------------
(* The effect of AssistantContext, with the assistants of u listed: the address
   decides; an address of none of them is set to the one that was chosen, or to
   the first. *)
Follows(u, agent, id) ==
  IF u = Nobody THEN currentAgent' = agent /\ assistantId' = id
  ELSE /\ currentAgent' = IF id \in AssistantsOf(u) THEN id
                          ELSE IF agent \in AssistantsOf(u) THEN agent ELSE <<u, 1>>
       /\ assistantId' = currentAgent'

(* useAssistantsQuery: the list is asked for with the present token, and kept under
   the present user. *)
AssistantsArrive ==
  /\ isAuthenticated /\ userData # Nobody /\ agents = Nobody
  /\ agents' = token
  /\ Follows(agents', currentAgent, assistantId)
  /\ UNCHANGED <<sessionVars, loginVars>>

(* selectAgentByIndex, from the menu *)
SelectAgent ==
  /\ isAuthenticated
  /\ \E a \in AssistantsOf(agents) : Follows(agents, a, a)
  /\ UNCHANGED <<sessionVars, loginVars, agents>>

(* A link, or the browser's Back *)
Navigate ==
  /\ isAuthenticated
  /\ \E id \in Agents \cup {NoAgent} : Follows(agents, currentAgent, id)
  /\ UNCHANGED <<sessionVars, loginVars, agents>>
-----------------------------------------------------------------------------
(* login: the token is stored, the user is shown in, and the user's data is
   asked for behind that.  The login page is gone. *)
LogsIn(u) ==
  /\ token' = u /\ isAuthenticated' = TRUE
  /\ answers' = answers \cup {u}
  /\ mfaStage' = "login" /\ tempToken' = Nobody /\ isLoading' = FALSE /\ attempt' = {}
  /\ currentAgent' = NoAgent /\ assistantId' = NoAgent
  /\ UNCHANGED <<userData, loading, late, agents>>

LoginShown == ~isAuthenticated /\ ~loading

(* handleLogin *)
HandleLogin ==
  /\ LoginShown /\ mfaStage = "login" /\ ~isLoading
  /\ isLoading' = TRUE
  /\ \E u \in Users : attempt' = attempt \cup {[what |-> "login", of |-> u]}
  /\ UNCHANGED <<sessionVars, mfaStage, tempToken, agentVars>>

(* The answer: a token, or a second factor to be set up or asked for, or no. *)
LoginAnswers ==
  \E r \in attempt :
    /\ r.what = "login"
    /\ \/ LogsIn(r.of)
       \/ /\ tempToken' = r.of
          /\ attempt' = {[what |-> "init", of |-> r.of]}
          /\ UNCHANGED <<sessionVars, mfaStage, isLoading, agentVars>>
       \/ /\ tempToken' = r.of /\ mfaStage' = "verify"
          /\ isLoading' = FALSE /\ attempt' = attempt \ {r}
          /\ UNCHANGED <<sessionVars, agentVars>>
       \/ /\ isLoading' = FALSE /\ attempt' = attempt \ {r}
          /\ UNCHANGED <<sessionVars, mfaStage, tempToken, agentVars>>

(* startMfaSetup *)
StartMfaSetup ==
  \E r \in attempt :
    /\ r.what = "init"
    /\ mfaStage' \in {"setup", "login"}
    /\ isLoading' = FALSE /\ attempt' = attempt \ {r}
    /\ UNCHANGED <<sessionVars, tempToken, agentVars>>

VerifyOffered == LoginShown /\ mfaStage # "login" /\ ~isLoading

(* handleMfaVerify *)
HandleMfaVerify ==
  /\ VerifyOffered
  /\ isLoading' = TRUE
  /\ attempt' = attempt \cup {[what |-> "verify", of |-> tempToken]}
  /\ UNCHANGED <<sessionVars, mfaStage, tempToken, agentVars>>

(* The answer counts, also when the user has gone back to the first page. *)
MfaAnswers ==
  \E r \in attempt :
    /\ r.what = "verify"
    /\ \/ LogsIn(r.of)
       \/ /\ isLoading' = FALSE /\ attempt' = attempt \ {r}
          /\ UNCHANGED <<sessionVars, mfaStage, tempToken, agentVars>>

(* The button that goes back is never disabled. *)
BackToLogin ==
  /\ LoginShown /\ mfaStage # "login"
  /\ mfaStage' = "login" /\ tempToken' = Nobody
  /\ UNCHANGED <<sessionVars, isLoading, attempt, agentVars>>
-----------------------------------------------------------------------------
(* The data of u comes, to whom it may concern: it is stored and shown, and the
   list of assistants is another user's. *)
UserDataArrives(u) ==
  /\ u \in answers
  /\ answers' = answers \ {u}
  /\ userData' = u
  /\ late' = (late \/ u # token)
  /\ isAuthenticated' = (isAuthenticated \/ loading) /\ loading' = FALSE
  /\ agents' = IF userData = u THEN agents ELSE Nobody
  /\ UNCHANGED <<token, loginVars, currentAgent, assistantId>>

(* It does not: at a page load the user is logged out; after a login the frame
   stays without a user and without assistants. *)
UserDataFails(u) ==
  /\ u \in answers
  /\ answers' = answers \ {u}
  /\ IF loading THEN token' = Nobody /\ userData' = Nobody ELSE UNCHANGED <<token, userData>>
  /\ loading' = FALSE
  /\ UNCHANGED <<isAuthenticated, late, loginVars, agentVars>>

(* AccountSettingsDialog: handleSave, whose answer is the user's data *)
UpdateProfile ==
  /\ isAuthenticated
  /\ answers' = answers \cup ({token} \ {Nobody})
  /\ UNCHANGED <<token, userData, isAuthenticated, loading, late, loginVars, agentVars>>

Logout_KeepsUserData ==
  /\ isAuthenticated
  /\ token' = Nobody /\ isAuthenticated' = FALSE /\ late' = FALSE
  /\ agents' = Nobody /\ currentAgent' = NoAgent /\ assistantId' = NoAgent
  /\ UNCHANGED <<userData, loading, answers, loginVars>>

(* handleLogout: the storage and the queries are cleared, and the login page is
   shown; what is asked for is not given up. *)
Logout ==
  /\ isAuthenticated
  /\ token' = Nobody /\ userData' = Nobody /\ isAuthenticated' = FALSE /\ late' = FALSE
  /\ agents' = Nobody /\ currentAgent' = NoAgent /\ assistantId' = NoAgent
  /\ UNCHANGED <<loading, answers, loginVars>>

(* The page is loaded anew. *)
Reload ==
  /\ isAuthenticated' = FALSE /\ loading' = (token # Nobody)
  /\ answers' = {token} \ {Nobody}
  /\ mfaStage' = "login" /\ tempToken' = Nobody /\ isLoading' = FALSE /\ attempt' = {}
  /\ agents' = Nobody /\ currentAgent' = NoAgent
  /\ late' = (late /\ token = Nobody)
  /\ UNCHANGED <<token, userData, assistantId>>

ShellNext ==
  \/ AssistantsArrive \/ SelectAgent \/ Navigate
  \/ HandleLogin \/ LoginAnswers \/ StartMfaSetup \/ HandleMfaVerify \/ MfaAnswers \/ BackToLogin
  \/ \E u \in Users : UserDataArrives(u) \/ UserDataFails(u)
  \/ UpdateProfile \/ Logout \/ Reload

ShellSpec == ShellInit /\ [][ShellNext]_shellVars
-----------------------------------------------------------------------------
(* The page is busy exactly while its one request is on its way, through both
   factors and back: it is never stuck, and a request is not made twice. *)
OneAttempt ==
  /\ isLoading <=> attempt # {}
  /\ \A r, s \in attempt : r = s

(* Nothing of one user is shown in the session of another, unless an answer was
   overtaken by a logout: not the name, not the assistants, not the chosen one. *)
ShownIsOwn ==
  isAuthenticated /\ ~late =>
    /\ userData \in {Nobody, token} /\ agents \in {Nobody, token}
    /\ currentAgent \in AssistantsOf(token) \cup {NoAgent}

SessionOwn == OneAttempt /\ ShownIsOwn
=============================================================================
