--------------------------- MODULE SessionClient ---------------------------
(***************************************************************************)
(* One browser against RefreshTokens: frontend/src/lib/auth.tsx and        *)
(* lib/api.ts, in one or several tabs.                                     *)
(*                                                                         *)
(* A tab is a page with an AuthProvider, whose refreshToken ref lives in   *)
(* memory; localStorage["egq.rt"] and the cookie are the browser's.  An    *)
(* activity is one asynchronous function of a tab (an API call, a login, a *)
(* logout, the bootstrap of the page): it runs to its next await in one    *)
(* step, and the activities of a tab interleave at their awaits.  Requests *)
(* travel in any order, are lost, or arrive after the tab gave them up;    *)
(* responses are lost.                                                     *)
(*                                                                         *)
(* The access token has no state of its own: it may expire at any moment,  *)
(* so any first try of a call may be answered 401.  The account stays      *)
(* active and no refresh token expires: whatever ends a session here is    *)
(* the doing of the client and the network.                                *)
(***************************************************************************)
EXTENDS RefreshTokens

CONSTANTS
    Tabs,
    Acts        \* activities (each runs once; their number bounds the model)

ASSUME NoRequestAssumption == None \notin Requests

VARIABLES
    ref,        \* tab -> refreshToken.current
    stored,     \* localStorage["egq.rt"]
    cookie,     \* the cookie egq_refresh
    status,     \* tab -> AuthState.status, "closed" before the page is opened
    act,        \* activity -> its tab, its kind, where it stands, what it sent
    lost,       \* has an answer been given up that may have been on its way
    ended       \* tabs whose session was cleared by something else than logout

server == vars
client == <<ref, stored, cookie, status, act, lost, ended>>
allVars == <<server, client>>

NoAct == [tab |-> "none", kind |-> "none", at |-> "idle",
          sent |-> "none", rt |-> None, req |-> None]

ClientInit ==
    /\ Init
    /\ ref = [b \in Tabs |-> None]
    /\ stored = None /\ cookie = None
    /\ status = [b \in Tabs |-> "closed"]
    /\ act = [a \in Acts |-> NoAct]
    /\ lost = FALSE
    /\ ended = {}

-----------------------------------------------------------------------------
(* Pieces of AuthProvider and apiRequest. *)

Session == <<ref, stored, cookie, status, ended>>

MovesTo(a, at) == act' = [act EXCEPT ![a].at = at]

\* A POST to one of the token endpoints is on its way.
Sends(a, at, what, t) ==
    act' = [act EXCEPT ![a].at = at, ![a].sent = what, ![a].rt = t, ![a].req = None]

Starts(a, b, kind, at, what, t) ==
    /\ act[a].at = "idle"
    /\ act' = [act EXCEPT ![a] = [tab |-> b, kind |-> kind, at |-> at,
                                  sent |-> what, rt |-> t, req |-> None]]

ApplyTokens(b, t) ==
    /\ ref' = [ref EXCEPT ![b] = t]
    /\ stored' = t /\ cookie' = t

ClearSession(b) ==
    /\ ref' = [ref EXCEPT ![b] = None]
    /\ stored' = None
    /\ status' = [status EXCEPT ![b] = "anonymous"]

\* The session is taken from the tab, which did not ask for it.
LosesSession(b) ==
    /\ ClearSession(b)
    /\ ended' = ended \cup {b}
    /\ UNCHANGED cookie

Answered(a) == act[a].req # None /\ pc[act[a].req] = "done"

Accepted(a) == Answered(a) /\ reply[act[a].req] = "ok"

\* The token that came with the answer.
TokenOf(a) == CHOOSE t \in issued : origin[t].by = act[a].req

Working(a) == act[a].at \notin {"idle", "done"}

-----------------------------------------------------------------------------
(* A page is opened or reloaded: the old page's activities are abandoned, the *)
(* new one resumes from localStorage if it can.                               *)

OpensPage(b, a) ==
    LET old == {c \in Acts : Working(c) /\ act[c].tab = b} IN
    /\ act[a].at = "idle"
    /\ ref' = [ref EXCEPT ![b] = stored]
    /\ status' = [status EXCEPT ![b] = IF stored = None THEN "anonymous" ELSE "loading"]
    /\ act' = [c \in Acts |->
                 IF c \in old THEN [act[c] EXCEPT !.at = "done"]
                 ELSE IF c = a /\ stored # None
                 THEN [tab |-> b, kind |-> "boot", at |-> "resuming",
                       sent |-> "refresh", rt |-> stored, req |-> None]
                 ELSE act[c]]
    /\ lost' = (lost \/ old # {})
    /\ UNCHANGED <<server, stored, cookie, ended>>

LogsIn(b, a) ==
    /\ status[b] = "anonymous"
    /\ Starts(a, b, "login", "entering", "login", None)
    /\ UNCHANGED <<server, Session, lost>>

\* A login that is refused or lost is thrown to the form.
LoginAnswered(a) ==
    /\ act[a].at = "entering"
    /\ \/ Accepted(a) /\ ApplyTokens(act[a].tab, TokenOf(a)) /\ MovesTo(a, "sent")
       \/ MovesTo(a, "done") /\ UNCHANGED <<ref, stored, cookie>>
    /\ UNCHANGED <<server, status, ended, lost>>

Calls(b, a) ==
    /\ status[b] = "authenticated"
    /\ Starts(a, b, "api", "sent", "none", None)
    /\ UNCHANGED <<server, Session, lost>>

\* A good answer; that of /auth/me completes a login and a bootstrap.
CallSucceeds(a) ==
    /\ act[a].at \in {"sent", "resent"}
    /\ MovesTo(a, "done")
    /\ status' = IF act[a].kind = "api" THEN status
                 ELSE [status EXCEPT ![act[a].tab] = "authenticated"]
    /\ UNCHANGED <<server, ref, stored, cookie, ended, lost>>

\* Mutant: no refresh is tried.
RefusedGivesUp(a) ==
    /\ act[a].at = "sent"
    /\ MovesTo(a, "done") /\ LosesSession(act[a].tab)
    /\ UNCHANGED <<server, lost>>

\* 401 on the first try: doRefresh sends the ref as it is by now; with no token
\* left there is nothing to send.
CallRefused(a) ==
    LET b == act[a].tab IN
    /\ act[a].at = "sent"
    /\ \/ /\ ref[b] # None
          /\ Sends(a, "refreshing", "refresh", ref[b])
          /\ UNCHANGED Session
       \/ /\ ref[b] = None
          /\ MovesTo(a, "done") /\ ClearSession(b) /\ UNCHANGED <<cookie, ended>>
    /\ UNCHANGED <<server, lost>>

\* Any other failure is thrown to the caller; the bootstrap clears the session.
CallThrows(a) ==
    /\ act[a].at \in {"sent", "resent"}
    /\ MovesTo(a, "done")
    /\ IF act[a].kind = "boot" THEN LosesSession(act[a].tab) ELSE UNCHANGED Session
    /\ lost' = TRUE
    /\ UNCHANGED server

\* Mutant: the answer's token is kept in memory and not in localStorage.
RefreshSucceedsUnstored(a) ==
    /\ act[a].at \in {"resuming", "refreshing"} /\ Accepted(a)
    /\ ref' = [ref EXCEPT ![act[a].tab] = TokenOf(a)]
    /\ cookie' = TokenOf(a)
    /\ MovesTo(a, IF act[a].at = "resuming" THEN "sent" ELSE "resent")
    /\ UNCHANGED <<server, stored, status, ended, lost>>

\* doRefresh is true: a bootstrap asks /auth/me, a call is sent again.
RefreshSucceeds(a) ==
    /\ act[a].at \in {"resuming", "refreshing"} /\ Accepted(a)
    /\ ApplyTokens(act[a].tab, TokenOf(a))
    /\ MovesTo(a, IF act[a].at = "resuming" THEN "sent" ELSE "resent")
    /\ UNCHANGED <<server, status, ended, lost>>

\* doRefresh is false, for a refusal as for a lost request or answer, and the
\* session is cleared by onAuthLost or by the bootstrap.
RefreshFails(a) ==
    /\ act[a].at \in {"resuming", "refreshing"}
    /\ \/ Answered(a) /\ ~Accepted(a) /\ UNCHANGED lost
       \/ lost' = TRUE
    /\ MovesTo(a, "done") /\ LosesSession(act[a].tab)
    /\ UNCHANGED server

\* logout sends the ref, without one the cookie goes along, ...
Leaves(b, a) ==
    /\ status[b] = "authenticated"
    /\ Starts(a, b, "logout", "leaving", "logout", IF ref[b] = None THEN cookie ELSE ref[b])
    /\ UNCHANGED <<server, Session, lost>>

\* ... and clears the session whatever comes back.
Left(a) ==
    /\ act[a].at = "leaving"
    /\ \/ (Accepted(a) \/ act[a].rt = None) /\ cookie' = None /\ UNCHANGED lost
       \/ lost' = TRUE /\ UNCHANGED cookie
    /\ MovesTo(a, "done") /\ ClearSession(act[a].tab)
    /\ UNCHANGED <<server, ended>>

-----------------------------------------------------------------------------
(* The network, and the server's work. *)

Arrives(a, r) ==
    /\ act[a].req = None /\ pc[r] = "idle"
    /\ \/ act[a].sent = "refresh" /\ RefreshReads(r, act[a].rt)
       \/ act[a].sent = "logout" /\ LogoutReads(r, act[a].rt)
       \/ act[a].sent = "login" /\ LoginReads(r)
    /\ act' = [act EXCEPT ![a].req = r]
    /\ UNCHANGED <<Session, lost>>

Serves(r) ==
    /\ \/ LoadsUser(r) \/ BurnReads(r) \/ BurnCommits(r) \/ LogoutCommits(r)
       \/ \E n \in Tokens : RotateCommits(r, n) \/ LoginIssues(r, n)
    /\ UNCHANGED client

Resolves(a) ==
    \/ CallSucceeds(a) \/ CallRefused(a) \/ CallThrows(a)
    \/ RefreshSucceeds(a) \/ RefreshFails(a) \/ LoginAnswered(a) \/ Left(a)

ClientNext ==
    \/ \E b \in Tabs, a \in Acts :
         OpensPage(b, a) \/ LogsIn(b, a) \/ Calls(b, a) \/ Leaves(b, a)
    \/ \E a \in Acts : Resolves(a) \/ \E r \in Requests : Arrives(a, r)
    \/ \E r \in Requests : Serves(r)

ClientSpec == ClientInit /\ [][ClientNext]_allVars

-----------------------------------------------------------------------------
(* Properties. *)

\* One refresh token was presented by two requests.
PresentedTwice ==
    \E q, r \in Requests :
        q # r /\ op[q] = "refresh" /\ op[r] = "refresh" /\ arg[q] = arg[r]

\* Some tab logged out with this token.
LeftWith(t) == \E a \in Acts : act[a].sent = "logout" /\ act[a].rt = t

\* A tab loses its session only because an answer was given up, because one
\* token was presented twice, or because another tab left with its token.
EndsAreExplained ==
    ended # {} =>
        \/ lost \/ PresentedTwice
        \/ \E r \in Requests : op[r] = "refresh" /\ LeftWith(arg[r])

\* Under the same conditions the token kept for the next page is alive, unless
\* it is being exchanged at this moment.
StoredIsLive ==
    stored # None /\ ~lost /\ ~PresentedTwice =>
        \/ IsActive(stored) \/ LeftWith(stored)
        \/ \E a \in Acts : Working(a) /\ act[a].sent = "refresh" /\ act[a].rt = stored

\* docs/API.md:23 "revokes the whole token family": once a logout was answered
\* the family of the token it presented is dead.
LogoutEndsFamily ==
    \A a \in Acts :
        act[a].kind = "logout" /\ act[a].rt # None /\ Accepted(a)
            => \A t \in FamilyOf(act[a].rt) : ~IsActive(t)
=============================================================================
