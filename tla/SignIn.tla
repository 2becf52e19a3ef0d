------------------------------- MODULE SignIn -------------------------------
(***************************************************************************)
(* Signing in with GitHub (github/routes.ts, github/oauth.ts), the account *)
(* a first sign-in creates (users/), the cookie sessions requests are      *)
(* authenticated by (auth/), and the GitHub token a sign-in leaves, which  *)
(* the picker of repositories refreshes when it finds it lapsed            *)
(* (github/reconcile-user-installations.ts).                               *)
(***************************************************************************)
EXTENDS Integers, FiniteSets

CONSTANTS
    People,     \* accounts on GitHub
    Names,      \* usernames
    Wanted,     \* Wanted[p]: the username made of p's login on GitHub
    Spare,      \* Spare[p]: the one made when that is taken, unique to p but for its length
    Ids,        \* ids of cookie sessions
    Requests,   \* handlers that may be under way at once
    None,
    MaxTokens   \* bound: pairs of tokens GitHub issues

NamesAssumption ==
    /\ Wanted \in [People -> Names] /\ Spare \in [People -> Names]
    /\ None \notin Names \cup {"pending_username", "active"}

VARIABLES
    states,        \* oauth_states: redirects to GitHub that are open, one at a time
    issued, live,  \* GitHub: pairs of tokens issued, and not replaced by a later one
    users,         \* users[p], and whether the personal organization was created
    token,         \* github_tokens[p]
    sessions,      \* sessions[s]: "free", "valid", "expired" or "gone", and whose
    req,           \* req[r]: what handler r has read and where it is
    orphaned       \* accounts whose only live pair was lost before it was kept

github == <<issued, live>>
vars == <<states, github, users, token, sessions, req, orphaned>>

NoUser == [name |-> None, onboarding |-> None, organization |-> FALSE]
Pair(t) == [access |-> t, refresh |-> t]
NoToken == Pair(0)
Idle == [at |-> "idle", of |-> None, session |-> None, goal |-> None, name |-> None,
         token |-> NoToken, retried |-> FALSE]

Init ==
    /\ states = 0
    /\ issued = 0 /\ live = {}
    /\ users = [p \in People |-> NoUser]
    /\ token = [p \in People |-> NoToken]
    /\ sessions = [s \in Ids |-> [is |-> "free", of |-> None]]
    /\ req = [r \in Requests |-> Idle]
    /\ orphaned = {}

At(r, at) == req[r].at = at
Becomes(r, to) == req' = [req EXCEPT ![r] = to]
Goes(r, at) == Becomes(r, [req[r] EXCEPT !.at = at])
Ends(r) == Becomes(r, Idle)

Taken(name) == \E p \in People : users[p].name = name

\* A pair that replaces the one it was made from, if any.
Issue(replaced) ==
    /\ issued < MaxTokens
    /\ issued' = issued + 1
    /\ live' = (live \ replaced) \cup {issued + 1}

-----------------------------------------------------------------------------
(* GET /auth/github and its callback. *)

CreateState ==
    /\ states = 0 /\ states' = 1
    /\ UNCHANGED <<github, users, token, sessions, req, orphaned>>

StateExpires ==
    /\ states = 1 /\ states' = 0
    /\ UNCHANGED <<github, users, token, sessions, req, orphaned>>

ConsumeState(r) ==
    /\ At(r, "idle")
    /\ states = 1 /\ states' = 0
    /\ \E p \in People : Becomes(r, [Idle EXCEPT !.at = "exchange", !.of = p])
    /\ UNCHANGED <<github, users, token, sessions, orphaned>>

ExchangeCode(r) ==
    /\ At(r, "exchange")
    /\ \/ Issue({}) /\ Becomes(r, [req[r] EXCEPT !.at = "find", !.token = Pair(issued + 1)])
       \/ Ends(r) /\ UNCHANGED github
    /\ UNCHANGED <<states, users, token, sessions, orphaned>>

FindUser(r) ==
    /\ At(r, "find")
    /\ Goes(r, IF users[req[r].of] = NoUser THEN "name" ELSE "token")
    /\ UNCHANGED <<states, github, users, token, sessions, orphaned>>

PickName(r) ==
    /\ At(r, "name")
    /\ LET p == req[r].of
       IN Becomes(r, [req[r] EXCEPT !.at = "create",
                        !.name = IF Taken(Wanted[p]) THEN Spare[p] ELSE Wanted[p]])
    /\ UNCHANGED <<states, github, users, token, sessions, orphaned>>

\* Two UNIQUE constraints: the username, and the account on GitHub.
CreateUser(r) ==
    /\ At(r, "create")
    /\ LET p == req[r].of
           free == users[p] = NoUser /\ ~Taken(req[r].name)
       IN \/ /\ free
             /\ users' = [users EXCEPT ![p].name = req[r].name,
                                       ![p].onboarding = "pending_username"]
             /\ Goes(r, "organization")
          \/ ~free /\ Ends(r) /\ UNCHANGED users
    /\ UNCHANGED <<states, github, token, sessions, orphaned>>

CreateOrganization(r) ==
    /\ At(r, "organization")
    /\ users' = [users EXCEPT ![req[r].of].organization = TRUE]
    /\ Goes(r, "token")
    /\ UNCHANGED <<states, github, token, sessions, orphaned>>

UpsertToken(r) ==
    /\ At(r, "token")
    /\ token' = [token EXCEPT ![req[r].of] = req[r].token]
    /\ orphaned' = orphaned \ {req[r].of}
    /\ Goes(r, "session")
    /\ UNCHANGED <<states, github, users, sessions>>

\* Sessions that make no request are not kept track of.
CreateSession(r) ==
    /\ At(r, "session")
    /\ \/ \E s \in Ids :
            /\ sessions[s].is = "free"
            /\ sessions' = [sessions EXCEPT ![s] = [is |-> "valid", of |-> req[r].of]]
       \/ UNCHANGED sessions
    /\ Ends(r)
    /\ UNCHANGED <<states, github, users, token, orphaned>>

-----------------------------------------------------------------------------
(* Requests with a cookie: requireAuth, then what they are for. *)

SessionExpires ==
    /\ \E s \in Ids : /\ sessions[s].is = "valid"
                      /\ sessions' = [sessions EXCEPT ![s].is = "expired"]
    /\ UNCHANGED <<states, github, users, token, req, orphaned>>

FindValid(r) ==
    /\ At(r, "idle")
    /\ \E s \in Ids, goal \in {"logout", "confirm", "picker"} :
         /\ sessions[s].is = "valid"
         /\ Becomes(r, [Idle EXCEPT !.at = "user", !.session = s, !.of = sessions[s].of,
                          !.goal = goal])
    /\ UNCHANGED <<states, github, users, token, sessions, orphaned>>

\* The handler acts on the user as it was read here.
FindById(r) ==
    /\ At(r, "user")
    /\ Becomes(r, [req[r] EXCEPT !.at = "touch", !.name = users[req[r].of].onboarding])
    /\ UNCHANGED <<states, github, users, token, sessions, orphaned>>

\* An UPDATE of the row: one that is gone is not made again.
TouchSession(s) ==
    sessions' = [sessions EXCEPT ![s].is = IF @ = "gone" THEN @ ELSE "valid"]

AfterTouch(r) ==
    CASE req[r].goal = "confirm" -> IF req[r].name = "pending_username" THEN "check" ELSE "idle"
      [] req[r].goal = "logout" -> "logout"
      [] req[r].goal = "picker" -> "read"

Touch(r) ==
    /\ At(r, "touch")
    /\ TouchSession(req[r].session)
    /\ IF AfterTouch(r) = "idle" THEN Ends(r) ELSE Goes(r, AfterTouch(r))
    /\ UNCHANGED <<states, github, users, token, orphaned>>

Logout(r) ==
    /\ At(r, "logout")
    /\ sessions' = [sessions EXCEPT ![req[r].session].is = "gone"]
    /\ Ends(r)
    /\ UNCHANGED <<states, github, users, token, orphaned>>

CheckUsername(r) ==
    /\ At(r, "check")
    /\ \E name \in Names :
         IF name # users[req[r].of].name /\ Taken(name)
         THEN Ends(r)
         ELSE Becomes(r, [req[r] EXCEPT !.at = "confirm", !.name = name])
    /\ UNCHANGED <<states, github, users, token, sessions, orphaned>>

AnyStatus(p) == TRUE

Pending(p) == users[p].onboarding = "pending_username"

\* The UPDATE matches a row that is still pending; a name taken meanwhile fails.
ConfirmUsername(r) ==
    /\ At(r, "confirm")
    /\ LET p == req[r].of
       IN users' = IF Pending(p) /\ \A q \in People \ {p} : users[q].name # req[r].name
                   THEN [users EXCEPT ![p].name = req[r].name, ![p].onboarding = "active"]
                   ELSE users
    /\ Ends(r)
    /\ UNCHANGED <<states, github, token, sessions, orphaned>>

-----------------------------------------------------------------------------
(* The picker's token. *)

ReadToken(r) ==
    /\ At(r, "read")
    /\ IF token[req[r].of] = NoToken THEN Ends(r)
       ELSE Becomes(r, [req[r] EXCEPT !.at = "fetch", !.token = token[req[r].of]])
    /\ UNCHANGED <<states, github, users, token, sessions, orphaned>>

\* What follows an answer is module GitHubAccess.  An access token lapses after
\* some hours, and with its pair; the first 401 is followed by a refresh.
FetchUserInstallations(r) ==
    /\ At(r, "fetch")
    /\ \/ req[r].token.access \in live /\ Ends(r)
       \/ ~req[r].retried /\ Goes(r, "refresh")
       \/ req[r].retried /\ Ends(r)
    /\ UNCHANGED <<states, github, users, token, sessions, orphaned>>

\* The pair GitHub has just made is lost; the catch answers `reauth_required` or
\* `soft_fail`, and the account keeps the pair it replaced until the next sign-in.
LosesPair(r) == orphaned' = orphaned \cup {req[r].of} /\ Ends(r)

\* GitHub accepts a refresh token once.  Its answer may be lost, or unreadable.
RefreshToken(r) ==
    /\ At(r, "refresh")
    /\ LET old == req[r].token.refresh
       IN \/ /\ old \in live /\ Issue({old})
             /\ \/ /\ Becomes(r, [req[r] EXCEPT !.at = "store", !.retried = TRUE,
                                     !.token = Pair(issued + 1)])
                   /\ UNCHANGED orphaned
                \/ LosesPair(r)
          \/ Ends(r) /\ UNCHANGED <<github, orphaned>>
    /\ UNCHANGED <<states, users, token, sessions>>

AccessRefreshed(old, new) == [access |-> new.access, refresh |-> old.refresh]

Refreshed(old, new) == new

UpdateAccessToken(r) ==
    /\ At(r, "store")
    /\ \/ /\ token' = [token EXCEPT ![req[r].of] = Refreshed(@, req[r].token)]
          /\ orphaned' = orphaned \ {req[r].of}
          /\ Goes(r, "fetch")
       \/ LosesPair(r) /\ UNCHANGED token
    /\ UNCHANGED <<states, github, users, sessions>>

-----------------------------------------------------------------------------
\* A process dies.  One that dies elsewhere is one that takes no further step.
Killed(r) ==
    /\ At(r, "store")
    /\ LosesPair(r)
    /\ UNCHANGED <<states, github, users, token, sessions>>

Step(r) ==
    \/ ExchangeCode(r) \/ FindUser(r) \/ PickName(r) \/ CreateUser(r)
    \/ CreateOrganization(r) \/ UpsertToken(r) \/ CreateSession(r)
    \/ FindById(r) \/ Touch(r) \/ Logout(r) \/ CheckUsername(r) \/ ConfirmUsername(r)
    \/ ReadToken(r) \/ FetchUserInstallations(r) \/ RefreshToken(r) \/ UpdateAccessToken(r)

Next ==
    \/ CreateState \/ StateExpires \/ SessionExpires
    \/ \E r \in Requests : ConsumeState(r) \/ FindValid(r) \/ Step(r) \/ Killed(r)

Spec == Init /\ [][Next]_vars

-----------------------------------------------------------------------------
(* Properties *)

\* What a person has settled stays so, whatever requests that were authenticated
\* before it are under way: a session that was signed out is never accepted again
\* (a request that found it valid touches it late), and of several confirmations of
\* a username, each of which read the account as pending, one counts.
SettledStep ==
    /\ \A s \in Ids : sessions[s].is = "gone" => sessions'[s].is = "gone"
    /\ \A p \in People : users[p].onboarding = "active" => users'[p].name = users[p].name

SettledStays == [][SettledStep]_vars

\* The refresh token that is kept can be used, however many pickers refresh it
\* and sign-ins replace it at once: GitHub rotates it on every use, and the token
\* kept is one that GitHub has replaced only between the rotation and the write;
\* or when the answer with the new pair is lost, its UPDATE fails or the process
\* dies there (reconcile-user-installations.ts:65-72), from then until a sign-in or
\* another picker keeps a pair.
TokenUsable ==
    \A p \in People \ orphaned :
        \/ token[p] = NoToken
        \/ token[p].refresh \in live
        \/ \E r \in Requests : At(r, "store") /\ req[r].of = p
=============================================================================
