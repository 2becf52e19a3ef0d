----------------------------- MODULE Parts_proofs -----------------------------
(***************************************************************************)
(* What SignIn, GitHubAccess, ActionItems, Extensions and Usage guarantee  *)
(* for any number of accounts, cookie sessions, handlers, repositories,    *)
(* items, designs, slugs, files, jobs, projects and days.                  *)
(***************************************************************************)
EXTENDS MCParts, Integers, Sequences, FiniteSetTheorems, WellFoundedInduction, TLAPS

allVars == <<part, signInVars, accessVars, itemVars, extensionVars, usageVars>>

-----------------------------------------------------------------------------
(* SignIn: who holds which token.  A pair that GitHub has just issued is held *)
(* by one handler until it stores it, and any pair by one person's handlers   *)
(* and row: so a refresh takes the usable token from nobody but the person    *)
(* for whom its handler is about to store another.                            *)

Places ==
    {"idle", "exchange", "find", "name", "create", "organization", "token", "session",
     "user", "touch", "check", "confirm", "logout", "read", "fetch", "refresh", "store"}
NewPair == {"find", "name", "create", "organization", "token", "store"}
Tokens == [access : Nat, refresh : Nat]

Account ==
    [name : Names \cup {None}, onboarding : {None, "pending_username", "active"},
     organization : BOOLEAN]
Cookie == [is : {"free", "valid", "expired", "gone"}, of : People \cup {None}]
Handler ==
    [at : Places, of : People \cup {None}, session : SessionIds \cup {None},
     goal : {None, "logout", "confirm", "picker"},
     name : Names \cup {None, "pending_username", "active"},
     token : Tokens, retried : BOOLEAN]

\* What a handler has in hand where it is.
HandlerGood(h) ==
    /\ h.at # "idle" \/ h.token.refresh # 0 => h.of \in People
    /\ h.at \in {"create", "confirm"} => h.name \in Names
    /\ h.at \in {"user", "touch"} => h.goal \in {"logout", "confirm", "picker"}

\* The session a handler was authenticated by has been somebody's since.
Found(h, cookies) ==
    h.at \in {"user", "touch", "logout"} =>
        h.session \in SessionIds /\ cookies[h.session].is # "free"

SignInTypes ==
    /\ issued \in Nat /\ live \subseteq 1..issued
    /\ users \in [People -> Account]
    /\ token \in [People -> Tokens]
    /\ sessions \in [SessionIds -> Cookie]
    /\ req \in [Requests -> Handler]
    /\ \A s \in SessionIds : sessions[s].is # "free" => sessions[s].of \in People
    /\ \A r \in Requests : HandlerGood(req[r]) /\ Found(req[r], sessions)

\* The row of p has the pair t, or a handler that acts for p does.
Holds(p, t) ==
    \/ token[p].refresh = t
    \/ \E r \in Requests : req[r].of = p /\ req[r].token.refresh = t

HoldersDiffer ==
    \A p \in People : \A t \in Nat \ {0} : Holds(p, t) =>
        /\ t <= issued
        /\ \A q \in People : Holds(q, t) => q = p

\* Nobody but r has the pair that r has yet to store.
NewPairKept(r) ==
    req[r].at \in NewPair =>
        /\ req[r].token.refresh \in live
        /\ \A p \in People : token[p].refresh # req[r].token.refresh
        /\ \A q \in Requests \ {r} : req[q].token.refresh # req[r].token.refresh

SignInInv ==
    /\ SignInTypes
    /\ HoldersDiffer
    /\ \A r \in Requests : NewPairKept(r)
    /\ S!TokenUsable

\* Handler r becomes h.
Turns(r, h) == h \in Handler /\ HandlerGood(h) /\ req' = [req EXCEPT ![r] = h]

LEMMA TurnsFacts ==
    ASSUME SignInTypes, NEW r \in Requests, NEW h, Turns(r, h)
    PROVE  /\ req' \in [Requests -> Handler]
           /\ req'[r] = h /\ \A q \in Requests \ {r} : req'[q] = req[q]
           /\ \A q \in Requests : HandlerGood(req'[q])
BY DEF SignInTypes, Turns

\* A handler that is given no pair, or keeps the one it has.
GivenNone(r, h) ==
    /\ UNCHANGED <<issued, live, token>> /\ orphaned \subseteq orphaned'
    /\ \/ h.token.refresh = 0 /\ h.at \notin NewPair
       \/ /\ h.token.refresh = req[r].token.refresh /\ h.of = req[r].of
          /\ h.at \in NewPair => req[r].at \in NewPair
       \/ /\ h.of \in People /\ h.token.refresh = token[h.of].refresh
          /\ h.at \notin NewPair
    /\ req[r].at = "store" => h.at = "store" \/ req[r].of \in orphaned'

LEMMA PairsStay ==
    ASSUME SignInInv, NEW r \in Requests, NEW h, Turns(r, h), GivenNone(r, h)
    PROVE  HoldersDiffer' /\ (\A q \in Requests : NewPairKept(q)') /\ S!TokenUsable'
<1>1. /\ req'[r] = h /\ \A q \in Requests \ {r} : req'[q] = req[q]
      /\ req \in [Requests -> Handler] /\ h \in Handler
  BY TurnsFacts DEF SignInInv, SignInTypes, Turns
<1>2. \A p \in People : \A t \in Nat \ {0} : Holds(p, t)' => Holds(p, t)
  BY <1>1 DEF Holds, GivenNone
<1>3. HoldersDiffer'
  BY <1>2 DEF SignInInv, HoldersDiffer, GivenNone
<1>4. ASSUME NEW q \in Requests
      PROVE  NewPairKept(q)'
  BY <1>1 DEF SignInInv, SignInTypes, NewPairKept, GivenNone
<1>5. S!TokenUsable'
  <2> SUFFICES ASSUME NEW p \in People \ orphaned'
               PROVE  \/ token'[p] = S!NoToken
                      \/ token'[p].refresh \in live'
                      \/ \E q \in Requests : req'[q].at = "store" /\ req'[q].of = p
    BY DEF S!TokenUsable, S!At
  <2>1. ASSUME NEW q \in Requests, req[q].at = "store", req[q].of = p
        PROVE  req'[q].at = "store" /\ req'[q].of = p
    BY <1>1, <2>1 DEF Turns, NewPair, GivenNone
  <2> QED BY <2>1 DEF SignInInv, S!TokenUsable, S!At, GivenNone
<1> QED BY <1>3, <1>4, <1>5

\* A handler that GitHub gives a new pair, for a code or for the pair it has.
LEMMA PairIssued ==
    ASSUME SignInInv, NEW r \in Requests, NEW h, Turns(r, h), NEW replaced,
           S!Issue(replaced), UNCHANGED <<token, orphaned>>,
           h.of = req[r].of, h.of \in People, h.token = S!Pair(issued + 1), h.at \in NewPair,
           req[r].at \notin NewPair,
           \/ replaced = {}
           \/ replaced = {req[r].token.refresh} /\ h.at = "store"
    PROVE  HoldersDiffer' /\ (\A q \in Requests : NewPairKept(q)') /\ S!TokenUsable'
<1>1. /\ req'[r] = h /\ \A q \in Requests \ {r} : req'[q] = req[q]
      /\ req \in [Requests -> Handler] /\ h \in Handler
      /\ issued \in Nat /\ live \subseteq 1..issued
  BY TurnsFacts DEF SignInInv, SignInTypes, Turns
<1>2. /\ issued' = issued + 1 /\ live' = (live \ replaced) \cup {issued + 1}
      /\ h.token.refresh = issued + 1
  BY DEF S!Issue, S!Pair
<1>3. \A q \in Requests : req[q].token.refresh \in Nat /\ req[q].of \in People \cup {None}
  BY <1>1 DEF Handler, Tokens
<1>4. \A p \in People : token[p].refresh \in Nat /\ token[p].refresh <= issued
  BY <1>1 DEF SignInInv, SignInTypes, HoldersDiffer, Holds, Tokens
<1>5. ASSUME NEW p \in People, NEW t \in Nat \ {0}, Holds(p, t)'
      PROVE  Holds(p, t) \/ (t = issued + 1 /\ p = h.of)
  BY <1>1, <1>2, <1>5 DEF Holds
<1>6. \A p \in People : \A t \in Nat \ {0} : Holds(p, t) => t <= issued
  BY DEF SignInInv, HoldersDiffer
<1>7. HoldersDiffer'
  <2> SUFFICES ASSUME NEW p \in People, NEW t \in Nat \ {0}, Holds(p, t)'
               PROVE  t <= issued' /\ \A q \in People : Holds(q, t)' => q = p
    BY DEF HoldersDiffer
  <2>1. t <= issued'
    BY <1>1, <1>2, <1>5, <1>6
  <2>2. ASSUME NEW q \in People, Holds(q, t)'
        PROVE  q = p
    BY <1>1, <1>5, <1>6, <2>2 DEF SignInInv, HoldersDiffer
  <2> QED BY <2>1, <2>2
<1>8. ASSUME NEW q \in Requests
      PROVE  NewPairKept(q)'
  <2>1. CASE q = r
    <3>1. \A p \in Requests \ {r} : req[p].token.refresh # issued + 1
      <4> SUFFICES ASSUME NEW p \in Requests \ {r}, req[p].token.refresh = issued + 1
                   PROVE  FALSE
        OBVIOUS
      <4>1. req[p].of \in People
        BY <1>1, <1>3 DEF SignInInv, SignInTypes, HandlerGood
      <4> QED BY <1>1, <1>6, <4>1 DEF Holds
    <3> QED BY <1>1, <1>2, <1>4, <2>1, <3>1 DEF NewPairKept
  <2>2. CASE q # r
    BY <1>1, <1>2, <2>2 DEF SignInInv, NewPairKept
  <2> QED BY <2>1, <2>2
<1>9. S!TokenUsable'
  <2> SUFFICES ASSUME NEW p \in People \ orphaned'
               PROVE  \/ token'[p] = S!NoToken
                      \/ token'[p].refresh \in live'
                      \/ \E q \in Requests : req'[q].at = "store" /\ req'[q].of = p
    BY DEF S!TokenUsable, S!At
  <2>1. CASE token[p].refresh \in live /\ token[p].refresh \in replaced
    <3>1. replaced = {req[r].token.refresh} /\ h.at = "store"
      BY <2>1
    <3>2. token[p].refresh = req[r].token.refresh /\ token[p].refresh \in Nat \ {0}
      <4>1. token[p].refresh = req[r].token.refresh
        BY ONLY <2>1, <3>1
      <4>2. \A t \in live : t \in Nat \ {0}
        BY <1>1
      <4> QED BY <2>1, <4>1, <4>2
    <3>3. Holds(p, token[p].refresh) /\ Holds(req[r].of, token[p].refresh)
      BY <3>2 DEF Holds
    <3>4. req[r].of = p
      BY <3>2, <3>3 DEF SignInInv, HoldersDiffer
    <3> QED BY <1>1, <3>1, <3>4
  <2>2. ASSUME NEW q \in Requests, req[q].at = "store", req[q].of = p
        PROVE  req'[q].at = "store" /\ req'[q].of = p
    BY <1>1, <2>2 DEF NewPair
  <2> QED BY <1>2, <2>1, <2>2 DEF SignInInv, S!TokenUsable, S!At
<1> QED BY <1>7, <1>8, <1>9

\* A handler that stores the new pair it has.
LEMMA PairStored ==
    ASSUME SignInInv, NEW r \in Requests, NEW h, Turns(r, h),
           UNCHANGED <<issued, live>>, orphaned' = orphaned \ {req[r].of},
           req[r].at \in NewPair, req[r].of \in People,
           token' = [token EXCEPT ![req[r].of] = req[r].token],
           h.of = req[r].of, h.token = req[r].token, h.at \notin NewPair
    PROVE  HoldersDiffer' /\ (\A q \in Requests : NewPairKept(q)') /\ S!TokenUsable'
<1>1. /\ req'[r] = h /\ \A q \in Requests \ {r} : req'[q] = req[q]
      /\ token'[req[r].of] = req[r].token
      /\ \A p \in People \ {req[r].of} : token'[p] = token[p]
  BY TurnsFacts DEF SignInInv, SignInTypes
<1>2. \A p \in People : \A t \in Nat \ {0} : Holds(p, t)' => Holds(p, t)
  BY <1>1 DEF Holds
<1>3. HoldersDiffer'
  BY <1>2 DEF SignInInv, HoldersDiffer
<1>4. ASSUME NEW q \in Requests
      PROVE  NewPairKept(q)'
  BY <1>1 DEF SignInInv, NewPairKept
<1>5. S!TokenUsable'
  <2> SUFFICES ASSUME NEW p \in People \ orphaned'
               PROVE  \/ token'[p] = S!NoToken
                      \/ token'[p].refresh \in live'
                      \/ \E q \in Requests : req'[q].at = "store" /\ req'[q].of = p
    BY DEF S!TokenUsable, S!At
  <2>1. CASE p = req[r].of
    BY <1>1, <2>1 DEF SignInInv, NewPairKept
  <2>2. CASE p # req[r].of
    <3>1. ASSUME NEW q \in Requests, req[q].at = "store", req[q].of = p
          PROVE  req'[q].at = "store" /\ req'[q].of = p
      BY <1>1, <2>2, <3>1
    <3> QED BY <1>1, <2>2, <3>1 DEF SignInInv, S!TokenUsable, S!At
  <2> QED BY <2>1, <2>2
<1> QED BY <1>3, <1>4, <1>5

\* A handler that GitHub gives a new pair for the one it has, and that never reads it.
LEMMA PairLost ==
    ASSUME SignInInv, NEW r \in Requests, NEW h, Turns(r, h), req[r].of \in People,
           S!Issue({req[r].token.refresh}), UNCHANGED token,
           req[r].at = "refresh", orphaned' = orphaned \cup {req[r].of},
           h.token.refresh = 0, h.at = "idle"
    PROVE  HoldersDiffer' /\ (\A q \in Requests : NewPairKept(q)') /\ S!TokenUsable'
<1> DEFINE old == req[r].token.refresh
<1>1. /\ req'[r] = h /\ \A q \in Requests \ {r} : req'[q] = req[q]
      /\ issued \in Nat /\ live \subseteq 1..issued
  BY TurnsFacts DEF SignInInv, SignInTypes
<1>2. issued' = issued + 1 /\ live' = (live \ {old}) \cup {issued + 1}
  BY DEF S!Issue
<1>3. \A p \in People : \A t \in Nat \ {0} : Holds(p, t)' => Holds(p, t)
  BY <1>1 DEF Holds
<1>4. HoldersDiffer'
  <2>1. \A p \in People : \A t \in Nat \ {0} :
          Holds(p, t) => t <= issued /\ \A q \in People : Holds(q, t) => q = p
    BY DEF SignInInv, HoldersDiffer
  <2>2. \A t \in Nat : t <= issued => t <= issued'
    BY <1>1, <1>2
  <2> QED BY <1>3, <2>1, <2>2 DEF HoldersDiffer
<1> HIDE DEF old
<1>5. ASSUME NEW q \in Requests
      PROVE  NewPairKept(q)'
  <2>1. CASE q = r
    BY <1>1, <2>1 DEF NewPairKept, NewPair
  <2>2. CASE q # r
    <3>1. req[q].at \in NewPair => req[q].token.refresh # old
      BY <2>2 DEF SignInInv, NewPairKept, old
    <3> QED BY <1>1, <1>2, <2>2, <3>1 DEF SignInInv, NewPairKept, NewPair
  <2> QED BY <2>1, <2>2
<1>6. S!TokenUsable'
  <2> SUFFICES ASSUME NEW p \in People \ orphaned'
               PROVE  \/ token'[p] = S!NoToken
                      \/ token'[p].refresh \in live'
                      \/ \E q \in Requests : req'[q].at = "store" /\ req'[q].of = p
    BY DEF S!TokenUsable, S!At
  <2>1. ASSUME token[p].refresh \in live
        PROVE  token[p].refresh # old
    <3>1. token[p].refresh \in Nat \ {0}
      <4>1. \A i \in live : i \in Nat \ {0}
        BY <1>1
      <4> QED BY <2>1, <4>1
    <3>2. token[p].refresh = old => Holds(p, old) /\ Holds(req[r].of, old)
      BY DEF Holds, old
    <3>3. p # req[r].of
      OBVIOUS
    <3> QED BY <3>1, <3>2, <3>3 DEF SignInInv, HoldersDiffer
  <2>2. ASSUME NEW q \in Requests, req[q].at = "store", req[q].of = p
        PROVE  req'[q].at = "store" /\ req'[q].of = p
    BY <1>1, <2>2
  <2>3. p \in People \ orphaned
    OBVIOUS
  <2> QED BY <1>2, <2>1, <2>2, <2>3 DEF SignInInv, S!TokenUsable, S!At
<1> QED BY <1>4, <1>5, <1>6

-----------------------------------------------------------------------------
(* SignIn: the steps. *)

LEMMA IdleHandler ==
    S!Idle \in Handler /\ HandlerGood(S!Idle) /\ S!Idle.token.refresh = 0 /\ S!Idle.at = "idle"
BY DEF S!Idle, S!NoToken, S!Pair, Handler, Places, Tokens, HandlerGood

\* Handlers that only read, or are refused.
LEMMA HandlerReads ==
    ASSUME SignInInv, NEW r \in Requests,
           \/ S!ConsumeState(r) \/ S!FindUser(r) \/ S!PickName(r) \/ S!FindValid(r)
           \/ S!FindById(r) \/ S!CheckUsername(r) \/ S!ReadToken(r)
           \/ S!FetchUserInstallations(r) \/ S!Killed(r)
    PROVE  /\ Turns(r, req'[r]) /\ GivenNone(r, req'[r]) /\ UNCHANGED <<users, sessions>>
           /\ Found(req'[r], sessions)
<1>1. /\ req \in [Requests -> Handler] /\ req[r] \in Handler /\ HandlerGood(req[r])
      /\ Found(req[r], sessions)
      /\ users \in [People -> Account] /\ sessions \in [SessionIds -> Cookie]
      /\ token \in [People -> Tokens]
      /\ \A s \in SessionIds : sessions[s].is # "free" => sessions[s].of \in People
  BY DEF SignInInv, SignInTypes
<1>2. ASSUME NEW h \in Handler, HandlerGood(h), S!Becomes(r, h)
      PROVE  Turns(r, req'[r]) /\ req'[r] = h
  BY <1>1, <1>2 DEF S!Becomes, Turns
<1> USE DEF S!At
<1>3. CASE S!ConsumeState(r)
  <2>1. PICK p \in People : S!Becomes(r, [S!Idle EXCEPT !.at = "exchange", !.of = p])
    BY <1>3 DEF S!ConsumeState
  <2> DEFINE h == [S!Idle EXCEPT !.at = "exchange", !.of = p]
  <2>2. h \in Handler /\ HandlerGood(h) /\ h.token.refresh = 0 /\ h.at = "exchange"
    BY IdleHandler DEF Handler, HandlerGood, Places
  <2> HIDE DEF h
  <2> QED BY <1>2, <1>3, <2>1, <2>2 DEF S!ConsumeState, S!github, GivenNone, NewPair, Found, h
<1>4. CASE S!FindUser(r)
  <2> DEFINE h == [req[r] EXCEPT !.at = IF users[req[r].of] = S!NoUser THEN "name" ELSE "token"]
  <2>1. /\ h \in Handler /\ HandlerGood(h) /\ h.token = req[r].token /\ h.of = req[r].of
        /\ h.at \in {"name", "token"}
    BY <1>1, <1>4 DEF S!FindUser, Handler, HandlerGood, Places
  <2>2. S!Becomes(r, h)
    BY <1>4 DEF S!FindUser, S!Goes
  <2> HIDE DEF h
  <2> QED BY <1>2, <1>4, <2>1, <2>2 DEF S!FindUser, S!github, GivenNone, NewPair, Found
<1>5. CASE S!PickName(r)
  <2> DEFINE p == req[r].of
             chosen == IF S!Taken(Wanted[p]) THEN Spare[p] ELSE Wanted[p]
             h == [req[r] EXCEPT !.at = "create", !.name = chosen]
  <2>1. Wanted[p] \in Names /\ Spare[p] \in Names
    BY <1>1, <1>5, ConstantsAssumption DEF S!PickName, S!NamesAssumption, HandlerGood
  <2>2. chosen \in Names
    BY <2>1
  <2>3. S!Becomes(r, h) /\ req[r].at # "idle"
    BY <1>5 DEF S!PickName
  <2> HIDE DEF chosen
  <2>4. /\ h \in Handler /\ h.token = req[r].token /\ h.of = req[r].of /\ h.at = "create"
        /\ h.name = chosen
    BY <1>1, <2>2, <2>3, Zenon DEF Handler, Places
  <2> HIDE DEF h
  <2>5. HandlerGood(h)
    BY <1>1, <2>2, <2>3, <2>4, Zenon DEF HandlerGood
  <2> QED BY <1>2, <1>5, <2>3, <2>4, <2>5 DEF S!PickName, S!github, GivenNone, NewPair, Found
<1>6. CASE S!FindValid(r)
  <2>1. PICK s \in SessionIds, goal \in {"logout", "confirm", "picker"} :
          /\ sessions[s].is = "valid"
          /\ S!Becomes(r, [S!Idle EXCEPT !.at = "user", !.session = s,
                             !.of = sessions[s].of, !.goal = goal])
    BY <1>6, Zenon DEF S!FindValid
  <2> DEFINE h == [S!Idle EXCEPT !.at = "user", !.session = s, !.of = sessions[s].of,
                                 !.goal = goal]
  <2>2. sessions[s].of \in People
    BY <1>1, <2>1
  <2>3. /\ h \in Handler /\ HandlerGood(h) /\ h.token.refresh = 0 /\ h.at = "user"
        /\ h.session = s
    BY <2>2, IdleHandler DEF Handler, HandlerGood, Places
  <2> HIDE DEF h
  <2> QED BY <1>2, <1>6, <2>1, <2>3, Zenon DEF S!FindValid, S!github, GivenNone, NewPair, Found, h
<1>7. CASE S!FindById(r)
  <2> DEFINE h == [req[r] EXCEPT !.at = "touch", !.name = users[req[r].of].onboarding]
  <2>1. users[req[r].of].onboarding \in {None, "pending_username", "active"}
    <3>1. req[r].of \in People
      BY <1>1, <1>7 DEF S!FindById, HandlerGood
    <3> QED BY <1>1, <3>1 DEF Account
  <2>2. /\ h \in Handler /\ HandlerGood(h) /\ h.token = req[r].token /\ h.of = req[r].of
        /\ h.at = "touch" /\ h.session = req[r].session
    BY <1>1, <1>7, <2>1 DEF S!FindById, Handler, HandlerGood, Places
  <2>3. S!Becomes(r, h)
    BY <1>7 DEF S!FindById
  <2> HIDE DEF h
  <2> QED BY <1>1, <1>2, <1>7, <2>2, <2>3 DEF S!FindById, S!github, GivenNone, NewPair, Found
<1>8. ASSUME S!Ends(r)
      PROVE  Turns(r, req'[r]) /\ req'[r] = S!Idle
  BY <1>2, <1>8, IdleHandler DEF S!Ends
<1>9. CASE S!CheckUsername(r)
  <2>1. CASE S!Ends(r)
    BY <1>8, <1>9, <2>1, IdleHandler DEF S!CheckUsername, S!github, GivenNone, NewPair, Found
  <2>2. CASE ~S!Ends(r)
    <3>1. PICK name \in Names : S!Becomes(r, [req[r] EXCEPT !.at = "confirm", !.name = name])
      BY <1>9, <2>2 DEF S!CheckUsername
    <3> DEFINE h == [req[r] EXCEPT !.at = "confirm", !.name = name]
    <3>2. /\ h \in Handler /\ HandlerGood(h) /\ h.token = req[r].token /\ h.of = req[r].of
          /\ h.at = "confirm"
      BY <1>1, <1>9 DEF S!CheckUsername, Handler, HandlerGood, Places
    <3> HIDE DEF h
    <3> QED BY <1>2, <1>9, <3>1, <3>2 DEF S!CheckUsername, S!github, GivenNone, NewPair, Found, h
  <2> QED BY <2>1, <2>2
<1>10. CASE S!ReadToken(r)
  <2>1. CASE S!Ends(r)
    BY <1>8, <1>10, <2>1, IdleHandler DEF S!ReadToken, S!github, GivenNone, NewPair, Found
  <2>2. CASE ~S!Ends(r)
    <3> DEFINE h == [req[r] EXCEPT !.at = "fetch", !.token = token[req[r].of]]
    <3>1. S!Becomes(r, h)
      BY <1>10, <2>2 DEF S!ReadToken
    <3>2. /\ h \in Handler /\ HandlerGood(h) /\ h.of = req[r].of /\ h.of \in People
          /\ h.token = token[h.of] /\ h.at = "fetch"
      BY <1>1, <1>10 DEF S!ReadToken, Handler, HandlerGood, Places
    <3> HIDE DEF h
    <3> QED BY <1>2, <1>10, <3>1, <3>2 DEF S!ReadToken, S!github, GivenNone, NewPair, Found
  <2> QED BY <2>1, <2>2
<1>11. CASE S!FetchUserInstallations(r)
  <2>1. CASE S!Ends(r)
    BY <1>8, <1>11, <2>1, IdleHandler DEF S!FetchUserInstallations, S!github, GivenNone, NewPair, Found
  <2>2. CASE ~S!Ends(r)
    <3> DEFINE h == [req[r] EXCEPT !.at = "refresh"]
    <3>1. S!Becomes(r, h)
      BY <1>11, <2>2 DEF S!FetchUserInstallations, S!Goes
    <3>2. /\ h \in Handler /\ HandlerGood(h) /\ h.token = req[r].token /\ h.of = req[r].of
          /\ h.at = "refresh"
      BY <1>1, <1>11 DEF S!FetchUserInstallations, Handler, HandlerGood, Places
    <3> HIDE DEF h
    <3> QED BY <1>2, <1>11, <3>1, <3>2 DEF S!FetchUserInstallations, S!github, GivenNone, NewPair, Found
  <2> QED BY <2>1, <2>2
<1>12. CASE S!Killed(r)
  BY <1>8, <1>12, IdleHandler DEF S!Killed, S!LosesPair, S!github, GivenNone, NewPair, Found
<1> QED BY <1>3, <1>4, <1>5, <1>6, <1>7, <1>9, <1>10, <1>11, <1>12

\* Handlers that write a session or an account.
LEMMA HandlerWrites ==
    ASSUME SignInInv, NEW r \in Requests,
           \/ S!CreateUser(r) \/ S!CreateOrganization(r) \/ S!CreateSession(r)
           \/ S!Touch(r) \/ S!Logout(r) \/ S!ConfirmUsername(r)
    PROVE  /\ Turns(r, req'[r]) /\ GivenNone(r, req'[r])
           /\ users' \in [People -> Account] /\ sessions' \in [SessionIds -> Cookie]
           /\ \A s \in SessionIds : /\ sessions'[s].is # "free" => sessions'[s].of \in People
                                    /\ sessions[s].is # "free" => sessions'[s].is # "free"
           /\ Found(req'[r], sessions')
           /\ S!SettledStep
<1>1. /\ req \in [Requests -> Handler] /\ req[r] \in Handler /\ HandlerGood(req[r])
      /\ Found(req[r], sessions)
      /\ users \in [People -> Account] /\ sessions \in [SessionIds -> Cookie]
      /\ \A s \in SessionIds : sessions[s].is # "free" => sessions[s].of \in People
  BY DEF SignInInv, SignInTypes
<1>2. ASSUME NEW h \in Handler, HandlerGood(h), S!Becomes(r, h)
      PROVE  Turns(r, req'[r]) /\ req'[r] = h
  BY <1>1, <1>2 DEF S!Becomes, Turns
<1>3. ASSUME S!Ends(r)
      PROVE  Turns(r, req'[r]) /\ req'[r] = S!Idle
  BY <1>2, <1>3, IdleHandler DEF S!Ends
<1>4. ASSUME NEW at \in Places \ {"idle", "create", "confirm", "user", "touch"}, S!Goes(r, at),
             req[r].at # "idle"
      PROVE  /\ Turns(r, req'[r]) /\ req'[r].token = req[r].token /\ req'[r].of = req[r].of
             /\ req'[r].at = at /\ req'[r].session = req[r].session
  <2> DEFINE h == [req[r] EXCEPT !.at = at]
  <2>1. /\ h \in Handler /\ HandlerGood(h) /\ h.token = req[r].token /\ h.of = req[r].of
        /\ h.at = at /\ h.session = req[r].session
    BY <1>1, <1>4 DEF Handler, HandlerGood
  <2>2. S!Becomes(r, h)
    BY <1>4 DEF S!Goes
  <2> HIDE DEF h
  <2> QED BY <1>2, <2>1, <2>2
<1>5. None # "active"
  BY ConstantsAssumption DEF S!NamesAssumption
<1> USE DEF S!At, S!SettledStep
<1>6. CASE S!CreateUser(r)
  <2> DEFINE p == req[r].of
  <2>1. CASE S!Ends(r) /\ UNCHANGED users
    BY <1>1, <1>3, <1>6, <2>1, IdleHandler DEF S!CreateUser, S!github, GivenNone, NewPair, Found
  <2>2. CASE ~(S!Ends(r) /\ UNCHANGED users)
    <3>1. /\ users[p] = S!NoUser /\ S!Goes(r, "organization")
          /\ users' = [users EXCEPT ![p].name = req[r].name, ![p].onboarding = "pending_username"]
          /\ UNCHANGED <<issued, live, token, sessions, orphaned>>
      BY <1>6, <2>2 DEF S!CreateUser, S!github
    <3>2. p \in People /\ req[r].name \in Names
      BY <1>1, <1>6 DEF S!CreateUser, HandlerGood
    <3>3. users[p].onboarding # "active"
      BY <1>5, <3>1 DEF S!NoUser
    <3>4. users' \in [People -> Account]
      BY <1>1, <3>1, <3>2 DEF Account
    <3>5. \A q \in People : users[q].onboarding = "active" => users'[q].name = users[q].name
      BY <1>1, <3>1, <3>3
    <3>6. /\ Turns(r, req'[r]) /\ req'[r].token = req[r].token /\ req'[r].of = p
          /\ req'[r].at = "organization" /\ req[r].at = "create"
      BY <1>4, <1>6, <3>1 DEF S!CreateUser, Places
    <3> QED BY <1>1, <3>1, <3>4, <3>5, <3>6 DEF GivenNone, NewPair, Found
  <2> QED BY <2>1, <2>2
<1>7. CASE S!CreateOrganization(r)
  <2>1. /\ users' = [users EXCEPT ![req[r].of].organization = TRUE]
        /\ S!Goes(r, "token") /\ req[r].at = "organization"
        /\ UNCHANGED <<issued, live, token, sessions, orphaned>>
    BY <1>7 DEF S!CreateOrganization, S!github
  <2>2. /\ users' \in [People -> Account]
        /\ \A q \in People : users'[q].name = users[q].name
    BY <1>1, <2>1 DEF Account
  <2>3. /\ Turns(r, req'[r]) /\ req'[r].token = req[r].token /\ req'[r].of = req[r].of
        /\ req'[r].at = "token"
    BY <1>4, <2>1 DEF Places
  <2> QED BY <1>1, <2>1, <2>2, <2>3 DEF GivenNone, NewPair, Found
<1>8. CASE S!ConfirmUsername(r)
  <2> DEFINE p == req[r].of
  <2>1. /\ S!Ends(r) /\ req[r].at = "confirm" /\ p \in People /\ req[r].name \in Names
        /\ UNCHANGED <<issued, live, token, sessions, orphaned>>
        /\ \/ users' = users
           \/ /\ users[p].onboarding = "pending_username"
              /\ users' = [users EXCEPT ![p].name = req[r].name, ![p].onboarding = "active"]
    BY <1>1, <1>8 DEF S!ConfirmUsername, S!github, S!Pending, HandlerGood
  <2>2. users' \in [People -> Account]
    BY <1>1, <2>1 DEF Account
  <2>3. \A q \in People : users[q].onboarding = "active" => users'[q].name = users[q].name
    BY <1>1, <2>1
  <2> QED BY <1>1, <1>3, <2>1, <2>2, <2>3, IdleHandler DEF GivenNone, NewPair, Found
<1>9. ASSUME NEW s \in SessionIds, NEW c \in Cookie, c.is # "free" => c.of \in People,
             sessions[s].is = "gone" => c.is = "gone", sessions[s].is # "free" => c.is # "free",
             sessions' = [sessions EXCEPT ![s] = c], UNCHANGED users
      PROVE  /\ users' \in [People -> Account] /\ sessions' \in [SessionIds -> Cookie]
             /\ \A i \in SessionIds : /\ sessions'[i].is # "free" => sessions'[i].of \in People
                                      /\ sessions[i].is # "free" => sessions'[i].is # "free"
             /\ S!SettledStep
  BY <1>1, <1>9
<1>10. CASE S!CreateSession(r)
  <2>1. S!Ends(r) /\ req[r].at = "session" /\ UNCHANGED <<issued, live, token, users, orphaned>>
    BY <1>10 DEF S!CreateSession, S!github
  <2>2. /\ sessions' \in [SessionIds -> Cookie] /\ users' \in [People -> Account]
        /\ \A i \in SessionIds : /\ sessions'[i].is # "free" => sessions'[i].of \in People
                                 /\ sessions[i].is # "free" => sessions'[i].is # "free"
        /\ S!SettledStep
    <3>1. CASE UNCHANGED sessions
      BY <1>1, <2>1, <3>1
    <3>2. CASE ~UNCHANGED sessions
      <4>1. PICK s \in SessionIds :
              /\ sessions[s].is = "free"
              /\ sessions' = [sessions EXCEPT ![s] = [is |-> "valid", of |-> req[r].of]]
        BY <1>10, <3>2 DEF S!CreateSession
      <4>2. req[r].of \in People
        BY <1>1, <2>1 DEF HandlerGood
      <4> DEFINE c == [is |-> "valid", of |-> req[r].of]
      <4>3. c \in Cookie /\ c.of \in People /\ c.is = "valid"
        BY <4>2 DEF Cookie
      <4> HIDE DEF c
      <4> QED BY <1>9, <2>1, <4>1, <4>3 DEF c
    <3> QED BY <3>1, <3>2
  <2> QED BY <1>3, <2>1, <2>2, IdleHandler DEF GivenNone, NewPair, Found
<1>11. ASSUME NEW s \in SessionIds, NEW c \in Cookie, c.of = sessions[s].of,
              sessions[s].is # "free", c.is # "free",
              sessions[s].is = "gone" => c.is = "gone",
              sessions' = [sessions EXCEPT ![s] = c], UNCHANGED users
       PROVE  /\ users' \in [People -> Account] /\ sessions' \in [SessionIds -> Cookie]
              /\ \A i \in SessionIds : /\ sessions'[i].is # "free" => sessions'[i].of \in People
                                       /\ sessions[i].is # "free" => sessions'[i].is # "free"
              /\ S!SettledStep
  BY <1>1, <1>9, <1>11
<1>12. CASE S!Touch(r)
  <2> DEFINE s == req[r].session
             c == [sessions[s] EXCEPT !.is = IF @ = "gone" THEN "gone" ELSE "valid"]
  <2>1. /\ s \in SessionIds /\ sessions[s].is # "free" /\ sessions[s] \in Cookie
        /\ req[r].goal \in {"logout", "confirm", "picker"} /\ req[r].at = "touch"
    BY <1>1, <1>12 DEF S!Touch, Found, HandlerGood
  <2>2. /\ c \in Cookie /\ c.is # "free" /\ c.of = sessions[s].of
        /\ sessions[s].is = "gone" => c.is = "gone"
    BY <2>1 DEF Cookie
  <2>3. sessions' = [sessions EXCEPT ![s] = c] /\ UNCHANGED <<issued, live, token, users, orphaned>>
    BY <1>12 DEF S!Touch, S!TouchSession, S!github
  <2>4. /\ S!AfterTouch(r) \in {"check", "idle", "logout", "read"}
        /\ IF S!AfterTouch(r) = "idle" THEN S!Ends(r) ELSE S!Goes(r, S!AfterTouch(r))
    BY <1>12, <2>1 DEF S!Touch, S!AfterTouch
  <2> HIDE DEF c
  <2>5. Turns(r, req'[r]) /\ GivenNone(r, req'[r]) /\ Found(req'[r], sessions')
    <3>1. CASE S!AfterTouch(r) = "idle"
      BY <1>3, <2>3, <2>1, <2>4, <3>1, IdleHandler DEF GivenNone, NewPair, Found
    <3>2. CASE S!AfterTouch(r) # "idle"
      <4> DEFINE at == S!AfterTouch(r)
      <4>1. at \in Places \ {"idle", "create", "confirm", "user", "touch"} /\ S!Goes(r, at)
            /\ at \notin NewPair
        BY <2>4, <3>2 DEF Places, NewPair
      <4> HIDE DEF at
      <4>2. sessions'[s].is # "free"
        BY <1>1, <2>1, <2>2, <2>3
      <4> QED BY <1>4, <2>1, <2>3, <4>1, <4>2 DEF GivenNone, Found
    <3> QED BY <3>1, <3>2
  <2> QED BY <1>11, <2>1, <2>2, <2>3, <2>5
<1>13. CASE S!Logout(r)
  <2> DEFINE s == req[r].session
             c == [sessions[s] EXCEPT !.is = "gone"]
  <2>1. s \in SessionIds /\ sessions[s].is # "free" /\ sessions[s] \in Cookie /\ req[r].at = "logout"
    BY <1>1, <1>13 DEF S!Logout, Found
  <2>2. c \in Cookie /\ c.is = "gone" /\ c.of = sessions[s].of
    BY <2>1 DEF Cookie
  <2>3. /\ sessions' = [sessions EXCEPT ![s] = c] /\ UNCHANGED <<issued, live, token, users, orphaned>>
        /\ S!Ends(r)
    BY <1>13 DEF S!Logout, S!github
  <2> HIDE DEF c
  <2>4. Turns(r, req'[r]) /\ GivenNone(r, req'[r]) /\ Found(req'[r], sessions')
    BY <1>3, <2>1, <2>3, IdleHandler DEF GivenNone, NewPair, Found
  <2> QED BY <1>11, <2>1, <2>2, <2>3, <2>4
<1> QED BY <1>6, <1>7, <1>8, <1>10, <1>12, <1>13

\* Handlers that are given a pair, or store one.
LEMMA HandlerTokens ==
    ASSUME SignInInv, NEW r \in Requests,
           \/ S!ExchangeCode(r) \/ S!UpsertToken(r) \/ S!RefreshToken(r) \/ S!UpdateAccessToken(r)
    PROVE  /\ Turns(r, req'[r]) /\ UNCHANGED <<users, sessions>> /\ Found(req'[r], sessions)
           /\ issued' \in Nat /\ live' \subseteq 1..issued' /\ token' \in [People -> Tokens]
           /\ HoldersDiffer' /\ (\A q \in Requests : NewPairKept(q)') /\ S!TokenUsable'
<1>1. /\ req \in [Requests -> Handler] /\ req[r] \in Handler /\ HandlerGood(req[r])
      /\ issued \in Nat /\ live \subseteq 1..issued /\ token \in [People -> Tokens]
  BY DEF SignInInv, SignInTypes
<1>2. ASSUME NEW h \in Handler, HandlerGood(h), S!Becomes(r, h)
      PROVE  Turns(r, req'[r]) /\ req'[r] = h
  BY <1>1, <1>2 DEF S!Becomes, Turns
<1> USE DEF S!At
<1>3. ASSUME S!Ends(r), UNCHANGED <<issued, live, token, orphaned>>, req[r].at # "store"
      PROVE  /\ Turns(r, req'[r]) /\ Found(req'[r], sessions)
             /\ HoldersDiffer' /\ (\A q \in Requests : NewPairKept(q)') /\ S!TokenUsable'
  <2>1. Turns(r, req'[r]) /\ req'[r] = S!Idle
    BY <1>2, <1>3, IdleHandler DEF S!Ends
  <2>2. GivenNone(r, req'[r]) /\ Found(req'[r], sessions)
    BY <1>3, <2>1, IdleHandler DEF GivenNone, NewPair, Found
  <2> QED BY <2>1, <2>2, PairsStay
<1>4. S!Pair(issued + 1) \in Tokens
  BY <1>1 DEF S!Pair, Tokens
<1>5. \A replaced : S!Issue(replaced) => issued' \in Nat /\ live' \subseteq 1..issued'
  <2> SUFFICES ASSUME NEW replaced, S!Issue(replaced)
               PROVE  issued' \in Nat /\ live' \subseteq 1..issued'
    OBVIOUS
  <2>1. issued' = issued + 1 /\ live' = (live \ replaced) \cup {issued + 1}
    BY DEF S!Issue
  <2>2. \A t \in live : t \in 1..(issued + 1)
    BY <1>1
  <2>3. issued + 1 \in 1..(issued + 1)
    BY <1>1
  <2>4. (live \ replaced) \cup {issued + 1} \subseteq 1..(issued + 1)
    BY ONLY <2>2, <2>3
  <2>5. issued + 1 \in Nat
    BY <1>1
  <2> QED BY ONLY <2>1, <2>4, <2>5
<1>6. CASE S!ExchangeCode(r)
  <2>1. CASE S!Ends(r) /\ UNCHANGED <<issued, live>>
    BY <1>1, <1>3, <1>6, <2>1 DEF S!ExchangeCode
  <2>2. CASE ~(S!Ends(r) /\ UNCHANGED <<issued, live>>)
    <3> DEFINE h == [req[r] EXCEPT !.at = "find", !.token = S!Pair(issued + 1)]
    <3>1. /\ S!Issue({}) /\ S!Becomes(r, h) /\ req[r].at = "exchange"
          /\ UNCHANGED <<token, users, sessions, orphaned>>
      BY <1>6, <2>2 DEF S!ExchangeCode, S!github
    <3>2. /\ h \in Handler /\ HandlerGood(h) /\ h.of = req[r].of /\ h.of \in People
          /\ h.token = S!Pair(issued + 1) /\ h.at = "find"
      BY <1>1, <1>4, <3>1 DEF Handler, HandlerGood, Places
    <3> HIDE DEF h
    <3>3. Turns(r, h) /\ req'[r] = h
      BY <1>2, <3>1, <3>2
    <3>4. h.at \in NewPair /\ req[r].at \notin NewPair
      BY <3>1, <3>2 DEF NewPair
    <3>5. HoldersDiffer' /\ (\A q \in Requests : NewPairKept(q)') /\ S!TokenUsable'
      BY <3>1, <3>2, <3>3, <3>4, PairIssued
    <3> QED BY <1>1, <1>5, <3>1, <3>2, <3>3, <3>5 DEF Found
  <2> QED BY <2>1, <2>2
<1>7. CASE S!RefreshToken(r)
  <2> DEFINE old == req[r].token.refresh
  <2>1. CASE S!Ends(r) /\ UNCHANGED <<issued, live, orphaned>>
    BY <1>1, <1>3, <1>7, <2>1 DEF S!RefreshToken
  <2>2. CASE S!Issue({old}) /\ S!LosesPair(r)
    <3>1. /\ S!Ends(r) /\ req[r].at = "refresh" /\ orphaned' = orphaned \cup {req[r].of}
          /\ UNCHANGED <<token, users, sessions>>
      BY <1>7, <2>2 DEF S!RefreshToken, S!LosesPair
    <3>2. Turns(r, S!Idle) /\ req'[r] = S!Idle
      BY <1>2, <3>1, IdleHandler DEF S!Ends
    <3>3. req[r].of \in People
      BY <1>1, <3>1 DEF HandlerGood
    <3>4. HoldersDiffer' /\ (\A q \in Requests : NewPairKept(q)') /\ S!TokenUsable'
      BY <2>2, <3>1, <3>2, <3>3, IdleHandler, PairLost
    <3> QED BY <1>1, <1>5, <2>2, <3>1, <3>2, <3>4, IdleHandler DEF Found
  <2>3. CASE ~(S!Ends(r) /\ UNCHANGED <<issued, live, orphaned>>) /\ ~(S!Issue({old}) /\ S!LosesPair(r))
    <3> DEFINE h == [req[r] EXCEPT !.at = "store", !.retried = TRUE, !.token = S!Pair(issued + 1)]
    <3>1. /\ S!Issue({old}) /\ S!Becomes(r, h) /\ req[r].at = "refresh"
          /\ UNCHANGED <<token, users, sessions, orphaned>>
      BY <1>7, <2>3 DEF S!RefreshToken, S!github
    <3>2. /\ h \in Handler /\ HandlerGood(h) /\ h.of = req[r].of /\ h.of \in People
          /\ h.token = S!Pair(issued + 1) /\ h.at = "store"
      BY <1>1, <1>4, <3>1 DEF Handler, HandlerGood, Places
    <3> HIDE DEF h
    <3>3. Turns(r, h) /\ req'[r] = h
      BY <1>2, <3>1, <3>2
    <3>4. h.at \in NewPair /\ req[r].at \notin NewPair
      BY <3>1, <3>2 DEF NewPair
    <3>5. HoldersDiffer' /\ (\A q \in Requests : NewPairKept(q)') /\ S!TokenUsable'
      BY <3>1, <3>2, <3>3, <3>4, PairIssued
    <3> QED BY <1>1, <1>5, <3>1, <3>2, <3>3, <3>5 DEF Found
  <2> QED BY <2>1, <2>3, <2>2
<1>8. ASSUME NEW at \in {"session", "fetch"}, S!Goes(r, at), req[r].at \in NewPair,
             token' = [token EXCEPT ![req[r].of] = req[r].token],
             UNCHANGED <<issued, live>>, orphaned' = orphaned \ {req[r].of}
      PROVE  /\ Turns(r, req'[r]) /\ Found(req'[r], sessions) /\ token' \in [People -> Tokens]
             /\ HoldersDiffer' /\ (\A q \in Requests : NewPairKept(q)') /\ S!TokenUsable'
  <2> DEFINE h == [req[r] EXCEPT !.at = at]
  <2>1. /\ h \in Handler /\ HandlerGood(h) /\ h.of = req[r].of /\ h.of \in People
        /\ h.token = req[r].token /\ h.at = at
    BY <1>1, <1>8 DEF Handler, HandlerGood, Places, NewPair
  <2>2. S!Becomes(r, h)
    BY <1>8 DEF S!Goes
  <2> HIDE DEF h
  <2>3. Turns(r, h) /\ req'[r] = h
    BY <1>2, <2>1, <2>2
  <2>4. HoldersDiffer' /\ (\A q \in Requests : NewPairKept(q)') /\ S!TokenUsable'
    <3>1. h.at \notin NewPair
      BY <2>1 DEF NewPair
    <3> QED BY <1>8, <2>1, <2>3, <3>1, PairStored
  <2>5. token' \in [People -> Tokens]
    BY <1>1, <1>8 DEF Handler
  <2> QED BY <2>1, <2>3, <2>4, <2>5 DEF Found
<1>9. CASE S!UpsertToken(r)
  BY <1>1, <1>8, <1>9 DEF S!UpsertToken, S!github, NewPair
<1>10. CASE S!UpdateAccessToken(r)
  <2>1. CASE S!LosesPair(r) /\ UNCHANGED token
    <3>1. Turns(r, req'[r]) /\ req'[r] = S!Idle
      BY <1>2, <2>1, IdleHandler DEF S!LosesPair, S!Ends
    <3>2. GivenNone(r, req'[r]) /\ Found(req'[r], sessions)
      BY <1>10, <2>1, <3>1, IdleHandler
      DEF S!UpdateAccessToken, S!LosesPair, S!github, GivenNone, NewPair, Found
    <3> QED BY <1>1, <1>10, <3>1, <3>2, PairsStay DEF S!UpdateAccessToken, S!github, GivenNone
  <2>2. CASE ~(S!LosesPair(r) /\ UNCHANGED token)
    BY <1>1, <1>8, <1>10, <2>2 DEF S!UpdateAccessToken, S!Refreshed, S!github, NewPair
  <2> QED BY <2>1, <2>2
<1> QED BY <1>6, <1>7, <1>9, <1>10

LEMMA SignInStep ==
    ASSUME SignInInv, S!Next
    PROVE  SignInInv' /\ S!SettledStep
<1>1. /\ issued \in Nat /\ live \subseteq 1..issued /\ token \in [People -> Tokens]
      /\ users \in [People -> Account] /\ sessions \in [SessionIds -> Cookie]
      /\ \A s \in SessionIds : sessions[s].is # "free" => sessions[s].of \in People
      /\ \A q \in Requests : Found(req[q], sessions)
  BY DEF SignInInv, SignInTypes
<1>2. ASSUME UNCHANGED <<issued, live, users, token, req, orphaned>>,
             sessions' \in [SessionIds -> Cookie],
             \A s \in SessionIds : /\ sessions'[s].is # "free" => sessions'[s].of \in People
                                   /\ sessions[s].is # "free" => sessions'[s].is # "free"
                                   /\ sessions[s].is = "gone" => sessions'[s].is = "gone"
      PROVE  SignInInv' /\ S!SettledStep
  <2>1. SignInTypes'
    <3>1. \A q \in Requests : HandlerGood(req'[q]) /\ Found(req'[q], sessions')
      BY <1>1, <1>2 DEF SignInInv, SignInTypes, Found
    <3>2. (\A q \in Requests : HandlerGood(req[q]) /\ Found(req[q], sessions))'
      BY <3>1 DEF HandlerGood, Found
    <3>3. req \in [Requests -> Handler]
      BY DEF SignInInv, SignInTypes
    <3> QED BY <1>1, <1>2, <3>2, <3>3 DEF SignInTypes
  <2>2. HoldersDiffer' /\ (\A q \in Requests : NewPairKept(q)') /\ S!TokenUsable'
    BY <1>2 DEF SignInInv, HoldersDiffer, Holds, NewPairKept, S!TokenUsable, S!At
  <2>3. S!SettledStep
    <3>1. \A s \in SessionIds : sessions[s].is = "gone" => sessions'[s].is = "gone"
      BY <1>2
    <3>2. users' = users
      BY <1>2
    <3> QED BY <3>1, <3>2 DEF S!SettledStep
  <2> QED BY <2>1, <2>2, <2>3 DEF SignInInv
<1>3. CASE S!CreateState \/ S!StateExpires
  BY <1>1, <1>2, <1>3 DEF S!CreateState, S!StateExpires, S!github
<1>4. CASE S!SessionExpires
  <2>1. PICK s \in SessionIds : /\ sessions[s].is = "valid"
                               /\ sessions' = [sessions EXCEPT ![s].is = "expired"]
    BY <1>4 DEF S!SessionExpires
  <2>2. sessions' \in [SessionIds -> Cookie]
    BY <1>1, <2>1 DEF Cookie
  <2>3. \A i \in SessionIds : /\ sessions'[i].is # "free" => sessions'[i].of \in People
                              /\ sessions[i].is # "free" => sessions'[i].is # "free"
                              /\ sessions[i].is = "gone" => sessions'[i].is = "gone"
    BY <1>1, <2>1 DEF Cookie
  <2> QED BY <1>2, <1>4, <2>2, <2>3 DEF S!SessionExpires, S!github
<1>5. ASSUME NEW r \in Requests, Turns(r, req'[r]), Found(req'[r], sessions'),
             issued' \in Nat, live' \subseteq 1..issued', token' \in [People -> Tokens],
             users' \in [People -> Account], sessions' \in [SessionIds -> Cookie],
             \A s \in SessionIds : /\ sessions'[s].is # "free" => sessions'[s].of \in People
                                   /\ sessions[s].is # "free" => sessions'[s].is # "free"
      PROVE  SignInTypes'
  <2>1. \A q \in Requests : HandlerGood(req'[q]) /\ Found(req'[q], sessions')
    BY <1>1, <1>5, TurnsFacts DEF SignInInv, Found
  <2>2. req' \in [Requests -> Handler]
    BY <1>5, TurnsFacts DEF SignInInv
  <2>3. (\A q \in Requests : HandlerGood(req[q]) /\ Found(req[q], sessions))'
    BY <2>1 DEF HandlerGood, Found
  <2> QED BY <1>5, <2>2, <2>3 DEF SignInTypes
<1>6. ASSUME NEW r \in Requests,
             S!ConsumeState(r) \/ S!FindValid(r) \/ S!Step(r) \/ S!Killed(r)
      PROVE  SignInInv' /\ S!SettledStep
  <2>1. CASE \/ S!ConsumeState(r) \/ S!FindUser(r) \/ S!PickName(r) \/ S!FindValid(r)
             \/ S!FindById(r) \/ S!CheckUsername(r) \/ S!ReadToken(r)
             \/ S!FetchUserInstallations(r) \/ S!Killed(r)
    <3>1. /\ Turns(r, req'[r]) /\ GivenNone(r, req'[r]) /\ UNCHANGED <<users, sessions>>
          /\ Found(req'[r], sessions)
      BY <2>1, HandlerReads
    <3>2. SignInTypes'
      BY <1>1, <1>5, <3>1 DEF GivenNone
    <3> QED BY <3>1, <3>2, PairsStay DEF SignInInv, S!SettledStep
  <2>2. CASE \/ S!CreateUser(r) \/ S!CreateOrganization(r) \/ S!CreateSession(r)
             \/ S!Touch(r) \/ S!Logout(r) \/ S!ConfirmUsername(r)
    <3>1. /\ Turns(r, req'[r]) /\ GivenNone(r, req'[r])
          /\ users' \in [People -> Account] /\ sessions' \in [SessionIds -> Cookie]
          /\ \A s \in SessionIds : /\ sessions'[s].is # "free" => sessions'[s].of \in People
                                   /\ sessions[s].is # "free" => sessions'[s].is # "free"
          /\ Found(req'[r], sessions') /\ S!SettledStep
      BY <2>2, HandlerWrites
    <3>2. SignInTypes'
      BY <1>1, <1>5, <3>1 DEF GivenNone
    <3> QED BY <3>1, <3>2, PairsStay DEF SignInInv
  <2>3. CASE S!ExchangeCode(r) \/ S!UpsertToken(r) \/ S!RefreshToken(r) \/ S!UpdateAccessToken(r)
    <3>1. /\ Turns(r, req'[r]) /\ UNCHANGED <<users, sessions>> /\ Found(req'[r], sessions)
          /\ issued' \in Nat /\ live' \subseteq 1..issued' /\ token' \in [People -> Tokens]
          /\ HoldersDiffer' /\ (\A q \in Requests : NewPairKept(q)') /\ S!TokenUsable'
      BY <2>3, HandlerTokens
    <3>2. SignInTypes'
      BY <1>1, <1>5, <3>1
    <3> QED BY <3>1, <3>2 DEF SignInInv, S!SettledStep
  <2> QED BY <1>6, <2>1, <2>2, <2>3 DEF S!Step
<1> QED BY <1>3, <1>4, <1>6 DEF S!Next

LEMMA SignInStarts == S!Init => SignInInv
<1> SUFFICES ASSUME S!Init
             PROVE  SignInInv
  OBVIOUS
<1>1. /\ S!NoToken \in Tokens /\ S!NoToken.refresh = 0 /\ S!NoUser \in Account
  BY DEF S!NoToken, S!Pair, Tokens, S!NoUser, Account
<1>2. /\ issued = 0 /\ live = {} /\ users \in [People -> Account] /\ token \in [People -> Tokens]
      /\ req \in [Requests -> Handler] /\ \A r \in Requests : req[r] = S!Idle
      /\ \A p \in People : token[p] = S!NoToken
      /\ sessions \in [SessionIds -> Cookie] /\ \A s \in SessionIds : sessions[s].is = "free"
  BY <1>1, IdleHandler DEF S!Init, Cookie
<1>3. SignInTypes
  BY <1>2, IdleHandler DEF SignInTypes, Found
<1>4. HoldersDiffer /\ (\A r \in Requests : NewPairKept(r)) /\ S!TokenUsable
  BY <1>1, <1>2, IdleHandler DEF HoldersDiffer, Holds, NewPairKept, NewPair, S!TokenUsable
<1> QED BY <1>3, <1>4 DEF SignInInv

-----------------------------------------------------------------------------
(* ActionItems: who still has to resolve what.  A design session that has     *)
(* submitted is in the index, or its handler has yet to write it there; the   *)
(* item it was started for is resolved, or that handler has yet to do so.     *)

StartPlaces == {"index", "link", "item"}
SubmitPlaces == {"finalize", "finalLink", "snapshot"}
ItemPlaces ==
    {"idle", "insert", "count", "queue", "clear", "resolve", "test", "subtask"}
      \cup StartPlaces \cup SubmitPlaces

Row ==
    [type : A!Types \cup {None}, status : {"none", "open", "resolved", "deleted"},
     session : Grills \cup {None}, snapshot : Grills \cup {None}]
DesignSession == [is : {"none", "running", "submitted"}, linked : BOOLEAN, lost : BOOLEAN]
ItemHandler ==
    [at : ItemPlaces, item : Nat, batch : Seq(A!Types), session : Grills \cup {None},
     has : BOOLEAN]

ItemTypes ==
    /\ items \in [A!Ids -> Row] /\ merged \subseteq A!Ids
    /\ session \in [Grills -> DesignSession]
    /\ handlers \in [Requests -> ItemHandler]

\* A handler works for a session only while it starts or takes its design.
Works(h, is) ==
    /\ h.at \in StartPlaces => h.session \in Grills /\ is[h.session].is = "running"
    /\ h.at \in SubmitPlaces => h.session \in Grills /\ is[h.session].is = "submitted"
    /\ h.at \notin StartPlaces \cup SubmitPlaces => h.session = None

RowGood(i) ==
    /\ items[i].session \in Grills => items[i].type = "design_grill"
    /\ i \in merged => items[i].type = "subtask_feature" /\ items[i].status # "none"

AwaitedBy(i) ==
    items[i].status = "open" =>
        /\ i \in merged =>
             \E r \in Requests : handlers[r].at = "subtask" /\ handlers[r].item = i
        /\ \A s \in Grills : items[i].session = s /\ session[s].is = "submitted" =>
             \E r \in Requests : handlers[r].session = s

Indexed(s) ==
    session[s].is = "submitted" /\ ~session[s].lost =>
        \/ \E r \in Requests : handlers[r].at = "finalize" /\ handlers[r].session = s
        \/ /\ design = "finalized"
           /\ \/ session[s].linked
              \/ \E r \in Requests : handlers[r].at = "finalLink" /\ handlers[r].session = s

ItemsInv ==
    /\ ItemTypes
    /\ \A r \in Requests : Works(handlers[r], session)
    /\ \A i \in A!Ids : RowGood(i) /\ AwaitedBy(i)
    /\ \A s \in Grills : Indexed(s)

LEMMA ItemsFacts ==
    ItemsInv => /\ A!AwaitedResolves /\ A!SubmittedIsFinal
BY DEF ItemsInv, AwaitedBy, Indexed, A!AwaitedResolves, A!SubmittedIsFinal, A!Open, A!At, A!Handled

LEMMA NoGrill ==
    None \notin Grills /\ Batches \subseteq Seq(A!Types) /\ A!Ids \subseteq Nat /\ 0 \notin A!Ids
BY ConstantsAssumption DEF A!ItemsAssumption, A!Ids

\* Handler r becomes h.
Acts(r, h) == h \in ItemHandler /\ handlers' = [handlers EXCEPT ![r] = h]

LEMMA ActsFacts ==
    ASSUME ItemsInv, NEW r \in Requests, NEW h, Acts(r, h)
    PROVE  /\ handlers' \in [Requests -> ItemHandler]
           /\ handlers'[r] = h /\ \A q \in Requests \ {r} : handlers'[q] = handlers[q]
BY DEF ItemsInv, ItemTypes, Acts

\* A handler that works for no session: what it leaves open was open, and the item
\* of a merge it had to resolve is not left so.
LEMMA ItemsMove ==
    ASSUME ItemsInv, NEW r \in Requests, NEW h, Acts(r, h),
           handlers[r].session = None, h.session = None,
           h.at \notin StartPlaces \cup SubmitPlaces,
           UNCHANGED <<merged, session, design>>,
           items' \in [A!Ids -> Row],
           \A i \in A!Ids :
             /\ items'[i].session \in Grills =>
                  items'[i].type = "design_grill" /\ items'[i].session = items[i].session
             /\ i \in merged => items'[i].type = "subtask_feature" /\ items'[i].status # "none"
             /\ items'[i].status = "open" /\ items'[i].session \in Grills =>
                  items[i].status = "open"
             /\ items'[i].status = "open" /\ i \in merged =>
                  items[i].status = "open" /\ ~(handlers[r].at = "subtask" /\ handlers[r].item = i)
    PROVE  ItemsInv'
<1>1. /\ handlers' \in [Requests -> ItemHandler]
      /\ handlers'[r] = h /\ \A q \in Requests \ {r} : handlers'[q] = handlers[q]
  BY ActsFacts
<1>2. handlers[r].at \notin StartPlaces \cup SubmitPlaces
  BY NoGrill DEF ItemsInv, Works
<1>3. (\A q \in Requests : Works(handlers[q], session))'
  BY <1>1 DEF ItemsInv, Works
<1>4. ASSUME NEW i \in A!Ids PROVE RowGood(i)' /\ AwaitedBy(i)'
  <2>1. RowGood(i)'
    BY DEF RowGood
  <2>2. AwaitedBy(i)'
    BY <1>1, NoGrill DEF ItemsInv, AwaitedBy
  <2> QED BY <2>1, <2>2
<1>5. ASSUME NEW s \in Grills PROVE Indexed(s)'
  BY <1>1, <1>2 DEF ItemsInv, Indexed, SubmitPlaces
<1> QED BY <1>1, <1>3, <1>4, <1>5 DEF ItemsInv, ItemTypes

-----------------------------------------------------------------------------
(* ActionItems: the steps. *)

LEMMA IdleItemHandler ==
    A!Idle \in ItemHandler /\ A!Idle.at = "idle" /\ A!Idle.session = None
BY DEF A!Idle, ItemHandler, ItemPlaces

\* Handlers of specifications and builds, and those that are about to resolve an item.
LEMMA ItemHandlersGo ==
    ASSUME ItemsInv, NEW r \in Requests,
           \/ A!SetSpecReady(r) \/ A!StartBuild(r) \/ A!CountOpen(r) \/ A!QueueBuild(r)
           \/ A!KickBack(r) \/ A!Confirm(r) \/ A!Sweep(r) \/ A!TestRequested(r)
           \/ A!CreateTest(r)
    PROVE  ItemsInv'
<1>1. /\ handlers[r] \in ItemHandler /\ items \in [A!Ids -> Row]
      /\ \A i \in A!Ids : RowGood(i)
  BY DEF ItemsInv, ItemTypes
<1>2. /\ handlers[r].session = None /\ handlers[r].at # "subtask"
      /\ UNCHANGED <<items, merged, session, design>>
  BY DEF ItemsInv, Works, StartPlaces, SubmitPlaces, A!At, A!designs, A!domain, A!SetSpecReady,
         A!StartBuild, A!CountOpen, A!QueueBuild, A!KickBack, A!Confirm, A!Sweep,
         A!TestRequested, A!CreateTest
<1>3. ASSUME NEW h \in ItemHandler, A!Becomes(r, h), h.session = None,
             h.at \notin StartPlaces \cup SubmitPlaces
      PROVE  ItemsInv'
  <2>1. Acts(r, h)
    BY <1>3 DEF Acts, A!Becomes
  <2> QED BY <1>1, <1>2, <1>3, <2>1, ItemsMove DEF RowGood
<1>4. ASSUME NEW at \in ItemPlaces \ (StartPlaces \cup SubmitPlaces), A!Goes(r, at)
      PROVE  ItemsInv'
  <2> DEFINE h == [handlers[r] EXCEPT !.at = at]
  <2>1. h \in ItemHandler /\ h.session = None /\ h.at = at
    BY <1>1, <1>2 DEF ItemHandler
  <2>2. A!Becomes(r, h)
    BY <1>4 DEF A!Goes
  <2> HIDE DEF h
  <2> QED BY <1>3, <1>4, <2>1, <2>2
<1>5. ASSUME A!Ends(r) PROVE ItemsInv'
  BY <1>3, <1>5, IdleItemHandler DEF A!Ends, StartPlaces, SubmitPlaces
<1>6. ASSUME NEW i \in A!Ids, NEW at \in {"resolve", "test"},
             A!Becomes(r, [A!Idle EXCEPT !.at = at, !.item = i])
      PROVE  ItemsInv'
  <2> DEFINE h == [A!Idle EXCEPT !.at = at, !.item = i]
  <2>1. h \in ItemHandler /\ h.session = None /\ h.at = at
    BY IdleItemHandler, NoGrill DEF ItemHandler, ItemPlaces
  <2> HIDE DEF h
  <2> QED BY <1>3, <1>6, <2>1 DEF StartPlaces, SubmitPlaces, h
<1>7. CASE A!SetSpecReady(r)
  <2>1. PICK batch \in Batches : A!Becomes(r, [A!Idle EXCEPT !.at = "insert", !.batch = batch])
    BY <1>7 DEF A!SetSpecReady
  <2> DEFINE h == [A!Idle EXCEPT !.at = "insert", !.batch = batch]
  <2>2. h \in ItemHandler /\ h.session = None /\ h.at = "insert"
    BY IdleItemHandler, NoGrill DEF ItemHandler, ItemPlaces
  <2> HIDE DEF h
  <2> QED BY <1>3, <2>1, <2>2 DEF StartPlaces, SubmitPlaces, h
<1>8. CASE A!StartBuild(r) \/ A!CountOpen(r) \/ A!QueueBuild(r) \/ A!KickBack(r) \/ A!CreateTest(r)
  BY <1>4, <1>5, <1>8 DEF A!StartBuild, A!CountOpen, A!QueueBuild, A!KickBack, A!CreateTest,
                          ItemPlaces, StartPlaces, SubmitPlaces
<1>9. CASE A!Confirm(r) \/ A!Sweep(r) \/ A!TestRequested(r)
  BY <1>6, <1>9 DEF A!Confirm, A!Sweep, A!TestRequested
<1> QED BY <1>7, <1>8, <1>9

\* Handlers that write items: a batch's next one, the end of a batch, a resolution.
LEMMA ItemWrites ==
    ASSUME ItemsInv, NEW r \in Requests,
           A!CreateItem(r) \/ A!ClearForFeature(r) \/ A!Resolve(r) \/ A!ResolveSubtaskItem(r)
    PROVE  ItemsInv'
<1>1. /\ handlers[r] \in ItemHandler /\ items \in [A!Ids -> Row]
      /\ \A i \in A!Ids : RowGood(i)
  BY DEF ItemsInv, ItemTypes
<1>2. handlers[r].session = None /\ UNCHANGED <<merged, session, design>>
  BY DEF ItemsInv, Works, StartPlaces, SubmitPlaces, A!At, A!designs, A!domain, A!CreateItem,
         A!ClearForFeature, A!Resolve, A!ResolveSubtaskItem
<1> DEFINE Written(i) ==
             /\ items'[i].type = items[i].type /\ items'[i].session = items[i].session
             /\ items'[i].snapshot = items[i].snapshot
             /\ items'[i].status \in {"open", "resolved", "deleted", "none"}
             /\ items[i].status # "none" => items'[i].status # "none"
             /\ items'[i].status = "open" => items[i].status = "open"
<1>3. ASSUME A!Ends(r), items' \in [A!Ids -> Row], \A i \in A!Ids : Written(i),
             handlers[r].at = "subtask" =>
               \A i \in merged : handlers[r].item = i => items'[i].status # "open"
      PROVE  ItemsInv'
  <2>1. Acts(r, A!Idle)
    BY <1>3, IdleItemHandler DEF Acts, A!Becomes, A!Ends
  <2>2. A!Idle.at \notin StartPlaces \cup SubmitPlaces
    BY IdleItemHandler DEF StartPlaces, SubmitPlaces
  <2> QED BY <1>1, <1>2, <1>3, <2>1, <2>2, IdleItemHandler, ItemsMove DEF RowGood
<1>4. CASE A!ClearForFeature(r)
  <2> DEFINE new == [i \in A!Ids |-> IF A!Open(i) THEN [items[i] EXCEPT !.status = "deleted"]
                                     ELSE items[i]]
  <2>1. items' = new /\ A!Ends(r) /\ handlers[r].at # "subtask"
    BY <1>4 DEF A!ClearForFeature, A!At
  <2>2. ASSUME NEW i \in A!Ids
        PROVE  /\ new[i] \in Row /\ new[i].type = items[i].type
               /\ new[i].session = items[i].session /\ new[i].snapshot = items[i].snapshot
               /\ \/ new[i].status = "deleted" /\ items[i].status = "open"
                  \/ new[i].status = items[i].status
    BY <1>1 DEF Row, A!Open
  <2>3. /\ new \in [A!Ids -> Row]
        /\ \A i \in A!Ids : new[i].status \in {"open", "resolved", "deleted", "none"}
    BY <2>2 DEF Row
  <2> HIDE DEF new
  <2> QED BY <1>3, <2>1, <2>2, <2>3
<1>5. ASSUME A!Ends(r), items' = A!Resolved(handlers[r].item) PROVE ItemsInv'
  <2> DEFINE new == A!Resolved(handlers[r].item)
  <2>1. ASSUME NEW i \in A!Ids
        PROVE  /\ new[i] \in Row /\ new[i].type = items[i].type
               /\ new[i].session = items[i].session /\ new[i].snapshot = items[i].snapshot
               /\ \/ new[i].status = "resolved" /\ items[i].status = "open"
                  \/ new[i].status = items[i].status
               /\ i = handlers[r].item => new[i].status # "open"
    BY <1>1 DEF Row, A!Resolved
  <2>2. /\ new \in [A!Ids -> Row]
        /\ \A i \in A!Ids : new[i].status \in {"open", "resolved", "deleted", "none"}
    BY <1>1, <2>1 DEF A!Resolved, Row
  <2>3. merged \subseteq A!Ids
    BY DEF ItemsInv, ItemTypes
  <2> HIDE DEF new
  <2> QED BY <1>3, <1>5, <2>1, <2>2, <2>3 DEF new
<1>6. CASE A!Resolve(r)
  BY <1>5, <1>6 DEF A!Resolve
<1>7. CASE A!ResolveSubtaskItem(r)
  <2>1. CASE items[handlers[r].item].type = "subtask_feature"
    BY <1>5, <1>7, <2>1 DEF A!ResolveSubtaskItem
  <2>2. CASE items[handlers[r].item].type # "subtask_feature"
    <3>1. items' = items /\ A!Ends(r)
      BY <1>7, <2>2 DEF A!ResolveSubtaskItem
    <3>2. \A i \in merged : handlers[r].item # i
      BY <1>1, <2>2 DEF RowGood, ItemsInv, ItemTypes
    <3>3. \A i \in A!Ids : items[i].status \in {"open", "resolved", "deleted", "none"}
      BY <1>1 DEF Row
    <3> QED BY <1>1, <1>3, <3>1, <3>2, <3>3
  <2> QED BY <2>1, <2>2
<1>8. CASE A!CreateItem(r)
  <2>1. PICK j \in A!Ids :
          /\ A!Free(j)
          /\ items' = [items EXCEPT ![j] = [A!NoItem EXCEPT !.type = Head(handlers[r].batch),
                                                            !.status = "open"]]
    BY <1>8 DEF A!CreateItem
  <2>2. /\ Head(handlers[r].batch) \in A!Types /\ Tail(handlers[r].batch) \in Seq(A!Types)
        /\ handlers[r].at = "insert"
    BY <1>1, <1>8 DEF A!CreateItem, A!At, ItemHandler
  <2>3. PICK h : Acts(r, h) /\ h.session = None /\ h.at \in {"idle", "insert"}
    <3> DEFINE rest == [handlers[r] EXCEPT !.batch = Tail(handlers[r].batch)]
    <3>1. rest \in ItemHandler /\ rest.session = None /\ rest.at = "insert"
      BY <1>1, <1>2, <2>2 DEF ItemHandler
    <3> HIDE DEF rest
    <3>2. A!Becomes(r, rest) \/ A!Becomes(r, A!Idle)
      BY <1>8 DEF A!CreateItem, A!Ends, rest
    <3> QED BY <3>1, <3>2, IdleItemHandler DEF Acts, A!Becomes
  <2> DEFINE row == [A!NoItem EXCEPT !.type = Head(handlers[r].batch), !.status = "open"]
  <2>4. row \in Row /\ row.session = None /\ items[j].status = "none" /\ j \notin merged
    <3>1. A!NoItem \in Row /\ A!NoItem.session = None
      BY DEF A!NoItem, Row
    <3>2. items[j].status = "none"
      BY <2>1 DEF A!Free, A!NoItem
    <3>3. row \in Row /\ row.session = None
      BY <2>2, <3>1 DEF Row
    <3> QED BY <1>1, <3>2, <3>3 DEF RowGood
  <2> HIDE DEF row
  <2>5. /\ items' \in [A!Ids -> Row]
        /\ items'[j] = row /\ \A i \in A!Ids \ {j} : items'[i] = items[i]
    BY <1>1, <2>1, <2>4 DEF row
  <2>6. h.at \notin StartPlaces \cup SubmitPlaces /\ handlers[r].at # "subtask"
    BY <2>2, <2>3 DEF StartPlaces, SubmitPlaces
  <2> QED BY <1>1, <1>2, <2>3, <2>4, <2>5, <2>6, ItemsMove, NoGrill DEF RowGood
<1> QED BY <1>4, <1>6, <1>7, <1>8

\* What a feature's approval, a secret and a merge change.
LEMMA ItemsWait ==
    ASSUME ItemsInv, A!Approve \/ A!StoreSecret \/ \E r \in Requests : A!Merge(r)
    PROVE  ItemsInv'
<1>1. CASE A!Approve \/ A!StoreSecret
  BY <1>1 DEF A!Approve, A!StoreSecret, A!designs, A!domain, ItemsInv, ItemTypes, Works, RowGood,
              AwaitedBy, Indexed
<1>2. ASSUME NEW r \in Requests, A!Merge(r) PROVE ItemsInv'
  <2>1. PICK j \in A!Ids \ merged :
          /\ A!Exists(j) /\ items[j].type = "subtask_feature" /\ merged' = merged \cup {j}
          /\ A!Becomes(r, [A!Idle EXCEPT !.at = "subtask", !.item = j])
    BY <1>2 DEF A!Merge
  <2>2. UNCHANGED <<items, session, design>> /\ handlers[r].at = "idle" /\ handlers[r].session = None
    BY <1>2 DEF A!Merge, A!designs, A!At, ItemsInv, Works, StartPlaces, SubmitPlaces
  <2> DEFINE h == [A!Idle EXCEPT !.at = "subtask", !.item = j]
  <2>3. h \in ItemHandler /\ h.at = "subtask" /\ h.item = j /\ h.session = None
    BY IdleItemHandler, NoGrill DEF ItemHandler, ItemPlaces, A!Idle
  <2>4. Acts(r, h)
    BY <2>1, <2>3 DEF Acts, A!Becomes
  <2> HIDE DEF h
  <2>5. /\ handlers' \in [Requests -> ItemHandler]
        /\ handlers'[r] = h /\ \A q \in Requests \ {r} : handlers'[q] = handlers[q]
    BY <2>4, ActsFacts
  <2>6. (\A q \in Requests : Works(handlers[q], session))'
    BY <2>2, <2>3, <2>5 DEF ItemsInv, Works, StartPlaces, SubmitPlaces
  <2>7. ASSUME NEW i \in A!Ids PROVE RowGood(i)' /\ AwaitedBy(i)'
    <3>1. RowGood(i)'
      BY <2>1, <2>2 DEF ItemsInv, RowGood, A!Exists
    <3>2. AwaitedBy(i)'
      BY <2>1, <2>2, <2>3, <2>5, NoGrill DEF ItemsInv, AwaitedBy
    <3> QED BY <3>1, <3>2
  <2>8. ASSUME NEW s \in Grills PROVE Indexed(s)'
    BY <2>2, <2>5 DEF ItemsInv, Indexed
  <2> QED BY <2>1, <2>2, <2>5, <2>6, <2>7, <2>8 DEF ItemsInv, ItemTypes
<1> QED BY <1>1, <1>2

-----------------------------------------------------------------------------
(* ActionItems: design sessions. *)

\* What a handler that moves on keeps.
LEMMA GoesFacts ==
    ASSUME ItemsInv, NEW r \in Requests, NEW at \in ItemPlaces
    PROVE  /\ [handlers[r] EXCEPT !.at = at] \in ItemHandler
           /\ [handlers[r] EXCEPT !.at = at].at = at
           /\ [handlers[r] EXCEPT !.at = at].session = handlers[r].session
           /\ [handlers[r] EXCEPT !.at = at].item = handlers[r].item
BY DEF ItemsInv, ItemTypes, ItemHandler

LEMMA DesignStarts ==
    ASSUME ItemsInv, NEW r \in Requests, A!StartDesign(r)
    PROVE  ItemsInv'
<1>1. PICK s \in Grills, j \in {0} \cup A!Ids :
        /\ session[s].is = "none" /\ session' = [session EXCEPT ![s].is = "running"]
        /\ A!Becomes(r, [A!Idle EXCEPT !.at = "index", !.session = s, !.item = j])
  BY DEF A!StartDesign
<1>2. /\ UNCHANGED <<items, merged, design>> /\ handlers[r].at = "idle"
      /\ handlers[r].session = None
  BY DEF A!StartDesign, A!domain, A!At, ItemsInv, Works, StartPlaces, SubmitPlaces
<1> DEFINE h == [A!Idle EXCEPT !.at = "index", !.session = s, !.item = j]
<1>3. h \in ItemHandler /\ h.at = "index" /\ h.session = s
  <2>1. j \in Nat /\ s \in Grills \cup {None} /\ "index" \in ItemPlaces
    BY NoGrill DEF ItemPlaces, StartPlaces
  <2> QED BY <2>1, IdleItemHandler DEF ItemHandler
<1>4. Acts(r, h)
  BY <1>1, <1>3 DEF Acts, A!Becomes
<1> HIDE DEF h
<1>5. /\ handlers' \in [Requests -> ItemHandler]
      /\ handlers'[r] = h /\ \A q \in Requests \ {r} : handlers'[q] = handlers[q]
  BY <1>4, ActsFacts
<1>6. /\ session' \in [Grills -> DesignSession] /\ session'[s].is = "running"
      /\ \A z \in Grills \ {s} : session'[z] = session[z]
  BY <1>1 DEF ItemsInv, ItemTypes, DesignSession
<1>7. ASSUME NEW q \in Requests PROVE Works(handlers[q], session)'
  <2>1. CASE q = r
    BY <1>3, <1>5, <1>6, <2>1 DEF Works, StartPlaces, SubmitPlaces
  <2>2. CASE q # r
    <3>1. Works(handlers[q], session) /\ handlers'[q] = handlers[q]
      BY <1>5, <2>2 DEF ItemsInv
    <3> QED BY <1>1, <1>6, <3>1 DEF Works
  <2> QED BY <2>1, <2>2
<1>8. ASSUME NEW i \in A!Ids PROVE RowGood(i)' /\ AwaitedBy(i)'
  <2>1. RowGood(i)'
    BY <1>2 DEF ItemsInv, RowGood
  <2>2. AwaitedBy(i)'
    BY <1>2, <1>5, <1>6, NoGrill DEF ItemsInv, AwaitedBy
  <2> QED BY <2>1, <2>2
<1>9. ASSUME NEW z \in Grills PROVE Indexed(z)'
  BY <1>2, <1>5, <1>6 DEF ItemsInv, Indexed
<1> QED BY <1>2, <1>5, <1>6, <1>7, <1>8, <1>9 DEF ItemsInv, ItemTypes

LEMMA DesignSubmitted ==
    ASSUME ItemsInv, NEW r \in Requests, A!SubmitDesign(r)
    PROVE  ItemsInv'
<1>1. PICK s \in Grills :
        /\ session[s].is = "running" /\ ~A!Handled(s)
        /\ session' = [session EXCEPT ![s].is = "submitted"]
        /\ A!Becomes(r, [A!Idle EXCEPT !.at = "finalize", !.session = s])
  BY DEF A!SubmitDesign
<1>2. /\ UNCHANGED <<items, merged, design>> /\ handlers[r].at = "idle"
      /\ handlers[r].session = None
  BY DEF A!SubmitDesign, A!domain, A!At, ItemsInv, Works, StartPlaces, SubmitPlaces
<1> DEFINE h == [A!Idle EXCEPT !.at = "finalize", !.session = s]
<1>3. h \in ItemHandler /\ h.at = "finalize" /\ h.session = s
  BY IdleItemHandler, NoGrill DEF ItemHandler, ItemPlaces, SubmitPlaces
<1>4. Acts(r, h)
  BY <1>1, <1>3 DEF Acts, A!Becomes
<1> HIDE DEF h
<1>5. /\ handlers' \in [Requests -> ItemHandler]
      /\ handlers'[r] = h /\ \A q \in Requests \ {r} : handlers'[q] = handlers[q]
  BY <1>4, ActsFacts
<1>6. /\ session' \in [Grills -> DesignSession] /\ session'[s].is = "submitted"
      /\ \A z \in Grills \ {s} : session'[z] = session[z]
  BY <1>1 DEF ItemsInv, ItemTypes, DesignSession
<1>7. ASSUME NEW q \in Requests PROVE Works(handlers[q], session)'
  <2>1. CASE q = r
    BY <1>3, <1>5, <1>6, <2>1 DEF Works, StartPlaces, SubmitPlaces
  <2>2. CASE q # r
    <3>1. Works(handlers[q], session) /\ handlers'[q] = handlers[q] /\ handlers[q].session # s
      BY <1>1, <1>5, <2>2 DEF ItemsInv, A!Handled
    <3> QED BY <1>6, <3>1 DEF Works
  <2> QED BY <2>1, <2>2
<1>8. ASSUME NEW i \in A!Ids PROVE RowGood(i)' /\ AwaitedBy(i)'
  <2>1. RowGood(i)'
    BY <1>2 DEF ItemsInv, RowGood
  <2>2. AwaitedBy(i)'
    BY <1>2, <1>3, <1>5, <1>6, NoGrill DEF ItemsInv, AwaitedBy
  <2> QED BY <2>1, <2>2
<1>9. ASSUME NEW z \in Grills PROVE Indexed(z)'
  BY <1>2, <1>3, <1>5, <1>6 DEF ItemsInv, Indexed
<1> QED BY <1>2, <1>5, <1>6, <1>7, <1>8, <1>9 DEF ItemsInv, ItemTypes

\* The handler of a running session: the index, the link to it, the item.
LEMMA DesignUnderWay ==
    ASSUME ItemsInv, NEW r \in Requests,
           A!StartSession(r) \/ A!LinkStarted(r) \/ A!LinkDesignSession(r)
    PROVE  ItemsInv'
<1> DEFINE s == handlers[r].session
<1>1. /\ handlers[r] \in ItemHandler /\ handlers[r].at \in StartPlaces
      /\ s \in Grills /\ session[s].is = "running"
      /\ UNCHANGED merged
  BY DEF A!StartSession, A!LinkStarted, A!LinkSession, A!LinkDesignSession, A!At, A!domain,
         ItemsInv, ItemTypes, Works, StartPlaces
<1>2. /\ session' \in [Grills -> DesignSession] /\ \A z \in Grills : session'[z].is = session[z].is
      /\ \A z \in Grills : session'[z].lost = session[z].lost
      /\ \A z \in Grills : session[z].linked => session'[z].linked
  <2>1. session \in [Grills -> DesignSession]
    BY DEF ItemsInv, ItemTypes
  <2>2. \/ UNCHANGED session
        \/ session' = [session EXCEPT ![s].linked = TRUE]
    BY DEF A!StartSession, A!LinkStarted, A!LinkSession, A!LinkDesignSession, A!designs
  <2>3. CASE UNCHANGED session
    BY <2>1, <2>3
  <2>4. CASE session' = [session EXCEPT ![s].linked = TRUE]
    <3>1. /\ session' \in [Grills -> DesignSession] /\ session'[s].is = session[s].is
          /\ session'[s].lost = session[s].lost /\ session'[s].linked
      BY <1>1, <2>1, <2>4 DEF DesignSession
    <3>2. \A z \in Grills \ {s} : session'[z] = session[z]
      BY <2>1, <2>4
    <3> QED BY <3>1, <3>2
  <2> QED BY <2>2, <2>3, <2>4
<1>3. design' = design \/ design # "finalized"
  BY DEF A!StartSession, A!Started, A!LinkStarted, A!LinkSession, A!LinkDesignSession, A!designs
<1>4. PICK h : Acts(r, h) /\ \/ h.at = "idle" /\ h.session = None
                             \/ h.at \in {"link", "item"} /\ h.session = s
  <2>1. ASSUME NEW at \in {"link", "item"}, A!Goes(r, at)
        PROVE  \E h : Acts(r, h) /\ h.at \in {"link", "item"} /\ h.session = s
    <3> DEFINE h == [handlers[r] EXCEPT !.at = at]
    <3>1. h \in ItemHandler /\ h.at = at /\ h.session = s
      BY GoesFacts DEF ItemPlaces, StartPlaces
    <3>2. Acts(r, h)
      BY <2>1, <3>1 DEF Acts, A!Goes, A!Becomes
    <3> HIDE DEF h
    <3> QED BY <3>1, <3>2
  <2>2. CASE A!Ends(r)
    BY <2>2, IdleItemHandler DEF Acts, A!Ends, A!Becomes
  <2> QED BY <2>1, <2>2 DEF A!StartSession, A!LinkStarted, A!LinkSession, A!LinkDesignSession
<1>5. /\ handlers' \in [Requests -> ItemHandler]
      /\ handlers'[r] = h /\ \A q \in Requests \ {r} : handlers'[q] = handlers[q]
  BY <1>4, ActsFacts
<1>6. /\ items' \in [A!Ids -> Row]
      /\ \A i \in A!Ids :
           /\ items'[i].type = items[i].type /\ items'[i].status = items[i].status
           /\ \/ items'[i].session = items[i].session
              \/ items'[i].session = s /\ items[i].type = "design_grill"
  <2>1. items \in [A!Ids -> Row]
    BY DEF ItemsInv, ItemTypes
  <2>2. \/ UNCHANGED items
        \/ /\ items[handlers[r].item].type = "design_grill"
           /\ items' = [items EXCEPT ![handlers[r].item].session = s]
    BY DEF A!StartSession, A!LinkStarted, A!LinkSession, A!LinkDesignSession
  <2>3. CASE UNCHANGED items
    BY <2>1, <2>3
  <2>4. CASE /\ items[handlers[r].item].type = "design_grill"
             /\ items' = [items EXCEPT ![handlers[r].item].session = s]
    BY <1>1, <2>1, <2>4 DEF Row
  <2> QED BY <2>2, <2>3, <2>4
<1> HIDE DEF s
<1>7. ASSUME NEW q \in Requests PROVE Works(handlers[q], session)'
  <2>1. CASE q = r
    BY <1>1, <1>2, <1>4, <1>5, <2>1 DEF Works, StartPlaces, SubmitPlaces
  <2>2. CASE q # r
    <3>1. Works(handlers[q], session) /\ handlers'[q] = handlers[q]
      BY <1>5, <2>2 DEF ItemsInv
    <3> QED BY <1>2, <3>1 DEF Works
  <2> QED BY <2>1, <2>2
<1>8. ASSUME NEW i \in A!Ids PROVE RowGood(i)' /\ AwaitedBy(i)'
  <2>1. RowGood(i)'
    BY <1>1, <1>6 DEF ItemsInv, RowGood
  <2>2. handlers[r].at # "subtask"
    BY <1>1 DEF StartPlaces
  <2>3. (items[i].status = "open" /\ i \in merged =>
           \E q \in Requests : handlers[q].at = "subtask" /\ handlers[q].item = i)'
    BY <1>1, <1>5, <1>6, <2>2 DEF ItemsInv, AwaitedBy
  <2>4. ASSUME NEW z \in Grills, items'[i].status = "open", items'[i].session = z,
               session'[z].is = "submitted"
        PROVE  \E q \in Requests : handlers'[q].session = z
    <3>1. z # s /\ items[i].session = z /\ items[i].status = "open" /\ session[z].is = "submitted"
      BY <1>1, <1>2, <1>6, <2>4
    <3>2. PICK q \in Requests : handlers[q].session = z
      BY <3>1 DEF ItemsInv, AwaitedBy
    <3> QED BY <1>5, <3>1, <3>2 DEF s
  <2> QED BY <2>1, <2>3, <2>4 DEF AwaitedBy
<1>9. ASSUME NEW z \in Grills PROVE Indexed(z)'
  <2>1. handlers[r].at \notin {"finalize", "finalLink"}
    BY <1>1 DEF StartPlaces
  <2> QED BY <1>2, <1>3, <1>5, <2>1 DEF ItemsInv, Indexed
<1> QED BY <1>1, <1>2, <1>5, <1>6, <1>7, <1>8, <1>9 DEF ItemsInv, ItemTypes

\* The handler of a submitted design: the index, the link to it, the item.
LEMMA DesignTaken ==
    ASSUME ItemsInv, NEW r \in Requests, A!Finalize(r) \/ A!LinkFinal(r)
    PROVE  ItemsInv'
<1> DEFINE s == handlers[r].session
<1>1. /\ handlers[r] \in ItemHandler /\ handlers[r].at \in {"finalize", "finalLink"}
      /\ s \in Grills /\ session[s].is = "submitted" /\ session \in [Grills -> DesignSession]
      /\ UNCHANGED <<items, merged>>
  BY DEF A!Finalize, A!LinkFinal, A!LinkSession, A!At, A!domain, ItemsInv, ItemTypes, Works,
         SubmitPlaces
<1>2. PICK at \in {"finalLink", "snapshot"} :
        /\ A!Goes(r, at)
        /\ \/ /\ handlers[r].at = "finalize" /\ at = "finalLink"
              /\ design' = "finalized" /\ UNCHANGED session
           \/ /\ handlers[r].at = "finalize" /\ at = "snapshot" /\ UNCHANGED design
              /\ session' = [session EXCEPT ![s].lost = TRUE]
           \/ /\ handlers[r].at = "finalLink" /\ at = "snapshot" /\ UNCHANGED design
              /\ session' = [session EXCEPT ![s].linked = TRUE]
  BY DEF A!Finalize, A!LinkFinal, A!LinkSession, A!GoesOn, A!At
<1> DEFINE h == [handlers[r] EXCEPT !.at = at]
<1>3. h \in ItemHandler /\ h.at = at /\ h.session = s
  BY GoesFacts DEF ItemPlaces, SubmitPlaces
<1>4. Acts(r, h)
  BY <1>2, <1>3 DEF Acts, A!Goes, A!Becomes
<1> HIDE DEF h
<1>5. /\ handlers' \in [Requests -> ItemHandler]
      /\ handlers'[r] = h /\ \A q \in Requests \ {r} : handlers'[q] = handlers[q]
  BY <1>4, ActsFacts
<1>6. /\ session' \in [Grills -> DesignSession] /\ \A z \in Grills : session'[z].is = session[z].is
      /\ \A z \in Grills \ {s} : session'[z] = session[z]
  BY <1>1, <1>2 DEF DesignSession
<1>7. ASSUME NEW q \in Requests PROVE Works(handlers[q], session)'
  <2>1. CASE q = r
    BY <1>1, <1>3, <1>5, <1>6, <2>1 DEF Works, StartPlaces, SubmitPlaces
  <2>2. CASE q # r
    <3>1. Works(handlers[q], session) /\ handlers'[q] = handlers[q]
      BY <1>5, <2>2 DEF ItemsInv
    <3> QED BY <1>6, <3>1 DEF Works
  <2> QED BY <2>1, <2>2
<1>8. ASSUME NEW i \in A!Ids PROVE RowGood(i)' /\ AwaitedBy(i)'
  <2>1. RowGood(i)'
    BY <1>1 DEF ItemsInv, RowGood
  <2>2. AwaitedBy(i)'
    BY <1>1, <1>3, <1>5, <1>6 DEF ItemsInv, AwaitedBy
  <2> QED BY <2>1, <2>2
<1>9. ASSUME NEW z \in Grills PROVE Indexed(z)'
  <2>1. CASE z # s
    <3>1. Indexed(z) /\ session'[z] = session[z] /\ (design = "finalized" => design' = "finalized")
      BY <1>2, <1>6, <2>1 DEF ItemsInv
    <3>2. \A q \in Requests : handlers[q].session = z => handlers'[q] = handlers[q]
      BY <1>5, <2>1
    <3> HIDE DEF s
    <3> QED BY <3>1, <3>2 DEF Indexed
  <2>2. CASE z = s
    <3>1. CASE handlers[r].at = "finalize" /\ at = "finalLink" /\ design' = "finalized"
      BY <1>3, <1>5, <2>2, <3>1 DEF Indexed
    <3>2. CASE session' = [session EXCEPT ![s].lost = TRUE]
      <4>1. session'[s].lost
        BY <1>1, <3>2 DEF DesignSession
      <4> QED BY <2>2, <4>1 DEF Indexed
    <3>3. CASE /\ handlers[r].at = "finalLink" /\ UNCHANGED design
               /\ session' = [session EXCEPT ![s].linked = TRUE]
      <4>1. session'[s].linked /\ session'[s].lost = session[s].lost
        BY <1>1, <3>3 DEF DesignSession
      <4>2. Indexed(s)
        BY <1>1 DEF ItemsInv
      <4> QED BY <1>1, <1>5, <2>2, <3>3, <4>1, <4>2 DEF Indexed
    <3> QED BY <1>2, <3>1, <3>2, <3>3
  <2> QED BY <2>1, <2>2
<1> QED BY <1>1, <1>5, <1>6, <1>7, <1>8, <1>9 DEF ItemsInv, ItemTypes

LEMMA DesignResolved ==
    ASSUME ItemsInv, NEW r \in Requests, A!ResolveDesignSession(r)
    PROVE  ItemsInv'
<1> DEFINE s == handlers[r].session
<1>1. /\ handlers[r].at = "snapshot" /\ s \in Grills /\ items \in [A!Ids -> Row]
      /\ UNCHANGED <<merged, session, design>>
  BY DEF A!ResolveDesignSession, A!At, A!domain, A!designs, ItemsInv, ItemTypes, Works, SubmitPlaces
<1>2. /\ handlers' \in [Requests -> ItemHandler]
      /\ handlers'[r] = A!Idle /\ \A q \in Requests \ {r} : handlers'[q] = handlers[q]
  <2>1. Acts(r, A!Idle)
    BY IdleItemHandler DEF A!ResolveDesignSession, A!Ends, A!Becomes, Acts
  <2> QED BY <2>1, ActsFacts
<1> DEFINE new == [i \in A!Ids |->
           IF items[i].session = s /\ items[i].type = "design_grill" /\ A!Open(i)
           THEN [items[i] EXCEPT !.status = "resolved", !.snapshot = s]
           ELSE items[i]]
<1>3. items' = new
  BY DEF A!ResolveDesignSession
<1>4. ASSUME NEW i \in A!Ids
      PROVE  /\ new[i] \in Row /\ new[i].type = items[i].type /\ new[i].session = items[i].session
             /\ \/ new[i].status = items[i].status
                \/ new[i].status = "resolved" /\ items[i].session = s
             /\ items[i].session = s /\ items[i].type = "design_grill" => new[i].status # "open"
  BY <1>1 DEF Row, A!Open
<1>5. new \in [A!Ids -> Row]
  BY <1>4
<1> HIDE DEF new
<1>6. (\A q \in Requests : Works(handlers[q], session))'
  BY <1>1, <1>2, IdleItemHandler DEF ItemsInv, Works, StartPlaces, SubmitPlaces
<1>7. ASSUME NEW i \in A!Ids PROVE RowGood(i)' /\ AwaitedBy(i)'
  <2>0. RowGood(i) /\ AwaitedBy(i)
    BY DEF ItemsInv
  <2>1. RowGood(i)'
    BY <1>1, <1>3, <1>4, <2>0 DEF RowGood
  <2>2. items'[i].status = "open" => items[i].status = "open" /\ items[i].session # s
    BY <1>1, <1>3, <1>4, <2>0 DEF RowGood
  <2> HIDE DEF s
  <2>3. ASSUME NEW z \in Grills, items'[i].status = "open", items'[i].session = z,
               session'[z].is = "submitted"
        PROVE  \E q \in Requests : handlers'[q].session = z
    <3>1. PICK q \in Requests : handlers[q].session = z
      BY <1>1, <1>3, <1>4, <2>0, <2>2, <2>3 DEF AwaitedBy
    <3> QED BY <1>2, <1>3, <1>4, <2>2, <2>3, <3>1 DEF s
  <2>4. (items[i].status = "open" /\ i \in merged =>
           \E q \in Requests : handlers[q].at = "subtask" /\ handlers[q].item = i)'
    BY <1>1, <1>2, <2>0, <2>2 DEF AwaitedBy
  <2> QED BY <2>1, <2>3, <2>4 DEF AwaitedBy
<1>8. ASSUME NEW z \in Grills PROVE Indexed(z)'
  BY <1>1, <1>2 DEF ItemsInv, Indexed
<1> QED BY <1>1, <1>2, <1>3, <1>5, <1>6, <1>7, <1>8 DEF ItemsInv, ItemTypes

LEMMA ItemsStep ==
    ASSUME ItemsInv, A!Next
    PROVE  ItemsInv'
<1>1. CASE A!Approve \/ A!StoreSecret
  BY <1>1, ItemsWait
<1>2. ASSUME NEW r \in Requests,
             \/ A!SetSpecReady(r) \/ A!StartBuild(r) \/ A!KickBack(r)
             \/ A!Confirm(r) \/ A!Sweep(r) \/ A!TestRequested(r) \/ A!Merge(r)
             \/ A!StartDesign(r) \/ A!SubmitDesign(r) \/ A!Step(r)
      PROVE  ItemsInv'
  BY <1>2, ItemHandlersGo, ItemWrites, ItemsWait, DesignStarts, DesignSubmitted, DesignUnderWay,
     DesignTaken, DesignResolved DEF A!Step
<1> QED BY <1>1, <1>2 DEF A!Next

LEMMA ItemsStart == A!Init => ItemsInv
<1> SUFFICES ASSUME A!Init PROVE ItemsInv
  OBVIOUS
<1>1. A!NoItem \in Row /\ A!NoItem.session = None /\ A!NoItem.status = "none"
  BY DEF A!NoItem, Row
<1>2. /\ items \in [A!Ids -> Row] /\ merged = {}
      /\ \A i \in A!Ids : items[i] = A!NoItem
  BY <1>1 DEF A!Init
<1>3. session \in [Grills -> DesignSession] /\ \A s \in Grills : session[s].is = "none"
  BY DEF A!Init, DesignSession
<1>4. handlers \in [Requests -> ItemHandler] /\ \A r \in Requests : handlers[r] = A!Idle
  BY IdleItemHandler DEF A!Init
<1>5. \A r \in Requests : Works(handlers[r], session)
  BY <1>4, IdleItemHandler DEF Works, StartPlaces, SubmitPlaces
<1>6. \A i \in A!Ids : RowGood(i) /\ AwaitedBy(i)
  BY <1>1, <1>2, NoGrill DEF RowGood, AwaitedBy
<1>7. \A s \in Grills : Indexed(s)
  BY <1>3 DEF Indexed
<1> QED BY <1>2, <1>3, <1>4, <1>5, <1>6, <1>7 DEF ItemsInv, ItemTypes

-----------------------------------------------------------------------------
(* GitHubAccess: what a handler whose answers are fresh knows.  Nothing has   *)
(* changed on GitHub since, and whoever has written since wrote what GitHub   *)
(* still says: the tables hold what the handler has written, or would write.  *)

AccessPlaces ==
    {"idle", "fetch", "mark", "found", "upsert", "list", "delete", "commit", "clear", "access",
     "any", "warn", "again", "find", "warnAll"}
Syncer ==
    [at : AccessPlaces, kind : {None, "hook", "sync", "install", "picker"},
     hook : G!Hooks \cup {None}, suspended : BOOLEAN, list : SUBSET Repositories,
     seen : SUBSET Repositories, force : BOOLEAN, fresh : BOOLEAN]

AccessTypes ==
    /\ remote \in [is : {"active", "suspended", "deleted"}, granted : SUBSET Repositories]
    /\ hooks \subseteq G!Hooks
    /\ local \in {"absent", "active", "suspended"} /\ rows \subseteq Repositories
    /\ syncs \in [Requests -> Syncer]

Handles(h) ==
    /\ h.kind = "hook" => h.hook \in G!Hooks
    /\ h.at = "warn" => h.hook \in G!Hooks /\ h.hook.event = "removed"

Unknowing == {"mark", "find", "warnAll"}

Tables == [local |-> local, rows |-> rows, warned |-> warned]

Knows(h, t) ==
    h.fresh =>
        /\ h.at \notin Unknowing
        /\ h.at \in {"found", "upsert"} => h.suspended = (remote.is = "suspended")
        /\ h.at = "list" /\ remote.is = "active" => t.local = "active"
        /\ h.at \in {"delete", "commit", "clear", "warn", "again"} =>
              remote.is = "active" /\ t.local = "active"
        /\ h.at \in {"delete", "commit"} => h.list = remote.granted
        /\ h.at = "commit" => t.rows \ h.seen \subseteq remote.granted
        /\ h.at \in {"clear", "warn", "again"} => t.rows = remote.granted
        /\ h.at = "warn" => \A p \in t.warned : ~(RepositoriesOf[p] \subseteq t.rows)

AccessInv ==
    /\ AccessTypes
    /\ \A r \in Requests : Handles(syncs[r]) /\ Knows(syncs[r], Tables)

\* What the last write of r is to leave behind.
Agreed(r) ==
    /\ syncs[r].fresh =>
         /\ local' = "active" /\ rows' = remote.granted
         /\ \A p \in warned' : RepositoriesOf[p] \subseteq remote.granted =>
              G!At(r, "warn") /\ p \in G!Concerned(r)
    /\ G!At(r, "warn") => G!Concerned(r) \subseteq warned'

\* What a write of r leaves to the handlers whose answers stay fresh.
SeenStay(r) == \A q \in Requests \ {r} : syncs'[q].seen = syncs[q].seen

Undisturbed(r) ==
    /\ remote.is = "active" => local' = "active"
    /\ (rows' = rows /\ SeenStay(r)) \/ rows' = remote.granted
    /\ warned' \subseteq warned

\* The others stay where they are, and as fresh as they were at most.
Follow(r) ==
    \A q \in Requests \ {r} :
        /\ syncs'[q].at = syncs[q].at /\ syncs'[q].kind = syncs[q].kind
        /\ syncs'[q].hook = syncs[q].hook /\ syncs'[q].suspended = syncs[q].suspended
        /\ syncs'[q].list = syncs[q].list
        /\ syncs'[q].fresh => syncs[q].fresh

LEMMA IdleSyncer ==
    /\ G!Idle \in Syncer /\ G!Idle.at = "idle" /\ G!Idle.fresh = FALSE
    /\ G!Idle.kind = None /\ None # "hook"
BY ConstantsAssumption DEF G!Idle, Syncer, AccessPlaces, G!GitHubAssumption

\* Handler r becomes h, which no other handler notices.
LEMMA Quietly ==
    ASSUME AccessInv, NEW r \in Requests, NEW h \in Syncer, G!Becomes(r, h),
           UNCHANGED <<remote, local, rows, warned>>, hooks' \subseteq hooks,
           Handles(h), Knows(h, Tables), ~G!LastWrite(r)
    PROVE  AccessInv' /\ G!AgreeingStep
<1>1. /\ syncs' \in [Requests -> Syncer]
      /\ syncs'[r] = h /\ \A q \in Requests \ {r} : syncs'[q] = syncs[q]
  BY DEF AccessInv, AccessTypes, G!Becomes
<1>2. AccessTypes'
  BY <1>1 DEF AccessInv, AccessTypes
<1>3. ASSUME NEW q \in Requests PROVE Handles(syncs[q])' /\ Knows(syncs[q], Tables)'
  BY <1>1 DEF AccessInv, Handles, Knows, Tables
<1>4. G!AgreeingStep
  BY <1>1 DEF G!AgreeingStep
<1> QED BY <1>2, <1>3, <1>4 DEF AccessInv

\* Something is written, after which some other handlers are as fresh as before.
LEMMA Loudly ==
    ASSUME AccessInv, NEW r \in Requests, NEW h \in Syncer,
           syncs' \in [Requests -> Syncer], syncs'[r] = h, Follow(r),
           \A q \in Requests \ {r} : syncs'[q].fresh => Undisturbed(r),
           UNCHANGED <<remote, hooks>>, rows' \subseteq Repositories,
           local' \in {"absent", "active", "suspended"},
           Handles(h), Knows(h, Tables'), G!LastWrite(r) => Agreed(r)
    PROVE  AccessInv' /\ G!AgreeingStep
<1>1. AccessTypes'
  BY DEF AccessInv, AccessTypes
<1>2. ASSUME NEW q \in Requests PROVE Handles(syncs[q])' /\ Knows(syncs[q], Tables)'
  <2>1. CASE q = r
    BY <2>1 DEF Handles, Knows, Tables
  <2>2. CASE q # r /\ ~syncs'[q].fresh
    BY <2>2 DEF AccessInv, Handles, Knows, Tables, Follow
  <2>3. CASE q # r /\ syncs'[q].fresh
    <3>1. Undisturbed(r) /\ Handles(syncs[q]) /\ Knows(syncs[q], Tables) /\ syncs[q].fresh
      BY <2>3 DEF AccessInv, Follow
    <3>2. /\ syncs'[q].at = syncs[q].at /\ syncs'[q].kind = syncs[q].kind
          /\ syncs'[q].hook = syncs[q].hook /\ syncs'[q].suspended = syncs[q].suspended
          /\ syncs'[q].list = syncs[q].list
      BY <2>3 DEF Follow
    <3>3. Handles(syncs[q])'
      BY <3>1, <3>2 DEF Handles
    <3>4. /\ local' = IF remote.is = "active" THEN "active" ELSE local'
          /\ (rows' = rows /\ syncs'[q].seen = syncs[q].seen) \/ rows' = remote.granted
          /\ warned' \subseteq warned
      BY <2>3, <3>1 DEF Undisturbed, SeenStay
    <3>5. Knows(syncs[q], Tables)'
      BY <3>1, <3>2, <3>4 DEF Knows, Tables
    <3> QED BY <3>3, <3>5
  <2> QED BY <2>1, <2>2, <2>3
<1>3. G!AgreeingStep
  <2> SUFFICES ASSUME NEW q \in Requests, G!LastWrite(q), syncs'[q].at # syncs[q].at
               PROVE  Agreed(q)
    BY DEF G!AgreeingStep, Agreed
  <2> QED BY DEF Follow
<1> QED BY <1>1, <1>2, <1>3 DEF AccessInv

LEMMA WritesFacts ==
    ASSUME AccessInv, NEW r \in Requests, NEW h \in Syncer, G!Writes(r, h)
    PROVE  /\ syncs' \in [Requests -> Syncer] /\ syncs'[r] = h
           /\ Follow(r) /\ SeenStay(r)
           /\ \A q \in Requests \ {r} : syncs'[q].fresh => syncs[r].fresh
<1>1. \A q \in Requests :
        LET g == [syncs[q] EXCEPT !.fresh = @ /\ syncs[r].fresh] IN
        /\ g \in Syncer /\ g.at = syncs[q].at /\ g.kind = syncs[q].kind
        /\ g.hook = syncs[q].hook /\ g.suspended = syncs[q].suspended
        /\ g.list = syncs[q].list /\ g.seen = syncs[q].seen
        /\ g.fresh = (syncs[q].fresh /\ syncs[r].fresh)
  BY DEF AccessInv, AccessTypes, Syncer
<1> QED BY <1>1 DEF G!Writes, Follow, SeenStay

\* What a handler that moves on keeps.
LEMMA SyncGoes ==
    ASSUME AccessInv, NEW r \in Requests, NEW at \in AccessPlaces
    PROVE  /\ [syncs[r] EXCEPT !.at = at] \in Syncer
           /\ [syncs[r] EXCEPT !.at = at].at = at
           /\ [syncs[r] EXCEPT !.at = at].kind = syncs[r].kind
           /\ [syncs[r] EXCEPT !.at = at].hook = syncs[r].hook
           /\ [syncs[r] EXCEPT !.at = at].suspended = syncs[r].suspended
           /\ [syncs[r] EXCEPT !.at = at].fresh = syncs[r].fresh
BY DEF AccessInv, AccessTypes, Syncer

\* GitHub changes, after which nobody's answers are fresh.
LEMMA GitHubChanges ==
    ASSUME AccessInv,
           \/ \E repo \in Repositories : G!Grant(repo) \/ G!Revoke(repo)
           \/ G!Suspend \/ G!Unsuspend \/ G!Uninstall
    PROVE  AccessInv' /\ G!AgreeingStep
<1>1. /\ syncs' = [r \in Requests |-> [syncs[r] EXCEPT !.fresh = FALSE]]
      /\ UNCHANGED <<local, rows, warned>>
  BY DEF G!Grant, G!Revoke, G!Suspend, G!Unsuspend, G!Uninstall, G!Switch, G!Changed, G!tables
<1>2. ASSUME NEW r \in Requests
      PROVE  /\ syncs'[r] \in Syncer /\ syncs'[r].at = syncs[r].at /\ ~syncs'[r].fresh
             /\ syncs'[r].kind = syncs[r].kind /\ syncs'[r].hook = syncs[r].hook
  BY <1>1 DEF AccessInv, AccessTypes, Syncer
<1>3. remote' \in [is : {"active", "suspended", "deleted"}, granted : SUBSET Repositories]
  <2>1. remote \in [is : {"active", "suspended", "deleted"}, granted : SUBSET Repositories]
    BY DEF AccessInv, AccessTypes
  <2>2. CASE \E repo \in Repositories : G!Grant(repo) \/ G!Revoke(repo)
    BY <2>1, <2>2 DEF G!Grant, G!Revoke
  <2>3. CASE G!Suspend \/ G!Unsuspend \/ G!Uninstall
    BY <2>1, <2>3 DEF G!Suspend, G!Unsuspend, G!Uninstall, G!Switch
  <2> QED BY <2>2, <2>3
<1>4. hooks' \subseteq G!Hooks
  <2>1. CASE \E repo \in Repositories : G!Grant(repo) \/ G!Revoke(repo)
    BY <2>1 DEF AccessInv, AccessTypes, G!Grant, G!Revoke, G!Delivers, G!Hooks
  <2>2. CASE G!Suspend \/ G!Unsuspend \/ G!Uninstall
    BY <2>2 DEF AccessInv, AccessTypes, G!Suspend, G!Unsuspend, G!Uninstall, G!Switch,
                G!Delivers, G!Hooks
  <2> QED BY <2>1, <2>2
<1>5. AccessTypes'
  BY <1>1, <1>2, <1>3, <1>4 DEF AccessInv, AccessTypes
<1>6. \A r \in Requests : Handles(syncs[r])' /\ Knows(syncs[r], Tables)'
  BY <1>2 DEF AccessInv, Handles, Knows, Tables
<1>7. G!AgreeingStep
  BY <1>2 DEF G!AgreeingStep
<1> QED BY <1>5, <1>6, <1>7 DEF AccessInv

\* The steps that write none of the tables the sync is about.
LEMMA SyncReads ==
    ASSUME AccessInv, NEW r \in Requests,
           \/ G!Webhook(r) \/ G!SyncNow(r) \/ G!InstallCallback(r) \/ G!Picker(r)
           \/ G!FetchInstallation(r) \/ G!FetchRepositories(r) \/ G!DeleteRows(r)
           \/ G!FindInstallation(r) \/ G!UpsertAccess(r) \/ G!HasAnyRepositories(r)
           \/ G!Killed(r)
    PROVE  AccessInv' /\ G!AgreeingStep
<1>1. UNCHANGED <<remote, local, rows, warned>> /\ hooks' \subseteq hooks /\ ~G!LastWrite(r)
  BY DEF G!Webhook, G!SyncNow, G!InstallCallback, G!Picker, G!FetchInstallation, G!Begin,
         G!FetchRepositories, G!DeleteRows, G!FindInstallation, G!UpsertAccess,
         G!HasAnyRepositories, G!Killed, G!tables, G!LastWrite, G!At
<1>2. /\ syncs[r] \in Syncer /\ Handles(syncs[r]) /\ Knows(syncs[r], Tables)
      /\ hooks \subseteq G!Hooks /\ rows \subseteq Repositories
      /\ remote.granted \subseteq Repositories
      /\ remote.is \in {"active", "suspended", "deleted"}
  BY DEF AccessInv, AccessTypes
<1>3. ASSUME G!Ends(r) PROVE AccessInv' /\ G!AgreeingStep
  BY <1>1, <1>3, IdleSyncer, Quietly DEF G!Ends, Handles, Knows, Tables
<1>4. ASSUME NEW at \in {"fetch", "any", "warnAll"}, G!Becomes(r, [syncs[r] EXCEPT !.at = at]),
             at = "warnAll" => syncs[r].at = "find"
      PROVE  AccessInv' /\ G!AgreeingStep
  <2> DEFINE h == [syncs[r] EXCEPT !.at = at]
  <2>1. /\ h \in Syncer /\ h.at = at /\ h.kind = syncs[r].kind /\ h.hook = syncs[r].hook
        /\ h.fresh = syncs[r].fresh
    <3>1. at \in AccessPlaces
      BY <1>4 DEF AccessPlaces
    <3> QED BY <3>1, SyncGoes
  <2> HIDE DEF h
  <2>2. Handles(h) /\ Knows(h, Tables)
    BY <1>2, <1>4, <2>1 DEF Handles, Knows, Tables, Unknowing
  <2> QED BY <1>1, <1>4, <2>1, <2>2, Quietly DEF h
<1>5. ASSUME NEW h \in Syncer, G!Becomes(r, h), h.at \in {"fetch", "mark", "found"},
             h.fresh => h.at = "found" /\ h.suspended = (remote.is = "suspended"),
             h.kind = "hook" => h.hook \in G!Hooks
      PROVE  AccessInv' /\ G!AgreeingStep
  BY <1>1, <1>5, Quietly DEF Handles, Knows, Tables, Unknowing
<1>6. CASE G!Webhook(r)
  <2>1. PICK hook \in hooks, at \in {"mark", "fetch"} :
          G!Becomes(r, [G!Idle EXCEPT !.kind = "hook", !.hook = hook, !.at = at])
    BY <1>6 DEF G!Webhook
  <2> DEFINE h == [G!Idle EXCEPT !.kind = "hook", !.hook = hook, !.at = at]
  <2>2. h \in Syncer /\ ~h.fresh /\ h.at = at /\ h.hook = hook
    BY <1>2, IdleSyncer DEF Syncer, AccessPlaces
  <2> HIDE DEF h
  <2> QED BY <1>2, <1>5, <2>1, <2>2 DEF h
<1>7. CASE G!SyncNow(r) \/ G!InstallCallback(r)
  <2>1. PICK kind \in {"sync", "install"} :
          G!Becomes(r, [G!Idle EXCEPT !.kind = kind, !.at = "fetch"])
    BY <1>7 DEF G!SyncNow, G!InstallCallback, G!Begin
  <2> DEFINE h == [G!Idle EXCEPT !.kind = kind, !.at = "fetch"]
  <2>2. h \in Syncer /\ ~h.fresh /\ h.at = "fetch" /\ h.kind # "hook"
    BY IdleSyncer DEF Syncer, AccessPlaces
  <2> HIDE DEF h
  <2> QED BY <1>5, <2>1, <2>2 DEF h
<1>8. CASE G!Picker(r)
  <2>1. PICK force \in BOOLEAN :
          G!Becomes(r, [G!Idle EXCEPT !.kind = "picker", !.at = "found", !.force = force,
                                      !.fresh = TRUE, !.suspended = (remote.is = "suspended")])
    BY <1>8 DEF G!Picker
  <2> DEFINE h == [G!Idle EXCEPT !.kind = "picker", !.at = "found", !.force = force,
                                 !.fresh = TRUE, !.suspended = (remote.is = "suspended")]
  <2>2. /\ h \in Syncer /\ h.at = "found" /\ h.kind # "hook"
        /\ h.suspended = (remote.is = "suspended")
    BY IdleSyncer DEF Syncer, AccessPlaces
  <2> HIDE DEF h
  <2> QED BY <1>5, <2>1, <2>2 DEF h
<1>9. CASE G!FetchInstallation(r)
  <2>1. CASE G!Becomes(r, [syncs[r] EXCEPT !.at = "upsert", !.fresh = TRUE,
                                           !.suspended = (remote.is = "suspended")])
    <3> DEFINE h == [syncs[r] EXCEPT !.at = "upsert", !.fresh = TRUE,
                                     !.suspended = (remote.is = "suspended")]
    <3>1. /\ h \in Syncer /\ h.at = "upsert" /\ h.kind = syncs[r].kind /\ h.hook = syncs[r].hook
          /\ h.suspended = (remote.is = "suspended")
      BY <1>2 DEF Syncer, AccessPlaces
    <3> HIDE DEF h
    <3>2. Handles(h) /\ Knows(h, Tables)
      BY <1>2, <3>1 DEF Handles, Knows, Tables, Unknowing
    <3> QED BY <1>1, <2>1, <3>1, <3>2, Quietly DEF h
  <2> QED BY <1>3, <1>9, <2>1 DEF G!FetchInstallation
<1>10. CASE G!FetchRepositories(r)
  <2>1. CASE G!Ends(r)
    BY <1>3, <2>1
  <2>2. CASE /\ remote.is = "active" /\ syncs[r].at = "list"
             /\ G!Becomes(r, [syncs[r] EXCEPT !.at = "delete", !.list = remote.granted])
    <3> DEFINE h == [syncs[r] EXCEPT !.at = "delete", !.list = remote.granted]
    <3>1. /\ h \in Syncer /\ h.at = "delete" /\ h.kind = syncs[r].kind /\ h.hook = syncs[r].hook
          /\ h.list = remote.granted /\ h.fresh = syncs[r].fresh
      BY <1>2 DEF Syncer, AccessPlaces
    <3> HIDE DEF h
    <3>2. Handles(h) /\ Knows(h, Tables)
      BY <1>2, <2>2, <3>1 DEF Handles, Knows, Tables, Unknowing
    <3> QED BY <1>1, <2>2, <3>1, <3>2, Quietly DEF h
  <2> QED BY <1>10, <2>1, <2>2 DEF G!FetchRepositories, G!At
<1>11. CASE G!DeleteRows(r)
  <2> DEFINE h == [syncs[r] EXCEPT !.at = "commit", !.seen = rows]
  <2>1. /\ h \in Syncer /\ h.at = "commit" /\ h.kind = syncs[r].kind /\ h.hook = syncs[r].hook
        /\ h.list = syncs[r].list /\ h.fresh = syncs[r].fresh /\ h.seen = rows
    BY <1>2 DEF Syncer, AccessPlaces
  <2>2. G!Becomes(r, h) /\ syncs[r].at = "delete"
    BY <1>11 DEF G!DeleteRows, G!At
  <2> HIDE DEF h
  <2>3. Handles(h) /\ Knows(h, Tables)
    BY <1>2, <2>1, <2>2 DEF Handles, Knows, Tables, Unknowing
  <2> QED BY <1>1, <2>1, <2>2, <2>3, Quietly
<1>12. CASE G!FindInstallation(r) \/ G!UpsertAccess(r) \/ G!HasAnyRepositories(r)
  <2>1. \/ G!Becomes(r, G!Idle)
        \/ \E at \in {"fetch", "any", "warnAll"} :
              /\ G!Becomes(r, [syncs[r] EXCEPT !.at = at])
              /\ at = "warnAll" => syncs[r].at = "find"
    BY <1>12 DEF G!FindInstallation, G!UpsertAccess, G!HasAnyRepositories, G!Goes,
                 G!Proceeded, G!At
  <2> QED BY <1>3, <1>4, <2>1 DEF G!Ends
<1>13. CASE G!Killed(r)
  BY <1>3, <1>13 DEF G!Killed
<1> QED BY <1>6, <1>7, <1>8, <1>9, <1>10, <1>11, <1>12, <1>13

\* The steps that write.
LEMMA SyncWrites ==
    ASSUME AccessInv, NEW r \in Requests,
           \/ G!UpsertInstallation(r) \/ G!UpsertFound(r) \/ G!SyncRepositories(r)
           \/ G!ClearWarnings(r) \/ G!WarnRemoved(r) \/ G!ClearAgain(r)
           \/ G!MarkSuspended(r) \/ G!WarnAll(r)
    PROVE  AccessInv' /\ G!AgreeingStep
<1>1. /\ syncs[r] \in Syncer /\ Handles(syncs[r]) /\ Knows(syncs[r], Tables)
      /\ rows \subseteq Repositories
      /\ local \in {"absent", "active", "suspended"}
      /\ UNCHANGED <<remote, hooks>>
  BY DEF AccessInv, AccessTypes, G!UpsertInstallation, G!UpsertFound, G!UpsertFromGitHub,
         G!SyncRepositories, G!ClearWarnings, G!WarnRemoved, G!ClearAgain, G!MarkSuspended,
         G!WarnAll
<1>2. ASSUME NEW h \in Syncer, G!Writes(r, h), rows' \subseteq Repositories,
             local' \in {"absent", "active", "suspended"}, Handles(h), Knows(h, Tables'),
             rows' = rows, warned' \subseteq warned \/ ~syncs[r].fresh,
             syncs[r].fresh /\ remote.is = "active" => local' = "active",
             G!LastWrite(r) => Agreed(r)
      PROVE  AccessInv' /\ G!AgreeingStep
  <2>1. /\ syncs' \in [Requests -> Syncer] /\ syncs'[r] = h /\ Follow(r) /\ SeenStay(r)
        /\ \A q \in Requests \ {r} : syncs'[q].fresh => syncs[r].fresh
    BY <1>2, WritesFacts
  <2>2. \A q \in Requests \ {r} : syncs'[q].fresh => Undisturbed(r)
    BY <1>2, <2>1 DEF Undisturbed
  <2> QED BY <1>1, <1>2, <2>1, <2>2, Loudly
<1>3. CASE G!UpsertInstallation(r) \/ G!UpsertFound(r)
  <2>1. PICK at \in {"list", "access"} :
          /\ G!Writes(r, [syncs[r] EXCEPT !.at = at])
          /\ syncs[r].at \in {"upsert", "found"}
          /\ ~G!LastWrite(r) /\ local' = G!Standing(r) /\ UNCHANGED <<rows, warned>>
    BY <1>3 DEF G!UpsertInstallation, G!UpsertFound, G!UpsertFromGitHub, G!WritesAndGoes,
                G!Proceeded, G!At, G!LastWrite
  <2> DEFINE h == [syncs[r] EXCEPT !.at = at]
  <2>2. /\ h \in Syncer /\ h.at = at /\ h.kind = syncs[r].kind /\ h.hook = syncs[r].hook
        /\ h.fresh = syncs[r].fresh
    <3>1. at \in AccessPlaces
      BY DEF AccessPlaces
    <3> QED BY <3>1, SyncGoes
  <2> HIDE DEF h
  <2>3. /\ Handles(h) /\ Knows(h, Tables')
        /\ syncs[r].fresh /\ remote.is = "active" => local' = "active"
    BY <1>1, <2>1, <2>2 DEF Handles, Knows, Tables, Unknowing, G!Standing
  <2>4. local' \in {"absent", "active", "suspended"}
    BY <2>1 DEF G!Standing
  <2> QED BY <1>1, <1>2, <2>1, <2>2, <2>3, <2>4 DEF h
<1>4. CASE G!SyncRepositories(r)
  <2> DEFINE kept == rows \ syncs[r].seen
             h == [syncs[r] EXCEPT !.at = "clear", !.seen = {}]
  <2>1. CASE syncs[r].list \cap kept = {}
    <3>1. /\ rows' = kept \cup syncs[r].list /\ UNCHANGED <<local, warned>>
          /\ syncs' = [q \in Requests |->
               IF q = r THEN h
               ELSE [syncs[q] EXCEPT !.fresh = @ /\ syncs[r].fresh,
                                     !.seen = @ \ syncs[r].seen]]
          /\ syncs[r].at = "commit"
      BY <1>4, <2>1 DEF G!SyncRepositories, G!At
    <3>2. /\ h \in Syncer /\ h.at = "clear" /\ h.kind = syncs[r].kind /\ h.hook = syncs[r].hook
          /\ h.fresh = syncs[r].fresh
      BY <1>1 DEF Syncer, AccessPlaces
    <3>3. ASSUME NEW q \in Requests
          PROVE  LET g == [syncs[q] EXCEPT !.fresh = @ /\ syncs[r].fresh,
                                           !.seen = @ \ syncs[r].seen] IN
                 /\ g \in Syncer /\ g.at = syncs[q].at /\ g.kind = syncs[q].kind
                 /\ g.hook = syncs[q].hook /\ g.suspended = syncs[q].suspended
                 /\ g.list = syncs[q].list
                 /\ g.fresh = (syncs[q].fresh /\ syncs[r].fresh)
      BY DEF AccessInv, AccessTypes, Syncer
    <3> HIDE DEF h
    <3>4. /\ syncs' \in [Requests -> Syncer] /\ syncs'[r] = h /\ Follow(r)
          /\ \A q \in Requests \ {r} : syncs'[q].fresh => syncs[r].fresh
      BY <3>1, <3>2, <3>3 DEF Follow
    <3>5. rows' \subseteq Repositories /\ syncs[r].list \subseteq Repositories
      BY <1>1, <3>1 DEF Syncer
    <3>6. syncs[r].fresh =>
            /\ rows' = remote.granted /\ local = "active" /\ remote.is = "active"
            /\ Undisturbed(r)
      BY <1>1, <2>1, <3>1 DEF Knows, Tables, Undisturbed
    <3>7. Handles(h) /\ Knows(h, Tables') /\ ~G!LastWrite(r)
      BY <1>1, <3>1, <3>2, <3>6 DEF Handles, Knows, Tables, Unknowing, G!LastWrite, G!At
    <3>8. \A q \in Requests \ {r} : syncs'[q].fresh => Undisturbed(r)
      BY <3>4, <3>6
    <3> QED BY <1>1, <3>1, <3>2, <3>4, <3>5, <3>7, <3>8, Loudly
  <2>2. CASE syncs[r].list \cap kept # {}
    <3>1. /\ G!Becomes(r, G!Idle) /\ UNCHANGED <<rows, local, warned>> /\ ~G!LastWrite(r)
      BY <1>4, <2>2 DEF G!SyncRepositories, G!Ends, G!LastWrite, G!At
    <3> QED BY <1>1, <3>1, IdleSyncer, Quietly DEF Handles, Knows, Tables
  <2> QED BY <2>1, <2>2
<1>5. CASE G!ClearWarnings(r)
  <2>1. /\ syncs[r].at = "clear" /\ UNCHANGED <<local, rows>>
        /\ warned' = {p \in warned : ~(RepositoriesOf[p] \subseteq rows)}
        /\ G!WritesAndGoes(r, G!AfterSync(r))
    BY <1>5 DEF G!ClearWarnings, G!ClearProjectAccessWarnings, G!Granted, G!At
  <2>2. /\ G!AfterSync(r) \in {"access", "warn", "again", "idle"}
        /\ G!AfterSync(r) = "warn" => syncs[r].kind = "hook" /\ syncs[r].hook.event = "removed"
    BY DEF G!AfterSync
  <2>3. /\ Agreed(r) /\ warned' \subseteq warned /\ (syncs[r].fresh => local' = "active")
        /\ UNCHANGED <<local, rows>>
    BY <1>1, <2>1 DEF Knows, Tables, Agreed, G!At
  <2>4. CASE G!AfterSync(r) = "idle"
    BY <1>1, <1>2, <2>1, <2>3, <2>4, IdleSyncer DEF G!WritesAndGoes, G!Proceeded, Handles, Knows, Tables
  <2>5. CASE G!AfterSync(r) # "idle"
    <3> DEFINE at == G!AfterSync(r)
               h == [syncs[r] EXCEPT !.at = at]
    <3>1. /\ h \in Syncer /\ h.at = at /\ h.kind = syncs[r].kind /\ h.hook = syncs[r].hook
          /\ h.fresh = syncs[r].fresh
      <4>1. at \in AccessPlaces
        BY <2>2 DEF AccessPlaces
      <4> QED BY <4>1, SyncGoes
    <3>2. G!Writes(r, h)
      BY <2>1, <2>5 DEF G!WritesAndGoes, G!Proceeded
    <3> HIDE DEF h, at
    <3>3. Handles(h)
      BY <1>1, <2>2, <3>1 DEF Handles, at
    <3>4. Knows(h, Tables')
      BY <1>1, <2>1, <2>2, <3>1 DEF Knows, Tables, Unknowing, at
    <3> QED BY <1>1, <1>2, <2>1, <2>3, <3>1, <3>2, <3>3, <3>4
  <2> QED BY <2>4, <2>5
<1>6. CASE G!WarnRemoved(r)
  <2>1. /\ syncs[r].at = "warn" /\ UNCHANGED <<local, rows>>
        /\ warned' = warned \cup G!Concerned(r)
        /\ syncs' = [q \in Requests |->
             IF q = r THEN G!Idle ELSE [syncs[q] EXCEPT !.fresh = FALSE]]
    BY <1>6 DEF G!WarnRemoved, G!At
  <2>2. ASSUME NEW q \in Requests
        PROVE  LET g == [syncs[q] EXCEPT !.fresh = FALSE] IN
               /\ g \in Syncer /\ g.at = syncs[q].at /\ g.kind = syncs[q].kind
               /\ g.hook = syncs[q].hook /\ g.suspended = syncs[q].suspended
               /\ g.list = syncs[q].list /\ ~g.fresh
    BY DEF AccessInv, AccessTypes, Syncer
  <2>3. /\ syncs' \in [Requests -> Syncer] /\ syncs'[r] = G!Idle /\ Follow(r)
        /\ \A q \in Requests \ {r} : ~syncs'[q].fresh
    BY <2>1, <2>2, IdleSyncer DEF Follow
  <2>4. Agreed(r)
    BY <1>1, <2>1 DEF Knows, Tables, Agreed, G!At
  <2>5. Handles(G!Idle) /\ Knows(G!Idle, Tables')
    BY IdleSyncer DEF Handles, Knows
  <2> QED BY <1>1, <2>1, <2>3, <2>4, <2>5, IdleSyncer, Loudly
<1>7. CASE G!ClearAgain(r)
  <2>1. /\ syncs[r].at = "again" /\ UNCHANGED <<local, rows>> /\ G!Writes(r, G!Idle)
        /\ warned' = {p \in warned : ~(RepositoriesOf[p] \subseteq rows)}
    BY <1>7 DEF G!ClearAgain, G!ClearProjectAccessWarnings, G!Granted, G!At
  <2>2. /\ Agreed(r) /\ warned' \subseteq warned /\ (syncs[r].fresh => local' = "active")
    BY <1>1, <2>1 DEF Knows, Tables, Agreed, G!At
  <2> QED BY <1>1, <1>2, <2>1, <2>2, IdleSyncer DEF Handles, Knows, Tables
<1>8. CASE G!MarkSuspended(r)
  <2> DEFINE h == [syncs[r] EXCEPT !.at = "find"]
  <2>1. /\ h \in Syncer /\ h.at = "find" /\ h.kind = syncs[r].kind /\ h.hook = syncs[r].hook
        /\ h.fresh = syncs[r].fresh
    BY SyncGoes DEF AccessPlaces
  <2>2. G!Writes(r, h) /\ ~G!LastWrite(r) /\ UNCHANGED <<rows, warned>>
    BY <1>8 DEF G!MarkSuspended, G!WritesAndGoes, G!Proceeded, G!LastWrite, G!At
  <2>3. local' \in {"absent", "active", "suspended"}
    BY <1>1, <1>8 DEF G!MarkSuspended
  <2> HIDE DEF h
  <2>4. ~syncs[r].fresh
    BY <1>1, <1>8 DEF Knows, Unknowing, G!MarkSuspended, G!At
  <2>5. Handles(h) /\ Knows(h, Tables')
    BY <1>1, <2>1, <2>4 DEF Handles, Knows, Tables
  <2> QED BY <1>1, <1>2, <2>1, <2>2, <2>3, <2>4, <2>5
<1>9. CASE G!WarnAll(r)
  <2>1. G!Writes(r, G!Idle) /\ ~G!LastWrite(r) /\ UNCHANGED <<local, rows>>
    BY <1>9 DEF G!WarnAll, G!LastWrite, G!At
  <2>2. ~syncs[r].fresh
    BY <1>1, <1>9 DEF Knows, Unknowing, G!WarnAll, G!At
  <2> QED BY <1>1, <1>2, <2>1, <2>2, IdleSyncer DEF Handles, Knows, Tables
<1> QED BY <1>3, <1>4, <1>5, <1>6, <1>7, <1>8, <1>9

LEMMA AccessStep ==
    ASSUME AccessInv, G!Next
    PROVE  AccessInv' /\ G!AgreeingStep
<1>1. ASSUME NEW r \in Requests,
             \/ G!Webhook(r) \/ G!SyncNow(r) \/ G!InstallCallback(r) \/ G!Picker(r)
             \/ G!Step(r) \/ G!Killed(r)
      PROVE  AccessInv' /\ G!AgreeingStep
  BY <1>1, SyncReads, SyncWrites DEF G!Step
<1> QED BY <1>1, GitHubChanges DEF G!Next

LEMMA AccessStarts == G!Init => AccessInv
<1> SUFFICES ASSUME G!Init PROVE AccessInv
  OBVIOUS
<1>1. /\ remote \in [is : {"active", "suspended", "deleted"}, granted : SUBSET Repositories]
      /\ local = "absent" /\ rows = {}
  BY DEF G!Init
<1>2. hooks \subseteq G!Hooks
  BY DEF G!Init, G!Hooks
<1>3. syncs \in [Requests -> Syncer] /\ \A r \in Requests : syncs[r] = G!Idle
  BY IdleSyncer DEF G!Init
<1>4. \A r \in Requests : Handles(syncs[r]) /\ Knows(syncs[r], Tables)
  BY <1>3, IdleSyncer DEF Handles, Knows, Tables
<1> QED BY <1>1, <1>2, <1>3, <1>4 DEF AccessInv, AccessTypes

-----------------------------------------------------------------------------
(* Extensions: an object is never removed, so that a file row may be flipped  *)
(* to name it, or committed, as soon as it was written once under the id that *)
(* the row has.  What a handler has still to write is in `todo`.              *)

Revision == [Paths -> Contents \cup {None}]
Uploaded(bundle) ==
    \E sub \in Submissions : E!ValidateExtensionBundle(sub) /\ bundle = E!Bundle(sub)

UploadPlaces == {"find", "put", "insert", "reput", "commit"}
ReadPlaces == {"list", "files", "read", "check", "answered"}
Extension == [id : ExtensionIds \cup {None}, bundle : Revision \cup {<<>>}, active : BOOLEAN]
FileStored == [in : {"object", "postgres", None}, content : Contents \cup {None}]
Listed == [slug : Slugs, id : ExtensionIds \cup {None}, digest : Revision \cup {<<>>}]
GivenFiles == [slug : Slugs \cup {None}, files : Revision]
Loader ==
    [at : UploadPlaces \cup ReadPlaces \cup {"idle", "move", "flip"}, bucket : BOOLEAN,
     slug : Slugs \cup {None}, bundle : Revision, id : ExtensionIds \cup {None},
     todo : SUBSET Paths, path : Paths \cup {None}, rows : SUBSET Listed,
     given : SUBSET GivenFiles, alone : BOOLEAN]

ExtensionTypes ==
    /\ bucket \in BOOLEAN /\ ext \in [Slugs -> Extension]
    /\ files \in [Slugs -> [Paths -> FileStored]]
    /\ objects \in [ExtensionIds -> Revision]
    /\ loads \in [Requests -> Loader]

RowSound(e) == e # E!NoExtension => e.id \in ExtensionIds /\ Uploaded(e.bundle)

\* A file of extension e, of which the bucket holds os.
FileSound(f, p, e, os) ==
    /\ f.in \in {"object", "postgres"} => e.id \in ExtensionIds
    /\ f.in = "object" => os[e.id][p] # None
    /\ f.in = "postgres" => f.content # None

\* Where a handler is, these files of its bundle are in the bucket under its id.
WrittenBy(h) ==
    {p \in Paths :
        \/ h.at \in {"put", "reput"} /\ p \in E!Has(h.bundle) \ h.todo
        \/ h.at \in {"insert", "commit"} /\ h.bucket /\ p \in E!Has(h.bundle)
        \/ h.at = "flip" /\ p = h.path}

LoaderSound(h, os) ==
    /\ h.at \in UploadPlaces => h.slug \in Slugs /\ Uploaded(h.bundle)
    /\ h.at \in (UploadPlaces \ {"find"}) \cup {"move", "flip"} => h.id \in ExtensionIds
    /\ h.at \in {"put", "reput"} => h.bucket
    /\ h.at \in {"move", "flip"} => h.slug \in Slugs
    /\ h.at \in {"put", "reput", "move", "flip"} => \A p \in h.todo : h.bundle[p] # None
    /\ h.at = "flip" => h.path \in Paths
    /\ \A p \in WrittenBy(h) : os[h.id][p] # None
    /\ h.at = "read" /\ h.todo # {} => h.id \in ExtensionIds
    /\ h.at \in ReadPlaces => \A row \in h.rows : Uploaded(row.digest)
    /\ h.at = "answered" => \A g \in h.given : Uploaded(g.files)

ExtensionsInv ==
    /\ ExtensionTypes
    /\ \A s \in Slugs : RowSound(ext[s]) /\ \A p \in Paths : FileSound(files[s][p], p, ext[s], objects)
    /\ \A r \in Requests : LoaderSound(loads[r], objects)

LEMMA ExtensionFacts ==
    /\ E!Idle \in Loader /\ E!Idle.at = "idle" /\ \A os : LoaderSound(E!Idle, os)
    /\ E!NoExtension \in Extension /\ E!NoExtension.active = FALSE
    /\ E!NoFile \in FileStored /\ E!Absent \in [Paths -> FileStored]
    /\ E!NoFile.in \notin {"object", "postgres"} /\ E!NoContent \in Revision
<1>1. None \notin {"object", "postgres"}
  BY ConstantsAssumption DEF E!ExtensionsAssumption
<1>2. E!NoContent \in Revision
  BY DEF E!NoContent, Revision
<1>3. E!Idle \in Loader /\ E!Idle.at = "idle"
  BY <1>2 DEF E!Idle, Loader
<1>4. \A os : LoaderSound(E!Idle, os)
  BY <1>3 DEF LoaderSound, WrittenBy, UploadPlaces, ReadPlaces
<1>5. E!NoExtension \in Extension /\ E!NoExtension.active = FALSE
  BY DEF E!NoExtension, Extension
<1>6. E!NoFile \in FileStored /\ E!Absent \in [Paths -> FileStored] /\ E!NoFile.in = None
  BY DEF E!NoFile, FileStored, E!Absent
<1> QED BY <1>1, <1>2, <1>3, <1>4, <1>5, <1>6

LEMMA BundleIsRevision ==
    ASSUME NEW sub \in Submissions, E!ValidateExtensionBundle(sub)
    PROVE  E!Bundle(sub) \in Revision
<1>1. ASSUME NEW p \in E!PathsOf(sub)
      PROVE  (CHOOSE f \in E!Range(sub.files) : f.path = p).content \in Contents
  <2>1. PICK i \in DOMAIN sub.files : sub.files[i].path = p
    BY DEF E!PathsOf
  <2>2. \E f \in E!Range(sub.files) : f.path = p
    BY <2>1 DEF E!Range
  <2>3. \A f \in E!Range(sub.files) : f.content \in Contents
    BY DEF E!Range, E!ValidateExtensionBundle
  <2> QED BY <2>2, <2>3
<1> QED BY <1>1 DEF E!Bundle, Revision

\* Handler r becomes h; another may not be alone any more, which only RevisionWhole
\* is about.
Turned(r, h) ==
    /\ loads' \in [Requests -> Loader] /\ loads'[r] = h
    /\ \A q \in Requests \ {r} :
         \E alone \in {loads[q].alone, FALSE} : loads'[q] = [loads[q] EXCEPT !.alone = alone]

LEMMA AloneSound ==
    ASSUME NEW h \in Loader, NEW alone \in BOOLEAN, NEW os
    PROVE  LET g == [h EXCEPT !.alone = alone] IN
           /\ g \in Loader
           /\ WrittenBy(g) = WrittenBy(h) /\ (LoaderSound(h, os) => LoaderSound(g, os))
<1> DEFINE g == [h EXCEPT !.alone = alone]
<1>1. /\ g \in Loader /\ g.at = h.at /\ g.bucket = h.bucket /\ g.slug = h.slug /\ g.id = h.id
      /\ g.bundle = h.bundle /\ g.todo = h.todo /\ g.path = h.path /\ g.rows = h.rows
      /\ g.given = h.given
  BY DEF Loader
<1> HIDE DEF g
<1>2. WrittenBy(g) = WrittenBy(h)
  BY <1>1 DEF WrittenBy
<1>3. LoaderSound(h, os) => LoaderSound(g, os)
  BY <1>1, <1>2 DEF LoaderSound
<1> QED BY <1>1, <1>2, <1>3 DEF g

LEMMA BecomesTurns ==
    ASSUME ExtensionsInv, NEW r \in Requests, NEW h \in Loader, E!Becomes(r, h)
    PROVE  Turned(r, h) /\ \A q \in Requests \ {r} : loads'[q] = loads[q]
<1>1. \A q \in Requests : [loads[q] EXCEPT !.alone = loads[q].alone] = loads[q]
  BY DEF ExtensionsInv, ExtensionTypes, Loader
<1> QED BY <1>1 DEF Turned, ExtensionsInv, ExtensionTypes, E!Becomes

LEMMA WritesTurns ==
    ASSUME ExtensionsInv, NEW r \in Requests, NEW h \in Loader, E!Writes(r, h)
    PROVE  /\ Turned(r, h)
           /\ \A q \in Requests \ {r} : loads'[q].alone => loads[q].alone /\ loads[q].id # loads[r].id
<1>1. ASSUME NEW q \in Requests
      PROVE  LET g == [loads[q] EXCEPT !.alone = @ /\ loads[q].id # loads[r].id] IN
             /\ g \in Loader
             /\ g.alone = (loads[q].alone /\ loads[q].id # loads[r].id)
             /\ \E alone \in {loads[q].alone, FALSE} : g = [loads[q] EXCEPT !.alone = alone]
  <2>1. loads[q] \in Loader
    BY DEF ExtensionsInv, ExtensionTypes
  <2> DEFINE v == loads[q].alone /\ loads[q].id # loads[r].id
  <2>2. v \in BOOLEAN /\ v \in {loads[q].alone, FALSE}
    BY <2>1 DEF Loader
  <2> HIDE DEF v
  <2>3. LET g == [loads[q] EXCEPT !.alone = v] IN g \in Loader /\ g.alone = v
    BY <2>1, <2>2 DEF Loader
  <2>4. [loads[q] EXCEPT !.alone = @ /\ loads[q].id # loads[r].id] = [loads[q] EXCEPT !.alone = v]
    BY DEF v
  <2> QED BY <2>2, <2>3, <2>4 DEF v
<1> QED BY <1>1 DEF Turned, E!Writes

\* Handler r becomes h, and no object is removed.
LEMMA LoaderMoves ==
    ASSUME ExtensionsInv, NEW r \in Requests, NEW h \in Loader, Turned(r, h),
           UNCHANGED <<bucket, ext, files>>, objects' \in [ExtensionIds -> Revision],
           \A i \in ExtensionIds, p \in Paths : objects[i][p] # None => objects'[i][p] # None,
           LoaderSound(h, objects')
    PROVE  ExtensionsInv'
<1>1. ExtensionTypes'
  BY DEF ExtensionsInv, ExtensionTypes, Turned
<1>2. ASSUME NEW s \in Slugs
      PROVE  /\ RowSound(ext[s])'
             /\ \A p \in Paths : FileSound(files[s][p], p, ext[s], objects)'
  BY DEF ExtensionsInv, RowSound, FileSound
<1>3. ASSUME NEW q \in Requests \ {r} PROVE LoaderSound(loads'[q], objects')
  <2>1. LoaderSound(loads[q], objects) /\ loads[q] \in Loader /\ loads[q].alone \in BOOLEAN
    BY DEF ExtensionsInv, ExtensionTypes, Loader
  <2>2. WrittenBy(loads[q]) \subseteq Paths
    BY <2>1 DEF WrittenBy, LoaderSound, Loader, E!Has
  <2>3. WrittenBy(loads[q]) # {} => loads[q].id \in ExtensionIds
    BY <2>1 DEF WrittenBy, LoaderSound, UploadPlaces
  <2>4. LoaderSound(loads[q], objects')
    BY <2>1, <2>2, <2>3 DEF LoaderSound
  <2>5. PICK alone \in BOOLEAN : loads'[q] = [loads[q] EXCEPT !.alone = alone]
    BY <2>1 DEF Turned
  <2> QED BY <2>1, <2>4, <2>5, AloneSound
<1> QED BY <1>1, <1>2, <1>3 DEF ExtensionsInv, Turned

\* Handler r becomes h and nothing is written.
LEMMA LoaderReads ==
    ASSUME ExtensionsInv, NEW r \in Requests, NEW h \in Loader, E!Becomes(r, h),
           UNCHANGED <<bucket, ext, files, objects>>, LoaderSound(h, objects)
    PROVE  ExtensionsInv'
BY LoaderMoves, BecomesTurns DEF ExtensionsInv, ExtensionTypes

LEMMA UploadBegins ==
    ASSUME ExtensionsInv, NEW r \in Requests, E!Upload(r)
    PROVE  ExtensionsInv'
<1>1. PICK s \in Slugs, sub \in Submissions :
        /\ E!ValidateExtensionBundle(sub)
        /\ E!Becomes(r, [E!Idle EXCEPT !.at = "find", !.slug = s, !.bundle = E!Bundle(sub),
                                       !.bucket = bucket])
  BY DEF E!Upload
<1> DEFINE h == [E!Idle EXCEPT !.at = "find", !.slug = s, !.bundle = E!Bundle(sub),
                               !.bucket = bucket]
<1>2. E!Bundle(sub) \in Revision /\ bucket \in BOOLEAN
  BY <1>1, BundleIsRevision DEF ExtensionsInv, ExtensionTypes
<1>3. /\ h \in Loader /\ h.at = "find" /\ h.slug = s /\ h.bundle = E!Bundle(sub)
  BY <1>2, ExtensionFacts DEF Loader, UploadPlaces
<1> HIDE DEF h
<1>4. Uploaded(h.bundle)
  BY <1>1, <1>3 DEF Uploaded
<1>5. LoaderSound(h, objects)
  BY <1>3, <1>4 DEF LoaderSound, WrittenBy, UploadPlaces, ReadPlaces
<1> QED BY <1>1, <1>3, <1>5, LoaderReads DEF E!Upload, E!stored, h

LEMMA IdFound ==
    ASSUME ExtensionsInv, NEW r \in Requests, E!FindIdBySlug(r)
    PROVE  ExtensionsInv'
<1>1. PICK i \in ExtensionIds :
        E!Becomes(r, [loads[r] EXCEPT !.id = i,
             !.at = IF loads[r].bucket THEN "put" ELSE "insert",
             !.todo = E!Has(loads[r].bundle), !.alone = TRUE])
  BY DEF E!FindIdBySlug
<1> DEFINE h == [loads[r] EXCEPT !.id = i,
                    !.at = IF loads[r].bucket THEN "put" ELSE "insert",
                    !.todo = E!Has(loads[r].bundle), !.alone = TRUE]
<1>2. loads[r] \in Loader /\ loads[r].at = "find" /\ LoaderSound(loads[r], objects)
  BY DEF ExtensionsInv, ExtensionTypes, E!FindIdBySlug, E!At
<1>3. /\ h \in Loader /\ h.at = IF loads[r].bucket THEN "put" ELSE "insert"
      /\ h.id = i /\ h.todo = E!Has(h.bundle) /\ h.bundle = loads[r].bundle
      /\ h.bucket = loads[r].bucket /\ h.slug = loads[r].slug
  BY <1>2 DEF Loader, UploadPlaces, E!Has
<1> HIDE DEF h
<1>4. LoaderSound(h, objects)
  BY <1>2, <1>3 DEF LoaderSound, WrittenBy, UploadPlaces, ReadPlaces, E!Has
<1> QED BY <1>1, <1>3, <1>4, LoaderReads DEF E!FindIdBySlug, E!stored, h

\* One more file of the bundle is in the bucket.
LEMMA ObjectPut ==
    ASSUME ExtensionsInv, NEW i \in ExtensionIds, NEW p \in Paths, NEW c \in Contents \cup {None},
           c # None, objects' = [objects EXCEPT ![i][p] = c]
    PROVE  /\ objects' \in [ExtensionIds -> Revision] /\ objects'[i][p] # None
           /\ \A j \in ExtensionIds, q \in Paths : objects[j][q] # None => objects'[j][q] # None
BY DEF ExtensionsInv, ExtensionTypes, Revision

LEMMA OnePut ==
    ASSUME ExtensionsInv, NEW r \in Requests, NEW next \in {"insert", "commit"},
           loads[r].at \in {"put", "reput"}, E!PutOne(r, next)
    PROVE  ExtensionsInv'
<1>1. PICK p \in loads[r].todo :
        /\ objects' = [objects EXCEPT ![loads[r].id][p] = loads[r].bundle[p]]
        /\ E!Writes(r, [loads[r] EXCEPT !.todo = @ \ {p},
                           !.at = IF loads[r].todo = {p} THEN next ELSE @])
  BY DEF E!PutOne
<1> DEFINE h == [loads[r] EXCEPT !.todo = @ \ {p},
                    !.at = IF loads[r].todo = {p} THEN next ELSE @]
<1>2. /\ loads[r] \in Loader /\ LoaderSound(loads[r], objects)
      /\ loads[r].id \in ExtensionIds /\ loads[r].bucket /\ p \in Paths
      /\ loads[r].bundle[p] \in Contents \cup {None}
  BY DEF ExtensionsInv, ExtensionTypes, LoaderSound, UploadPlaces, Loader, Revision
<1>3. loads[r].bundle[p] # None
  BY <1>2 DEF LoaderSound, E!Has
<1>4. /\ h \in Loader /\ h.at = IF loads[r].todo = {p} THEN next ELSE loads[r].at
      /\ h.id = loads[r].id /\ h.todo = loads[r].todo \ {p} /\ h.bundle = loads[r].bundle
      /\ h.bucket = loads[r].bucket /\ h.slug = loads[r].slug
  BY <1>2 DEF Loader, UploadPlaces
<1>5. /\ objects' \in [ExtensionIds -> Revision] /\ objects'[loads[r].id][p] # None
      /\ \A j \in ExtensionIds, q \in Paths : objects[j][q] # None => objects'[j][q] # None
  BY <1>1, <1>2, <1>3, ObjectPut
<1> HIDE DEF h
<1>6. \A q \in WrittenBy(h) : q = p \/ q \in WrittenBy(loads[r])
  BY <1>2, <1>4 DEF WrittenBy
<1>7. LoaderSound(h, objects')
  BY <1>2, <1>4, <1>5, <1>6 DEF LoaderSound, WrittenBy, UploadPlaces, ReadPlaces
<1>8. Turned(r, h)
  BY <1>1, <1>4, WritesTurns DEF h
<1> QED BY <1>4, <1>5, <1>7, <1>8, LoaderMoves DEF E!PutOne

LEMMA RowUpserted ==
    ASSUME ExtensionsInv, NEW r \in Requests, E!UpsertExtension(r)
    PROVE  ExtensionsInv'
<1> DEFINE s == loads[r].slug
           saved == IF E!Stored(s) THEN ext[s].id ELSE loads[r].id
           h == [loads[r] EXCEPT !.id = saved, !.todo = E!Has(loads[r].bundle),
                    !.alone = @ \/ saved # loads[r].id,
                    !.at = E!AfterUpsert(loads[r].id, saved, loads[r].bucket)]
<1>1. E!Becomes(r, h) /\ UNCHANGED <<bucket, ext, files, objects>>
  BY DEF E!UpsertExtension, E!stored
<1>2. /\ loads[r] \in Loader /\ LoaderSound(loads[r], objects) /\ loads[r].at = "insert"
      /\ loads[r].id \in ExtensionIds /\ s \in Slugs
  BY DEF ExtensionsInv, ExtensionTypes, LoaderSound, UploadPlaces, E!UpsertExtension, E!At
<1>3. saved \in ExtensionIds
  BY <1>2 DEF ExtensionsInv, RowSound, E!Stored
<1> HIDE DEF saved
<1>4. /\ h \in Loader
      /\ h.at = IF loads[r].bucket /\ loads[r].id # saved THEN "reput" ELSE "commit"
      /\ h.id = saved /\ h.todo = E!Has(h.bundle) /\ h.bundle = loads[r].bundle
      /\ h.bucket = loads[r].bucket /\ h.slug = loads[r].slug
  BY <1>2, <1>3 DEF Loader, UploadPlaces, E!Has, E!AfterUpsert
<1> HIDE DEF h
<1>5. LoaderSound(h, objects)
  BY <1>2, <1>3, <1>4 DEF LoaderSound, WrittenBy, UploadPlaces, ReadPlaces, E!Has
<1> QED BY <1>1, <1>4, <1>5, LoaderReads

LEMMA RowsCommitted ==
    ASSUME ExtensionsInv, NEW r \in Requests, E!CommitRows(r)
    PROVE  ExtensionsInv'
<1> DEFINE s == loads[r].slug
           bundle == loads[r].bundle
           e == [id |-> loads[r].id, bundle |-> bundle, active |-> TRUE]
<1>1. /\ ext' = [ext EXCEPT ![s] = e]
      /\ files' = [files EXCEPT ![s] = E!ReplacedFiles(s, bundle, loads[r].bucket)]
      /\ E!Writes(r, E!Idle) /\ UNCHANGED <<bucket, objects>>
  BY DEF E!CommitRows
<1>2. /\ loads[r] \in Loader /\ LoaderSound(loads[r], objects) /\ loads[r].at = "commit"
      /\ loads[r].id \in ExtensionIds /\ s \in Slugs /\ Uploaded(bundle) /\ bundle \in Revision
      /\ loads[r].bucket \in BOOLEAN
  BY DEF ExtensionsInv, ExtensionTypes, LoaderSound, UploadPlaces, Loader, E!CommitRows, E!At
<1>3. e \in Extension /\ RowSound(e)
  BY <1>2 DEF Extension, RowSound
<1>4. ASSUME NEW p \in Paths
      PROVE  /\ E!FileRow(bundle[p], loads[r].bucket) \in FileStored
             /\ FileSound(E!FileRow(bundle[p], loads[r].bucket), p, e, objects)
  <2>1. bundle[p] \in Contents \cup {None}
    BY <1>2 DEF Revision
  <2>2. E!FileRow(bundle[p], loads[r].bucket) \in FileStored
    BY <2>1, ExtensionFacts DEF E!FileRow, FileStored
  <2>3. bundle[p] # None /\ loads[r].bucket => objects[loads[r].id][p] # None
    BY <1>2 DEF LoaderSound, WrittenBy, E!Has
  <2>4. FileSound(E!FileRow(bundle[p], loads[r].bucket), p, e, objects)
    BY <1>2, <2>3, ExtensionFacts DEF FileSound, E!FileRow
  <2> QED BY <2>2, <2>4
<1> HIDE DEF e
<1>5. Turned(r, E!Idle)
  BY <1>1, ExtensionFacts, WritesTurns
<1>6. ExtensionTypes'
  BY <1>1, <1>2, <1>3, <1>4, <1>5
    DEF ExtensionsInv, ExtensionTypes, E!ReplacedFiles, Turned
<1>7. ASSUME NEW t \in Slugs
      PROVE  /\ RowSound(ext[t])'
             /\ \A p \in Paths : FileSound(files[t][p], p, ext[t], objects)'
  <2>1. CASE t = s
    <3>1. ext'[t] = e /\ \A p \in Paths : files'[t][p] = E!FileRow(bundle[p], loads[r].bucket)
      BY <1>1, <1>2, <2>1 DEF ExtensionsInv, ExtensionTypes, E!ReplacedFiles
    <3> QED BY <1>1, <1>3, <1>4, <3>1
  <2>2. CASE t # s
    <3>1. ext'[t] = ext[t] /\ files'[t] = files[t]
      BY <1>1, <2>2 DEF ExtensionsInv, ExtensionTypes
    <3> QED BY <1>1, <3>1 DEF ExtensionsInv
  <2> QED BY <2>1, <2>2
<1>8. ASSUME NEW q \in Requests PROVE LoaderSound(loads'[q], objects')
  <2>1. CASE q = r
    BY <1>5, <2>1, ExtensionFacts DEF Turned
  <2>2. CASE q # r
    <3>1. loads[q] \in Loader /\ LoaderSound(loads[q], objects) /\ loads[q].alone \in BOOLEAN
      BY DEF ExtensionsInv, ExtensionTypes, Loader
    <3>2. PICK alone \in BOOLEAN : loads'[q] = [loads[q] EXCEPT !.alone = alone]
      BY <1>5, <2>2, <3>1 DEF Turned
    <3> QED BY <1>1, <3>1, <3>2, AloneSound
  <2> QED BY <2>1, <2>2
<1> QED BY <1>6, <1>7, <1>8 DEF ExtensionsInv

LEMMA UploadSteps ==
    ASSUME ExtensionsInv, NEW r \in Requests, E!UploadStep(r)
    PROVE  ExtensionsInv'
<1>1. CASE E!UploadFails(r)
  BY <1>1, ExtensionFacts, LoaderReads DEF E!UploadFails, E!Ends, E!stored
<1>2. CASE E!PutObject(r) \/ E!PutObjectAgain(r)
  BY <1>2, OnePut DEF E!PutObject, E!PutObjectAgain, E!At
<1> QED BY <1>1, <1>2, IdFound, RowUpserted, RowsCommitted DEF E!UploadStep

\* The kill switch and the removal.
LEMMA ExtensionSwitched ==
    ASSUME ExtensionsInv, NEW s \in Slugs, E!SetActive(s) \/ E!RemoveExtension(s)
    PROVE  ExtensionsInv'
<1> DEFINE off == [ext[s] EXCEPT !.active = ~@]
<1>1. /\ UNCHANGED <<bucket, objects, loads>>
      /\ \/ E!Stored(s) /\ ext' = [ext EXCEPT ![s] = off] /\ UNCHANGED files
         \/ /\ ext' = [ext EXCEPT ![s] = E!NoExtension]
            /\ files' = [files EXCEPT ![s] = E!Absent]
  BY DEF E!SetActive, E!RemoveExtension
<1>2. ext[s] \in Extension /\ RowSound(ext[s])
  BY DEF ExtensionsInv, ExtensionTypes
<1>3. off \in Extension /\ off.id = ext[s].id /\ off.bundle = ext[s].bundle
  BY <1>2 DEF Extension
<1> HIDE DEF off
<1>4. ExtensionTypes'
  BY <1>1, <1>3, ExtensionFacts DEF ExtensionsInv, ExtensionTypes
<1>5. E!Stored(s) => RowSound(off)
  BY <1>2, <1>3 DEF RowSound, E!Stored
<1>6. RowSound(E!NoExtension)
  BY DEF RowSound
<1>7. ASSUME NEW t \in Slugs
      PROVE  /\ RowSound(ext[t])'
             /\ \A p \in Paths : FileSound(files[t][p], p, ext[t], objects)'
  <2>1. CASE t # s
    <3>1. ext'[t] = ext[t] /\ files'[t] = files[t]
      BY <1>1, <2>1 DEF ExtensionsInv, ExtensionTypes
    <3> QED BY <1>1, <3>1 DEF ExtensionsInv
  <2>2. CASE t = s /\ E!Stored(s) /\ ext' = [ext EXCEPT ![s] = off] /\ UNCHANGED files
    <3>1. ext'[t] = off /\ files'[t] = files[t]
      BY <2>2 DEF ExtensionsInv, ExtensionTypes
    <3> QED BY <1>1, <1>3, <1>5, <2>2, <3>1 DEF ExtensionsInv, FileSound
  <2>3. CASE t = s /\ ext' = [ext EXCEPT ![s] = E!NoExtension]
                  /\ files' = [files EXCEPT ![s] = E!Absent]
    <3>1. ext'[t] = E!NoExtension /\ \A p \in Paths : files'[t][p] = E!NoFile
      BY <2>3 DEF ExtensionsInv, ExtensionTypes, E!Absent
    <3> QED BY <1>1, <1>6, <3>1, ExtensionFacts DEF FileSound
  <2> QED BY <1>1, <2>1, <2>2, <2>3
<1>8. ASSUME NEW q \in Requests PROVE LoaderSound(loads'[q], objects')
  BY <1>1 DEF ExtensionsInv
<1> QED BY <1>4, <1>7, <1>8 DEF ExtensionsInv

\* The next file of a backfill, or its end, while the bucket only gains.
LEMMA MovedSound ==
    ASSUME ExtensionsInv, NEW r \in Requests, NEW p \in Paths, loads[r].at \in {"move", "flip"}
    PROVE  E!Moved(r, p) \in Loader /\ LoaderSound(E!Moved(r, p), objects)
<1> DEFINE h == [loads[r] EXCEPT !.todo = @ \ {p}, !.path = None, !.at = "move"]
<1>1. loads[r] \in Loader /\ LoaderSound(loads[r], objects)
  BY DEF ExtensionsInv, ExtensionTypes
<1>2. /\ h \in Loader /\ h.at = "move" /\ h.todo \subseteq loads[r].todo
      /\ h.bundle = loads[r].bundle /\ h.id = loads[r].id /\ h.slug = loads[r].slug
  BY <1>1 DEF Loader
<1> HIDE DEF h
<1>3. LoaderSound(h, objects)
  BY <1>1, <1>2 DEF LoaderSound, WrittenBy, UploadPlaces, ReadPlaces
<1> QED BY <1>2, <1>3, ExtensionFacts DEF E!Moved, h

LEMMA BackfillBegins ==
    ASSUME ExtensionsInv, NEW r \in Requests, E!BackfillSelects(r)
    PROVE  ExtensionsInv'
<1>1. PICK s \in Slugs :
        LET moving == {p \in Paths : files[s][p].in = "postgres"}
        IN moving # {} /\ E!Becomes(r, [E!Idle EXCEPT !.at = "move", !.slug = s, !.id = ext[s].id,
                            !.todo = moving, !.alone = TRUE,
                            !.bundle = [p \in Paths |-> files[s][p].content]])
  BY DEF E!BackfillSelects
<1> DEFINE moving == {p \in Paths : files[s][p].in = "postgres"}
           bundle == [p \in Paths |-> files[s][p].content]
           h == [E!Idle EXCEPT !.at = "move", !.slug = s, !.id = ext[s].id, !.todo = moving,
                               !.alone = TRUE, !.bundle = bundle]
<1>2. \A p \in Paths : files[s][p] \in FileStored /\ FileSound(files[s][p], p, ext[s], objects)
  BY DEF ExtensionsInv, ExtensionTypes
<1>3. bundle \in Revision /\ \A p \in moving : bundle[p] # None
  BY <1>2 DEF Revision, FileStored, FileSound
<1>4. ext[s].id \in ExtensionIds /\ moving \subseteq Paths
  BY <1>1, <1>2 DEF FileSound
<1> HIDE DEF moving, bundle
<1>5. h \in Loader /\ h.at = "move" /\ h.slug = s /\ h.id = ext[s].id /\ h.todo = moving
      /\ h.bundle = bundle
  BY <1>3, <1>4, ExtensionFacts DEF Loader
<1>6. E!Becomes(r, h)
  BY <1>1 DEF moving, bundle
<1> HIDE DEF h
<1>7. LoaderSound(h, objects)
  BY <1>3, <1>4, <1>5 DEF LoaderSound, WrittenBy, UploadPlaces, ReadPlaces
<1> QED BY <1>5, <1>6, <1>7, LoaderReads DEF E!BackfillSelects, E!stored

LEMMA BackfillObject ==
    ASSUME ExtensionsInv, NEW r \in Requests, E!BackfillPuts(r)
    PROVE  ExtensionsInv'
<1>1. PICK p \in loads[r].todo :
        /\ objects' = [objects EXCEPT ![loads[r].id][p] = loads[r].bundle[p]]
        /\ E!Writes(r, [loads[r] EXCEPT !.at = "flip", !.path = p])
  BY DEF E!BackfillPuts
<1> DEFINE h == [loads[r] EXCEPT !.at = "flip", !.path = p]
<1>2. /\ loads[r] \in Loader /\ LoaderSound(loads[r], objects) /\ loads[r].at = "move"
      /\ loads[r].id \in ExtensionIds /\ p \in Paths
      /\ loads[r].bundle[p] \in Contents \cup {None} /\ loads[r].bundle[p] # None
  BY DEF ExtensionsInv, ExtensionTypes, LoaderSound, UploadPlaces, Loader, Revision,
         E!BackfillPuts, E!At
<1>3. /\ h \in Loader /\ h.at = "flip" /\ h.path = p /\ h.todo = loads[r].todo
      /\ h.bundle = loads[r].bundle /\ h.id = loads[r].id /\ h.slug = loads[r].slug
  BY <1>2 DEF Loader
<1>4. /\ objects' \in [ExtensionIds -> Revision] /\ objects'[loads[r].id][p] # None
      /\ \A j \in ExtensionIds, q \in Paths : objects[j][q] # None => objects'[j][q] # None
  BY <1>1, <1>2, ObjectPut
<1> HIDE DEF h
<1>5. LoaderSound(h, objects')
  BY <1>2, <1>3, <1>4 DEF LoaderSound, WrittenBy, UploadPlaces, ReadPlaces
<1>6. Turned(r, h)
  BY <1>1, <1>3, WritesTurns DEF h
<1> QED BY <1>3, <1>4, <1>5, <1>6, LoaderMoves DEF E!BackfillPuts

LEMMA BackfillFlipped ==
    ASSUME ExtensionsInv, NEW r \in Requests, E!BackfillFlips(r)
    PROVE  ExtensionsInv'
<1> DEFINE s == loads[r].slug
           p == loads[r].path
           f == [in |-> "object", content |-> None]
<1>1. /\ files' = IF ext[s].id = loads[r].id /\ files[s][p].in = "postgres"
                  THEN [files EXCEPT ![s][p] = f] ELSE files
      /\ E!Becomes(r, E!Moved(r, p)) /\ UNCHANGED <<bucket, ext, objects>>
  BY DEF E!BackfillFlips
<1>2. /\ loads[r] \in Loader /\ LoaderSound(loads[r], objects) /\ loads[r].at = "flip"
      /\ loads[r].id \in ExtensionIds /\ s \in Slugs /\ p \in Paths
      /\ objects[loads[r].id][p] # None
  BY DEF ExtensionsInv, ExtensionTypes, LoaderSound, WrittenBy, E!BackfillFlips, E!At
<1>3. E!Moved(r, p) \in Loader /\ LoaderSound(E!Moved(r, p), objects)
  BY <1>2, MovedSound
<1>4. f \in FileStored
  BY DEF FileStored
<1>5. ExtensionTypes'
  BY <1>1, <1>2, <1>3, <1>4 DEF ExtensionsInv, ExtensionTypes, E!Becomes
<1>6. ASSUME NEW t \in Slugs, NEW q \in Paths
      PROVE  FileSound(files'[t][q], q, ext[t], objects)
  <2>1. FileSound(files[t][q], q, ext[t], objects)
    BY DEF ExtensionsInv
  <2>2. \/ files'[t][q] = files[t][q]
        \/ t = s /\ q = p /\ ext[s].id = loads[r].id /\ files'[t][q] = f
    BY <1>1 DEF ExtensionsInv, ExtensionTypes
  <2>3. ext[s].id = loads[r].id => FileSound(f, p, ext[s], objects)
    BY <1>2 DEF FileSound
  <2> QED BY <2>1, <2>2, <2>3
<1>7. ASSUME NEW q \in Requests PROVE LoaderSound(loads'[q], objects)
  BY <1>1, <1>3 DEF ExtensionsInv, ExtensionTypes, E!Becomes
<1> QED BY <1>1, <1>5, <1>6, <1>7 DEF ExtensionsInv

LEMMA BackfillSteps ==
    ASSUME ExtensionsInv, NEW r \in Requests, E!BackfillSelects(r) \/ E!BackfillStep(r)
    PROVE  ExtensionsInv'
<1>1. CASE E!BackfillPutFails(r)
  <2>1. PICK p \in loads[r].todo : E!Becomes(r, E!Moved(r, p))
    BY <1>1 DEF E!BackfillPutFails
  <2>2. p \in Paths /\ loads[r].at \in {"move", "flip"}
    BY <1>1 DEF E!BackfillPutFails, E!At, ExtensionsInv, ExtensionTypes, Loader
  <2>3. E!Moved(r, p) \in Loader /\ LoaderSound(E!Moved(r, p), objects)
    BY <2>2, MovedSound
  <2> QED BY <1>1, <2>1, <2>3, LoaderReads DEF E!BackfillPutFails, E!stored
<1> QED BY <1>1, BackfillBegins, BackfillObject, BackfillFlipped DEF E!BackfillStep

(* A delivery keeps what it listed, and answers with it or not at all. *)

LEMMA DeliveryKeeps ==
    ASSUME ExtensionsInv, NEW r \in Requests, NEW h \in Loader, E!Becomes(r, h),
           UNCHANGED <<bucket, ext, files, objects>>,
           h.at \in ReadPlaces \ {"answered"}, \A row \in h.rows : Uploaded(row.digest),
           h.at = "read" /\ h.todo # {} => h.id \in ExtensionIds
    PROVE  ExtensionsInv'
<1>1. LoaderSound(h, objects)
  BY DEF LoaderSound, WrittenBy, UploadPlaces, ReadPlaces
<1> QED BY <1>1, LoaderReads

LEMMA DeliveryBegins ==
    ASSUME ExtensionsInv, NEW r \in Requests, E!Deliver(r)
    PROVE  ExtensionsInv'
<1> DEFINE h == [E!Idle EXCEPT !.at = "list", !.bucket = bucket]
<1>1. h \in Loader /\ h.at = "list" /\ h.rows = {}
  BY ExtensionFacts DEF Loader, ReadPlaces, ExtensionsInv, ExtensionTypes, E!Idle
<1> QED BY <1>1, DeliveryKeeps DEF E!Deliver, E!stored, ReadPlaces

LEMMA DeliveryLists ==
    ASSUME ExtensionsInv, NEW r \in Requests, E!ListActive(r)
    PROVE  ExtensionsInv'
<1> DEFINE listed == {[slug |-> s, id |-> ext[s].id, digest |-> ext[s].bundle] :
                        s \in {t \in Slugs : ext[t].active}}
           h == [loads[r] EXCEPT !.at = "files", !.rows = listed]
<1>1. \A s \in Slugs : ext[s] \in Extension /\ (ext[s].active => Uploaded(ext[s].bundle))
  BY ExtensionFacts DEF ExtensionsInv, ExtensionTypes, RowSound
<1>2. listed \subseteq Listed /\ \A row \in listed : Uploaded(row.digest)
  BY <1>1 DEF Listed, Extension
<1>3. E!Becomes(r, h) \/ E!Ends(r)
  BY DEF E!ListActive
<1> HIDE DEF listed
<1>4. h \in Loader /\ h.at = "files" /\ h.rows = listed
  BY <1>2 DEF ExtensionsInv, ExtensionTypes, Loader, ReadPlaces
<1>5. UNCHANGED <<bucket, ext, files, objects>>
  BY DEF E!ListActive, E!stored
<1> HIDE DEF h
<1>6. CASE E!Ends(r)
  BY <1>5, <1>6, ExtensionFacts, LoaderReads DEF E!Ends
<1> QED BY <1>2, <1>3, <1>4, <1>5, <1>6, DeliveryKeeps DEF ReadPlaces

LEMMA DeliveryReads ==
    ASSUME ExtensionsInv, NEW r \in Requests, E!ListFiles(r) \/ E!GetObject(r) \/ E!FilesRead(r)
    PROVE  ExtensionsInv'
<1>1. /\ loads[r] \in Loader /\ loads[r].at \in {"files", "read"}
      /\ \A row \in loads[r].rows : Uploaded(row.digest)
  <2>1. loads[r].at \in {"files", "read"}
    BY Zenon DEF E!ListFiles, E!GetObject, E!FilesRead, E!At
  <2>2. loads[r] \in Loader /\ LoaderSound(loads[r], objects)
    BY Zenon DEF ExtensionsInv, ExtensionTypes
  <2> QED BY <2>1, <2>2, Zenon DEF LoaderSound, ReadPlaces
<1>2. UNCHANGED <<bucket, ext, files, objects>>
  BY Zenon DEF E!ListFiles, E!GetObject, E!FilesRead, E!stored
<1>3. CASE E!ListFiles(r)
  <2>1. PICK row \in loads[r].rows :
          LET found == IF ext[row.slug].id = row.id THEN files[row.slug] ELSE E!Absent
          IN E!Becomes(r, [loads[r] EXCEPT !.at = "read", !.slug = row.slug, !.id = row.id,
                             !.bundle = [p \in Paths |-> found[p].content],
                             !.todo = {p \in Paths : found[p].in = "object"}])
    BY <1>3, Zenon DEF E!ListFiles
  <2> DEFINE found == IF ext[row.slug].id = row.id THEN files[row.slug] ELSE E!Absent
             bundle == [p \in Paths |-> found[p].content]
             todo == {p \in Paths : found[p].in = "object"}
             h == [loads[r] EXCEPT !.at = "read", !.slug = row.slug, !.id = row.id,
                                   !.bundle = bundle, !.todo = todo]
  <2>2. row \in Listed
    BY <1>1 DEF Loader
  <2>3. found \in [Paths -> FileStored]
    BY <2>2, ExtensionFacts DEF Listed, ExtensionsInv, ExtensionTypes
  <2>4. todo # {} => row.id \in ExtensionIds
    <3>1. ASSUME NEW p \in todo PROVE row.id \in ExtensionIds
      BY <2>2, ExtensionFacts DEF Listed, ExtensionsInv, FileSound, E!Absent
    <3> QED BY <3>1
  <2>5. bundle \in Revision /\ todo \subseteq Paths
    BY <2>3 DEF Revision, FileStored
  <2>6. E!Becomes(r, h)
    BY <2>1
  <2> HIDE DEF found, bundle, todo
  <2>7. h \in Loader /\ h.at = "read" /\ h.rows = loads[r].rows
         /\ h.todo = todo /\ h.id = row.id
    BY <1>1, <2>2, <2>5 DEF Loader, Listed, ReadPlaces
  <2> HIDE DEF h
  <2>8. /\ h.at \in ReadPlaces \ {"answered"}
        /\ \A listed \in h.rows : Uploaded(listed.digest)
        /\ h.at = "read" /\ h.todo # {} => h.id \in ExtensionIds
    BY <1>1, <2>4, <2>7 DEF ReadPlaces
  <2> QED BY <1>2, <2>6, <2>7, <2>8, DeliveryKeeps, Zenon
<1>4. CASE E!GetObject(r)
  <2>1. PICK p \in loads[r].todo :
          \/ E!Ends(r)
          \/ E!Becomes(r, [loads[r] EXCEPT !.todo = @ \ {p}, !.bundle[p] = objects[loads[r].id][p]])
             /\ objects[loads[r].id][p] # None
    BY <1>4 DEF E!GetObject
  <2> DEFINE c == objects[loads[r].id][p]
             h == [loads[r] EXCEPT !.todo = @ \ {p}, !.bundle[p] = c]
  <2>2. CASE E!Ends(r)
    BY <1>2, <2>2, ExtensionFacts, LoaderReads DEF E!Ends
  <2>3. CASE E!Becomes(r, h)
    <3>1. loads[r].id \in ExtensionIds /\ p \in Paths
      BY <1>1, <1>4, <2>1 DEF ExtensionsInv, LoaderSound, Loader, E!GetObject, E!At
    <3>2. c \in Contents \cup {None}
      BY <3>1 DEF ExtensionsInv, ExtensionTypes, Revision
    <3>3. h \in Loader /\ h.at = loads[r].at /\ h.rows = loads[r].rows /\ h.id = loads[r].id
      BY <1>1, <3>2 DEF Loader, Revision
    <3> HIDE DEF h
    <3>4. /\ h.at \in ReadPlaces \ {"answered"} /\ h.id \in ExtensionIds
          /\ \A listed \in h.rows : Uploaded(listed.digest)
      BY <1>1, <3>1, <3>3 DEF ReadPlaces
    <3> QED BY <1>2, <2>3, <3>3, <3>4, DeliveryKeeps, Zenon
  <2> QED BY <2>1, <2>2, <2>3
<1>5. CASE E!FilesRead(r)
  <2> DEFINE given == E!Given(r)
             at == IF E!Cardinality(given) = E!Cardinality(loads[r].rows) THEN "check" ELSE "files"
             h == [loads[r] EXCEPT !.given = given, !.slug = None, !.id = None,
                                   !.bundle = E!NoContent, !.at = at]
  <2>1. E!Becomes(r, h)
    BY <1>5 DEF E!FilesRead
  <2>2. given \subseteq GivenFiles
    BY <1>1 DEF E!Given, GivenFiles, Loader
  <2>3. at \in {"check", "files"}
    OBVIOUS
  <2> HIDE DEF given, at
  <2>4. h \in Loader /\ h.at = at /\ h.rows = loads[r].rows
    BY <1>1, <2>2, <2>3, ExtensionFacts DEF Loader, ReadPlaces
  <2> HIDE DEF h
  <2>5. /\ h.at \in ReadPlaces \ {"answered"} /\ h.at # "read"
        /\ \A listed \in h.rows : Uploaded(listed.digest)
    BY <1>1, <2>3, <2>4 DEF ReadPlaces
  <2> QED BY <1>2, <2>1, <2>4, <2>5, DeliveryKeeps, Zenon
<1> QED BY <1>3, <1>4, <1>5

LEMMA DeliveryAnswers ==
    ASSUME ExtensionsInv, NEW r \in Requests, E!Answer(r) \/ E!Answered(r)
    PROVE  ExtensionsInv'
<1> DEFINE h == [loads[r] EXCEPT !.at = "answered"]
<1>1. UNCHANGED <<bucket, ext, files, objects>>
  BY DEF E!Answer, E!Answered, E!stored
<1>2. CASE E!Ends(r)
  BY <1>1, <1>2, ExtensionFacts, LoaderReads DEF E!Ends
<1>3. CASE loads[r].at = "check" /\ E!Digests(r) /\ E!Becomes(r, h)
  <2>1. /\ loads[r] \in Loader
        /\ \A row \in loads[r].rows : Uploaded(row.digest)
    BY <1>3 DEF ExtensionsInv, ExtensionTypes, LoaderSound, ReadPlaces
  <2>2. h \in Loader /\ h.at = "answered" /\ h.rows = loads[r].rows /\ h.given = loads[r].given
    BY <2>1 DEF Loader, ReadPlaces
  <2>3. \A g \in loads[r].given : Uploaded(g.files)
    BY <1>3, <2>1 DEF E!Digests
  <2> HIDE DEF h
  <2>4. LoaderSound(h, objects)
    BY <2>1, <2>2, <2>3 DEF LoaderSound, WrittenBy, UploadPlaces, ReadPlaces
  <2> QED BY <1>1, <1>3, <2>2, <2>4, LoaderReads
<1> QED BY <1>2, <1>3 DEF E!Answer, E!Answered, E!Goes, E!At

LEMMA ExtensionsStep ==
    ASSUME ExtensionsInv, E!Next
    PROVE  ExtensionsInv'
<1>1. CASE E!ConfigureBucket
  BY <1>1 DEF E!ConfigureBucket, E!stored, ExtensionsInv, ExtensionTypes, RowSound, FileSound
<1>2. CASE \E r \in Requests : E!Deliver(r) \/ E!DeliveryStep(r)
  BY <1>2, DeliveryBegins, DeliveryLists, DeliveryReads, DeliveryAnswers DEF E!DeliveryStep
<1> QED BY <1>1, <1>2, UploadBegins, UploadSteps, ExtensionSwitched, BackfillSteps DEF E!Next

LEMMA ExtensionsStart == E!Init => ExtensionsInv
<1> SUFFICES ASSUME E!Init PROVE ExtensionsInv
  OBVIOUS
<1>1. ExtensionTypes
  BY ExtensionFacts DEF E!Init, ExtensionTypes
<1>2. \A s \in Slugs : RowSound(ext[s]) /\ \A p \in Paths : FileSound(files[s][p], p, ext[s], objects)
  BY ExtensionFacts DEF E!Init, RowSound, FileSound, E!Absent
<1>3. \A r \in Requests : LoaderSound(loads[r], objects)
  BY ExtensionFacts DEF E!Init
<1> QED BY <1>1, <1>2, <1>3 DEF ExtensionsInv

(* What is under an id that is not torn is the revision its row names: whoever *)
(* is alone has under its id what it has put there so far, or what it read of  *)
(* the rows, and no two slugs share an id.                                     *)

IdPlaces == (UploadPlaces \ {"find"}) \cup {"move", "flip"}

Owns(s, i) ==
    \/ E!Stored(s) /\ ext[s].id = i
    \/ \E r \in Requests : loads[r].at \in IdPlaces /\ loads[r].slug = s /\ loads[r].id = i

Owned ==
    \A s \in Slugs, i \in ExtensionIds :
        Owns(s, i) => i \in used /\ \A t \in Slugs : Owns(t, i) => t = s

\* What a slug has in the database.
RowsPlain(s) ==
    IF E!Stored(s)
    THEN \A p \in Paths : files[s][p].in # "object" => files[s][p].content = ext[s].bundle[p]
    ELSE files[s] = E!Absent

Written(h, os) ==
    h.alone /\ h.bucket /\ h.at \in UploadPlaces =>
        \A p \in WrittenBy(h) : os[h.id][p] = h.bundle[p]

\* A backfill h of the extension that has the row e.
Copied(h, e, os) ==
    h.at \in {"move", "flip"} =>
        /\ h.at = "flip" => h.path \in h.todo
        /\ h.alone /\ e # E!NoExtension /\ e.id = h.id =>
             /\ \A p \in h.todo : h.bundle[p] = e.bundle[p]
             /\ h.at = "flip" => os[h.id][h.path] = h.bundle[h.path]

Whole(h, es, os) == Written(h, os) /\ Copied(h, es[h.slug], os)

WholeInv ==
    /\ Owned
    /\ \A s \in Slugs : RowsPlain(s)
    /\ E!RevisionWhole
    /\ \A r \in Requests : Whole(loads[r], ext, objects)

LEMMA IdleWhole == \A es, os : Whole(E!Idle, es, os)
BY ExtensionFacts DEF Whole, Written, Copied, WrittenBy, UploadPlaces

\* Nobody comes by an id that is another slug's.
LEMMA OwnedStays ==
    ASSUME ExtensionsInv, Owned, NEW r \in Requests, NEW h \in Loader, Turned(r, h),
           used' = used, h.at \in IdPlaces => Owns(h.slug, h.id),
           \A s \in Slugs : E!Stored(s)' => Owns(s, ext'[s].id)
    PROVE  Owned'
<1>1. ASSUME NEW q \in Requests \ {r}
      PROVE  /\ loads'[q].at = loads[q].at /\ loads'[q].slug = loads[q].slug
             /\ loads'[q].id = loads[q].id
  BY DEF Turned, ExtensionsInv, ExtensionTypes, Loader
<1>2. ASSUME NEW s \in Slugs, NEW i \in ExtensionIds, Owns(s, i)' PROVE Owns(s, i)
  <2>1. CASE E!Stored(s)' /\ ext'[s].id = i
    BY <2>1
  <2>2. CASE \E q \in Requests : loads'[q].at \in IdPlaces /\ loads'[q].slug = s /\ loads'[q].id = i
    BY <1>1, <2>2 DEF Owns, Turned
  <2> QED BY <1>2, <2>1, <2>2 DEF Owns
<1> QED BY <1>2 DEF Owned

LEMMA QuietWhole ==
    ASSUME ExtensionsInv, WholeInv, NEW r \in Requests, NEW h \in Loader, E!Becomes(r, h),
           UNCHANGED <<ext, files, objects, used, torn>>,
           h.at \in IdPlaces => Owns(h.slug, h.id), Whole(h, ext, objects)
    PROVE  WholeInv'
<1>1. Turned(r, h) /\ \A q \in Requests \ {r} : loads'[q] = loads[q]
  BY BecomesTurns
<1>2. \A s \in Slugs : E!Stored(s)' => Owns(s, ext'[s].id)
  BY DEF E!Stored, Owns
<1>3. Owned'
  BY <1>1, <1>2, OwnedStays DEF WholeInv
<1>4. (\A s \in Slugs : RowsPlain(s))' /\ E!RevisionWhole'
  BY DEF WholeInv, RowsPlain, E!RevisionWhole, E!Stored, E!Content
<1>5. \A q \in Requests : Whole(loads'[q], ext', objects')
  BY <1>1 DEF WholeInv, Turned
<1> QED BY <1>3, <1>4, <1>5 DEF WholeInv

\* Who is still alone after somebody wrote under an id has another.
LEMMA OthersWhole ==
    ASSUME ExtensionsInv, WholeInv, NEW r \in Requests, NEW h \in Loader, E!Writes(r, h),
           \A i \in ExtensionIds : i # loads[r].id => objects'[i] = objects[i],
           \A s \in Slugs : ext'[s] = ext[s] \/ ext'[s].id = loads[r].id
    PROVE  \A q \in Requests \ {r} : Whole(loads'[q], ext', objects')
<1> SUFFICES ASSUME NEW q \in Requests \ {r} PROVE Whole(loads'[q], ext', objects')
  OBVIOUS
<1>1. /\ loads[q] \in Loader /\ LoaderSound(loads[q], objects) /\ loads[q].alone \in BOOLEAN
      /\ Written(loads[q], objects) /\ Copied(loads[q], ext[loads[q].slug], objects)
  BY DEF ExtensionsInv, ExtensionTypes, WholeInv, Whole, Loader
<1>2. PICK alone \in BOOLEAN : loads'[q] = [loads[q] EXCEPT !.alone = alone]
  <2>1. Turned(r, h)
    BY WritesTurns
  <2> QED BY <1>1, <2>1 DEF Turned
<1>3. loads'[q].alone => loads[q].alone /\ loads[q].id # loads[r].id
  BY WritesTurns
<1>4. WrittenBy(loads'[q]) = WrittenBy(loads[q])
  BY <1>1, <1>2, AloneSound
<1> DEFINE g == loads[q]
           k == loads'[q]
<1>5. /\ k.at = g.at /\ k.bucket = g.bucket /\ k.slug = g.slug /\ k.id = g.id
      /\ k.bundle = g.bundle /\ k.todo = g.todo /\ k.path = g.path
  BY <1>1, <1>2 DEF Loader
<1>6. Written(k, objects')
  <2>1. WrittenBy(g) # {} => g.id \in ExtensionIds
    BY <1>1 DEF WrittenBy, LoaderSound, UploadPlaces
  <2> HIDE DEF g, k
  <2>2. WrittenBy(k) = WrittenBy(g) /\ Written(g, objects) /\ (k.alone => g.alone /\ g.id # loads[r].id)
    BY <1>1, <1>3, <1>4 DEF g, k
  <2> QED BY <1>5, <2>1, <2>2 DEF Written
<1>7. Copied(k, ext'[k.slug], objects')
  <2>1. g.at \in {"move", "flip"} => g.id \in ExtensionIds /\ g.slug \in Slugs
    BY <1>1 DEF LoaderSound, UploadPlaces
  <2> HIDE DEF g, k
  <2>2. Copied(g, ext[g.slug], objects) /\ (k.alone => g.alone /\ g.id # loads[r].id)
    BY <1>1, <1>3 DEF g, k
  <2> QED BY <1>5, <2>1, <2>2 DEF Copied
<1> QED BY <1>6, <1>7 DEF Whole

LEMMA IdFoundWhole ==
    ASSUME ExtensionsInv, WholeInv, NEW r \in Requests, E!FindIdBySlug(r)
    PROVE  WholeInv'
<1> DEFINE s == loads[r].slug
<1>1. PICK i \in ExtensionIds :
        /\ IF E!Stored(s) THEN i = ext[s].id ELSE i \notin used
        /\ used' = used \cup {i}
        /\ E!Becomes(r, [loads[r] EXCEPT !.id = i,
             !.at = IF loads[r].bucket THEN "put" ELSE "insert",
             !.todo = E!Has(loads[r].bundle), !.alone = TRUE])
  BY DEF E!FindIdBySlug
<1> DEFINE h == [loads[r] EXCEPT !.id = i,
                    !.at = IF loads[r].bucket THEN "put" ELSE "insert",
                    !.todo = E!Has(loads[r].bundle), !.alone = TRUE]
<1>2. loads[r] \in Loader /\ loads[r].at = "find" /\ s \in Slugs /\ UNCHANGED <<ext, files, objects, torn>>
  BY DEF ExtensionsInv, ExtensionTypes, LoaderSound, UploadPlaces, E!FindIdBySlug, E!At, E!stored
<1>3. /\ h \in Loader /\ h.at = IF loads[r].bucket THEN "put" ELSE "insert"
      /\ h.id = i /\ h.todo = E!Has(h.bundle) /\ h.bucket = loads[r].bucket /\ h.slug = s
  BY <1>2 DEF Loader, UploadPlaces, E!Has
<1>4. loads'[r] = h /\ \A q \in Requests \ {r} : loads'[q] = loads[q]
  BY <1>1, <1>3, BecomesTurns DEF Turned
<1> HIDE DEF h
<1>5. Whole(h, ext, objects)
  BY <1>3 DEF Whole, Written, Copied, WrittenBy, UploadPlaces
<1>6. ASSUME NEW t \in Slugs, NEW j \in ExtensionIds, Owns(t, j)'
      PROVE  Owns(t, j) \/ (t = s /\ j = i)
  BY <1>2, <1>3, <1>4, <1>6 DEF Owns, E!Stored
<1>7. \A t \in Slugs : Owns(t, i) => E!Stored(s) /\ t = s
  BY <1>1, <1>2 DEF WholeInv, Owned, Owns
<1>8. Owned'
  BY <1>1, <1>6, <1>7 DEF WholeInv, Owned
<1>9. (\A t \in Slugs : RowsPlain(t))' /\ E!RevisionWhole'
  BY <1>2 DEF WholeInv, RowsPlain, E!RevisionWhole, E!Stored, E!Content
<1>10. \A q \in Requests : Whole(loads'[q], ext', objects')
  BY <1>2, <1>4, <1>5 DEF WholeInv
<1> QED BY <1>8, <1>9, <1>10 DEF WholeInv

LEMMA OnePutWhole ==
    ASSUME ExtensionsInv, WholeInv, NEW r \in Requests, NEW next \in {"insert", "commit"},
           loads[r].at \in {"put", "reput"}, E!PutOne(r, next)
    PROVE  WholeInv'
<1>1. PICK p \in loads[r].todo :
        /\ objects' = [objects EXCEPT ![loads[r].id][p] = loads[r].bundle[p]]
        /\ E!Writes(r, [loads[r] EXCEPT !.todo = @ \ {p},
                           !.at = IF loads[r].todo = {p} THEN next ELSE @])
        /\ torn' = torn \cup {loads[r].id} /\ UNCHANGED <<ext, files, used>>
  BY DEF E!PutOne
<1> DEFINE h == [loads[r] EXCEPT !.todo = @ \ {p},
                    !.at = IF loads[r].todo = {p} THEN next ELSE @]
           i == loads[r].id
<1>2. /\ loads[r] \in Loader /\ LoaderSound(loads[r], objects) /\ i \in ExtensionIds
      /\ loads[r].bucket /\ p \in Paths
      /\ Written(loads[r], objects) /\ objects \in [ExtensionIds -> Revision]
  BY DEF ExtensionsInv, ExtensionTypes, LoaderSound, UploadPlaces, Loader, WholeInv, Whole
<1>3. /\ h \in Loader /\ h.at = IF loads[r].todo = {p} THEN next ELSE loads[r].at
      /\ h.id = i /\ h.todo = loads[r].todo \ {p} /\ h.bundle = loads[r].bundle
      /\ h.bucket = loads[r].bucket /\ h.slug = loads[r].slug /\ h.alone = loads[r].alone
  BY <1>2 DEF Loader, UploadPlaces
<1>4. Turned(r, h) /\ E!Writes(r, h)
  BY <1>1, <1>3, WritesTurns
<1>5. /\ objects'[i][p] = loads[r].bundle[p]
      /\ \A q \in Paths : q # p => objects'[i][q] = objects[i][q]
      /\ \A j \in ExtensionIds : j # i => objects'[j] = objects[j]
  BY <1>1, <1>2 DEF Revision
<1> HIDE DEF h, i
<1>6. \A q \in WrittenBy(h) : q \in Paths /\ (q = p \/ q \in WrittenBy(loads[r]))
  BY <1>2, <1>3 DEF WrittenBy, E!Has
<1>7. Written(h, objects')
  <2>1. loads[r].at \in UploadPlaces
    BY DEF UploadPlaces
  <2> QED BY <1>2, <1>3, <1>5, <1>6, <2>1 DEF Written, i
<1>8. Whole(h, ext', objects')
  BY <1>3, <1>7 DEF Whole, Copied
<1>9. Owned'
  <2>1. Owns(loads[r].slug, i)
    BY DEF Owns, IdPlaces, UploadPlaces, i
  <2>2. \A s \in Slugs : E!Stored(s)' => Owns(s, ext'[s].id)
    BY <1>1 DEF E!Stored, Owns
  <2> QED BY <1>1, <1>3, <1>4, <2>1, <2>2, OwnedStays DEF WholeInv
<1>10. (\A s \in Slugs : RowsPlain(s))'
  BY <1>1 DEF WholeInv, RowsPlain, E!Stored
<1>11. E!RevisionWhole'
  <2> SUFFICES ASSUME NEW s \in Slugs, E!Stored(s)', ext'[s].id \notin torn', NEW q \in Paths
               PROVE  E!Content(s, q)' = ext'[s].bundle[q]
    BY DEF E!RevisionWhole
  <2>1. E!Stored(s) /\ ext[s].id \notin torn /\ ext[s].id # i
    BY <1>1 DEF E!Stored, i
  <2>2. ext[s].id \in ExtensionIds
    BY <2>1 DEF ExtensionsInv, RowSound, E!Stored
  <2> QED BY <1>1, <1>5, <2>1, <2>2 DEF WholeInv, E!RevisionWhole, E!Content
<1>12. \A q \in Requests \ {r} : Whole(loads'[q], ext', objects')
  BY <1>1, <1>3, <1>4, <1>5, OthersWhole DEF i
<1>13. \A q \in Requests : Whole(loads'[q], ext', objects')
  BY <1>4, <1>8, <1>12 DEF Turned
<1> QED BY <1>9, <1>10, <1>11, <1>13 DEF WholeInv

LEMMA UpsertWhole ==
    ASSUME ExtensionsInv, WholeInv, NEW r \in Requests, E!UpsertExtension(r)
    PROVE  WholeInv'
<1> DEFINE s == loads[r].slug
           saved == IF E!Stored(s) THEN ext[s].id ELSE loads[r].id
           h == [loads[r] EXCEPT !.id = saved, !.todo = E!Has(loads[r].bundle),
                    !.alone = @ \/ saved # loads[r].id,
                    !.at = E!AfterUpsert(loads[r].id, saved, loads[r].bucket)]
<1>1. E!Becomes(r, h) /\ UNCHANGED <<ext, files, objects, used, torn>>
  BY DEF E!UpsertExtension, E!stored
<1>2. /\ loads[r] \in Loader /\ LoaderSound(loads[r], objects) /\ loads[r].at = "insert"
      /\ loads[r].id \in ExtensionIds /\ s \in Slugs /\ Written(loads[r], objects)
  BY DEF ExtensionsInv, ExtensionTypes, LoaderSound, UploadPlaces, E!UpsertExtension, E!At,
         WholeInv, Whole
<1>3. saved \in ExtensionIds
  BY <1>2 DEF ExtensionsInv, RowSound, E!Stored
<1>4. Owns(s, saved)
  BY <1>2 DEF Owns, IdPlaces, UploadPlaces
<1> HIDE DEF saved
<1>5. (loads[r].alone \/ saved # loads[r].id) \in BOOLEAN
  BY <1>2 DEF Loader
<1>6. /\ h \in Loader
      /\ h.at = IF loads[r].bucket /\ loads[r].id # saved THEN "reput" ELSE "commit"
      /\ h.id = saved /\ h.todo = E!Has(h.bundle) /\ h.bundle = loads[r].bundle
      /\ h.bucket = loads[r].bucket /\ h.slug = s
      /\ saved = loads[r].id => h.alone = loads[r].alone
  BY <1>2, <1>3, <1>5 DEF Loader, UploadPlaces, E!Has, E!AfterUpsert
<1> HIDE DEF h
<1>7. h.at = "commit" => WrittenBy(h) = WrittenBy(loads[r])
  BY <1>2, <1>6 DEF WrittenBy
<1>8. h.at = "reput" => WrittenBy(h) = {}
  BY <1>6 DEF WrittenBy
<1>9. Written(h, objects)
  BY <1>2, <1>6, <1>7, <1>8 DEF Written, UploadPlaces
<1>10. Whole(h, ext, objects)
  BY <1>6, <1>9 DEF Whole, Copied
<1> QED BY <1>1, <1>4, <1>6, <1>10, QuietWhole

LEMMA CommitWhole ==
    ASSUME ExtensionsInv, WholeInv, NEW r \in Requests, E!CommitRows(r)
    PROVE  WholeInv'
<1> DEFINE s == loads[r].slug
           i == loads[r].id
           bundle == loads[r].bundle
           e == [id |-> i, bundle |-> bundle, active |-> TRUE]
<1>1. /\ ext' = [ext EXCEPT ![s] = e]
      /\ files' = [files EXCEPT ![s] = E!ReplacedFiles(s, bundle, loads[r].bucket)]
      /\ torn' = IF loads[r].bucket /\ ~loads[r].alone THEN torn \cup {i} ELSE torn \ {i}
      /\ E!Writes(r, E!Idle) /\ UNCHANGED <<objects, used>>
  BY DEF E!CommitRows
<1>2. /\ loads[r] \in Loader /\ LoaderSound(loads[r], objects) /\ loads[r].at = "commit"
      /\ i \in ExtensionIds /\ s \in Slugs /\ bundle \in Revision
      /\ loads[r].bucket \in BOOLEAN /\ Written(loads[r], objects)
  BY DEF ExtensionsInv, ExtensionTypes, LoaderSound, UploadPlaces, Loader, E!CommitRows, E!At,
         WholeInv, Whole
<1>3. /\ ext'[s] = e /\ \A p \in Paths : files'[s][p] = E!FileRow(bundle[p], loads[r].bucket)
      /\ \A t \in Slugs : t # s => ext'[t] = ext[t] /\ files'[t] = files[t]
  BY <1>1, <1>2 DEF ExtensionsInv, ExtensionTypes, E!ReplacedFiles
<1>4. e # E!NoExtension /\ e.id = i /\ e.bundle = bundle
  BY DEF E!NoExtension
<1> HIDE DEF e
<1>5. Owns(s, i)
  BY <1>2 DEF Owns, IdPlaces, UploadPlaces
<1>6. Turned(r, E!Idle)
  BY <1>1, ExtensionFacts, WritesTurns
<1>7. Owned'
  <2>1. \A t \in Slugs : E!Stored(t)' => Owns(t, ext'[t].id)
    BY <1>3, <1>4, <1>5 DEF E!Stored, Owns
  <2>2. E!Idle \in Loader /\ E!Idle.at \notin IdPlaces
    BY ExtensionFacts DEF IdPlaces, UploadPlaces
  <2> QED BY <1>1, <1>6, <2>1, <2>2, OwnedStays DEF WholeInv
<1>8. ASSUME NEW p \in Paths
      PROVE  /\ files'[s][p].in # "object" => files'[s][p].content = bundle[p]
             /\ files'[s][p].in = "object" => loads[r].bucket /\ bundle[p] # None
  <2>1. E!NoFile.in # "object" /\ E!NoFile.content = None
    BY ExtensionFacts DEF E!NoFile
  <2>2. files'[s][p] = E!FileRow(bundle[p], loads[r].bucket)
    BY <1>3
  <2> QED BY <1>2, <2>1, <2>2 DEF E!FileRow
<1>9. ASSUME NEW t \in Slugs PROVE RowsPlain(t)'
  <2>1. CASE t = s
    BY <1>3, <1>4, <1>8, <2>1 DEF RowsPlain, E!Stored
  <2>2. CASE t # s
    BY <1>3, <2>2 DEF WholeInv, RowsPlain, E!Stored
  <2> QED BY <2>1, <2>2
<1>10. ASSUME NEW t \in Slugs, E!Stored(t)', ext'[t].id \notin torn', NEW p \in Paths
       PROVE  E!Content(t, p)' = ext'[t].bundle[p]
  <2>1. CASE t = s
    <3>1. ~loads[r].bucket \/ loads[r].alone
      BY <1>1, <1>3, <1>4, <1>10, <2>1
    <3>2. loads[r].bucket /\ bundle[p] # None => objects[i][p] = bundle[p]
      BY <1>2, <3>1 DEF Written, WrittenBy, UploadPlaces, E!Has
    <3> QED BY <1>1, <1>3, <1>4, <1>8, <2>1, <3>2 DEF E!Content
  <2>2. CASE t # s
    <3>1. ext'[t] = ext[t] /\ files'[t] = files[t] /\ E!Stored(t)
      BY <1>3, <1>10, <2>2 DEF E!Stored
    <3>2. ext[t].id \in ExtensionIds /\ Owns(t, ext[t].id)
      BY <3>1 DEF ExtensionsInv, RowSound, E!Stored, Owns
    <3>3. ext[t].id # i
      BY <1>2, <1>5, <2>2, <3>2 DEF WholeInv, Owned
    <3>4. ext[t].id \notin torn
      BY <1>1, <1>10, <3>1, <3>3
    <3> QED BY <1>1, <3>1, <3>4 DEF WholeInv, E!RevisionWhole, E!Content
  <2> QED BY <2>1, <2>2
<1>11. ASSUME NEW q \in Requests PROVE Whole(loads'[q], ext', objects')
  <2>1. CASE q = r
    BY <1>6, <2>1, IdleWhole DEF Turned
  <2>2. CASE q # r
    BY <1>1, <1>3, <1>4, <2>2, ExtensionFacts, OthersWhole
  <2> QED BY <2>1, <2>2
<1> QED BY <1>7, <1>9, <1>10, <1>11 DEF WholeInv, E!RevisionWhole

LEMMA UploadStepsWhole ==
    ASSUME ExtensionsInv, WholeInv, NEW r \in Requests, E!Upload(r) \/ E!UploadStep(r)
    PROVE  WholeInv'
<1>1. CASE E!UploadFails(r)
  <2>1. E!Idle \in Loader /\ E!Idle.at \notin IdPlaces
    BY ExtensionFacts DEF IdPlaces, UploadPlaces
  <2> QED BY <1>1, <2>1, IdleWhole, QuietWhole DEF E!UploadFails, E!Ends, E!stored
<1>2. CASE E!PutObject(r) \/ E!PutObjectAgain(r)
  BY <1>2, OnePutWhole DEF E!PutObject, E!PutObjectAgain, E!At
<1>3. CASE E!Upload(r)
  <2>1. PICK s \in Slugs, sub \in Submissions :
          /\ E!ValidateExtensionBundle(sub)
          /\ E!Becomes(r, [E!Idle EXCEPT !.at = "find", !.slug = s, !.bundle = E!Bundle(sub),
                                         !.bucket = bucket])
    BY <1>3 DEF E!Upload
  <2> DEFINE h == [E!Idle EXCEPT !.at = "find", !.slug = s, !.bundle = E!Bundle(sub),
                                 !.bucket = bucket]
  <2>2. E!Bundle(sub) \in Revision /\ bucket \in BOOLEAN
    BY <2>1, BundleIsRevision DEF ExtensionsInv, ExtensionTypes
  <2>3. h \in Loader /\ h.at = "find"
    BY <2>2, ExtensionFacts DEF Loader, UploadPlaces
  <2> HIDE DEF h
  <2>4. Whole(h, ext, objects) /\ h.at \notin IdPlaces
    BY <2>3 DEF Whole, Written, Copied, WrittenBy, IdPlaces, UploadPlaces
  <2> QED BY <1>3, <2>1, <2>3, <2>4, QuietWhole DEF E!Upload, E!stored, h
<1> QED BY <1>1, <1>2, <1>3, IdFoundWhole, UpsertWhole, CommitWhole DEF E!UploadStep

\* The row d that a switch or a removal leaves of e.
Same(e, d) ==
    \/ d = E!NoExtension
    \/ d.id = e.id /\ d.bundle = e.bundle /\ (e = E!NoExtension => d = E!NoExtension)

LEMMA SameCopied ==
    \A h, e, d, os : Same(e, d) /\ Copied(h, e, os) => Copied(h, d, os)
BY DEF Same, Copied

LEMMA SwitchWhole ==
    ASSUME ExtensionsInv, WholeInv, NEW s \in Slugs, E!SetActive(s) \/ E!RemoveExtension(s)
    PROVE  WholeInv'
<1> DEFINE off == [ext[s] EXCEPT !.active = ~@]
<1>1. /\ UNCHANGED <<objects, loads, used, torn>> /\ E!Stored(s)
      /\ \/ ext' = [ext EXCEPT ![s] = off] /\ UNCHANGED files
         \/ /\ ext' = [ext EXCEPT ![s] = E!NoExtension]
            /\ files' = [files EXCEPT ![s] = E!Absent]
  BY DEF E!SetActive, E!RemoveExtension
<1>2. ext[s] \in Extension /\ ext[s].id \in ExtensionIds /\ ext[s] # E!NoExtension
  BY <1>1 DEF ExtensionsInv, ExtensionTypes, RowSound, E!Stored
<1>3. /\ off.id = ext[s].id /\ off.bundle = ext[s].bundle
      /\ off # E!NoExtension
  <2>1. off.id = ext[s].id /\ off.bundle = ext[s].bundle
    BY <1>2 DEF Extension
  <2>2. None \notin ExtensionIds /\ E!NoExtension.id = None
    BY ConstantsAssumption DEF E!ExtensionsAssumption, E!NoExtension
  <2> HIDE DEF off
  <2> QED BY <1>2, <2>1, <2>2
<1> HIDE DEF off
<1>4. ASSUME NEW t \in Slugs
      PROVE  \/ /\ ext'[t].id = ext[t].id /\ ext'[t].bundle = ext[t].bundle
                /\ files'[t] = files[t] /\ (E!Stored(t)' <=> E!Stored(t))
             \/ ext'[t] = E!NoExtension /\ files'[t] = E!Absent
  <2>1. CASE t # s
    BY <1>1, <2>1 DEF ExtensionsInv, ExtensionTypes, E!Stored
  <2>2. CASE t = s /\ ext' = [ext EXCEPT ![s] = off] /\ UNCHANGED files
    BY <1>1, <1>3, <2>2 DEF ExtensionsInv, ExtensionTypes, E!Stored
  <2>3. CASE t = s /\ ext' = [ext EXCEPT ![s] = E!NoExtension]
                  /\ files' = [files EXCEPT ![s] = E!Absent]
    BY <2>3 DEF ExtensionsInv, ExtensionTypes
  <2> QED BY <1>1, <2>1, <2>2, <2>3
<1>5. Owned'
  <2>1. ASSUME NEW t \in Slugs, NEW i \in ExtensionIds, Owns(t, i)' PROVE Owns(t, i)
    BY <1>1, <1>4, <2>1 DEF Owns, E!Stored
  <2> QED BY <1>1, <2>1 DEF WholeInv, Owned
<1>6. ASSUME NEW t \in Slugs
      PROVE  RowsPlain(t)' /\ (E!Stored(t)' /\ ext'[t].id \notin torn' =>
                                  \A p \in Paths : E!Content(t, p)' = ext'[t].bundle[p])
  <2>1. RowsPlain(t) /\ (E!Stored(t) /\ ext[t].id \notin torn =>
                           \A p \in Paths : E!Content(t, p) = ext[t].bundle[p])
    BY DEF WholeInv, E!RevisionWhole
  <2>2. CASE /\ ext'[t].id = ext[t].id /\ ext'[t].bundle = ext[t].bundle
             /\ files'[t] = files[t] /\ (E!Stored(t)' <=> E!Stored(t))
    BY <1>1, <2>1, <2>2 DEF RowsPlain, E!Content
  <2>3. CASE ext'[t] = E!NoExtension /\ files'[t] = E!Absent
    BY <2>3 DEF RowsPlain, E!Stored
  <2> QED BY <1>4, <2>2, <2>3
<1>7. ASSUME NEW q \in Requests PROVE Whole(loads[q], ext', objects)
  <2> DEFINE h == loads[q]
             t == h.slug
  <2>1. Whole(h, ext, objects) /\ (h.at \in {"move", "flip"} => t \in Slugs)
    BY DEF WholeInv, ExtensionsInv, LoaderSound
  <2>2. h.at \in {"move", "flip"} => Copied(h, ext'[t], objects)
    <3>1. t \in Slugs => Same(ext[t], ext'[t])
      BY <1>4 DEF Same, E!Stored
    <3>2. Copied(h, ext[t], objects)
      BY <2>1 DEF Whole
    <3> HIDE DEF h, t
    <3> QED BY <2>1, <3>1, <3>2, SameCopied
  <2>3. h.at \notin {"move", "flip"} => Copied(h, ext'[t], objects)
    BY DEF Copied
  <2> QED BY <2>1, <2>2, <2>3 DEF Whole
<1> QED BY <1>1, <1>5, <1>6, <1>7 DEF WholeInv, E!RevisionWhole

LEMMA BackfillBeginsWhole ==
    ASSUME ExtensionsInv, WholeInv, NEW r \in Requests, E!BackfillSelects(r)
    PROVE  WholeInv'
<1>1. PICK s \in Slugs :
        LET moving == {p \in Paths : files[s][p].in = "postgres"}
        IN moving # {} /\ E!Becomes(r, [E!Idle EXCEPT !.at = "move", !.slug = s, !.id = ext[s].id,
                            !.todo = moving, !.alone = TRUE,
                            !.bundle = [p \in Paths |-> files[s][p].content]])
  BY DEF E!BackfillSelects
<1> DEFINE moving == {p \in Paths : files[s][p].in = "postgres"}
           bundle == [p \in Paths |-> files[s][p].content]
           h == [E!Idle EXCEPT !.at = "move", !.slug = s, !.id = ext[s].id, !.todo = moving,
                               !.alone = TRUE, !.bundle = bundle]
<1>2. \A p \in Paths : files[s][p] \in FileStored /\ FileSound(files[s][p], p, ext[s], objects)
  BY DEF ExtensionsInv, ExtensionTypes
<1>3. ext[s].id \in ExtensionIds /\ bundle \in Revision
  BY <1>1, <1>2 DEF FileSound, Revision, FileStored
<1>4. E!Stored(s)
  <2>1. moving # {} => files[s] # E!Absent
    BY ExtensionFacts DEF E!Absent
  <2> QED BY <1>1, <2>1 DEF WholeInv, RowsPlain
<1>5. \A p \in moving : bundle[p] = ext[s].bundle[p]
  BY <1>4 DEF WholeInv, RowsPlain
<1>6. moving \subseteq Paths
  OBVIOUS
<1> HIDE DEF moving, bundle
<1>7. /\ h \in Loader /\ h.at = "move" /\ h.slug = s /\ h.id = ext[s].id /\ h.todo = moving
      /\ h.bundle = bundle
  BY <1>3, <1>6, ExtensionFacts DEF Loader
<1>8. E!Becomes(r, h)
  BY <1>1 DEF moving, bundle
<1> HIDE DEF h
<1>9. Whole(h, ext, objects) /\ Owns(h.slug, h.id)
  BY <1>4, <1>5, <1>7 DEF Whole, Written, Copied, UploadPlaces, Owns
<1> QED BY <1>7, <1>8, <1>9, QuietWhole DEF E!BackfillSelects, E!stored

LEMMA MovedWhole ==
    ASSUME ExtensionsInv, WholeInv, NEW r \in Requests, NEW p \in Paths,
           loads[r].at \in {"move", "flip"}
    PROVE  LET h == E!Moved(r, p) IN
           /\ h \in Loader /\ (h.at \in IdPlaces => Owns(h.slug, h.id))
           /\ Whole(h, ext, objects)
<1> DEFINE h == [loads[r] EXCEPT !.todo = @ \ {p}, !.path = None, !.at = "move"]
<1>1. loads[r] \in Loader /\ LoaderSound(loads[r], objects) /\ Whole(loads[r], ext, objects)
  BY DEF ExtensionsInv, ExtensionTypes, WholeInv
<1>2. /\ h \in Loader /\ h.at = "move" /\ h.todo \subseteq loads[r].todo
      /\ h.bundle = loads[r].bundle /\ h.id = loads[r].id /\ h.slug = loads[r].slug
      /\ h.alone = loads[r].alone
  BY <1>1 DEF Loader
<1> HIDE DEF h
<1>3. Whole(h, ext, objects)
  BY <1>1, <1>2 DEF Whole, Written, Copied, UploadPlaces
<1>4. Owns(h.slug, h.id)
  BY <1>2 DEF Owns, IdPlaces
<1>5. E!Idle \in Loader /\ E!Idle.at \notin IdPlaces /\ Whole(E!Idle, ext, objects)
  BY ExtensionFacts, IdleWhole DEF IdPlaces, UploadPlaces
<1> QED BY <1>2, <1>3, <1>4, <1>5 DEF E!Moved, h

LEMMA BackfillPutWhole ==
    ASSUME ExtensionsInv, WholeInv, NEW r \in Requests, E!BackfillPuts(r)
    PROVE  WholeInv'
<1> DEFINE i == loads[r].id
           s == loads[r].slug
<1>1. PICK p \in loads[r].todo :
        /\ objects' = [objects EXCEPT ![i][p] = loads[r].bundle[p]]
        /\ E!Writes(r, [loads[r] EXCEPT !.at = "flip", !.path = p])
        /\ torn' = E!Tearing(r) /\ UNCHANGED <<ext, files, used>>
  BY DEF E!BackfillPuts
<1> DEFINE h == [loads[r] EXCEPT !.at = "flip", !.path = p]
<1>2. /\ loads[r] \in Loader /\ loads[r].at = "move" /\ i \in ExtensionIds /\ s \in Slugs
      /\ p \in Paths /\ objects \in [ExtensionIds -> Revision]
      /\ Copied(loads[r], ext[s], objects)
  BY DEF ExtensionsInv, ExtensionTypes, LoaderSound, UploadPlaces, Loader,
         E!BackfillPuts, E!At, WholeInv, Whole
<1>3. /\ h \in Loader /\ h.at = "flip" /\ h.path = p /\ h.todo = loads[r].todo
      /\ h.bundle = loads[r].bundle /\ h.id = i /\ h.slug = s /\ h.alone = loads[r].alone
  BY <1>2 DEF Loader
<1>4. Turned(r, h) /\ E!Writes(r, h)
  BY <1>1, <1>3, WritesTurns
<1>5. /\ objects'[i][p] = loads[r].bundle[p]
      /\ \A q \in Paths : q # p => objects'[i][q] = objects[i][q]
      /\ \A j \in ExtensionIds : j # i => objects'[j] = objects[j]
  BY <1>1, <1>2 DEF Revision
<1> HIDE DEF h
<1>6. Owns(s, i)
  BY <1>2 DEF Owns, IdPlaces
<1>7. Whole(h, ext', objects')
  <2>1. Copied(h, ext[s], objects')
    BY <1>2, <1>3, <1>5 DEF Copied
  <2> QED BY <1>1, <1>3, <2>1 DEF Whole, Written, UploadPlaces
<1>8. Owned'
  <2>1. \A t \in Slugs : E!Stored(t)' => Owns(t, ext'[t].id)
    BY <1>1 DEF E!Stored, Owns
  <2> QED BY <1>1, <1>3, <1>4, <1>6, <2>1, OwnedStays DEF WholeInv
<1>9. (\A t \in Slugs : RowsPlain(t))'
  BY <1>1 DEF WholeInv, RowsPlain, E!Stored
<1>10. ASSUME NEW t \in Slugs, E!Stored(t)', ext'[t].id \notin torn', NEW q \in Paths
       PROVE  E!Content(t, q)' = ext'[t].bundle[q]
  <2>1. E!Stored(t) /\ ext[t].id \notin torn /\ ext'[t] = ext[t] /\ files'[t] = files[t]
    BY <1>1, <1>10 DEF E!Stored, E!Tearing
  <2>2. ext[t].id \in ExtensionIds /\ E!Content(t, q) = ext[t].bundle[q]
    BY <2>1 DEF ExtensionsInv, RowSound, E!Stored, WholeInv, E!RevisionWhole
  <2>3. CASE ext[t].id # i \/ q # p
    BY <1>5, <2>1, <2>2, <2>3 DEF E!Content
  <2>4. CASE ext[t].id = i /\ q = p
    <3>1. t = s
      BY <1>2, <1>6, <2>1, <2>4 DEF WholeInv, Owned, Owns
    <3>2. loads[r].alone
      BY <1>1, <1>10, <2>4, <2>1 DEF E!Tearing
    <3>3. loads[r].bundle[p] = ext[t].bundle[p]
      BY <1>1, <1>2, <2>1, <2>4, <3>1, <3>2 DEF Copied, E!Stored
    <3> QED BY <1>5, <2>1, <2>2, <2>4, <3>3 DEF E!Content
  <2> QED BY <2>3, <2>4
<1>11. ASSUME NEW q \in Requests PROVE Whole(loads'[q], ext', objects')
  <2>1. CASE q = r
    BY <1>4, <1>7, <2>1 DEF Turned
  <2>2. CASE q # r
    BY <1>1, <1>3, <1>4, <1>5, <2>2, OthersWhole
  <2> QED BY <2>1, <2>2
<1> QED BY <1>8, <1>9, <1>10, <1>11 DEF WholeInv, E!RevisionWhole

LEMMA BackfillFlipWhole ==
    ASSUME ExtensionsInv, WholeInv, NEW r \in Requests, E!BackfillFlips(r)
    PROVE  WholeInv'
<1> DEFINE s == loads[r].slug
           p == loads[r].path
           f == [in |-> "object", content |-> None]
           h == E!Moved(r, p)
<1>1. /\ \/ /\ ext[s].id = loads[r].id /\ files[s][p].in = "postgres"
            /\ files' = [files EXCEPT ![s][p] = f] /\ torn' = E!Tearing(r)
         \/ UNCHANGED <<files, torn>>
      /\ E!Becomes(r, h) /\ UNCHANGED <<ext, objects, used>>
  BY DEF E!BackfillFlips
<1>2. /\ loads[r] \in Loader /\ loads[r].at = "flip" /\ s \in Slugs /\ p \in Paths
      /\ Copied(loads[r], ext[s], objects)
  BY DEF ExtensionsInv, ExtensionTypes, LoaderSound, E!BackfillFlips, E!At, WholeInv, Whole
<1>3. h \in Loader /\ (h.at \in IdPlaces => Owns(h.slug, h.id)) /\ Whole(h, ext, objects)
  BY <1>2, MovedWhole
<1> HIDE DEF h
<1>4. Turned(r, h) /\ \A q \in Requests \ {r} : loads'[q] = loads[q]
  BY <1>1, <1>3, BecomesTurns
<1>5. Owned'
  <2>1. \A t \in Slugs : E!Stored(t)' => Owns(t, ext'[t].id)
    BY <1>1 DEF E!Stored, Owns
  <2> QED BY <1>1, <1>3, <1>4, <2>1, OwnedStays DEF WholeInv
<1>6. ASSUME NEW t \in Slugs, NEW q \in Paths
      PROVE  \/ files'[t][q] = files[t][q]
             \/ /\ t = s /\ q = p /\ files'[t][q] = f /\ files[t][q].in = "postgres"
                /\ ext[t].id = loads[r].id /\ torn' = E!Tearing(r)
  BY <1>1, <1>2 DEF ExtensionsInv, ExtensionTypes
<1>7. ASSUME NEW t \in Slugs PROVE RowsPlain(t)'
  <2>1. RowsPlain(t) /\ (E!Stored(t)' <=> E!Stored(t)) /\ ext' = ext
    BY <1>1 DEF WholeInv, E!Stored
  <2>2. CASE E!Stored(t)
    BY <1>6, <2>1, <2>2 DEF RowsPlain
  <2>3. CASE ~E!Stored(t)
    <3>1. files[t] = E!Absent
      BY <2>1, <2>3 DEF RowsPlain
    <3>2. \A q \in Paths : files[t][q].in # "postgres"
      BY <3>1, ExtensionFacts DEF E!Absent
    <3>3. t = s => UNCHANGED files
      BY <1>1, <1>2, <3>2
    <3>4. files'[t] = files[t]
      BY <1>1, <1>2, <3>3 DEF ExtensionsInv, ExtensionTypes
    <3> QED BY <2>1, <2>3, <3>1, <3>4 DEF RowsPlain
  <2> QED BY <2>2, <2>3
<1>8. ASSUME NEW t \in Slugs, E!Stored(t)', ext'[t].id \notin torn', NEW q \in Paths
      PROVE  E!Content(t, q)' = ext'[t].bundle[q]
  <2>1. E!Stored(t) /\ ext[t].id \notin torn /\ UNCHANGED <<ext, objects>>
    BY <1>1, <1>8 DEF E!Stored, E!Tearing
  <2>2. E!Content(t, q) = ext[t].bundle[q]
    BY <2>1 DEF WholeInv, E!RevisionWhole
  <2>3. CASE files'[t][q] = files[t][q]
    BY <2>1, <2>2, <2>3 DEF E!Content
  <2>4. CASE /\ t = s /\ q = p /\ files'[t][q] = f
             /\ ext[t].id = loads[r].id /\ torn' = E!Tearing(r)
    <3>1. loads[r].alone
      BY <1>8, <2>1, <2>4 DEF E!Tearing
    <3>2. objects[ext[t].id][q] = ext[t].bundle[q]
      BY <1>2, <2>1, <2>4, <3>1 DEF Copied, E!Stored
    <3> QED BY <2>1, <2>4, <3>2 DEF E!Content
  <2> QED BY <1>6, <2>3, <2>4
<1>9. \A q \in Requests : Whole(loads'[q], ext', objects')
  BY <1>1, <1>3, <1>4 DEF WholeInv, Turned
<1> QED BY <1>5, <1>7, <1>8, <1>9 DEF WholeInv, E!RevisionWhole

LEMMA BackfillWhole ==
    ASSUME ExtensionsInv, WholeInv, NEW r \in Requests, E!BackfillSelects(r) \/ E!BackfillStep(r)
    PROVE  WholeInv'
<1>1. CASE E!BackfillPutFails(r)
  <2>1. PICK p \in loads[r].todo : E!Becomes(r, E!Moved(r, p))
    BY <1>1 DEF E!BackfillPutFails
  <2>2. p \in Paths /\ loads[r].at \in {"move", "flip"}
    BY <1>1 DEF E!BackfillPutFails, E!At, ExtensionsInv, ExtensionTypes, Loader
  <2> DEFINE h == E!Moved(r, p)
  <2>3. h \in Loader /\ (h.at \in IdPlaces => Owns(h.slug, h.id)) /\ Whole(h, ext, objects)
    BY <2>2, MovedWhole
  <2>4. UNCHANGED <<ext, files, objects, used, torn>>
    BY <1>1 DEF E!BackfillPutFails, E!stored
  <2> HIDE DEF h
  <2> QED BY <2>1, <2>3, <2>4, QuietWhole DEF h
<1> QED BY <1>1, BackfillBeginsWhole, BackfillPutWhole, BackfillFlipWhole DEF E!BackfillStep

\* A delivery writes nothing under any id.
LEMMA DeliveryWhole ==
    ASSUME ExtensionsInv, ExtensionsInv', WholeInv,
           NEW r \in Requests, E!Deliver(r) \/ E!DeliveryStep(r)
    PROVE  WholeInv'
<1>1. UNCHANGED <<ext, files, objects, used, torn>>
  BY DEF E!Deliver, E!DeliveryStep, E!ListActive, E!ListFiles, E!GetObject, E!FilesRead, E!Answer,
         E!Answered, E!stored
<1>2. loads \in [Requests -> Loader] /\ loads' \in [Requests -> Loader]
  BY DEF ExtensionsInv, ExtensionTypes
<1>3. PICK h : E!Becomes(r, h)
  BY DEF E!Deliver, E!DeliveryStep, E!ListActive, E!ListFiles, E!GetObject, E!FilesRead, E!Answer,
         E!Answered, E!Ends, E!Goes
<1>4. h \in Loader /\ loads'[r] = h
  BY <1>2, <1>3 DEF E!Becomes
<1>5. h.at \notin IdPlaces \cup UploadPlaces
  <2>1. E!Idle.at = "idle"
    BY ExtensionFacts
  <2>2. CASE E!Deliver(r)
    <3>1. loads'[r].at = "list"
      BY <1>2, <2>2, ExtensionFacts DEF E!Deliver, E!Becomes, Loader
    <3> QED BY <1>4, <3>1 DEF IdPlaces, UploadPlaces
  <2>3. CASE E!ListActive(r) \/ E!Answered(r)
    <3>1. PICK listed : \/ E!Becomes(r, E!Idle)
                        \/ E!Becomes(r, [loads[r] EXCEPT !.at = "files", !.rows = listed])
      BY <2>3, Zenon DEF E!ListActive, E!Answered, E!Ends
    <3>2. loads'[r].at \in {"idle", "files"}
      BY <1>2, <2>1, <3>1 DEF E!Becomes, Loader
    <3> QED BY <1>4, <3>2 DEF IdPlaces, UploadPlaces
  <2>4. CASE E!ListFiles(r)
    <3>1. PICK slug, id, bundle, todo :
            E!Becomes(r, [loads[r] EXCEPT !.at = "read", !.slug = slug, !.id = id,
                                          !.bundle = bundle, !.todo = todo])
      BY <2>4 DEF E!ListFiles
    <3>2. loads'[r].at = "read"
      BY <1>2, <3>1 DEF E!Becomes, Loader
    <3> QED BY <1>4, <3>2 DEF IdPlaces, UploadPlaces
  <2>5. CASE E!GetObject(r)
    <3>1. loads[r].at = "read"
          /\ \E p, todo, c : \/ E!Becomes(r, E!Idle)
                            \/ E!Becomes(r, [loads[r] EXCEPT !.todo = todo, !.bundle[p] = c])
      BY <2>5, Zenon DEF E!GetObject, E!Ends, E!At
    <3>2. loads'[r].at \in {"idle", "read"}
      BY <1>2, <2>1, <3>1 DEF E!Becomes, Loader
    <3> QED BY <1>4, <3>2 DEF IdPlaces, UploadPlaces
  <2>6. CASE E!FilesRead(r)
    <3>1. loads'[r].at \in {"check", "files"}
      BY <1>2, <2>6 DEF E!FilesRead, E!Becomes, Loader
    <3> QED BY <1>4, <3>1 DEF IdPlaces, UploadPlaces
  <2>7. CASE E!Answer(r)
    <3>1. loads'[r].at \in {"idle", "answered"}
      BY <1>2, <2>7, ExtensionFacts DEF E!Answer, E!Becomes, E!Ends, E!Goes, Loader
    <3> QED BY <1>4, <3>1 DEF IdPlaces, UploadPlaces
  <2> QED BY <2>2, <2>3, <2>4, <2>5, <2>6, <2>7 DEF E!DeliveryStep
<1>6. Whole(h, ext, objects) /\ h.at \notin IdPlaces
  BY <1>5 DEF Whole, Written, Copied, IdPlaces
<1> QED BY <1>1, <1>3, <1>4, <1>6, QuietWhole

LEMMA StillWhole ==
    ASSUME WholeInv, UNCHANGED <<ext, files, objects, used, loads, torn>>
    PROVE  WholeInv'
BY DEF WholeInv, Owned, Owns, RowsPlain, E!RevisionWhole, E!Stored, E!Content

LEMMA WholeStep ==
    ASSUME ExtensionsInv, WholeInv, E!Next
    PROVE  WholeInv'
<1>1. CASE E!ConfigureBucket
  BY <1>1, StillWhole DEF E!ConfigureBucket, E!stored
<1>2. CASE \E r \in Requests : E!Deliver(r) \/ E!DeliveryStep(r)
  BY <1>2, ExtensionsStep, DeliveryWhole
<1> QED BY <1>1, <1>2, UploadStepsWhole, SwitchWhole, BackfillWhole DEF E!Next

LEMMA WholeStart == E!Init => WholeInv
<1> SUFFICES ASSUME E!Init PROVE WholeInv
  OBVIOUS
<1>1. \A s \in Slugs : ~E!Stored(s) /\ files[s] = E!Absent
  BY DEF E!Init, E!Stored
<1>2. \A r \in Requests : loads[r] = E!Idle
  BY DEF E!Init
<1>3. E!Idle.at \notin IdPlaces
  BY ExtensionFacts DEF IdPlaces, UploadPlaces
<1>4. Owned
  BY <1>1, <1>2, <1>3 DEF Owned, Owns
<1>5. \A s \in Slugs : RowsPlain(s)
  BY <1>1 DEF RowsPlain
<1>6. E!RevisionWhole
  BY <1>1 DEF E!RevisionWhole
<1>7. \A r \in Requests : Whole(loads[r], ext, objects)
  BY <1>2, IdleWhole
<1> QED BY <1>4, <1>5, <1>6, <1>7 DEF WholeInv

LEMMA ExtensionsDelivered == ExtensionsInv /\ WholeInv => E!DeliveredIntact
<1> SUFFICES ASSUME ExtensionsInv, WholeInv PROVE E!DeliveredIntact
  OBVIOUS
<1>1. E!FilesHaveBytes
  BY DEF E!FilesHaveBytes, ExtensionsInv, FileSound
<1>2. E!GivenIsUploaded
  BY DEF E!GivenIsUploaded, E!At, ExtensionsInv, LoaderSound, Uploaded
<1> QED BY <1>1, <1>2 DEF WholeInv, E!DeliveredIntact

-----------------------------------------------------------------------------
(* Sums over finite sets.  What a fold computes is found by looking at a       *)
(* smallest set for which it would compute something else.                     *)

Chosen(s) == CHOOSE e \in s : TRUE

Added(f, g, s) == IF s = {} THEN 0 ELSE f[Chosen(s)] + g[s \ {Chosen(s)}]

\* g adds f up over every subset of X, an element at a time.
Adds(g, f, X) == g = [s \in SUBSET X |-> Added(f, g, s)]

Sum(f, X) == (CHOOSE g : Adds(g, f, X))[X]

\* A set of finite sets has an element that includes no other.
LEMMA SmallestSet ==
    ASSUME NEW X, IsFiniteSet(X), NEW Bad \in SUBSET SUBSET X, Bad # {}
    PROVE  \E s \in Bad : \A t \in Bad : t \subseteq s => t = s
<1> DEFINE R == StrictSubsetOrdering(X)
<1>1. IsWellFoundedOn(R, SUBSET X)
  BY FS_StrictSubsetOrderingWellFounded, FS_FiniteSubsetsOfFinite
<1> HIDE DEF R
<1>2. PICK s \in Bad : \A t \in Bad : ~(<<t, s>> \in R)
  BY <1>1, WFMin
<1>3. \A t \in Bad : t \subseteq s => t = s
  <2> SUFFICES ASSUME NEW t \in Bad, t \subseteq s, t # s
               PROVE  FALSE
    OBVIOUS
  <2> DEFINE p == <<t, s>>
  <2>1. p \in (SUBSET X) \X (SUBSET X) /\ p[1] = t /\ p[2] = s
    OBVIOUS
  <2> HIDE DEF p
  <2>2. p \in R
    BY <2>1 DEF R, StrictSubsetOrdering
  <2> QED BY <1>2, <2>2 DEF p
<1> QED BY <1>3

\* A set of numbers has a least element.
LEMMA LeastNumber ==
    ASSUME NEW Y \in SUBSET Nat, Y # {}
    PROVE  \E i \in Y : \A l \in Y : i <= l
<1> DEFINE Less == OpToRel(<, Nat)
<1>1. Less = {ss \in Nat \X Nat : ss[1] < ss[2]}
  BY Zenon DEF OpToRel
<1>2. IsWellFoundedOn(Less, Nat)
  BY NatLessThanWellFounded
<1> HIDE DEF Less
<1>3. PICK i \in Y : \A l \in Y : ~(<<l, i>> \in Less)
  BY <1>2, WFMin
<1> SUFFICES ASSUME NEW l \in Y, l < i
             PROVE  FALSE
  OBVIOUS
<1> DEFINE p == <<l, i>>
<1>4. p \in Nat \X Nat /\ p[1] = l /\ p[2] = i
  OBVIOUS
<1> HIDE DEF p
<1>5. p \in Less
  BY <1>1, <1>4
<1> QED BY <1>3, <1>5 DEF p

LEMMA ChosenIn ==
    ASSUME NEW s, s # {}
    PROVE  Chosen(s) \in s
BY DEF Chosen

LEMMA OneLess ==
    ASSUME NEW X, IsFiniteSet(X), NEW s \in SUBSET X, NEW e \in s
    PROVE  /\ s \ {e} \in SUBSET X /\ IsFiniteSet(s) /\ IsFiniteSet(s \ {e})
           /\ Cardinality(s) \in Nat /\ Cardinality(s \ {e}) = Cardinality(s) - 1
           /\ Cardinality(s \ {e}) \in Nat /\ Cardinality(s \ {e}) < Cardinality(s)
<1> DEFINE t == s \ {e}
<1>1. IsFiniteSet(s) /\ t \in SUBSET X
  BY FS_Subset
<1>2. IsFiniteSet(t) /\ Cardinality(t) = Cardinality(s) - 1
  BY <1>1, FS_RemoveElement
<1>3. Cardinality(s) \in Nat /\ Cardinality(t) \in Nat
  BY <1>1, <1>2, FS_CardinalityType
<1> HIDE DEF t
<1>4. Cardinality(t) < Cardinality(s)
  BY ONLY <1>2, <1>3
<1> QED BY <1>1, <1>2, <1>3, <1>4 DEF t

\* There is such a function.
LEMMA SumsExist ==
    ASSUME NEW f, NEW X, IsFiniteSet(X)
    PROVE  \E g : Adds(g, f, X)
<1> DEFINE Upto(i) == \E g : \A s \in SUBSET X : Cardinality(s) <= i => g[s] = Added(f, g, s)
           Bad == {i \in Nat : ~Upto(i)}
<1>1. \A s \in SUBSET X : /\ Cardinality(s) \in Nat /\ Cardinality(s) <= Cardinality(X)
                          /\ Cardinality(s) = 0 => s = {}
  BY FS_Subset, FS_CardinalityType, FS_EmptySet
<1>2. 0 \notin Bad
  <2> DEFINE g == [s \in SUBSET X |-> 0]
  <2>1. \A s \in SUBSET X : Cardinality(s) <= 0 => g[s] = Added(f, g, s)
    BY <1>1 DEF Added
  <2> QED BY <2>1
<1>3. ASSUME NEW i \in Nat, Upto(i)
      PROVE  Upto(i + 1)
  <2>1. PICK g : \A s \in SUBSET X : Cardinality(s) <= i => g[s] = Added(f, g, s)
    BY <1>3
  <2> DEFINE h == [s \in SUBSET X |-> Added(f, g, s)]
  <2>2. ASSUME NEW s \in SUBSET X, Cardinality(s) <= i + 1
        PROVE  h[s] = Added(f, h, s)
    <3>1. h[s] = Added(f, g, s)
      OBVIOUS
    <3>2. CASE s = {}
      BY <3>1, <3>2 DEF Added
    <3>3. CASE s # {}
      <4> DEFINE t == s \ {Chosen(s)}
      <4>1. t \in SUBSET X /\ Cardinality(t) <= i
        <5>1. Chosen(s) \in s /\ t \in SUBSET X /\ Cardinality(s) \in Nat
          BY <1>1, <3>3, ChosenIn
        <5>2. Cardinality(t) \in Nat /\ Cardinality(t) = Cardinality(s) - 1
          BY <5>1, OneLess
        <5> HIDE DEF t
        <5>3. Cardinality(t) <= i
          BY ONLY <5>1, <5>2, <2>2, i \in Nat
        <5> QED BY <5>1, <5>3
      <4>2. h[t] = g[t]
        BY <2>1, <4>1
      <4> QED BY <3>1, <3>3, <4>2 DEF Added
    <3> QED BY <3>2, <3>3
  <2> HIDE DEF h
  <2> QED BY <2>2
<1>4. Bad = {}
  <2> SUFFICES ASSUME Bad # {}
               PROVE  FALSE
    OBVIOUS
  <2>1. PICK i \in Bad : \A l \in Bad : i <= l
    <3> HIDE DEF Upto
    <3> QED BY LeastNumber
  <2> HIDE DEF Upto
  <2>2. i \in Nat /\ i # 0 /\ i - 1 \in Nat /\ (i - 1) + 1 = i
    BY <1>2
  <2>3. Upto(i - 1)
    BY <2>1, <2>2
  <2> QED BY <1>3, <2>2, <2>3
<1>5. PICK g : \A s \in SUBSET X : g[s] = Added(f, g, s)
  <2>1. Cardinality(X) \in Nat
    BY <1>1
  <2>2. Upto(Cardinality(X))
    <3> HIDE DEF Upto
    <3> QED BY <1>4, <2>1
  <2> QED BY <1>1, <2>2
<1> DEFINE h == [s \in SUBSET X |-> g[s]]
<1>6. \A s \in SUBSET X : Added(f, h, s) = Added(f, g, s)
  BY ChosenIn DEF Added
<1>7. h = [s \in SUBSET X |-> Added(f, h, s)]
  BY <1>5, <1>6
<1> QED BY <1>7 DEF Adds

\* Over a subset it is the one of that subset.
LEMMA SumsAgree ==
    ASSUME NEW f, NEW X, IsFiniteSet(X), NEW Y \in SUBSET X, NEW g, NEW h,
           Adds(g, f, X), Adds(h, f, Y)
    PROVE  g[Y] = h[Y]
<1> DEFINE Bad == {s \in SUBSET Y : g[s] # h[s]}
<1> SUFFICES Bad = {}
  OBVIOUS
<1> SUFFICES ASSUME Bad # {}
             PROVE  FALSE
  OBVIOUS
<1>1. PICK s \in Bad : \A t \in Bad : t \subseteq s => t = s
  <2>1. IsFiniteSet(Y) /\ Bad \in SUBSET SUBSET Y
    BY FS_Subset
  <2> HIDE DEF Bad
  <2> QED BY <2>1, SmallestSet
<1>2. g[s] = Added(f, g, s) /\ h[s] = Added(f, h, s)
  BY DEF Adds
<1>3. CASE s = {}
  BY <1>2, <1>3 DEF Added
<1>4. CASE s # {}
  <2> DEFINE t == s \ {Chosen(s)}
  <2>1. t \subseteq s /\ t # s /\ t \in SUBSET Y
    BY <1>4, ChosenIn
  <2>2. g[t] = h[t]
    BY <1>1, <2>1
  <2> QED BY <1>2, <1>4, <2>2 DEF Added
<1> QED BY <1>3, <1>4

\* What a sum is: nothing of nothing, or one element and the sum of the rest.
LEMMA SumStep ==
    ASSUME NEW f, NEW X, IsFiniteSet(X)
    PROVE  Sum(f, X) = IF X = {} THEN 0 ELSE f[Chosen(X)] + Sum(f, X \ {Chosen(X)})
<1> DEFINE Y == X \ {Chosen(X)}
           whole == CHOOSE g : Adds(g, f, X)
           rest == CHOOSE g : Adds(g, f, Y)
<1>1. Y \in SUBSET X /\ IsFiniteSet(Y)
  BY FS_Subset
<1>2. Adds(whole, f, X) /\ Adds(rest, f, Y)
  BY <1>1, SumsExist
<1> HIDE DEF whole, rest
<1>3. whole[Y] = rest[Y]
  BY <1>1, <1>2, SumsAgree
<1>4. whole[X] = Added(f, whole, X)
  BY <1>2 DEF Adds
<1> QED BY <1>3, <1>4 DEF Sum, Added, whole, rest

LEMMA SumEmpty == \A f : Sum(f, {}) = 0
BY SumStep, FS_EmptySet

LEMMA SumType ==
    ASSUME NEW Dom, NEW f \in [Dom -> Nat], NEW X \in SUBSET Dom, IsFiniteSet(X)
    PROVE  Sum(f, X) \in Nat
<1> DEFINE Bad == {s \in SUBSET X : Sum(f, s) \notin Nat}
<1> SUFFICES ASSUME Bad # {}
             PROVE  FALSE
  OBVIOUS
<1>1. PICK s \in Bad : \A t \in Bad : t \subseteq s => t = s
  <2>1. Bad \in SUBSET SUBSET X
    OBVIOUS
  <2> HIDE DEF Bad
  <2> QED BY <2>1, SmallestSet
<1>2. IsFiniteSet(s) /\ s \in SUBSET Dom
  BY FS_Subset
<1>3. CASE s = {}
  BY <1>3, SumEmpty
<1>4. CASE s # {}
  <2> DEFINE t == s \ {Chosen(s)}
  <2>1. t \subseteq s /\ t # s /\ t \in SUBSET X /\ f[Chosen(s)] \in Nat
    BY <1>2, <1>4, ChosenIn
  <2>2. Sum(f, t) \in Nat
    BY <1>1, <2>1
  <2>3. Sum(f, s) = f[Chosen(s)] + Sum(f, t)
    BY <1>2, <1>4, SumStep
  <2> QED BY <2>1, <2>2, <2>3
<1> QED BY <1>3, <1>4

\* It does not matter which element is added first.
LEMMA SumElement ==
    ASSUME NEW Dom, NEW f \in [Dom -> Nat], NEW X \in SUBSET Dom, IsFiniteSet(X), NEW e \in X
    PROVE  Sum(f, X) = f[e] + Sum(f, X \ {e})
<1> DEFINE Adds1(s) == \A d \in s : Sum(f, s) = f[d] + Sum(f, s \ {d})
           Bad == {s \in SUBSET X : ~Adds1(s)}
<1> SUFFICES ASSUME Bad # {}
             PROVE  FALSE
  <2> SUFFICES Bad = {} => Adds1(X)
    BY Zenon
  <2> HIDE DEF Adds1
  <2> QED OBVIOUS
<1>1. PICK s \in Bad : \A t \in Bad : t \subseteq s => t = s
  <2>1. Bad \in SUBSET SUBSET X
    OBVIOUS
  <2> HIDE DEF Bad
  <2> QED BY <2>1, SmallestSet
<1>2. \A t \in SUBSET s : t # s => Adds1(t)
  <2> HIDE DEF Adds1
  <2> QED BY <1>1
<1>3. PICK d \in s : Sum(f, s) # f[d] + Sum(f, s \ {d})
  OBVIOUS
<1> DEFINE c == Chosen(s)
           sc == s \ {c}
           sy == s \ {d}
           both == s \ {c, d}
<1>4. /\ IsFiniteSet(s) /\ IsFiniteSet(sc) /\ IsFiniteSet(sy) /\ IsFiniteSet(both)
      /\ c \in s
  BY FS_Subset, ChosenIn
<1>5. Sum(f, s) = f[c] + Sum(f, sc)
  BY <1>4, SumStep
<1>6. c # d
  BY <1>3, <1>5
<1>7. Sum(f, sc) = f[d] + Sum(f, both)
  <2>1. sc \in SUBSET s /\ sc # s /\ d \in sc /\ sc \ {d} = both
    BY <1>4, <1>6
  <2> HIDE DEF sc, both
  <2> QED BY <1>2, <2>1
<1>8. Sum(f, sy) = f[c] + Sum(f, both)
  <2>1. sy \in SUBSET s /\ sy # s /\ c \in sy /\ sy \ {c} = both
    BY <1>4, <1>6
  <2> HIDE DEF sy, both
  <2> QED BY <1>2, <2>1
<1>9. f[c] \in Nat /\ f[d] \in Nat /\ Sum(f, both) \in Nat
  <2>1. both \in SUBSET Dom /\ c \in Dom /\ d \in Dom
    BY <1>4
  <2> HIDE DEF both, c
  <2> QED BY <1>4, <2>1, SumType
<1> HIDE DEF c, sc, both
<1> QED BY <1>3, <1>5, <1>7, <1>8, <1>9

LEMMA SumUnion ==
    ASSUME NEW Dom, NEW f \in [Dom -> Nat], NEW X \in SUBSET Dom, NEW Y \in SUBSET Dom,
           IsFiniteSet(X), IsFiniteSet(Y), X \cap Y = {}
    PROVE  Sum(f, X \cup Y) = Sum(f, X) + Sum(f, Y)
<1> DEFINE Bad == {s \in SUBSET X : Sum(f, s \cup Y) # Sum(f, s) + Sum(f, Y)}
<1> SUFFICES ASSUME Bad # {}
             PROVE  FALSE
  OBVIOUS
<1>1. PICK s \in Bad : \A t \in Bad : t \subseteq s => t = s
  <2>1. Bad \in SUBSET SUBSET X
    OBVIOUS
  <2> HIDE DEF Bad
  <2> QED BY <2>1, SmallestSet
<1>2. /\ IsFiniteSet(s) /\ s \in SUBSET Dom /\ s \cap Y = {}
      /\ IsFiniteSet(s \cup Y) /\ s \cup Y \in SUBSET Dom
  BY FS_Subset, FS_Union
<1>3. Sum(f, Y) \in Nat
  BY SumType
<1>4. CASE s = {}
  <2>1. s \cup Y = Y
    BY <1>4
  <2> QED BY <1>3, <1>4, <2>1, SumEmpty
<1>5. CASE s # {}
  <2>1. PICK d \in s : TRUE
    BY <1>5
  <2> DEFINE t == s \ {d}
  <2>2. t \subseteq s /\ t # s /\ t \in SUBSET X /\ t \in SUBSET Dom /\ IsFiniteSet(t)
    BY <1>2, FS_Subset
  <2>3. Sum(f, t \cup Y) = Sum(f, t) + Sum(f, Y)
    BY <1>1, <2>2
  <2>4. (s \cup Y) \ {d} = t \cup Y /\ d \in s \cup Y /\ d \in Dom
    BY <1>2
  <2>5. Sum(f, s) = f[d] + Sum(f, t)
    BY <1>2, SumElement
  <2>6. Sum(f, s \cup Y) = f[d] + Sum(f, t \cup Y)
    BY <1>2, <2>4, SumElement
  <2>7. Sum(f, t) \in Nat /\ f[d] \in Nat
    BY <2>2, <2>4, SumType
  <2> HIDE DEF t
  <2> QED BY <1>3, <2>3, <2>5, <2>6, <2>7
<1> QED BY <1>4, <1>5

\* The sums over groups that share nothing add up to the sum over all of them.
LEMMA SumOfGroups ==
    ASSUME NEW Dom, IsFiniteSet(Dom), NEW f \in [Dom -> Nat], NEW Groups, IsFiniteSet(Groups),
           NEW members \in [Groups -> SUBSET Dom], NEW v \in [Groups -> Nat],
           \A q \in Groups : v[q] = Sum(f, members[q]),
           \A p, q \in Groups : p # q => members[p] \cap members[q] = {}
    PROVE  Sum(v, Groups) = Sum(f, UNION {members[q] : q \in Groups})
<1> DEFINE All(P) == UNION {members[q] : q \in P}
           Bad == {P \in SUBSET Groups : Sum(v, P) # Sum(f, All(P))}
<1> SUFFICES ASSUME Bad # {}
             PROVE  FALSE
  OBVIOUS
<1>1. PICK P \in Bad : \A R \in Bad : R \subseteq P => R = P
  <2>1. Bad \in SUBSET SUBSET Groups
    OBVIOUS
  <2> HIDE DEF Bad
  <2> QED BY <2>1, SmallestSet
<1>2. CASE P = {}
  <2>1. All(P) = {}
    BY <1>2
  <2> QED BY <1>2, <2>1, SumEmpty
<1>3. CASE P # {}
  <2>1. PICK q \in P : TRUE
    BY <1>3
  <2> DEFINE R == P \ {q}
  <2>2. R \subseteq P /\ R # P /\ R \in SUBSET Groups /\ IsFiniteSet(P)
    BY FS_Subset
  <2>3. Sum(v, R) = Sum(f, All(R))
    BY <1>1, <2>2
  <2>4. Sum(v, P) = v[q] + Sum(v, R)
    BY <2>2, SumElement
  <2>5. /\ members[q] \in SUBSET Dom /\ All(R) \in SUBSET Dom /\ members[q] \cap All(R) = {}
        /\ All(P) = members[q] \cup All(R)
    OBVIOUS
  <2> DEFINE M == members[q]
             N == All(R)
  <2>6. v[q] = Sum(f, M)
    OBVIOUS
  <2> HIDE DEF All, M, N
  <2>7. M \in SUBSET Dom /\ N \in SUBSET Dom /\ M \cap N = {} /\ All(P) = M \cup N
    BY <2>5 DEF M, N
  <2>8. IsFiniteSet(M) /\ IsFiniteSet(N)
    BY <2>7, FS_Subset
  <2>9. Sum(f, M \cup N) = Sum(f, M) + Sum(f, N)
    BY <2>7, <2>8, SumUnion
  <2> QED BY <2>3, <2>4, <2>6, <2>7, <2>9 DEF N
<1> QED BY <1>2, <1>3

\* A cardinality is the sum of ones.
LEMMA SumOfOnes ==
    ASSUME NEW Dom, NEW X \in SUBSET Dom, IsFiniteSet(X)
    PROVE  Sum([e \in Dom |-> 1], X) = Cardinality(X)
<1> DEFINE ones == [e \in Dom |-> 1]
           Bad == {s \in SUBSET X : Sum(ones, s) # Cardinality(s)}
<1> SUFFICES ASSUME Bad # {}
             PROVE  FALSE
  OBVIOUS
<1>1. PICK s \in Bad : \A t \in Bad : t \subseteq s => t = s
  <2>1. Bad \in SUBSET SUBSET X
    OBVIOUS
  <2> HIDE DEF Bad
  <2> QED BY <2>1, SmallestSet
<1>2. IsFiniteSet(s) /\ s \in SUBSET Dom
  BY FS_Subset
<1>3. CASE s = {}
  BY <1>3, SumEmpty, FS_EmptySet
<1>4. CASE s # {}
  <2>1. PICK d \in s : TRUE
    BY <1>4
  <2> DEFINE t == s \ {d}
  <2>2. t \subseteq s /\ t # s /\ t \in SUBSET X
    OBVIOUS
  <2>3. Sum(ones, t) = Cardinality(t)
    BY <1>1, <2>2
  <2>4. ones \in [Dom -> Nat] /\ ones[d] = 1
    BY <1>2
  <2> HIDE DEF ones
  <2>5. Sum(ones, s) = 1 + Sum(ones, t)
    BY <1>2, <2>4, SumElement
  <2>6. Cardinality(t) = Cardinality(s) - 1 /\ Cardinality(s) \in Nat
    BY <1>2, OneLess
  <2> QED BY <2>3, <2>5, <2>6 DEF ones
<1> QED BY <1>3, <1>4

-----------------------------------------------------------------------------
(* Usage: what a handler that nothing has disturbed since it began has read   *)
(* is still what it would read, and the groups of a breakdown share no row;    *)
(* no row goes, and every row has the day it was given first.                 *)

\* What Usage takes from FiniteSets is what this module takes from it.
LEMMA SameCounting ==
    \A s : U!Cardinality(s) = Cardinality(s) /\ (U!IsFiniteSet(s) <=> IsFiniteSet(s))
<1>1. \A s : U!Cardinality(s) = Cardinality(s)
  BY DEF U!Cardinality, Cardinality
<1>2. \A s : U!IsFiniteSet(s) <=> IsFiniteSet(s)
  BY DEF U!IsFiniteSet, IsFiniteSet
<1> QED BY <1>1, <1>2

UsageRow == [day : Nat, provider : Providers \cup {None}, tokens : Nat]
Posted == [day : Nat \ {0}, tokens : Nat]
Spent == [j \in Jobs |-> usage[j].tokens]

UsageTypes ==
    /\ day \in Nat \ {0} /\ usage \in [Jobs -> UsageRow] /\ caps \in [Apps -> Nat \cup {None}]
    /\ asks = [r \in Requests |-> asks[r]]
    /\ heard \in [Jobs -> Seq(Posted)]

LEMMA TokensAreSum ==
    ASSUME NEW jobs \in SUBSET Jobs
    PROVE  U!Tokens(jobs) = Sum(Spent, jobs)
<1> DEFINE Folded(g) == [s \in SUBSET jobs |->
                      IF s = {} THEN 0 ELSE usage[Chosen(s)].tokens + g[s \ {Chosen(s)}]]
           Adding(g) == [s \in SUBSET jobs |-> Added(Spent, g, s)]
<1>1. U!Tokens(jobs) = (CHOOSE g : g = Folded(g))[jobs]
  BY DEF U!Tokens, U!MapThenSumSet, U!MapThenFoldSet, Chosen
<1>2. \A g : Folded(g) = Adding(g)
  <2>1. \A s \in SUBSET jobs : s # {} => Spent[Chosen(s)] = usage[Chosen(s)].tokens
    BY ChosenIn DEF Spent
  <2> QED BY <2>1 DEF Added
<1>3. Sum(Spent, jobs) = (CHOOSE g : g = Adding(g))[jobs]
  BY DEF Sum, Adds
<1> HIDE DEF Folded, Adding
<1> QED BY <1>1, <1>2, <1>3

\* The groups of a breakdown have keys of their own, and take every row.
LEMMA GroupsAddUp ==
    ASSUME UsageTypes, NEW figure, NEW jobs \in SUBSET Jobs
    PROVE  /\ U!TokensIn(U!GroupBy(figure, jobs)) = U!Tokens(jobs)
           /\ U!SessionsIn(U!GroupBy(figure, jobs)) = Cardinality(jobs)
<1> DEFINE K(j) == U!Key(figure, j)
           Of(k) == {j \in jobs : K(j) = k}
           Groups == U!GroupBy(figure, jobs)
           members == [g \in Groups |-> Of(g.key)]
           ones == [j \in Jobs |-> 1]
           tokens == [g \in Groups |-> g.tokens]
           counts == [g \in Groups |-> g.sessions]
           group(j) == U!Total(K(j), Of(K(j)))
<1>1. Groups = {group(j) : j \in jobs}
  <2>1. Groups = {U!Total(k, Of(k)) : k \in {K(j) : j \in jobs}}
    BY DEF U!GroupBy
  <2> HIDE DEF K, Groups, Of
  <2> QED BY <2>1
<1> HIDE DEF K, Groups
<1>2. \A g \in Groups : /\ g.tokens = U!Tokens(Of(g.key)) /\ g.sessions = Cardinality(Of(g.key))
                   /\ g = U!Total(g.key, Of(g.key))
  <2> HIDE DEF Of
  <2> SUFFICES ASSUME NEW j \in jobs
               PROVE  LET g == group(j) IN
                        /\ g.tokens = U!Tokens(Of(g.key)) /\ g.sessions = Cardinality(Of(g.key))
                        /\ g = U!Total(g.key, Of(g.key))
    BY <1>1
  <2>1. group(j).key = K(j)
    BY DEF U!Total
  <2> QED BY <2>1, SameCounting DEF U!Total
<1>3. \A j \in jobs : group(j) \in Groups /\ group(j).key = K(j)
  <2> HIDE DEF Of
  <2> QED BY <1>1 DEF U!Total
<1>4. IsFiniteSet(Jobs) /\ IsFiniteSet(jobs)
  BY ConstantsAssumption, FS_Subset, SameCounting DEF U!UsageAssumption
<1>5. IsFiniteSet(Groups)
  <2> DEFINE h == [j \in jobs |-> group(j)]
  <2>1. h \in [jobs -> Groups] /\ \A g \in Groups : \E j \in jobs : h[j] = g
    <3> HIDE DEF group
    <3> QED BY <1>1, <1>3
  <2> HIDE DEF h
  <2>2. h \in Surjection(jobs, Groups)
    BY <2>1 DEF Surjection
  <2> QED BY <1>4, <2>2, FS_Surjection
<1>6. /\ Spent \in [Jobs -> Nat] /\ ones \in [Jobs -> Nat]
      /\ \A s \in SUBSET jobs : /\ s \in SUBSET Jobs /\ IsFiniteSet(s)
                                /\ U!Tokens(s) = Sum(Spent, s) /\ U!Tokens(s) \in Nat
                                /\ Cardinality(s) = Sum(ones, s) /\ Cardinality(s) \in Nat
  <2>1. Spent \in [Jobs -> Nat]
    BY DEF Spent, UsageTypes, UsageRow
  <2>2. ones \in [Jobs -> Nat]
    OBVIOUS
  <2> SUFFICES ASSUME NEW s \in SUBSET jobs
               PROVE  /\ s \in SUBSET Jobs /\ IsFiniteSet(s)
                      /\ U!Tokens(s) = Sum(Spent, s) /\ U!Tokens(s) \in Nat
                      /\ Cardinality(s) = Sum(ones, s) /\ Cardinality(s) \in Nat
    BY <2>1, <2>2
  <2>3. s \in SUBSET Jobs /\ IsFiniteSet(s)
    BY <1>4, FS_Subset
  <2>4. U!Tokens(s) = Sum(Spent, s) /\ Sum(Spent, s) \in Nat
    BY <2>1, <2>3, TokensAreSum, SumType
  <2>5. Cardinality(s) = Sum(ones, s) /\ Cardinality(s) \in Nat
    BY <2>3, SumOfOnes, FS_CardinalityType
  <2> QED BY <2>3, <2>4, <2>5
<1>7. /\ members \in [Groups -> SUBSET Jobs] /\ \A g \in Groups : members[g] \in SUBSET jobs
      /\ \A g, h \in Groups : g # h => members[g] \cap members[h] = {}
  <2>1. \A g, h \in Groups : g # h => g.key # h.key
    BY <1>2
  <2> QED BY <2>1
<1>8. UNION {members[g] : g \in Groups} = jobs
  <2> SUFFICES ASSUME NEW j \in jobs
               PROVE  \E g \in Groups : j \in Of(g.key)
    OBVIOUS
  <2> HIDE DEF group
  <2> QED BY <1>3
<1>9. /\ tokens \in [Groups -> Nat] /\ \A g \in Groups : tokens[g] = Sum(Spent, members[g])
      /\ counts \in [Groups -> Nat] /\ \A g \in Groups : counts[g] = Sum(ones, members[g])
  <2> SUFFICES ASSUME NEW g \in Groups
               PROVE  /\ g.tokens \in Nat /\ g.tokens = Sum(Spent, members[g])
                      /\ g.sessions \in Nat /\ g.sessions = Sum(ones, members[g])
    OBVIOUS
  <2> DEFINE s == members[g]
  <2>1. s \in SUBSET jobs /\ g.tokens = U!Tokens(s) /\ g.sessions = Cardinality(s)
    BY <1>2
  <2> HIDE DEF s, ones
  <2> QED BY <1>6, <2>1 DEF s
<1>10. U!TokensIn(Groups) = Sum(tokens, Groups) /\ U!SessionsIn(Groups) = Sum(counts, Groups)
  <2> DEFINE Folded(g) == [s \in SUBSET Groups |->
                        IF s = {} THEN 0 ELSE Chosen(s).tokens + g[s \ {Chosen(s)}]]
             Adding(g) == [s \in SUBSET Groups |-> Added(tokens, g, s)]
             Sized(g) == [s \in SUBSET Groups |->
                        IF s = {} THEN 0 ELSE Chosen(s).sessions + g[s \ {Chosen(s)}]]
             Counting(g) == [s \in SUBSET Groups |-> Added(counts, g, s)]
  <2>1. U!TokensIn(Groups) = (CHOOSE g : g = Folded(g))[Groups]
    BY DEF U!TokensIn, U!MapThenSumSet, U!MapThenFoldSet, Chosen
  <2>2. U!SessionsIn(Groups) = (CHOOSE g : g = Sized(g))[Groups]
    BY DEF U!SessionsIn, U!MapThenSumSet, U!MapThenFoldSet, Chosen
  <2>3. \A g : Folded(g) = Adding(g) /\ Sized(g) = Counting(g)
    <3>1. \A s \in SUBSET Groups : s # {} => /\ tokens[Chosen(s)] = Chosen(s).tokens
                                       /\ counts[Chosen(s)] = Chosen(s).sessions
      BY ChosenIn
    <3> QED BY <3>1 DEF Added
  <2>4. /\ Sum(tokens, Groups) = (CHOOSE g : g = Adding(g))[Groups]
        /\ Sum(counts, Groups) = (CHOOSE g : g = Counting(g))[Groups]
    BY DEF Sum, Adds
  <2> HIDE DEF Folded, Adding, Sized, Counting
  <2> QED BY <2>1, <2>2, <2>3, <2>4
<1> HIDE DEF tokens, counts, members, ones
<1>11. Sum(tokens, Groups) = Sum(Spent, jobs) /\ Sum(counts, Groups) = Sum(ones, jobs)
  BY <1>4, <1>5, <1>6, <1>7, <1>8, <1>9, SumOfGroups
<1> QED BY <1>6, <1>10, <1>11 DEF Groups

\* However many are asked for, there are that many that none of the rest is later than.
LEMMA LatestAreLatest ==
    ASSUME UsageTypes, NEW jobs \in SUBSET Jobs
    PROVE  /\ IsFiniteSet(U!Latest(jobs))
           /\ Cardinality(U!Latest(jobs)) = U!Fewest(Cardinality(jobs))
<1> DEFINE latest(i, s) == /\ s \in SUBSET jobs /\ Cardinality(s) = i
                           /\ \A j \in s, k \in jobs \ s : usage[j].day >= usage[k].day
           Bad == {i \in Nat : i <= Cardinality(jobs) /\ ~\E s : latest(i, s)}
<1>1. IsFiniteSet(jobs) /\ Cardinality(jobs) \in Nat
  BY ConstantsAssumption, FS_Subset, FS_CardinalityType, SameCounting DEF U!UsageAssumption
<1>2. 0 \notin Bad
  <2>1. latest(0, {})
    BY FS_EmptySet
  <2> QED BY <2>1
<1>3. ASSUME NEW i \in Nat, i + 1 <= Cardinality(jobs), NEW s, latest(i, s)
      PROVE  \E t : latest(i + 1, t)
  <2> DEFINE R == jobs \ s
             above(e) == {k \in R : usage[k].day > usage[e].day}
             Above == {above(e) : e \in R}
  <2>1. R # {} /\ IsFiniteSet(R)
    <3>1. s # jobs
      BY <1>1, <1>3
    <3> QED BY <1>1, <1>3, <3>1, FS_Subset
  <2>2. Above \in SUBSET SUBSET R /\ Above # {}
    BY <2>1
  <2>3. PICK u \in Above : \A v \in Above : v \subseteq u => v = u
    <3> HIDE DEF Above
    <3> QED BY <2>1, <2>2, SmallestSet
  <2>4. PICK e \in R : u = above(e)
    OBVIOUS
  <2>5. \A k \in R : usage[k].day \in Nat
    BY DEF UsageTypes, UsageRow
  <2>6. \A k \in R : usage[e].day >= usage[k].day
    <3> SUFFICES ASSUME NEW d \in R, usage[d].day > usage[e].day
                 PROVE  FALSE
      BY <2>5
    <3>1. d \in above(e) /\ d \notin above(d)
      BY <2>5
    <3>2. above(d) \subseteq above(e)
      BY <2>5
    <3> QED BY <2>3, <2>4, <3>1, <3>2
  <2> DEFINE t == s \cup {e}
  <2>7. t \in SUBSET jobs /\ Cardinality(t) = i + 1
    <3>1. IsFiniteSet(s) /\ e \notin s
      BY <1>1, <1>3, FS_Subset
    <3> QED BY <1>3, <3>1, FS_AddElement
  <2>8. \A j \in t, k \in jobs \ t : usage[j].day >= usage[k].day
    BY <1>3, <2>6
  <2> QED BY <2>7, <2>8
<1>4. Bad = {}
  <2> SUFFICES ASSUME Bad # {}
               PROVE  FALSE
    OBVIOUS
  <2>1. Bad \in SUBSET Nat
    OBVIOUS
  <2>2. PICK i \in Bad : \A l \in Bad : i <= l
    <3> HIDE DEF Bad
    <3> QED BY <2>1, LeastNumber
  <2> HIDE DEF latest
  <2>3. /\ i \in Nat /\ i # 0 /\ i - 1 \in Nat /\ (i - 1) + 1 = i /\ i <= Cardinality(jobs)
        /\ i - 1 <= Cardinality(jobs) /\ ~(i <= i - 1)
    BY <1>1, <1>2
  <2>4. \E s : latest(i - 1, s)
    BY <2>2, <2>3
  <2> QED BY <1>3, <2>3, <2>4
<1> DEFINE few == U!Fewest(Cardinality(jobs))
<1>5. few \in Nat /\ few <= Cardinality(jobs)
  BY <1>1, ConstantsAssumption DEF U!UsageAssumption, U!Fewest
<1>6. \E s : latest(few, s)
  <2> HIDE DEF latest, few
  <2> QED BY <1>4, <1>5
<1>7. U!Latest(jobs) \in SUBSET jobs /\ Cardinality(U!Latest(jobs)) = few
  BY <1>6, SameCounting DEF U!Latest, U!kSubset
<1> QED BY <1>1, <1>7, FS_Subset

LEMMA RecentAreLatest ==
    ASSUME UsageTypes, NEW jobs \in SUBSET Jobs
    PROVE  Cardinality({U!Total(j, {j}) : j \in U!Latest(jobs)}) = U!Fewest(Cardinality(jobs))
<1> DEFINE L == U!Latest(jobs)
           Y == {U!Total(j, {j}) : j \in L}
           h == [j \in L |-> U!Total(j, {j})]
<1>1. IsFiniteSet(L) /\ Cardinality(L) = U!Fewest(Cardinality(jobs))
  BY LatestAreLatest
<1>2. \A j \in L : h[j].key = j
  BY DEF U!Total
<1>3. h \in Surjection(L, Y)
  BY DEF Surjection
<1>4. h \in Injection(L, Y)
  BY <1>2, <1>3 DEF Injection, Surjection, IsInjective
<1> HIDE DEF h, Y, L
<1>5. Cardinality(Y) = Cardinality(L)
  BY <1>1, <1>3, <1>4, FS_Surjection
<1> QED BY <1>1, <1>5 DEF Y, L

\* An element's part of two sums is the same, so is the sum.
LEMMA SameSums ==
    ASSUME NEW f, NEW h, NEW X, \A e \in X : f[e] = h[e]
    PROVE  Sum(f, X) = Sum(h, X)
<1>1. \A g, s : s \in SUBSET X => Added(f, g, s) = Added(h, g, s)
  BY ChosenIn DEF Added
<1>2. \A g : [s \in SUBSET X |-> Added(f, g, s)] = [s \in SUBSET X |-> Added(h, g, s)]
  BY <1>1
<1> QED BY <1>2 DEF Sum, Adds

Told == [j \in Jobs |-> heard[j][Len(heard[j])].tokens]

LEMMA ConsumedIsSum ==
    ASSUME NEW jobs \in SUBSET Jobs
    PROVE  U!Consumed(jobs) = Sum(Told, jobs)
<1> DEFINE Folded(g) == [s \in SUBSET jobs |->
                      IF s = {} THEN 0
                      ELSE heard[Chosen(s)][Len(heard[Chosen(s)])].tokens + g[s \ {Chosen(s)}]]
           Adding(g) == [s \in SUBSET jobs |-> Added(Told, g, s)]
<1>1. U!Consumed(jobs) = (CHOOSE g : g = Folded(g))[jobs]
  BY DEF U!Consumed, U!MapThenSumSet, U!MapThenFoldSet, Chosen
<1>2. \A g : Folded(g) = Adding(g)
  <2>1. \A s \in SUBSET jobs : s # {} =>
           Told[Chosen(s)] = heard[Chosen(s)][Len(heard[Chosen(s)])].tokens
    BY ChosenIn DEF Told
  <2> QED BY <2>1 DEF Added
<1>3. Sum(Told, jobs) = (CHOOSE g : g = Adding(g))[jobs]
  BY DEF Sum, Adds
<1> HIDE DEF Folded, Adding
<1> QED BY <1>1, <1>2, <1>3

(* The rows us of a scope, and what every query of a report tells of them.     *)

Scoped(scope) ==
    /\ scope.from \in Int /\ scope.to \in Int
    /\ scope.project # None => OrganizationOf[scope.project] = scope.organization

RowsOf(us, scope) ==
    {j \in U!JobsOf(scope) : us[j] # U!NoUsage /\ us[j].day \in scope.from..(scope.to - 1)}
TokensOf(us, scope) == Sum([j \in Jobs |-> us[j].tokens], RowsOf(us, scope))

Tells(e, us, scope) ==
    LET g == CHOOSE g \in e[2] : g.key = "current"
        count == Cardinality(RowsOf(us, scope))
    IN /\ e[1] = "totals" => g.sessions = count /\ g.tokens = TokensOf(us, scope)
       /\ e[1] = "recent" => Cardinality(e[2]) = U!Fewest(count)
       /\ e[1] \notin {"totals", "recent"} =>
            U!SessionsIn(e[2]) = count /\ U!TokensIn(e[2]) = TokensOf(us, scope)

\* What a handler has read still holds if nothing it reads of was written since it
\* began, and none of the rows that were there is missing in any case.
AskSound(h, us, cs) ==
    /\ h = [at |-> h.at, of |-> h.of, provider |-> h.provider, tokens |-> h.tokens,
            scope |-> h.scope, todo |-> h.todo, got |-> h.got, cap |-> h.cap,
            alone |-> h.alone, before |-> h.before]
    /\ h.alone \in BOOLEAN
    /\ h.at \in {"idle", "upsert", "query", "used", "decided"}
    /\ h.at = "upsert" =>
         h.of \in Jobs /\ h.tokens \in Nat /\ h.provider \in Providers \cup {None}
    /\ h.at \in {"query", "used", "decided"} => Scoped(h.scope)
    /\ h.at = "query" =>
         /\ "totals" \in h.todo \/ \E e \in h.got : e[1] = "totals"
         /\ h.alone => \A e \in h.got : Tells(e, us, h.scope)
         /\ h.before \subseteq RowsOf(us, h.scope)
         /\ \A e \in h.got : e[1] # "recent" =>
              U!SessionsOf(e) \in Cardinality(h.before)..Cardinality(RowsOf(us, h.scope))
    /\ h.at \in {"used", "decided"} =>
         /\ h.of \in Apps /\ h.provider \in {"agent", "script"}
         /\ h.scope = [organization |-> OrganizationOf[h.of], project |-> h.of,
                       from |-> h.scope.from, to |-> h.scope.to]
         /\ h.alone => h.cap = cs[h.of]
    /\ h.at = "decided" /\ h.alone => h.tokens = TokensOf(us, h.scope)

\* A row has the day of what was heard of its job first, and what was heard last.
RowHeard(row, said) ==
    IF said = <<>> THEN row = U!NoUsage
    ELSE row.day = said[1].day /\ row.tokens = said[Len(said)].tokens

UsageInv ==
    /\ UsageTypes
    /\ \A j \in Jobs : RowHeard(usage[j], heard[j])
    /\ \A r \in Requests : AskSound(asks[r], usage, caps)

LEMMA JobHeard ==
    ASSUME NEW row, NEW said \in Seq(Posted), RowHeard(row, said)
    PROVE  /\ said # <<>> <=> row # U!NoUsage
           /\ said # <<>> => /\ row.day = said[1].day /\ row.tokens = said[Len(said)].tokens
                            /\ row.day \in Nat \ {0}
<1>1. U!NoUsage.day = 0
  BY DEF U!NoUsage
<1>2. CASE said = <<>>
  BY <1>2 DEF RowHeard
<1>3. CASE said # <<>>
  <2> SUFFICES row.day \in Nat \ {0}
    BY <1>1, <1>3 DEF RowHeard
  <2>1. said[1] \in Posted
    BY <1>3
  <2> QED BY <1>3, <2>1 DEF RowHeard, Posted
<1> QED BY <1>2, <1>3

LEMMA JobsFinite == \A s \in SUBSET Jobs : IsFiniteSet(s) /\ Cardinality(s) \in Nat
BY ConstantsAssumption, FS_Subset, FS_CardinalityType, SameCounting DEF U!UsageAssumption

LEMMA RowsAre ==
    ASSUME UsageTypes, NEW scope, Scoped(scope)
    PROVE  /\ U!Rows(scope) = RowsOf(usage, scope)
           /\ RowsOf(usage, scope) \in SUBSET Jobs
           /\ U!Tokens(RowsOf(usage, scope)) = TokensOf(usage, scope)
           /\ TokensOf(usage, scope) \in Nat
<1>1. \A j \in Jobs : /\ usage[j].day \in Int
                      /\ usage[j].day \in scope.from..(scope.to - 1) <=>
                           usage[j].day >= scope.from /\ usage[j].day < scope.to
  BY DEF UsageTypes, UsageRow, Scoped
<1>2. U!Rows(scope) = RowsOf(usage, scope)
  BY <1>1 DEF Scoped, U!Rows, U!RowsIn, U!Reported, U!JobsOf, RowsOf
<1>3. RowsOf(usage, scope) \in SUBSET Jobs
  BY DEF RowsOf, U!JobsOf
<1>4. Spent \in [Jobs -> Nat]
  BY DEF UsageTypes, UsageRow, Spent
<1>5. TokensOf(usage, scope) = Sum(Spent, RowsOf(usage, scope))
  BY DEF TokensOf, Spent
<1> QED BY <1>2, <1>3, <1>4, <1>5, JobsFinite, TokensAreSum, SumType

\* And they are what was heard.
LEMMA RowsHeard ==
    ASSUME UsageInv, NEW scope, Scoped(scope)
    PROVE  /\ U!Heard(scope) = RowsOf(usage, scope)
           /\ U!Consumed(RowsOf(usage, scope)) = TokensOf(usage, scope)
<1>1. ASSUME NEW j \in Jobs
      PROVE  /\ heard[j] # <<>> <=> usage[j] # U!NoUsage
             /\ heard[j] # <<>> => /\ usage[j].day = heard[j][1].day
                                   /\ usage[j].tokens = heard[j][Len(heard[j])].tokens
  BY JobHeard DEF UsageInv, UsageTypes
<1>2. U!Heard(scope) = RowsOf(usage, scope)
  BY <1>1 DEF U!Heard, RowsOf, U!JobsOf
<1>3. RowsOf(usage, scope) \in SUBSET Jobs
  BY DEF RowsOf, U!JobsOf
<1>4. \A j \in RowsOf(usage, scope) : Told[j] = Spent[j]
  BY <1>1, <1>3 DEF Told, Spent, RowsOf
<1>5. Sum(Told, RowsOf(usage, scope)) = Sum(Spent, RowsOf(usage, scope))
  BY <1>4, SameSums
<1> QED BY <1>2, <1>3, <1>5, ConsumedIsSum DEF TokensOf, Spent

\* A query answers with what there is.
LEMMA FigureTells ==
    ASSUME UsageTypes, NEW scope, Scoped(scope), NEW figure
    PROVE  Tells(<<figure, U!Figure(figure, scope)>>, usage, scope)
<1> DEFINE jobs == RowsOf(usage, scope)
           before == U!PreviousRows(scope)
           groups == U!Figure(figure, scope)
           e == <<figure, groups>>
<1>1. U!Rows(scope) = jobs /\ jobs \in SUBSET Jobs /\ U!Tokens(jobs) = TokensOf(usage, scope)
  BY RowsAre
<1> SUFFICES Tells(e, usage, scope)
  OBVIOUS
<1>2. e[1] = figure /\ e[2] = groups
  OBVIOUS
<1>3. CASE figure = "totals"
  <2>1. groups = {U!Total("current", jobs), U!Total("previous", before)}
    BY <1>1, <1>3 DEF U!Figure
  <2>2. U!Total("current", jobs).key = "current" /\ U!Total("previous", before).key = "previous"
    BY DEF U!Total
  <2> HIDE DEF jobs, before, groups
  <2>3. (CHOOSE g \in groups : g.key = "current") = U!Total("current", jobs)
    BY <2>1, <2>2
  <2>4. /\ U!Total("current", jobs).sessions = Cardinality(jobs)
        /\ U!Total("current", jobs).tokens = TokensOf(usage, scope)
    BY <1>1, SameCounting DEF U!Total
  <2> DEFINE d == CHOOSE g \in groups : g.key = "current"
  <2>5. d.sessions = Cardinality(jobs) /\ d.tokens = TokensOf(usage, scope)
    BY <2>3, <2>4
  <2> HIDE DEF e, d
  <2>6. d = CHOOSE g \in e[2] : g.key = "current"
    BY <1>2 DEF d
  <2> QED BY <1>2, <1>3, <2>5, <2>6 DEF Tells, jobs
<1>4. CASE figure = "recent"
  <2>1. groups = {U!Total(j, {j}) : j \in U!Latest(jobs)}
    BY <1>1, <1>4 DEF U!Figure
  <2> HIDE DEF jobs, groups, e
  <2>2. Cardinality(groups) = U!Fewest(Cardinality(jobs))
    BY <1>1, <2>1, RecentAreLatest
  <2> QED BY <1>2, <1>4, <2>2 DEF Tells, jobs
<1>5. CASE figure \notin {"totals", "recent"}
  <2>1. groups = U!GroupBy(figure, jobs)
    BY <1>1, <1>5 DEF U!Figure
  <2> HIDE DEF jobs, groups, e
  <2>2. U!TokensIn(groups) = U!Tokens(jobs) /\ U!SessionsIn(groups) = Cardinality(jobs)
    BY <1>1, <2>1, GroupsAddUp
  <2> QED BY <1>1, <1>2, <1>5, <2>2 DEF Tells, jobs
<1> HIDE DEF e
<1> QED BY <1>3, <1>4, <1>5

\* What a query told, it told of as many rows.
LEMMA TellsSessions ==
    \A e, us, scope : Tells(e, us, scope) /\ e[1] # "recent" =>
        U!SessionsOf(e) = Cardinality(RowsOf(us, scope))
BY DEF Tells, U!SessionsOf

\* Rows come, and keep their day; a handler is alone no longer if one it reads of
\* did, or if the cap it has read was set.
LEMMA StaysSound ==
    ASSUME NEW us, NEW vs, NEW cs, NEW ds, NEW h, AskSound(h, us, cs), NEW v \in BOOLEAN,
           \A j \in Jobs : us[j] # U!NoUsage => vs[j] # U!NoUsage /\ vs[j].day = us[j].day,
           v => /\ h.alone
                /\ \A j \in U!JobsOf(h.scope) : vs[j] = us[j]
                /\ h.at \in {"used", "decided"} => ds[h.of] = cs[h.of]
    PROVE  AskSound([h EXCEPT !.alone = v], vs, ds)
<1> DEFINE g == [h EXCEPT !.alone = v]
           those == RowsOf(us, h.scope)
           more == RowsOf(vs, h.scope)
<1>1. g = [at |-> h.at, of |-> h.of, provider |-> h.provider, tokens |-> h.tokens,
           scope |-> h.scope, todo |-> h.todo, got |-> h.got, cap |-> h.cap,
           alone |-> v, before |-> h.before]
  <2> DEFINE f1 == h.at
             f2 == h.of
             f3 == h.provider
             f4 == h.tokens
             f5 == h.scope
             f6 == h.todo
             f7 == h.got
             f8 == h.cap
             f9 == h.before
  <2>1. h = [at |-> f1, of |-> f2, provider |-> f3, tokens |-> f4, scope |-> f5, todo |-> f6,
             got |-> f7, cap |-> f8, alone |-> h.alone, before |-> f9]
    BY DEF AskSound
  <2> HIDE DEF f1, f2, f3, f4, f5, f6, f7, f8, f9
  <2>2. g = [at |-> f1, of |-> f2, provider |-> f3, tokens |-> f4, scope |-> f5, todo |-> f6,
             got |-> f7, cap |-> f8, alone |-> v, before |-> f9]
    BY <2>1
  <2> QED BY <2>2 DEF f1, f2, f3, f4, f5, f6, f7, f8, f9
<1> HIDE DEF g
<1>2. those \subseteq more /\ those \in SUBSET Jobs /\ more \in SUBSET Jobs
  BY DEF RowsOf, U!JobsOf
<1>3. Cardinality(those) \in Nat /\ Cardinality(more) \in Nat /\ Cardinality(those) <= Cardinality(more)
  BY <1>2, JobsFinite, FS_Subset
<1>4. v => more = those /\ TokensOf(vs, h.scope) = TokensOf(us, h.scope)
  <2> SUFFICES ASSUME v PROVE more = those /\ TokensOf(vs, h.scope) = TokensOf(us, h.scope)
    OBVIOUS
  <2>1. more = those
    BY DEF RowsOf
  <2>2. \A j \in those : [i \in Jobs |-> vs[i].tokens][j] = [i \in Jobs |-> us[i].tokens][j]
    BY <1>2 DEF RowsOf
  <2> DEFINE f == [i \in Jobs |-> vs[i].tokens]
             k == [i \in Jobs |-> us[i].tokens]
  <2>3. \A j \in those : f[j] = k[j]
    BY <2>2
  <2> HIDE DEF f, k, those, more
  <2>4. Sum(f, those) = Sum(k, those)
    BY <2>3, SameSums
  <2> QED BY <2>1, <2>4 DEF TokensOf, f, k, those, more
<1>5. v => \A e : Tells(e, us, h.scope) => Tells(e, vs, h.scope)
  BY <1>4 DEF Tells
<1>6. h.at = "query" =>
        /\ h.before \subseteq more /\ Cardinality(h.before) \in Nat
        /\ \A e \in h.got : e[1] # "recent" =>
             U!SessionsOf(e) \in Cardinality(h.before)..Cardinality(more)
  <2> SUFFICES ASSUME h.at = "query"
               PROVE  /\ h.before \subseteq more /\ Cardinality(h.before) \in Nat
                      /\ \A e \in h.got : e[1] # "recent" =>
                           U!SessionsOf(e) \in Cardinality(h.before)..Cardinality(more)
    OBVIOUS
  <2>1. h.before \subseteq those /\ \A e \in h.got : e[1] # "recent" =>
                                     U!SessionsOf(e) \in Cardinality(h.before)..Cardinality(those)
    BY DEF AskSound
  <2>2. h.before \in SUBSET Jobs
    BY <1>2, <2>1
  <2>3. Cardinality(h.before) \in Nat
    BY <2>2, JobsFinite
  <2> HIDE DEF those, more
  <2> QED BY <1>2, <1>3, <2>1, <2>3
<1> HIDE DEF those, more
<1>7. /\ h.at \in {"idle", "upsert", "query", "used", "decided"}
      /\ h.at = "upsert" =>
           h.of \in Jobs /\ h.tokens \in Nat /\ h.provider \in Providers \cup {None}
      /\ h.at \in {"query", "used", "decided"} => Scoped(h.scope)
      /\ h.at = "query" => "totals" \in h.todo \/ \E e \in h.got : e[1] = "totals"
      /\ h.at \in {"used", "decided"} =>
           /\ h.of \in Apps /\ h.provider \in {"agent", "script"}
           /\ h.scope = [organization |-> OrganizationOf[h.of], project |-> h.of,
                         from |-> h.scope.from, to |-> h.scope.to]
  BY DEF AskSound
<1>8. v => /\ h.at = "query" => \A e \in h.got : Tells(e, vs, h.scope)
           /\ h.at \in {"used", "decided"} => h.cap = ds[h.of]
           /\ h.at = "decided" => h.tokens = TokensOf(vs, h.scope)
  BY <1>4, <1>5 DEF AskSound
<1>9. /\ g.at = h.at /\ g.of = h.of /\ g.provider = h.provider /\ g.tokens = h.tokens
      /\ g.scope = h.scope /\ g.todo = h.todo /\ g.got = h.got /\ g.cap = h.cap
      /\ g.alone = v /\ g.before = h.before
  BY <1>1
<1>10. AskSound(g, vs, ds)
  BY <1>1, <1>6, <1>7, <1>8, <1>9 DEF AskSound, more
<1> QED BY <1>10 DEF g

\* A handler moves, and nothing that others read is written.
LEMMA AskMoves ==
    ASSUME UsageInv, NEW r \in Requests, NEW h, U!Becomes(r, h), AskSound(h, usage, caps),
           UNCHANGED <<day, usage, caps, heard>>
    PROVE  UsageInv'
<1>1. /\ asks' = [q \in Requests |-> IF q = r THEN h ELSE asks[q]]
      /\ \A q \in Requests : asks'[q] = IF q = r THEN h ELSE asks[q]
  BY DEF UsageInv, UsageTypes, U!Becomes
<1>2. UsageTypes'
  BY <1>1 DEF UsageInv, UsageTypes
<1>3. \A j \in Jobs : RowHeard(usage'[j], heard'[j])
  BY DEF UsageInv
<1>4. \A q \in Requests : AskSound(asks'[q], usage', caps')
  BY <1>1 DEF UsageInv
<1> QED BY <1>2, <1>3, <1>4 DEF UsageInv

IdleFields == [at : {"idle"}, of : {None}, provider : {None}, tokens : {0}, scope : {U!NoScope},
               todo : {{}}, got : {{}}, cap : {None}, alone : {FALSE}, before : {{}}]

LEMMA IdleHas == U!Idle \in IdleFields
BY DEF U!Idle, IdleFields

LEMMA IdleIsSound == \A us, cs : AskSound(U!Idle, us, cs)
BY DEF AskSound, U!Idle

LEMMA AttributionStep ==
    ASSUME UsageInv, NEW r \in Requests, U!ResolveUsageAttribution(r)
    PROVE  UsageInv'
<1>1. PICK j \in Jobs, tokens \in Amounts, name \in Providers \cup {None} :
        U!Becomes(r, [U!Idle EXCEPT !.at = "upsert", !.of = j, !.tokens = tokens, !.provider = name])
  BY DEF U!ResolveUsageAttribution
<1> DEFINE h == [U!Idle EXCEPT !.at = "upsert", !.of = j, !.tokens = tokens, !.provider = name]
<1>2. h = [at |-> "upsert", of |-> j, provider |-> name, tokens |-> tokens, scope |-> U!NoScope,
           todo |-> {}, got |-> {}, cap |-> None, alone |-> FALSE, before |-> {}]
  <2>1. h \in [at : {"upsert"}, of : {j}, provider : {name}, tokens : {tokens},
              scope : {U!NoScope}, todo : {{}}, got : {{}}, cap : {None}, alone : {FALSE},
              before : {{}}]
    BY IdleHas DEF IdleFields
  <2> HIDE DEF h
  <2> QED BY ONLY <2>1
<1>3. /\ j \in Jobs /\ tokens \in Nat /\ name \in Providers \cup {None}
      /\ U!Becomes(r, h)
  BY <1>1, ConstantsAssumption DEF U!UsageAssumption
<1> HIDE DEF h
<1>4. AskSound(h, usage, caps)
  BY <1>2, <1>3 DEF AskSound
<1> QED BY <1>3, <1>4, AskMoves DEF U!ResolveUsageAttribution

LEMMA UpsertStep ==
    ASSUME UsageInv, NEW r \in Requests, U!Upsert(r)
    PROVE  UsageInv'
<1> DEFINE i == asks[r].of
           post == [day |-> day, tokens |-> asks[r].tokens]
           new == [day |-> day, provider |-> asks[r].provider, tokens |-> asks[r].tokens]
           row == usage[i]
           said == heard[i]
           now == U!Replaced(row, new)
           told == Append(said, post)
<1>1. i \in Jobs /\ asks[r].tokens \in Nat /\ asks[r].provider \in Providers \cup {None}
  BY DEF UsageInv, AskSound, U!Upsert, U!At
<1>2. post \in Posted /\ new \in UsageRow /\ new.day = post.day /\ new.tokens = post.tokens
  BY <1>1 DEF UsageInv, UsageTypes, UsageRow, Posted
<1>3. row \in UsageRow /\ said \in Seq(Posted) /\ RowHeard(row, said)
  BY <1>1 DEF UsageInv, UsageTypes
<1>4. /\ usage' = [usage EXCEPT ![i] = now] /\ heard' = [heard EXCEPT ![i] = told]
      /\ UNCHANGED <<day, caps>>
      /\ asks' = [q \in Requests |->
            IF q = r THEN U!Idle
            ELSE [asks[q] EXCEPT !.alone = asks[q].alone /\ i \notin U!JobsOf(asks[q].scope)]]
  BY DEF U!Upsert, U!Writes
<1> HIDE DEF i, post, new, row, said, now, told
<1>5. now \in UsageRow /\ now.tokens = new.tokens
      /\ now.day = IF row = U!NoUsage THEN new.day ELSE row.day
  BY <1>2, <1>3 DEF U!Replaced, UsageRow, now
<1>6. told \in Seq(Posted) /\ told # <<>> /\ told[Len(told)] = post
      /\ told[1] = IF said = <<>> THEN post ELSE said[1]
  <2>1. told \in Seq(Posted) /\ Len(told) = Len(said) + 1 /\ Len(said) \in Nat
    BY <1>2, <1>3 DEF told
  <2>2. told[Len(told)] = post
    BY <1>2, <1>3, <2>1 DEF told
  <2>3. CASE said = <<>>
    BY <2>1, <2>2, <2>3
  <2>4. CASE said # <<>>
    <3>1. 1 \in 1..Len(said)
      BY <1>3, <2>1, <2>4
    <3> QED BY <1>2, <1>3, <2>1, <2>2, <2>4, <3>1 DEF told
  <2> QED BY <2>3, <2>4
<1>7. /\ said # <<>> <=> row # U!NoUsage
      /\ said # <<>> => row.day = said[1].day /\ row.day \in Nat \ {0}
  BY <1>3, JobHeard
<1>8. RowHeard(now, told)
  BY <1>2, <1>5, <1>6, <1>7 DEF RowHeard
<1>9. UsageTypes'
  BY <1>1, <1>4, <1>5, <1>6 DEF UsageInv, UsageTypes
<1>10. \A j \in Jobs : RowHeard(usage'[j], heard'[j])
  BY <1>1, <1>4, <1>8 DEF UsageInv, UsageTypes
<1>11. \A j \in Jobs : usage[j] # U!NoUsage =>
                          usage'[j] # U!NoUsage /\ usage'[j].day = usage[j].day
  <2>1. row # U!NoUsage => now # U!NoUsage /\ now.day = row.day
    BY <1>5, <1>7 DEF U!NoUsage
  <2> QED BY <1>1, <1>4, <2>1 DEF UsageInv, UsageTypes, row
<1>12. \A j \in Jobs : j # i => usage'[j] = usage[j]
  BY <1>1, <1>4 DEF UsageInv, UsageTypes
<1>13. ASSUME NEW q \in Requests
       PROVE  AskSound(asks'[q], usage', caps')
  <2>1. CASE q = r
    BY <1>4, <2>1, IdleIsSound
  <2>2. CASE q # r
    <3> DEFINE v == asks[q].alone /\ i \notin U!JobsOf(asks[q].scope)
               h == asks[q]
    <3>1. AskSound(h, usage, caps)
      BY DEF UsageInv
    <3>2. v \in BOOLEAN
      BY <3>1 DEF AskSound
    <3>3. asks'[q] = [h EXCEPT !.alone = v]
      BY <1>4, <2>2
    <3>4. v => /\ h.alone
               /\ \A j \in U!JobsOf(h.scope) : usage'[j] = usage[j]
               /\ h.at \in {"used", "decided"} => caps'[h.of] = caps[h.of]
      BY <1>4, <1>12 DEF U!JobsOf
    <3> HIDE DEF v, h
    <3>5. AskSound([h EXCEPT !.alone = v], usage', caps')
      BY <1>11, <3>1, <3>2, <3>4, StaysSound
    <3> QED BY <3>3, <3>5
  <2> QED BY <2>1, <2>2
<1> QED BY <1>9, <1>10, <1>13 DEF UsageInv

LEMMA SurroundingsChange ==
    ASSUME UsageInv, U!DayPasses \/ \E p \in Apps : U!SetTokenCap(p)
    PROVE  UsageInv'
<1>1. CASE U!DayPasses
  <2>1. day' \in Nat \ {0} /\ UNCHANGED <<usage, caps, asks, heard>>
    BY <1>1 DEF U!DayPasses, UsageInv, UsageTypes
  <2>2. UsageTypes'
    BY <2>1 DEF UsageInv, UsageTypes
  <2>3. \A j \in Jobs : RowHeard(usage'[j], heard'[j])
    BY <2>1 DEF UsageInv
  <2>4. \A q \in Requests : AskSound(asks'[q], usage', caps')
    BY <2>1 DEF UsageInv
  <2> QED BY <2>2, <2>3, <2>4 DEF UsageInv
<1>2. ASSUME NEW p \in Apps, U!SetTokenCap(p)
      PROVE  UsageInv'
  <2>1. PICK cap \in Nat \cup {None} : caps' = [caps EXCEPT ![p] = cap]
    BY <1>2, ConstantsAssumption DEF U!SetTokenCap, U!UsageAssumption
  <2>2. /\ UNCHANGED <<day, usage, heard>>
        /\ asks' = [q \in Requests |->
              [asks[q] EXCEPT !.alone = asks[q].alone /\ asks[q].of # p]]
    BY <1>2 DEF U!SetTokenCap
  <2>3. UsageTypes' /\ \A q \in Apps : q # p => caps'[q] = caps[q]
    BY <2>1, <2>2 DEF UsageInv, UsageTypes
  <2>4. \A j \in Jobs : RowHeard(usage'[j], heard'[j])
    BY <2>2 DEF UsageInv
  <2>5. ASSUME NEW q \in Requests
        PROVE  AskSound(asks'[q], usage', caps')
    <3> DEFINE v == asks[q].alone /\ asks[q].of # p
               h == asks[q]
    <3>1. AskSound(h, usage, caps)
      BY DEF UsageInv
    <3>2. v \in BOOLEAN /\ (h.at \in {"used", "decided"} => h.of \in Apps)
      BY <3>1 DEF AskSound
    <3>3. asks'[q] = [h EXCEPT !.alone = v]
      BY <2>2
    <3>4. v => /\ h.alone
               /\ \A j \in U!JobsOf(h.scope) : usage'[j] = usage[j]
               /\ h.at \in {"used", "decided"} => caps'[h.of] = caps[h.of]
      BY <2>2, <2>3, <3>2
    <3>5. \A j \in Jobs : usage[j] # U!NoUsage =>
                             usage'[j] # U!NoUsage /\ usage'[j].day = usage[j].day
      BY <2>2
    <3> HIDE DEF v, h
    <3>6. AskSound([h EXCEPT !.alone = v], usage', caps')
      BY <3>1, <3>2, <3>4, <3>5, StaysSound
    <3> QED BY <3>3, <3>6
  <2> QED BY <2>3, <2>4, <2>5 DEF UsageInv
<1> QED BY <1>1, <1>2

\* A handler's fields, to tell what an EXCEPT leaves of them.
LEMMA AskFields ==
    ASSUME NEW h, NEW us, NEW cs, AskSound(h, us, cs)
    PROVE  \E f1, f2, f3, f4, f5, f6, f7, f8, f9, f10 :
             h = [at |-> f1, of |-> f2, provider |-> f3, tokens |-> f4, scope |-> f5,
                  todo |-> f6, got |-> f7, cap |-> f8, alone |-> f9, before |-> f10]
BY DEF AskSound

LEMMA GetReportStep ==
    ASSUME UsageInv, NEW r \in Requests, U!GetReport(r)
    PROVE  UsageInv'
<1>1. PICK o \in Organizations, days \in Windows :
      \E p \in {None} \cup {q \in Apps : OrganizationOf[q] = o} :
      \E figures \in {U!UsageFigures(p), U!AnalyticsFigures(p)} :
        LET scope == U!ResolveUsageScope(o, p, days)
        IN U!Becomes(r, [U!Idle EXCEPT !.at = "query", !.scope = scope, !.todo = figures,
                               !.alone = TRUE, !.before = U!Heard(scope)])
  BY DEF U!GetReport
<1>2. PICK p \in {None} \cup {q \in Apps : OrganizationOf[q] = o} :
      \E figures \in {U!UsageFigures(p), U!AnalyticsFigures(p)} :
        LET scope == U!ResolveUsageScope(o, p, days)
        IN U!Becomes(r, [U!Idle EXCEPT !.at = "query", !.scope = scope, !.todo = figures,
                               !.alone = TRUE, !.before = U!Heard(scope)])
  BY <1>1
<1>3. PICK figures \in {U!UsageFigures(p), U!AnalyticsFigures(p)} :
        LET scope == U!ResolveUsageScope(o, p, days)
        IN U!Becomes(r, [U!Idle EXCEPT !.at = "query", !.scope = scope, !.todo = figures,
                               !.alone = TRUE, !.before = U!Heard(scope)])
  BY <1>2
<1> DEFINE scope == U!ResolveUsageScope(o, p, days)
           seen == U!Heard(scope)
           h == [U!Idle EXCEPT !.at = "query", !.scope = scope, !.todo = figures,
                             !.alone = TRUE, !.before = seen]
<1>4. "totals" \in figures
  BY DEF U!UsageFigures, U!AnalyticsFigures
<1>5. Scoped(scope)
  <2>1. days \in Nat /\ day \in Nat
    BY ConstantsAssumption DEF U!UsageAssumption, UsageInv, UsageTypes
  <2> QED BY <1>2, <2>1 DEF Scoped, U!ResolveUsageScope
<1>6. U!Becomes(r, h)
  BY <1>3
<1> HIDE DEF scope, seen
<1>7. h = [at |-> "query", of |-> None, provider |-> None, tokens |-> 0, scope |-> scope,
           todo |-> figures, got |-> {}, cap |-> None, alone |-> TRUE, before |-> seen]
  <2>1. h \in [at : {"query"}, of : {None}, provider : {None}, tokens : {0}, scope : {scope},
              todo : {figures}, got : {{}}, cap : {None}, alone : {TRUE}, before : {seen}]
    BY IdleHas DEF IdleFields
  <2> HIDE DEF h
  <2> QED BY ONLY <2>1
<1>8. seen = RowsOf(usage, scope)
  BY <1>5, RowsHeard DEF seen
<1> HIDE DEF h
<1>9. AskSound(h, usage, caps)
  BY <1>4, <1>5, <1>7, <1>8 DEF AskSound
<1> QED BY <1>6, <1>9, AskMoves DEF U!GetReport

LEMMA QueryStep ==
    ASSUME UsageInv, NEW r \in Requests, U!Query(r)
    PROVE  UsageInv'
<1>1. PICK figure \in asks[r].todo :
        U!Becomes(r, [asks[r] EXCEPT !.todo = @ \ {figure},
                       !.got = @ \cup {<<figure, U!Figure(figure, asks[r].scope)>>}])
  BY DEF U!Query
<1> DEFINE ask == asks[r]
           scope == ask.scope
           answer == <<figure, U!Figure(figure, scope)>>
           h == [ask EXCEPT !.todo = ask.todo \ {figure}, !.got = ask.got \cup {answer}]
           count == Cardinality(RowsOf(usage, scope))
           least == Cardinality(ask.before)
<1>2. U!Becomes(r, h)
  BY <1>1
<1>3. AskSound(ask, usage, caps) /\ ask.at = "query" /\ UsageTypes
  BY DEF UsageInv, U!Query, U!At
<1>4. answer[1] = figure
  OBVIOUS
<1> HIDE DEF ask
<1>5. Scoped(scope)
  BY <1>3 DEF AskSound
<1>6. Tells(answer, usage, scope)
  BY <1>3, <1>5, FigureTells
<1> HIDE DEF scope, answer
<1>7. PICK f1, f2, f3, f4, f5, f6, f7, f8, f9, f10 :
        ask = [at |-> f1, of |-> f2, provider |-> f3, tokens |-> f4, scope |-> f5,
               todo |-> f6, got |-> f7, cap |-> f8, alone |-> f9, before |-> f10]
  BY <1>3, AskFields
<1>8. h = [at |-> f1, of |-> f2, provider |-> f3, tokens |-> f4, scope |-> f5,
           todo |-> f6 \ {figure}, got |-> f7 \cup {answer}, cap |-> f8, alone |-> f9,
           before |-> f10]
  <2>1. ask \in [at : {f1}, of : {f2}, provider : {f3}, tokens : {f4}, scope : {f5},
                 todo : {f6}, got : {f7}, cap : {f8}, alone : {f9}, before : {f10}]
    BY ONLY <1>7
  <2>2. h \in [at : {f1}, of : {f2}, provider : {f3}, tokens : {f4}, scope : {f5},
               todo : {f6 \ {figure}}, got : {f7 \cup {answer}}, cap : {f8}, alone : {f9},
               before : {f10}]
    BY ONLY <2>1
  <2> HIDE DEF h
  <2> QED BY ONLY <2>2
<1> HIDE DEF h
<1>9. /\ h.at = ask.at /\ h.scope = ask.scope /\ h.alone = ask.alone /\ h.before = ask.before
      /\ h.todo = ask.todo \ {figure} /\ h.got = ask.got \cup {answer}
  BY <1>7, <1>8
<1>10. /\ h.alone \in BOOLEAN /\ h.at = "query" /\ Scoped(h.scope)
       /\ h.before \subseteq RowsOf(usage, h.scope)
  BY <1>3, <1>9 DEF AskSound
<1>11. "totals" \in h.todo \/ \E e \in h.got : e[1] = "totals"
  <2>1. "totals" \in ask.todo \/ \E e \in ask.got : e[1] = "totals"
    BY <1>3 DEF AskSound
  <2> QED BY <1>4, <1>9, <2>1
<1>12. h.alone => \A e \in h.got : Tells(e, usage, h.scope)
  <2>1. ask.alone => \A e \in ask.got : Tells(e, usage, ask.scope)
    BY <1>3 DEF AskSound
  <2> QED BY <1>6, <1>9, <2>1 DEF scope
<1>13. \A e \in h.got : e[1] # "recent" =>
          U!SessionsOf(e) \in Cardinality(h.before)..Cardinality(RowsOf(usage, h.scope))
  <2>1. \A e \in ask.got : e[1] # "recent" => U!SessionsOf(e) \in least..count
    BY <1>3 DEF AskSound, scope
  <2>2. ask.before \subseteq RowsOf(usage, scope) /\ RowsOf(usage, scope) \in SUBSET Jobs
    BY <1>3, <1>9, <1>10 DEF scope, RowsOf, U!JobsOf
  <2>3. least \in Nat /\ count \in Nat /\ least <= count
    BY <2>2, JobsFinite, FS_Subset
  <2>4. answer[1] # "recent" => U!SessionsOf(answer) = count
    BY <1>6, TellsSessions
  <2>5. h.before = ask.before /\ RowsOf(usage, h.scope) = RowsOf(usage, scope)
    BY <1>9 DEF scope
  <2> HIDE DEF least, count
  <2>6. \A e \in h.got : e[1] # "recent" => U!SessionsOf(e) \in least..count
    BY <1>9, <2>1, <2>3, <2>4
  <2> QED BY <2>5, <2>6 DEF least, count
<1>14. h = [at |-> h.at, of |-> h.of, provider |-> h.provider, tokens |-> h.tokens,
            scope |-> h.scope, todo |-> h.todo, got |-> h.got, cap |-> h.cap,
            alone |-> h.alone, before |-> h.before]
  BY <1>8
<1>15. AskSound(h, usage, caps)
  BY <1>10, <1>11, <1>12, <1>13, <1>14 DEF AskSound
<1> QED BY <1>2, <1>15, AskMoves DEF U!Query

LEMMA FindTokenCapStep ==
    ASSUME UsageInv, NEW r \in Requests, U!FindTokenCap(r)
    PROVE  UsageInv'
<1>1. PICK p \in Apps, kind \in {"agent", "script"} :
        U!Becomes(r, [U!Idle EXCEPT !.at = "used", !.of = p, !.provider = kind, !.cap = caps[p],
                                !.alone = TRUE, !.scope.organization = OrganizationOf[p],
                                !.scope.project = p])
  BY DEF U!FindTokenCap
<1> DEFINE scope == [organization |-> OrganizationOf[p], project |-> p, from |-> 0, to |-> 0]
           cap == caps[p]
           h == [U!Idle EXCEPT !.at = "used", !.of = p, !.provider = kind, !.cap = caps[p],
                             !.alone = TRUE, !.scope.organization = OrganizationOf[p],
                             !.scope.project = p]
<1>2. h = [at |-> "used", of |-> p, provider |-> kind, tokens |-> 0, scope |-> scope,
           todo |-> {}, got |-> {}, cap |-> cap, alone |-> TRUE, before |-> {}]
  <2> DEFINE wider == [U!NoScope EXCEPT !.organization = OrganizationOf[p], !.project = p]
             g == [U!Idle EXCEPT !.at = "used", !.of = p, !.provider = kind, !.cap = cap,
                               !.alone = TRUE, !.scope = wider]
  <2>1. h = g
    BY IdleHas DEF IdleFields
  <2>2. wider = scope
    <3>1. wider \in [organization : {OrganizationOf[p]}, project : {p}, from : {0}, to : {0}]
      BY DEF U!NoScope
    <3> HIDE DEF wider
    <3> QED BY ONLY <3>1
  <2> HIDE DEF wider, h, cap, scope
  <2>3. g \in [at : {"used"}, of : {p}, provider : {kind}, tokens : {0}, scope : {wider},
               todo : {{}}, got : {{}}, cap : {cap}, alone : {TRUE}, before : {{}}]
    BY IdleHas DEF IdleFields
  <2> HIDE DEF g
  <2>4. g = [at |-> "used", of |-> p, provider |-> kind, tokens |-> 0, scope |-> wider,
             todo |-> {}, got |-> {}, cap |-> cap, alone |-> TRUE, before |-> {}]
    BY ONLY <2>3
  <2> QED BY <2>1, <2>2, <2>4
<1>3. U!Becomes(r, h)
  BY <1>1
<1>4. Scoped(scope) /\ scope.from = 0 /\ scope.to = 0
  BY DEF Scoped
<1> HIDE DEF h
<1>5. AskSound(h, usage, caps)
  BY <1>2, <1>4 DEF AskSound
<1> QED BY <1>3, <1>5, AskMoves DEF U!FindTokenCap

LEMMA TokensUsedStep ==
    ASSUME UsageInv, NEW r \in Requests, U!TokensUsed(r)
    PROVE  UsageInv'
<1> DEFINE ask == asks[r]
           month == U!MonthPeriod(day)
           spent == U!TokensUsedInPeriod(ask.of, month)
           scope == [organization |-> OrganizationOf[ask.of], project |-> ask.of,
                     from |-> month.from, to |-> month.to]
           h == [ask EXCEPT !.at = "decided", !.scope.from = month.from,
                          !.scope.to = month.to, !.tokens = spent]
<1>1. U!Becomes(r, h)
  BY DEF U!TokensUsed
<1>2. AskSound(ask, usage, caps) /\ ask.at = "used" /\ UsageTypes
  BY DEF UsageInv, U!TokensUsed, U!At
<1>3. month.from \in Int /\ month.to \in Int
  BY ConstantsAssumption DEF U!UsageAssumption, UsageInv, UsageTypes, U!MonthPeriod
<1> HIDE DEF ask, month
<1>4. ask.of \in Apps /\ ask.scope = [organization |-> OrganizationOf[ask.of],
           project |-> ask.of, from |-> ask.scope.from, to |-> ask.scope.to]
  BY <1>2 DEF AskSound
<1>5. Scoped(scope)
  BY <1>3 DEF Scoped
<1>6. spent = TokensOf(usage, scope)
  <2>1. ask.of # None
    BY <1>4, ConstantsAssumption DEF U!UsageAssumption
  <2>2. {j \in Jobs : /\ U!Reported(j) /\ ProjectOf[j] = ask.of
                      /\ usage[j].day >= month.from /\ usage[j].day < month.to} = U!Rows(scope)
    BY <2>1 DEF U!Rows, U!RowsIn
  <2> HIDE DEF scope
  <2> QED BY <1>2, <1>5, <2>2, RowsAre DEF U!TokensUsedInPeriod
<1> HIDE DEF spent
<1>7. PICK f1, f2, f3, f4, f5, f6, f7, f8, f9, f10 :
        ask = [at |-> f1, of |-> f2, provider |-> f3, tokens |-> f4, scope |-> f5,
               todo |-> f6, got |-> f7, cap |-> f8, alone |-> f9, before |-> f10]
  BY <1>2, AskFields
<1>8. [ask.scope EXCEPT !.from = month.from, !.to = month.to] = scope
  <2> DEFINE old == ask.scope
             o == OrganizationOf[ask.of]
             p == ask.of
             from == old.from
             to == old.to
             g == [old EXCEPT !.from = month.from, !.to = month.to]
  <2>1. old = [organization |-> o, project |-> p, from |-> from, to |-> to]
    BY <1>4
  <2> HIDE DEF old, o, p, from, to
  <2>2. old \in [organization : {o}, project : {p}, from : {from}, to : {to}]
    BY ONLY <2>1
  <2>3. g \in [organization : {o}, project : {p}, from : {month.from}, to : {month.to}]
    BY ONLY <2>2
  <2> HIDE DEF g
  <2>4. g = [organization |-> o, project |-> p, from |-> month.from, to |-> month.to]
    BY ONLY <2>3
  <2> QED BY <2>4 DEF g, old, o, p
<1> HIDE DEF scope
<1>9. h = [at |-> "decided", of |-> f2, provider |-> f3, tokens |-> spent, scope |-> scope,
           todo |-> f6, got |-> f7, cap |-> f8, alone |-> f9, before |-> f10]
  <2> DEFINE g == [ask EXCEPT !.at = "decided", !.scope = scope, !.tokens = spent]
  <2>1. h = g
    BY <1>7, <1>8
  <2>2. ask \in [at : {f1}, of : {f2}, provider : {f3}, tokens : {f4}, scope : {f5},
                 todo : {f6}, got : {f7}, cap : {f8}, alone : {f9}, before : {f10}]
    BY ONLY <1>7
  <2>3. g \in [at : {"decided"}, of : {f2}, provider : {f3}, tokens : {spent}, scope : {scope},
               todo : {f6}, got : {f7}, cap : {f8}, alone : {f9}, before : {f10}]
    BY ONLY <2>2
  <2> HIDE DEF g, h
  <2>4. g = [at |-> "decided", of |-> f2, provider |-> f3, tokens |-> spent, scope |-> scope,
             todo |-> f6, got |-> f7, cap |-> f8, alone |-> f9, before |-> f10]
    BY ONLY <2>3
  <2> QED BY <2>1, <2>4
<1> HIDE DEF h
<1>10. /\ h.at = "decided" /\ h.of = ask.of /\ h.provider = ask.provider /\ h.cap = ask.cap
       /\ h.alone = ask.alone /\ h.tokens = spent /\ h.scope = scope
  BY <1>7, <1>9
<1>11. h.alone \in BOOLEAN /\ h.of \in Apps /\ h.provider \in {"agent", "script"}
       /\ (h.alone => h.cap = caps[h.of])
  BY <1>2, <1>10 DEF AskSound
<1>12. h.scope = [organization |-> OrganizationOf[h.of], project |-> h.of,
                  from |-> h.scope.from, to |-> h.scope.to]
  BY <1>10 DEF scope
<1>13. h = [at |-> h.at, of |-> h.of, provider |-> h.provider, tokens |-> h.tokens,
            scope |-> h.scope, todo |-> h.todo, got |-> h.got, cap |-> h.cap,
            alone |-> h.alone, before |-> h.before]
  BY <1>9
<1>14. AskSound(h, usage, caps)
  BY <1>5, <1>6, <1>10, <1>11, <1>12, <1>13 DEF AskSound
<1> QED BY <1>1, <1>14, AskMoves DEF U!TokensUsed

LEMMA UsageStep ==
    ASSUME UsageInv, U!Next
    PROVE  UsageInv'
<1>1. ASSUME NEW r \in Requests, U!Answered(r)
      PROVE  UsageInv'
  BY <1>1, IdleIsSound, AskMoves DEF U!Answered, U!Ends
<1> QED BY <1>1, AttributionStep, UpsertStep, SurroundingsChange, GetReportStep, QueryStep,
          FindTokenCapStep, TokensUsedStep DEF U!Next

LEMMA UsageStarts == U!Init => UsageInv
<1> SUFFICES ASSUME U!Init PROVE UsageInv
  OBVIOUS
<1>1. UsageTypes
  BY DEF U!Init, UsageTypes, UsageRow, U!NoUsage
<1>2. \A j \in Jobs : RowHeard(usage[j], heard[j])
  BY DEF U!Init, RowHeard
<1>3. \A r \in Requests : AskSound(asks[r], usage, caps)
  BY IdleIsSound DEF U!Init
<1> QED BY <1>1, <1>2, <1>3 DEF UsageInv

\* What a handler has of a figure is what a query told it.
LEMMA GotTells ==
    ASSUME UsageInv, NEW r \in Requests, U!At(r, "query"), asks[r].alone, NEW figure,
           U!Reports(r, figure)
    PROVE  Tells(<<figure, U!Got(r, figure)>>, usage, asks[r].scope)
<1> DEFINE d == CHOOSE got \in asks[r].got : got[1] = figure
           e == <<figure, U!Got(r, figure)>>
<1>1. \A g \in asks[r].got : Tells(g, usage, asks[r].scope)
  BY DEF UsageInv, AskSound, U!At
<1>2. \E g \in asks[r].got : g[1] = figure
  BY DEF U!Reports
<1>3. d \in asks[r].got /\ d[1] = figure
  BY <1>2
<1>4. e[1] = figure /\ e[2] = d[2]
  BY DEF U!Got
<1> HIDE DEF d, e
<1>5. Tells(d, usage, asks[r].scope)
  BY <1>1, <1>3
<1>6. Tells(e, usage, asks[r].scope)
  BY <1>3, <1>4, <1>5 DEF Tells
<1> QED BY <1>6 DEF e

LEMMA FiguresAddUp == UsageInv => U!ReportAddsUp
<1> SUFFICES ASSUME UsageInv, NEW r \in Requests,
                    U!At(r, "query"), asks[r].todo = {}, asks[r].alone
             PROVE  LET count == U!Heard(asks[r].scope)
                    IN /\ U!Current(r).sessions = Cardinality(count)
                       /\ U!Current(r).tokens = U!Consumed(count)
                       /\ \A figure \in {"provider", "kind", "project", "model", "day"} :
                            U!Reports(r, figure) =>
                               /\ U!TokensIn(U!Got(r, figure)) = U!Consumed(count)
                               /\ U!SessionsIn(U!Got(r, figure)) = Cardinality(count)
                       /\ U!Reports(r, "recent") =>
                            Cardinality(U!Got(r, "recent")) = U!Fewest(Cardinality(count))
  BY SameCounting DEF U!ReportAddsUp
<1> DEFINE scope == asks[r].scope
           count == U!Heard(scope)
<1>1. Scoped(scope) /\ U!Reports(r, "totals")
  BY DEF UsageInv, AskSound, U!At, U!Reports
<1>2. count = RowsOf(usage, scope) /\ U!Consumed(count) = TokensOf(usage, scope)
  BY <1>1, RowsHeard
<1>3. \A figure : U!Reports(r, figure) => Tells(<<figure, U!Got(r, figure)>>, usage, scope)
  BY GotTells
<1> HIDE DEF scope, count
<1>4. U!Current(r).sessions = Cardinality(count) /\ U!Current(r).tokens = U!Consumed(count)
  <2> DEFINE e == <<"totals", U!Got(r, "totals")>>
  <2>1. Tells(e, usage, scope) /\ e[1] = "totals" /\ e[2] = U!Got(r, "totals")
    BY <1>1, <1>3
  <2> HIDE DEF e
  <2> QED BY <1>2, <2>1 DEF Tells, U!Current
<1>5. ASSUME NEW figure \in {"provider", "kind", "project", "model", "day"}, U!Reports(r, figure)
      PROVE  /\ U!TokensIn(U!Got(r, figure)) = U!Consumed(count)
             /\ U!SessionsIn(U!Got(r, figure)) = Cardinality(count)
  <2> DEFINE e == <<figure, U!Got(r, figure)>>
  <2>1. Tells(e, usage, scope) /\ e[1] = figure /\ e[2] = U!Got(r, figure)
    BY <1>3, <1>5
  <2> HIDE DEF e
  <2> QED BY <1>2, <2>1 DEF Tells
<1>6. ASSUME U!Reports(r, "recent")
      PROVE  Cardinality(U!Got(r, "recent")) = U!Fewest(Cardinality(count))
  <2> DEFINE e == <<"recent", U!Got(r, "recent")>>
  <2>1. Tells(e, usage, scope) /\ e[1] = "recent" /\ e[2] = U!Got(r, "recent")
    BY <1>3, <1>6
  <2> HIDE DEF e
  <2> QED BY <1>2, <2>1 DEF Tells
<1> QED BY <1>4, <1>5, <1>6 DEF scope, count

LEMMA SessionsStay == UsageInv => U!NoneMissed
<1> SUFFICES ASSUME UsageInv, NEW r \in Requests, U!At(r, "query"),
                    NEW got \in asks[r].got, got[1] # "recent"
             PROVE  U!SessionsOf(got) \in
                      Cardinality(asks[r].before)..Cardinality(U!Heard(asks[r].scope))
  BY SameCounting DEF U!NoneMissed
<1>1. /\ Scoped(asks[r].scope)
      /\ U!SessionsOf(got) \in
            Cardinality(asks[r].before)..Cardinality(RowsOf(usage, asks[r].scope))
  BY DEF UsageInv, AskSound, U!At
<1> QED BY <1>1, RowsHeard

LEMMA CapsAgree == UsageInv => U!CapAgrees
<1> SUFFICES ASSUME UsageInv, NEW r \in Requests, U!At(r, "decided"), asks[r].alone
             PROVE  LET cap == caps[asks[r].of]
                    IN U!Allowed(r) <=> \/ asks[r].provider = "script"
                                        \/ cap = None \/ U!Consumed(U!Heard(asks[r].scope)) < cap
  BY DEF U!CapAgrees
<1> DEFINE scope == asks[r].scope
           spent == U!Consumed(U!Heard(scope))
           cap == caps[asks[r].of]
<1>1. /\ Scoped(scope) /\ asks[r].provider \in {"agent", "script"} /\ asks[r].cap = cap
      /\ asks[r].tokens = TokensOf(usage, scope) /\ cap \in Nat \cup {None}
  BY DEF UsageInv, UsageTypes, AskSound, U!At
<1>2. spent = TokensOf(usage, scope) /\ TokensOf(usage, scope) \in Nat
  BY <1>1, RowsHeard, RowsAre DEF UsageInv
<1> HIDE DEF scope, spent, cap
<1>3. U!Allowed(r) <=> asks[r].provider = "script" \/ cap = None \/ spent < cap
  BY <1>1, <1>2 DEF U!Allowed, U!Exceeds
<1> QED BY <1>3 DEF scope, spent, cap

-----------------------------------------------------------------------------
(* The theorems.  A behaviour stays with its part. *)

PartsInv ==
    /\ part = "sign in" => SignInInv
    /\ part = "access" => AccessInv
    /\ part = "items" => ItemsInv
    /\ part = "extensions" => ExtensionsInv /\ WholeInv
    /\ part = "usage" => UsageInv

LEMMA PartsStep ==
    ASSUME PartsInv, [Next]_allVars
    PROVE  /\ PartsInv'
           /\ part = "sign in" => S!SettledStep \/ UNCHANGED signInVars
           /\ part = "access" => G!AgreeingStep \/ UNCHANGED accessVars
<1>1. CASE UNCHANGED allVars
  <2>1. UNCHANGED <<part, signInVars, accessVars, itemVars, extensionVars, usageVars>>
    BY <1>1 DEF allVars
  <2>2. SignInInv => SignInInv'
    BY <2>1 DEF signInVars, SignInInv, SignInTypes, HoldersDiffer, Holds, NewPairKept,
                S!TokenUsable, S!At
  <2>3. ItemsInv => ItemsInv'
    BY <2>1 DEF itemVars, ItemsInv, ItemTypes, RowGood, AwaitedBy, Indexed
  <2>4. AccessInv => AccessInv'
    BY <2>1 DEF accessVars, AccessInv, AccessTypes, Handles, Knows, Tables
  <2>5. (ExtensionsInv => ExtensionsInv') /\ (WholeInv => WholeInv')
    BY <2>1, StillWhole DEF extensionVars, ExtensionsInv, ExtensionTypes, RowSound, FileSound
  <2>6. UsageInv => UsageInv'
    <3> SUFFICES ASSUME UsageInv PROVE UsageInv'
      OBVIOUS
    <3>1. UNCHANGED <<day, usage, caps, asks, heard>>
      BY <2>1 DEF usageVars
    <3>2. UsageTypes'
      BY <3>1 DEF UsageInv, UsageTypes
    <3>3. \A j \in Jobs : RowHeard(usage'[j], heard'[j])
      BY <3>1 DEF UsageInv
    <3>4. \A r \in Requests : AskSound(asks'[r], usage', caps')
      BY <3>1 DEF UsageInv
    <3> QED BY <3>2, <3>3, <3>4 DEF UsageInv
  <2> QED BY <2>1, <2>2, <2>3, <2>4, <2>5, <2>6 DEF PartsInv
<1>2. CASE Next
  <2>1. part' = part
    BY <1>2 DEF Next
  <2>2. CASE part = "sign in"
    BY <1>2, <2>1, <2>2, SignInStep DEF PartsInv, Next
  <2>3. CASE part = "items"
    BY <1>2, <2>1, <2>3, ItemsStep DEF PartsInv, Next
  <2>4. CASE part = "access"
    BY <1>2, <2>1, <2>4, AccessStep DEF PartsInv, Next
  <2>5. CASE part = "extensions"
    BY <1>2, <2>1, <2>5, ExtensionsStep, WholeStep DEF PartsInv, Next
  <2>6. CASE part = "usage"
    BY <1>2, <2>1, <2>6, UsageStep DEF PartsInv, Next
  <2> QED BY <2>1, <2>2, <2>3, <2>4, <2>5, <2>6 DEF PartsInv
<1> QED BY <1>1, <1>2

LEMMA PartsInvariant == Spec => []PartsInv
<1>1. Init => PartsInv
  BY SignInStarts, AccessStarts, ItemsStart, ExtensionsStart, WholeStart, UsageStarts
  DEF Init, PartsInv
<1>2. PartsInv /\ [Next]_allVars => PartsInv'
  BY PartsStep
<1> QED BY <1>1, <1>2, PTL DEF Spec, allVars

\* The refresh token that a user's row keeps can be used, however many pickers
\* refresh it and sign-ins replace it at once, unless a pair that GitHub issued was
\* lost before it was stored (the answer, its UPDATE or the process failed) and none
\* was kept since (github/reconcile-user-installations.ts:34-73).
THEOREM TokensStayUsable == Spec => []TokenUsable
<1>1. PartsInv => TokenUsable
  BY DEF PartsInv, SignInInv, TokenUsable
<1> QED BY <1>1, PartsInvariant, PTL

\* A session that was signed out is never accepted again, and a username that was
\* confirmed is not confirmed over (auth/sessions.ts, users/repository.ts:83-99).
THEOREM SettledIsFinal == Spec => SettledStays
<1>1. PartsInv /\ [Next]_allVars => [part = "sign in" => S!SettledStep]_signInVars
  BY PartsStep
<1> QED BY <1>1, PartsInvariant, PTL DEF Spec, SettledStays, allVars

\* A sync during which nothing changed on GitHub, nor was written from older answers,
\* leaves the installation active, with the repositories GitHub lists, and no project
\* warned about what is granted but those a removal warns; a removal's handler leaves
\* every project of its repository warned (github/sync-installation.ts:5-39).
THEOREM SyncsAgree == Spec => SyncAgrees
<1>1. PartsInv /\ [Next]_allVars => [part = "access" => G!AgreeingStep]_accessVars
  BY PartsStep
<1> QED BY <1>1, PartsInvariant, PTL DEF Spec, SyncAgrees, allVars

\* No action item stays open once the merge or the submitted design it waits for
\* has been handled (features/action-items-repository.ts:149-195).
THEOREM AwaitedAreResolved == Spec => []AwaitedResolves
<1>1. PartsInv => AwaitedResolves
  BY ItemsFacts DEF PartsInv, AwaitedResolves
<1> QED BY <1>1, PartsInvariant, PTL

\* A submitted design whose writes did not fail is in the index, finalized and with
\* its session, whatever sessions start or submit meanwhile (designs/repository.ts:94-164).
THEOREM SubmittedStaysFinal == Spec => []SubmittedIsFinal
<1>1. PartsInv => SubmittedIsFinal
  BY ItemsFacts DEF PartsInv, SubmittedIsFinal
<1> QED BY <1>1, PartsInvariant, PTL

\* Every file row that names an object finds its bytes in the bucket, whichever
\* uploads race for a slug, die half-way or are backfilled; a job's container is
\* given only what somebody uploaded; and what nobody crossed is there as it was
\* uploaded (extensions/repository.ts, storage/backfill.ts).
THEOREM DeliveriesIntact == Spec => []DeliveredIntact
<1>1. PartsInv => DeliveredIntact
  BY ExtensionsDelivered DEF PartsInv, DeliveredIntact
<1> QED BY <1>1, PartsInvariant, PTL

\* The headline of a report, and any breakdown of it that a reader adds up, is what
\* the jobs of its organization or project consumed by what was heard of each last,
\* unless one of them was reported meanwhile, and no query of it misses a session in
\* any case; what the Orchestrator is told of a cap follows from the same sum
\* (usage/repository.ts, allocations/evaluate.ts).
THEOREM EverybodyIsToldTheSame == Spec => []FiguresAgree
<1>1. PartsInv => FiguresAgree
  BY FiguresAddUp, SessionsStay, CapsAgree DEF PartsInv, FiguresAgree, U!FiguresAgree
<1> QED BY <1>1, PartsInvariant, PTL
=============================================================================
