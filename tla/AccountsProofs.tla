--------------------------- MODULE AccountsProofs ---------------------------
(***************************************************************************)
(* Proofs about Accounts, for any number of bootstraps, logins, creations, *)
(* names, faults and crashes.                                              *)
(*                                                                         *)
(* The state falls into three parts that no step mixes: users with their   *)
(* bootstraps, sessions with their logins, and repositories with their     *)
(* creations and reconcile-hooks.  Each has an inductive invariant.        *)
(***************************************************************************)
EXTENDS Accounts, TLAPS

LoginStates ==
    {[pc |-> "idle"]} \cup [pc : {"delete", "create", "done", "lost"}, user : Bootstraps]

ReqStates ==
    {[pc |-> "idle"]} \cup
    [pc : {"init", "row", "get", "hook", "audit", "rollback", "cleanup"} \cup (Ended \ {"idle"}),
     name : Names]

(* A bootstrap that has found no user. *)
Creating(b) == boot[b] \in {"create", "done"}

(* Bootstraps that have both found no user ran at the same time. *)
BootsBeside == \A b, c \in Bootstraps : b # c /\ Creating(b) /\ Creating(c) => c \in beside[b]

UserInv ==
    /\ boot \in [Bootstraps -> {"idle", "create", "done", "refused"}]
    /\ users = {b \in Bootstraps : boot[b] = "done"}
    /\ beside \in [Bootstraps \cup Logins -> SUBSET (Bootstraps \cup Logins)]
    /\ BootsBeside

UnderWay(l) == login[l].pc \in {"delete", "create"}

(* Logins under way at the same time know of each other; a session that a  *)
(* login has not deleted belongs to one it knows or failed to delete.      *)
LoginsBeside ==
    \A l, m \in Logins : l # m =>
        /\ UnderWay(l) /\ UnderWay(m) => m \in beside[l]
        /\ login[l].pc = "create" /\ m \in SessionsOf(login[l].user) =>
               (m \in beside[l] /\ l \in beside[m]) \/ m \in spared[l]

SessionInv ==
    /\ login \in [Logins -> LoginStates]
    /\ session \in [Logins -> {"none", "live", "expired", "deleted"}]
    /\ spared \in [Logins -> SUBSET Logins]
    /\ \A l \in Logins : /\ login[l].pc # "idle" => login[l].user \in users
                         /\ session[l] # "none" => login[l].pc = "done"
    /\ LoginsBeside
    /\ OneSession

-----------------------------------------------------------------------------
(* bootstrap-admin *)

(* Who overlaps with whom is symmetric and is never forgotten. *)
LEMMA BesideTyped ==
    ASSUME beside \in [Bootstraps \cup Logins -> SUBSET (Bootstraps \cup Logins)],
           NEW x \in Bootstraps \cup Logins, NEW running \in SUBSET (Bootstraps \cup Logins),
           beside' = Beside(x, running), x \notin running
    PROVE  /\ beside' \in [Bootstraps \cup Logins -> SUBSET (Bootstraps \cup Logins)]
           /\ beside'[x] = running
           /\ \A y \in Bootstraps \cup Logins : y \in running => x \in beside'[y]
           /\ \A y \in Bootstraps \cup Logins : y # x => beside[y] \subseteq beside'[y]
BY DEF Beside

(* Two users take two runs of bootstrap_admin that overlapped. *)
LEMMA UserStep == UserInv /\ [AccountsNext]_vars => UserInv'
<1> SUFFICES ASSUME UserInv, [AccountsNext]_vars PROVE UserInv'
    OBVIOUS
<1> USE DEF UserInv
<1>1. ASSUME NEW b \in Bootstraps, BootstrapChecks(b) PROVE UserInv'
  <2> DEFINE running == {c \in Bootstraps : boot[c] = "create"}
  <2>1. beside' = Beside(b, running) /\ b \notin running BY <1>1 DEF BootstrapChecks
  <2>2. running \in SUBSET (Bootstraps \cup Logins) OBVIOUS
  <2>3. \A c \in running : c \in Bootstraps /\ boot[c] = "create" OBVIOUS
  <2>4. \A c \in Bootstraps : boot[c] = "create" => c \in running OBVIOUS
  <2> HIDE DEF running
  <2>5. /\ beside' \in [Bootstraps \cup Logins -> SUBSET (Bootstraps \cup Logins)]
        /\ beside'[b] = running
        /\ \A y \in Bootstraps \cup Logins : y \in running => b \in beside'[y]
        /\ \A y \in Bootstraps \cup Logins : y # b => beside[y] \subseteq beside'[y]
        BY <2>1, <2>2, BesideTyped
  <2>6. /\ boot' \in [Bootstraps -> {"idle", "create", "done", "refused"}]
        /\ \A c \in Bootstraps : c # b => boot'[c] = boot[c]
        /\ boot[b] = "idle" /\ boot'[b] \in {"create", "refused"}
        /\ boot'[b] = "create" => users = {}
        /\ users' = users
        BY <1>1 DEF BootstrapChecks
  <2>7. BootsBeside'
    <3>1. SUFFICES ASSUME NEW d \in Bootstraps, NEW c \in Bootstraps, d # c,
                          boot'[d] \in {"create", "done"}, boot'[c] \in {"create", "done"}
                   PROVE  c \in beside'[d]
          BY DEF BootsBeside, Creating
    <3>2. CASE d = b BY <2>3, <2>4, <2>5, <2>6, <3>1, <3>2
    <3>3. CASE c = b BY <2>3, <2>4, <2>5, <2>6, <3>1, <3>3
    <3>4. CASE d # b /\ c # b BY <2>5, <2>6, <3>1, <3>4 DEF BootsBeside, Creating
    <3>5. QED BY <3>2, <3>3, <3>4
  <2>8. users' = {c \in Bootstraps : boot'[c] = "done"} BY <2>6
  <2>9. QED BY <2>5, <2>6, <2>7, <2>8
<1>2. ASSUME NEW b \in Bootstraps, BootstrapCreates(b) PROVE UserInv'
      BY <1>2 DEF BootstrapCreates, BootsBeside, Creating
<1>3. ASSUME NEW l \in Logins, NEW u \in Bootstraps, LoginBegins(l, u) PROVE UserInv'
  <2> DEFINE running == {m \in Logins : login[m].pc \in {"delete", "create"}}
  <2>1. beside' = Beside(l, running) /\ l \notin running BY <1>3 DEF LoginBegins
  <2>2. running \in SUBSET (Bootstraps \cup Logins) OBVIOUS
  <2> HIDE DEF running
  <2>3. /\ beside' \in [Bootstraps \cup Logins -> SUBSET (Bootstraps \cup Logins)]
        /\ \A y \in Bootstraps \cup Logins : y # l => beside[y] \subseteq beside'[y]
        BY <2>1, <2>2, BesideTyped
  <2>4. boot' = boot /\ users' = users BY <1>3 DEF LoginBegins, OtherTables, userVars
  <2>5. BootsBeside' BY <2>3, <2>4, AccountsActors DEF BootsBeside, Creating
  <2>6. QED BY <2>3, <2>4, <2>5
<1>4. CASE UNCHANGED <<userVars, beside>> BY <1>4 DEF userVars, BootsBeside, Creating
<1>5. CASE UNCHANGED vars BY <1>4, <1>5 DEF vars
<1>6. ASSUME NEW q \in Creators, CreatorStep(q) PROVE UNCHANGED <<userVars, beside>>
      BY <1>6 DEF CreatorStep, init_bare_repo, InitFails, create_repo, RowRefused, get_repo,
            install_post_receive_hook, GetOrHookFails, delete_repo, cleanup_bare_repo, CleanupFails,
            record_audit_event, AuditFails, Others
<1>7. QED BY <1>1, <1>2, <1>3, <1>4, <1>5, <1>6
      DEF AccountsNext, delete_sessions_for_user, DeleteSessionsFails, create_session,
          CreateSessionFails, logout, Expires, OtherTables,
          ProvisionBegins, Refer, ReconcileInstalls, ReconcileLists, ReconcileFails, Crash

-----------------------------------------------------------------------------
(* Sessions *)

(* Two live sessions of a user take two logins that overlapped. *)
LEMMA SessionStep == UserInv /\ SessionInv /\ [AccountsNext]_vars => SessionInv'
<1> SUFFICES ASSUME UserInv, SessionInv, [AccountsNext]_vars PROVE SessionInv'
    OBVIOUS
<1>0. /\ login \in [Logins -> LoginStates]
      /\ session \in [Logins -> {"none", "live", "expired", "deleted"}]
      /\ spared \in [Logins -> SUBSET Logins]
      /\ \A l \in Logins : /\ login[l].pc # "idle" => login[l].user \in users
                           /\ session[l] # "none" => login[l].pc = "done"
      /\ LoginsBeside /\ OneSession
      /\ beside \in [Bootstraps \cup Logins -> SUBSET (Bootstraps \cup Logins)]
      BY DEF SessionInv, UserInv
<1>u. \A u \in users : u \in Bootstraps BY DEF UserInv
<1>1. ASSUME NEW b \in Bootstraps, BootstrapChecks(b) \/ BootstrapCreates(b) PROVE SessionInv'
  <2>1. UNCHANGED <<login, session, spared>> /\ users \subseteq users' /\ \A l \in Logins : beside'[l] = beside[l]
    <3>1. CASE BootstrapChecks(b)
          BY <1>0, <3>1, AccountsActors DEF BootstrapChecks, sessionVars, Beside
    <3>2. CASE BootstrapCreates(b) BY <3>2 DEF BootstrapCreates, sessionVars
    <3>3. QED BY <1>1, <3>1, <3>2
  <2>2. QED BY <2>1, <1>0 DEF SessionInv, LoginsBeside, OneSession, UnderWay, SessionsOf
<1>2. ASSUME NEW l \in Logins, NEW u \in Bootstraps, LoginBegins(l, u) PROVE SessionInv'
  <2> DEFINE running == {m \in Logins : login[m].pc \in {"delete", "create"}}
  <2>1. beside' = Beside(l, running) /\ l \notin running BY <1>2 DEF LoginBegins
  <2>2. running \in SUBSET (Bootstraps \cup Logins) OBVIOUS
  <2>3. \A m \in Logins : UnderWay(m) <=> m \in running BY DEF UnderWay
  <2> HIDE DEF running
  <2>4. /\ beside'[l] = running
        /\ \A y \in Bootstraps \cup Logins : y \in running => l \in beside'[y]
        /\ \A y \in Bootstraps \cup Logins : y # l => beside[y] \subseteq beside'[y]
        BY <1>0, <2>1, <2>2, BesideTyped
  <2> DEFINE state == [pc |-> "delete", user |-> u]
  <2>5. state \in LoginStates /\ state.pc = "delete" /\ state.user = u BY DEF LoginStates
  <2>6. login' = [login EXCEPT ![l] = state] BY <1>2 DEF LoginBegins
  <2> HIDE DEF state
  <2>7. /\ login' \in [Logins -> LoginStates]
        /\ \A m \in Logins : login'[m] = IF m = l THEN state ELSE login[m]
        BY <1>0, <2>5, <2>6
  <2>8. /\ u \in users /\ users' = users /\ spared' = spared
        /\ session' \in [Logins -> {"none", "live", "expired", "deleted"}]
        /\ \A m \in Logins : session'[m] = session[m] \/ (session[m] = "expired" /\ session'[m] = "deleted")
        /\ login[l].pc = "idle"
        BY <1>0, <1>2 DEF LoginBegins, userVars, OtherTables
  <2>9. session[l] = "none" /\ session'[l] = "none" BY <1>0, <2>8
  <2>10. LoginsBeside'
    <3>1. SUFFICES ASSUME NEW k \in Logins, NEW m \in Logins, k # m
                   PROVE  /\ UnderWay(k)' /\ UnderWay(m)' => m \in beside'[k]
                          /\ (login'[k].pc = "create" /\ session'[m] \in {"live", "expired"}
                                  /\ login'[m].user = login'[k].user) =>
                                 (m \in beside'[k] /\ k \in beside'[m]) \/ m \in spared'[k]
          BY DEF LoginsBeside, SessionsOf, UnderWay
    <3>2. UnderWay(k)' /\ UnderWay(m)' => m \in beside'[k]
          BY <2>3, <2>4, <2>5, <2>7, <1>0, <3>1 DEF UnderWay, LoginsBeside
    <3>3. (login'[k].pc = "create" /\ session'[m] \in {"live", "expired"}
              /\ login'[m].user = login'[k].user) =>
          /\ k # l /\ m # l
          /\ login[k].pc = "create" /\ m \in SessionsOf(login[k].user)
          BY <2>5, <2>7, <2>8, <2>9 DEF SessionsOf
    <3>4. QED BY <2>4, <2>8, <3>1, <3>2, <3>3, <1>0 DEF LoginsBeside
  <2>11. OneSession'
    <3>1. SUFFICES ASSUME NEW k \in Logins, NEW m \in Logins, k # m, session'[k] = "live",
                          session'[m] = "live", login'[k].user = login'[m].user
                   PROVE  m \in beside'[k] \/ m \in spared'[k] \/ k \in spared'[m]
          BY DEF OneSession
    <3>2. k # l /\ m # l /\ session[k] = "live" /\ session[m] = "live" BY <2>8, <2>9, <3>1
    <3>3. login[k].user = login[m].user BY <2>7, <3>1, <3>2
    <3>4. QED BY <2>4, <2>8, <3>1, <3>2, <3>3, <1>0 DEF OneSession
  <2>12. QED BY <1>0, <2>5, <2>7, <2>8, <2>9, <2>10, <2>11 DEF SessionInv
<1>3. ASSUME NEW l \in Logins, NEW pc \in {"create", "done", "lost"},
             login[l].pc # "idle"
      PROVE  /\ [login EXCEPT ![l].pc = pc] \in [Logins -> LoginStates]
             /\ [login EXCEPT ![l].pc = pc][l].pc = pc
             /\ [login EXCEPT ![l].pc = pc][l].user = login[l].user
             /\ \A m \in Logins : m # l => [login EXCEPT ![l].pc = pc][m] = login[m]
  <2>1. login[l] \in [pc : {"delete", "create", "done", "lost"}, user : Bootstraps]
        BY <1>0, <1>3 DEF LoginStates
  <2>2. /\ [login[l] EXCEPT !.pc = pc] \in [pc : {"delete", "create", "done", "lost"}, user : Bootstraps]
        /\ [login[l] EXCEPT !.pc = pc].pc = pc /\ [login[l] EXCEPT !.pc = pc].user = login[l].user
        BY <2>1
  <2>3. [login[l] EXCEPT !.pc = pc] \in LoginStates BY <2>2 DEF LoginStates
  <2>4. QED BY <1>0, <2>2, <2>3
<1>4. ASSUME NEW l \in Logins, delete_sessions_for_user(l) PROVE SessionInv'
  <2>1. login[l].pc = "delete" /\ login' = [login EXCEPT ![l].pc = "create"]
        BY <1>4 DEF delete_sessions_for_user, SetLogin
  <2>2. /\ login' \in [Logins -> LoginStates]
        /\ login'[l].pc = "create" /\ login'[l].user = login[l].user
        /\ \A m \in Logins : m # l => login'[m] = login[m]
        BY <2>1, <1>3
  <2>3. /\ session' \in [Logins -> {"none", "live", "expired", "deleted"}]
        /\ \A m \in Logins : session'[m] = IF m \in SessionsOf(login[l].user) THEN "deleted" ELSE session[m]
        /\ UNCHANGED <<users, beside, spared>>
        BY <1>0, <1>4 DEF delete_sessions_for_user, userVars, OtherTables
  <2>4. session[l] = "none" BY <1>0, <2>1
  <2>5. LoginsBeside'
    <3>1. SUFFICES ASSUME NEW k \in Logins, NEW m \in Logins, k # m
                   PROVE  /\ UnderWay(k)' /\ UnderWay(m)' => m \in beside'[k]
                          /\ (login'[k].pc = "create" /\ session'[m] \in {"live", "expired"}
                                  /\ login'[m].user = login'[k].user) =>
                                 (m \in beside'[k] /\ k \in beside'[m]) \/ m \in spared'[k]
          BY DEF LoginsBeside, SessionsOf, UnderWay
    <3>2. UnderWay(k)' /\ UnderWay(m)' => m \in beside'[k]
          BY <2>1, <2>2, <2>3, <1>0, <3>1 DEF UnderWay, LoginsBeside
    <3>3. (session'[m] \in {"live", "expired"} /\ login'[m].user = login'[k].user) =>
          /\ m \in SessionsOf(login[k].user)
          /\ k # l
          BY <2>2, <2>3, <2>4 DEF SessionsOf
    <3>4. QED BY <2>2, <2>3, <3>1, <3>2, <3>3, <1>0 DEF LoginsBeside
  <2>6. OneSession' BY <2>2, <2>3, <1>0 DEF OneSession, SessionsOf
  <2>7. QED BY <1>0, <2>1, <2>2, <2>3, <2>4, <2>5, <2>6 DEF SessionInv, SessionsOf
<1>d. ASSUME NEW l \in Logins, DeleteSessionsFails(l) PROVE SessionInv'
  <2>1. login[l].pc = "delete" /\ login' = [login EXCEPT ![l].pc = "create"]
        BY <1>d DEF DeleteSessionsFails, SetLogin
  <2>2. /\ login' \in [Logins -> LoginStates]
        /\ login'[l].pc = "create" /\ login'[l].user = login[l].user
        /\ \A m \in Logins : m # l => login'[m] = login[m]
        BY <2>1, <1>3
  <2>3. /\ spared' \in [Logins -> SUBSET Logins]
        /\ \A m \in Logins : spared'[m] = IF m = l THEN SessionsOf(login[l].user) ELSE spared[m]
        /\ UNCHANGED <<users, session, beside>>
        BY <1>0, <1>d DEF DeleteSessionsFails, SessionsOf, userVars, OtherTables
  <2>4. session[l] = "none" BY <1>0, <2>1
  <2>5. LoginsBeside'
    <3>1. SUFFICES ASSUME NEW k \in Logins, NEW m \in Logins, k # m
                   PROVE  /\ UnderWay(k)' /\ UnderWay(m)' => m \in beside'[k]
                          /\ (login'[k].pc = "create" /\ session'[m] \in {"live", "expired"}
                                  /\ login'[m].user = login'[k].user) =>
                                 (m \in beside'[k] /\ k \in beside'[m]) \/ m \in spared'[k]
          BY DEF LoginsBeside, SessionsOf, UnderWay
    <3>2. UnderWay(k)' /\ UnderWay(m)' => m \in beside'[k]
          BY <2>1, <2>2, <2>3, <1>0, <3>1 DEF UnderWay, LoginsBeside
    <3>3. (session'[m] \in {"live", "expired"} /\ login'[m].user = login'[k].user) =>
              m \in SessionsOf(login[k].user)
          BY <2>2, <2>3 DEF SessionsOf
    <3>4. CASE k = l BY <2>3, <3>2, <3>3, <3>4
    <3>5. CASE k # l BY <2>2, <2>3, <3>1, <3>2, <3>3, <3>5, <1>0 DEF LoginsBeside
    <3>6. QED BY <3>4, <3>5
  <2>6. OneSession'
    <3>1. SUFFICES ASSUME NEW k \in Logins, NEW m \in Logins, k # m, session'[k] = "live",
                          session'[m] = "live", login'[k].user = login'[m].user
                   PROVE  m \in beside'[k] \/ m \in spared'[k] \/ k \in spared'[m]
          BY DEF OneSession
    <3>2. k # l /\ m # l BY <2>3, <2>4, <3>1
    <3>3. QED BY <2>2, <2>3, <3>1, <3>2, <1>0 DEF OneSession
  <2>7. QED BY <1>0, <2>1, <2>2, <2>3, <2>4, <2>5, <2>6 DEF SessionInv
<1>e. ASSUME NEW l \in Logins, CreateSessionFails(l) PROVE SessionInv'
  <2>1. login[l].pc = "create" /\ login' = [login EXCEPT ![l].pc = "lost"]
        BY <1>e DEF CreateSessionFails, SetLogin
  <2>2. /\ login' \in [Logins -> LoginStates]
        /\ login'[l].pc = "lost" /\ login'[l].user = login[l].user
        /\ \A m \in Logins : m # l => login'[m] = login[m]
        BY <2>1, <1>3
  <2>3. UNCHANGED <<users, session, spared, beside>>
        BY <1>e DEF CreateSessionFails, userVars, OtherTables
  <2>4. session[l] = "none" BY <1>0, <2>1
  <2>5. LoginsBeside' BY <2>2, <2>3, <2>4, <1>0 DEF LoginsBeside, SessionsOf, UnderWay
  <2>6. OneSession' BY <2>2, <2>3, <2>4, <1>0 DEF OneSession
  <2>7. QED BY <1>0, <2>1, <2>2, <2>3, <2>4, <2>5, <2>6 DEF SessionInv
<1>5. ASSUME NEW l \in Logins, create_session(l) PROVE SessionInv'
  <2>1. login[l].pc = "create" /\ login' = [login EXCEPT ![l].pc = "done"]
        BY <1>5 DEF create_session, SetLogin
  <2>2. /\ login' \in [Logins -> LoginStates]
        /\ login'[l].pc = "done" /\ login'[l].user = login[l].user
        /\ \A m \in Logins : m # l => login'[m] = login[m]
        BY <2>1, <1>3
  <2>3. /\ session' \in [Logins -> {"none", "live", "expired", "deleted"}]
        /\ \A m \in Logins : session'[m] = IF m = l THEN "live" ELSE session[m]
        /\ UNCHANGED <<users, beside, spared>>
        BY <1>0, <1>5 DEF create_session, userVars, OtherTables
  <2>4. LoginsBeside'
    <3>1. SUFFICES ASSUME NEW k \in Logins, NEW m \in Logins, k # m
                   PROVE  /\ UnderWay(k)' /\ UnderWay(m)' => m \in beside'[k]
                          /\ (login'[k].pc = "create" /\ session'[m] \in {"live", "expired"}
                                  /\ login'[m].user = login'[k].user) =>
                                 (m \in beside'[k] /\ k \in beside'[m]) \/ m \in spared'[k]
          BY DEF LoginsBeside, SessionsOf, UnderWay
    <3>2. UnderWay(k)' /\ UnderWay(m)' => m \in beside'[k]
          BY <2>2, <2>3, <1>0, <3>1 DEF UnderWay, LoginsBeside
    <3>3. CASE m = l BY <2>1, <2>2, <2>3, <1>0, <3>1, <3>2, <3>3 DEF UnderWay, LoginsBeside
    <3>4. CASE m # l BY <2>2, <2>3, <1>0, <3>1, <3>2, <3>4 DEF LoginsBeside, SessionsOf
    <3>5. QED BY <3>3, <3>4
  <2>5. OneSession'
    <3>1. SUFFICES ASSUME NEW k \in Logins, NEW m \in Logins, k # m, session'[k] = "live",
                          session'[m] = "live", login'[k].user = login'[m].user
                   PROVE  m \in beside'[k] \/ m \in spared'[k] \/ k \in spared'[m]
          BY DEF OneSession
    <3>2. CASE k = l \/ m = l BY <2>1, <2>2, <2>3, <1>0, <3>1, <3>2 DEF LoginsBeside, SessionsOf
    <3>3. CASE k # l /\ m # l BY <2>2, <2>3, <1>0, <3>1, <3>3 DEF OneSession
    <3>4. QED BY <3>2, <3>3
  <2>6. QED BY <1>0, <2>1, <2>2, <2>3, <2>4, <2>5 DEF SessionInv
<1>6. ASSUME NEW l \in Logins, logout(l) \/ Expires(l) PROVE SessionInv'
  <2>1. PICK gone \in {"deleted", "expired"} : session' = [session EXCEPT ![l] = gone]
        BY <1>6 DEF logout, Expires
  <2>2. /\ session' \in [Logins -> {"none", "live", "expired", "deleted"}]
        /\ \A m \in Logins : m # l => session'[m] = session[m]
        /\ session[l] = "live" /\ session'[l] # "live"
        /\ UNCHANGED <<users, login, beside, spared>>
        BY <1>0, <1>6, <2>1 DEF logout, Expires, userVars, OtherTables
  <2>3. \A m \in Logins : /\ session'[m] = "live" => session[m] = "live"
                          /\ session'[m] \in {"live", "expired"} => session[m] \in {"live", "expired"}
                          /\ session'[m] # "none" => session[m] # "none"
        BY <2>2
  <2>4. LoginsBeside' BY <2>2, <2>3, <1>0 DEF LoginsBeside, SessionsOf, UnderWay
  <2>5. OneSession' BY <2>2, <2>3, <1>0 DEF OneSession
  <2>6. QED BY <2>2, <2>3, <2>4, <2>5, <1>0 DEF SessionInv
<1>7. CASE Crash
  <2>1. \A l \in Logins : login'[l] = login[l] \/
            /\ login[l].pc \notin {"idle", "done"}
            /\ login'[l] = [login[l] EXCEPT !.pc = "lost"]
        BY <1>7 DEF Crash
  <2>2. \A l \in Logins : login[l].pc \notin {"idle", "done"} =>
            /\ [login[l] EXCEPT !.pc = "lost"] \in LoginStates
            /\ [login[l] EXCEPT !.pc = "lost"].pc = "lost"
            /\ [login[l] EXCEPT !.pc = "lost"].user = login[l].user
        BY <1>0 DEF LoginStates
  <2>3. /\ login' \in [Logins -> LoginStates]
        /\ \A l \in Logins : /\ login'[l].pc \in {login[l].pc, "lost"}
                             /\ login[l].pc \in {"idle", "done"} => login'[l] = login[l]
                             /\ login[l].pc # "idle" => login'[l].user = login[l].user
    <3>1. login' = [l \in Logins |-> login'[l]] BY <1>7 DEF Crash
    <3>2. \A l \in Logins : login'[l] \in LoginStates BY <1>0, <2>1, <2>2
    <3>3. QED BY <2>1, <2>2, <3>1, <3>2
  <2>4. UNCHANGED <<users, session, beside, spared>> BY <1>7 DEF Crash, userVars
  <2>5. LoginsBeside' BY <2>3, <2>4, <1>0 DEF LoginsBeside, SessionsOf, UnderWay
  <2>6. OneSession' BY <2>3, <2>4, <1>0 DEF OneSession
  <2>7. QED BY <2>3, <2>4, <2>5, <2>6, <1>0 DEF SessionInv
<1>8. CASE UNCHANGED <<users, sessionVars, beside>>
      BY <1>8, <1>0 DEF sessionVars, SessionInv, LoginsBeside, OneSession, UnderWay, SessionsOf
<1>9. CASE UNCHANGED vars BY <1>8, <1>9 DEF vars, userVars
<1>10. ASSUME NEW q \in Creators, CreatorStep(q) PROVE UNCHANGED <<users, sessionVars, beside>>
      BY <1>10 DEF CreatorStep, init_bare_repo, InitFails, create_repo, RowRefused, get_repo,
            install_post_receive_hook, GetOrHookFails, delete_repo, cleanup_bare_repo, CleanupFails,
            record_audit_event, AuditFails, Others, userVars
<1>11. QED BY <1>1, <1>2, <1>4, <1>d, <1>e, <1>5, <1>6, <1>7, <1>8, <1>9, <1>10
       DEF AccountsNext, ProvisionBegins, Refer, ReconcileInstalls, ReconcileLists, ReconcileFails,
           userVars

-----------------------------------------------------------------------------
(* Repositories *)

ReconStates == [pc : {"idle", "install", "done", "failed"}, todo : SUBSET Creators,
                listed : SUBSET Creators]

Dirs == {"none", "partial", "bare", "hooked", "hooks_only"}

RepoTypes ==
    /\ req \in [Creators -> ReqStates]
    /\ dir \in [Creators -> Dirs]
    /\ recon \in ReconStates
    /\ row \subseteq Creators /\ used \subseteq Creators
    /\ kept \subseteq row /\ audited \subseteq row /\ littered \subseteq Creators
    /\ recon.todo \subseteq recon.listed

(* What a creation has made when it stands at a step, and what is left of  *)
(* it afterwards.  Before create_repo its row is in no list of             *)
(* reconcile-hooks, so nobody else touches its directory.                  *)
StepOK(q) ==
    /\ req[q].pc \in {"idle", "init", "row"} => q \notin row /\ q \notin recon.listed
    /\ req[q].pc = "row" => dir[q] = "bare"
    /\ req[q].pc \in {"get", "hook", "rollback"} => q \in row /\ dir[q] \in {"bare", "hooked"}
    /\ req[q].pc \in {"audit", "ok"} => q \in row /\ dir[q] = "hooked"
    /\ req[q].pc = "ok" <=> q \in audited
    /\ req[q].pc = "cleanup" /\ q \in row => q \in kept
    /\ req[q].pc = "failed" => /\ q \in row => q \in kept
                               /\ dir[q] \notin {"none", "hooks_only"} => q \in littered
    /\ q \in kept => req[q].pc \in {"cleanup", "failed", "lost"}
    /\ q \in row => q \in kept \/ dir[q] \in {"bare", "hooked"}

NamesUnique == \A p, q \in row : req[p].name = req[q].name => p = q

(* The part of HooksRestored that reconcile-hooks has established so far.  *)
HooksSoFar ==
    /\ recon.pc = "done" => recon.todo = {}
    /\ recon.pc \in {"install", "done"} =>
           \A q \in recon.listed \ recon.todo :
               q \in row => dir[q] \in {"hooked", "hooks_only"} \/ q \in kept

RepoInv ==
    /\ RepoTypes
    /\ \A q \in Creators : StepOK(q)
    /\ NamesUnique
    /\ HooksSoFar

(* Only q's part of the tables and directories changes. *)
OnlyOf(q) ==
    /\ \A p \in Creators : p # q => /\ req'[p] = req[p] /\ dir'[p] = dir[p]
                                    /\ p \in row' <=> p \in row
                                    /\ p \in kept' <=> p \in kept
                                    /\ p \in littered' <=> p \in littered
                                    /\ p \in audited' <=> p \in audited
    /\ UNCHANGED <<used, recon>>

(* A request goes on to its next step, with the same name. *)
LEMMA PcChanged ==
    ASSUME RepoTypes, NEW q \in Creators, req[q].pc # "idle",
           NEW pc \in {"init", "row", "get", "hook", "audit", "rollback", "cleanup"} \cup (Ended \ {"idle"}),
           SetReq(q, pc)
    PROVE  /\ req' \in [Creators -> ReqStates]
           /\ req'[q].pc = pc /\ req'[q].name = req[q].name
           /\ \A p \in Creators : p # q => req'[p] = req[p]
<1> DEFINE Pcs == {"init", "row", "get", "hook", "audit", "rollback", "cleanup"} \cup (Ended \ {"idle"})
<1>0. pc \in Pcs OBVIOUS
<1>1. req[q] \in [pc : Pcs, name : Names] BY DEF RepoTypes, ReqStates
<1>2. [pc : Pcs, name : Names] \subseteq ReqStates BY DEF ReqStates
<1> HIDE DEF Pcs
<1>3. /\ [req[q] EXCEPT !.pc = pc] \in [pc : Pcs, name : Names]
      /\ [req[q] EXCEPT !.pc = pc].pc = pc /\ [req[q] EXCEPT !.pc = pc].name = req[q].name
      BY <1>0, <1>1
<1>4. [req[q] EXCEPT !.pc = pc] \in ReqStates BY <1>2, <1>3
<1>5. req' = [req EXCEPT ![q] = [req[q] EXCEPT !.pc = pc]] BY DEF SetReq
<1>6. req \in [Creators -> ReqStates] BY DEF RepoTypes
<1>7. QED BY <1>3, <1>4, <1>5, <1>6

(* A step of a creation, once it is known what it does to its own part. *)
LEMMA OwnStep ==
    ASSUME RepoInv, NEW q \in Creators, RepoTypes', OnlyOf(q), StepOK(q)',
           req'[q].name = req[q].name \/ q \notin row',
           q \in row' => q \in row \/ ~Taken(q),
           q \in row' => dir'[q] = dir[q] \/ dir'[q] = "hooked" \/ q \in kept',
           q \in kept => q \in kept' \/ q \notin row',
           q \in row \/ q \notin recon.listed \/ q \notin row'
    PROVE  RepoInv'
<1>1. \A p \in Creators : StepOK(p)' BY DEF RepoInv, OnlyOf, StepOK
<1>2. NamesUnique' BY DEF RepoInv, RepoTypes, OnlyOf, NamesUnique, Taken
<1>3. HooksSoFar' BY DEF RepoInv, RepoTypes, OnlyOf, HooksSoFar, ReconStates
<1>4. QED BY <1>1, <1>2, <1>3 DEF RepoInv

(* Every step of provision_repo and of its rollback keeps the invariant. *)
LEMMA CreationStep ==
    ASSUME RepoInv, NEW q \in Creators, CreatorStep(q)
    PROVE  RepoInv'
<1>0. RepoTypes /\ StepOK(q) /\ q \in Creators BY DEF RepoInv
<1>i. req[q].pc # "idle"
      BY DEF CreatorStep, init_bare_repo, InitFails, create_repo, RowRefused, get_repo,
            install_post_receive_hook, GetOrHookFails, delete_repo, cleanup_bare_repo, CleanupFails,
            record_audit_event, AuditFails
<1>1. CASE init_bare_repo(q)
  <2>1. SetReq(q, "row") BY <1>1 DEF init_bare_repo
  <2>2. /\ req' \in [Creators -> ReqStates] /\ req'[q].pc = "row" /\ req'[q].name = req[q].name
        /\ \A p \in Creators : p # q => req'[p] = req[p]
        BY <2>1, <1>0, <1>i, PcChanged
  <2>3. /\ dir' \in [Creators -> Dirs] /\ dir'[q] = "bare"
        /\ \A p \in Creators : p # q => dir'[p] = dir[p]
        /\ UNCHANGED <<row, kept, littered, audited, used, recon>>
        /\ req[q].pc = "init"
        BY <1>1, <1>0 DEF init_bare_repo, Others, undone, RepoTypes, Dirs
  <2>4. RepoTypes' /\ OnlyOf(q) BY <2>2, <2>3, <1>0 DEF RepoTypes, OnlyOf
  <2>5. StepOK(q)' BY <2>2, <2>3, <1>0 DEF StepOK
  <2>6. QED BY <2>2, <2>3, <2>4, <2>5, <1>0, OwnStep DEF StepOK
<1>2. CASE InitFails(q)
  <2>1. SetReq(q, "init_failed") BY <1>2 DEF InitFails
  <2>2. /\ req' \in [Creators -> ReqStates] /\ req'[q].pc = "init_failed" /\ req'[q].name = req[q].name
        /\ \A p \in Creators : p # q => req'[p] = req[p]
        BY <2>1, <1>0, <1>i, PcChanged DEF Ended
  <2>3. /\ dir' \in [Creators -> Dirs]
        /\ \A p \in Creators : p # q => dir'[p] = dir[p]
        /\ UNCHANGED <<row, kept, littered, audited, used, recon>>
        /\ req[q].pc = "init"
    <3>1. PICK left \in {"none", "partial"} : dir' = [dir EXCEPT ![q] = left]
          BY <1>2 DEF InitFails
    <3>2. QED BY <3>1, <1>2, <1>0 DEF InitFails, Others, undone, RepoTypes, Dirs
  <2>4. RepoTypes' /\ OnlyOf(q) BY <2>2, <2>3, <1>0 DEF RepoTypes, OnlyOf
  <2>5. StepOK(q)' BY <2>2, <2>3, <1>0 DEF StepOK
  <2>6. QED BY <2>2, <2>3, <2>4, <2>5, <1>0, OwnStep DEF StepOK
<1>3. CASE create_repo(q)
  <2>1. SetReq(q, "get") BY <1>3 DEF create_repo
  <2>2. /\ req' \in [Creators -> ReqStates] /\ req'[q].pc = "get" /\ req'[q].name = req[q].name
        /\ \A p \in Creators : p # q => req'[p] = req[p]
        BY <2>1, <1>0, <1>i, PcChanged
  <2>3. /\ UNCHANGED <<dir, kept, littered, audited, used, recon>>
        /\ row' = row \cup {q} /\ ~Taken(q)
        /\ req[q].pc = "row"
        BY <1>3 DEF create_repo, Others, undone
  <2>4. RepoTypes' /\ OnlyOf(q) BY <2>2, <2>3, <1>0 DEF RepoTypes, OnlyOf
  <2>5. StepOK(q)' BY <2>2, <2>3, <1>0 DEF StepOK
  <2>6. QED BY <2>2, <2>3, <2>4, <2>5, <1>0, OwnStep DEF StepOK
<1>4. CASE RowRefused(q)
  <2>1. SetReq(q, "cleanup") BY <1>4 DEF RowRefused
  <2>2. /\ req' \in [Creators -> ReqStates] /\ req'[q].pc = "cleanup" /\ req'[q].name = req[q].name
        /\ \A p \in Creators : p # q => req'[p] = req[p]
        BY <2>1, <1>0, <1>i, PcChanged
  <2>3. UNCHANGED <<row, dir, kept, littered, audited, used, recon>> /\ req[q].pc = "row"
        BY <1>4 DEF RowRefused, Others, undone
  <2>4. RepoTypes' /\ OnlyOf(q) BY <2>2, <2>3, <1>0 DEF RepoTypes, OnlyOf
  <2>5. StepOK(q)' BY <2>2, <2>3, <1>0 DEF StepOK, RepoTypes
  <2>6. QED BY <2>2, <2>3, <2>4, <2>5, <1>0, OwnStep DEF StepOK
<1>5. CASE get_repo(q) \/ GetOrHookFails(q)
  <2>1. PICK pc \in {"hook", "rollback"} : SetReq(q, pc) BY <1>5 DEF get_repo, GetOrHookFails
  <2>2. /\ req' \in [Creators -> ReqStates] /\ req'[q].pc = pc /\ req'[q].name = req[q].name
        /\ \A p \in Creators : p # q => req'[p] = req[p]
        BY <2>1, <1>0, <1>i, PcChanged
  <2>3. UNCHANGED <<row, dir, kept, littered, audited, used, recon>> /\ req[q].pc \in {"get", "hook"}
        BY <1>5 DEF get_repo, GetOrHookFails, Others, undone
  <2>4. RepoTypes' /\ OnlyOf(q) BY <2>2, <2>3, <1>0 DEF RepoTypes, OnlyOf
  <2>5. StepOK(q)' BY <2>2, <2>3, <1>0 DEF StepOK
  <2>6. QED BY <2>2, <2>3, <2>4, <2>5, <1>0, OwnStep DEF StepOK
<1>6. CASE install_post_receive_hook(q)
  <2>1. SetReq(q, "audit") BY <1>6 DEF install_post_receive_hook
  <2>2. /\ req' \in [Creators -> ReqStates] /\ req'[q].pc = "audit" /\ req'[q].name = req[q].name
        /\ \A p \in Creators : p # q => req'[p] = req[p]
        BY <2>1, <1>0, <1>i, PcChanged
  <2>3. /\ dir' \in [Creators -> Dirs] /\ dir'[q] = "hooked"
        /\ \A p \in Creators : p # q => dir'[p] = dir[p]
        /\ UNCHANGED <<row, kept, littered, audited, used, recon>>
        /\ req[q].pc = "hook"
        BY <1>6, <1>0 DEF install_post_receive_hook, Others, undone, RepoTypes, Dirs
  <2>4. RepoTypes' /\ OnlyOf(q) BY <2>2, <2>3, <1>0 DEF RepoTypes, OnlyOf
  <2>5. StepOK(q)' BY <2>2, <2>3, <1>0 DEF StepOK
  <2>6. QED BY <2>2, <2>3, <2>4, <2>5, <1>0, OwnStep DEF StepOK
<1>7. CASE delete_repo(q)
  <2>1. SetReq(q, "cleanup") BY <1>7 DEF delete_repo
  <2>2. /\ req' \in [Creators -> ReqStates] /\ req'[q].pc = "cleanup" /\ req'[q].name = req[q].name
        /\ \A p \in Creators : p # q => req'[p] = req[p]
        BY <2>1, <1>0, <1>i, PcChanged
  <2>3. /\ UNCHANGED <<dir, littered, audited, used, recon>> /\ req[q].pc = "rollback"
        /\ \/ row' = row \ {q} /\ kept' = kept
           \/ kept' = kept \cup {q} /\ row' = row
        BY <1>7 DEF delete_repo, Others, undone
  <2>4. q \in row /\ q \notin kept /\ q \notin audited BY <2>3, <1>0 DEF StepOK
  <2>5. RepoTypes' /\ OnlyOf(q) BY <2>2, <2>3, <2>4, <1>0 DEF RepoTypes, OnlyOf
  <2>6. StepOK(q)' BY <2>2, <2>3, <2>4, <1>0 DEF StepOK
  <2>7. QED BY <2>2, <2>3, <2>4, <2>5, <2>6, <1>0, OwnStep
<1>8. CASE cleanup_bare_repo(q)
  <2>1. SetReq(q, "failed") BY <1>8 DEF cleanup_bare_repo
  <2>2. /\ req' \in [Creators -> ReqStates] /\ req'[q].pc = "failed" /\ req'[q].name = req[q].name
        /\ \A p \in Creators : p # q => req'[p] = req[p]
        BY <2>1, <1>0, <1>i, PcChanged DEF Ended
  <2>3. /\ dir' \in [Creators -> Dirs] /\ dir'[q] = "none"
        /\ \A p \in Creators : p # q => dir'[p] = dir[p]
        /\ UNCHANGED <<row, kept, littered, audited, used, recon>>
        /\ req[q].pc = "cleanup"
        BY <1>8, <1>0 DEF cleanup_bare_repo, Others, undone, RepoTypes, Dirs
  <2>4. RepoTypes' /\ OnlyOf(q) BY <2>2, <2>3, <1>0 DEF RepoTypes, OnlyOf
  <2>5. StepOK(q)' BY <2>2, <2>3, <1>0 DEF StepOK
  <2>6. QED BY <2>2, <2>3, <2>4, <2>5, <1>0, OwnStep DEF StepOK
<1>c. CASE CleanupFails(q)
  <2>1. SetReq(q, "failed") BY <1>c DEF CleanupFails
  <2>2. /\ req' \in [Creators -> ReqStates] /\ req'[q].pc = "failed" /\ req'[q].name = req[q].name
        /\ \A p \in Creators : p # q => req'[p] = req[p]
        BY <2>1, <1>0, <1>i, PcChanged DEF Ended
  <2>3. /\ dir' \in [Creators -> Dirs]
        /\ \A p \in Creators : p # q => dir'[p] = dir[p]
        /\ UNCHANGED <<row, kept, audited, used, recon>> /\ littered' = littered \cup {q}
        /\ req[q].pc = "cleanup"
    <3>1. dir \in [Creators -> Dirs] BY <1>0 DEF RepoTypes
    <3>2. PICK left \in {dir[q], "partial"} : dir' = [dir EXCEPT ![q] = left]
          BY <1>c DEF CleanupFails
    <3>3. left \in Dirs BY <3>1 DEF Dirs
    <3>4. QED BY <3>1, <3>2, <3>3, <1>c DEF CleanupFails, Others
  <2>4. RepoTypes' /\ OnlyOf(q) BY <2>2, <2>3, <1>0 DEF RepoTypes, OnlyOf
  <2>5. StepOK(q)' BY <2>2, <2>3, <1>0 DEF StepOK
  <2>6. QED BY <2>2, <2>3, <2>4, <2>5, <1>0, OwnStep DEF StepOK
<1>9. CASE record_audit_event(q)
  <2>1. SetReq(q, "ok") BY <1>9 DEF record_audit_event
  <2>2. /\ req' \in [Creators -> ReqStates] /\ req'[q].pc = "ok" /\ req'[q].name = req[q].name
        /\ \A p \in Creators : p # q => req'[p] = req[p]
        BY <2>1, <1>0, <1>i, PcChanged DEF Ended
  <2>3. /\ UNCHANGED <<row, dir, kept, littered, used, recon>> /\ req[q].pc = "audit"
        /\ audited' = audited \cup {q}
        BY <1>9 DEF record_audit_event, Others, undone
  <2>4. RepoTypes' /\ OnlyOf(q) BY <2>2, <2>3, <1>0 DEF RepoTypes, OnlyOf, StepOK
  <2>5. StepOK(q)' BY <2>2, <2>3, <1>0 DEF StepOK
  <2>6. QED BY <2>2, <2>3, <2>4, <2>5, <1>0, OwnStep DEF StepOK
<1>10. CASE AuditFails(q)
  <2>1. SetReq(q, "audit_failed") BY <1>10 DEF AuditFails
  <2>2. /\ req' \in [Creators -> ReqStates] /\ req'[q].pc = "audit_failed" /\ req'[q].name = req[q].name
        /\ \A p \in Creators : p # q => req'[p] = req[p]
        BY <2>1, <1>0, <1>i, PcChanged DEF Ended
  <2>3. UNCHANGED <<row, dir, kept, littered, audited, used, recon>> /\ req[q].pc = "audit"
        BY <1>10 DEF AuditFails, Others, undone
  <2>4. RepoTypes' /\ OnlyOf(q) BY <2>2, <2>3, <1>0 DEF RepoTypes, OnlyOf
  <2>5. StepOK(q)' BY <2>2, <2>3, <1>0 DEF StepOK
  <2>6. QED BY <2>2, <2>3, <2>4, <2>5, <1>0, OwnStep DEF StepOK
<1>11. QED BY <1>1, <1>2, <1>3, <1>4, <1>5, <1>6, <1>7, <1>8, <1>c, <1>9, <1>10 DEF CreatorStep

(* So do reconcile-hooks, crashes and the steps of anyone else. *)
LEMMA RepoStep == RepoInv /\ [AccountsNext]_vars => RepoInv'
<1> SUFFICES ASSUME RepoInv, [AccountsNext]_vars PROVE RepoInv'
    OBVIOUS
<1>0. RepoTypes /\ NamesUnique /\ HooksSoFar /\ \A q \in Creators : StepOK(q) BY DEF RepoInv
<1>1. ASSUME NEW q \in Creators, CreatorStep(q) PROVE RepoInv' BY <1>1, CreationStep
<1>2. ASSUME NEW q \in Creators, NEW n \in Names, ProvisionBegins(q, n) PROVE RepoInv'
  <2> DEFINE state == [pc |-> "init", name |-> n]
  <2>1. state \in ReqStates /\ state.pc = "init" BY DEF ReqStates
  <2>2. req' = [req EXCEPT ![q] = state] BY <1>2 DEF ProvisionBegins, undone
  <2> HIDE DEF state
  <2>3. req' \in [Creators -> ReqStates] /\ \A p \in Creators : req'[p] = IF p = q THEN state ELSE req[p]
        BY <2>1, <2>2, <1>0 DEF RepoTypes
  <2>4. UNCHANGED <<row, dir, kept, littered, audited, used, recon>> /\ req[q].pc = "idle"
        BY <1>2 DEF ProvisionBegins, undone
  <2>5. RepoTypes' BY <2>3, <2>4, <1>0 DEF RepoTypes
  <2>6. \A p \in Creators : StepOK(p)' BY <2>1, <2>3, <2>4, <1>0 DEF StepOK
  <2>7. NamesUnique'
    <3>1. q \notin row BY <2>4, <1>0 DEF StepOK
    <3>2. \A p \in row : p \in Creators /\ p # q BY <3>1, <1>0 DEF RepoTypes
    <3>3. QED BY <2>3, <2>4, <3>2, <1>0 DEF NamesUnique
  <2>8. HooksSoFar' BY <2>4, <1>0 DEF HooksSoFar
  <2>9. QED BY <2>5, <2>6, <2>7, <2>8 DEF RepoInv
<1>3. ASSUME NEW q \in Creators, Refer(q) PROVE RepoInv'
  <2>1. UNCHANGED <<repoVars, recon>> /\ used' = used \cup {q} BY <1>3 DEF Refer
  <2>2. RepoTypes' BY <2>1, <1>0 DEF RepoTypes, repoVars, undone
  <2>3. QED BY <2>1, <2>2, <1>0 DEF repoVars, undone, RepoInv, StepOK, NamesUnique, HooksSoFar
<1>4. CASE ReconcileLists
  <2> DEFINE state == [pc |-> "install", todo |-> row, listed |-> row]
  <2>1. /\ state \in ReconStates
        /\ state.pc = "install" /\ state.todo = row /\ state.listed = row
        BY <1>0 DEF ReconStates, RepoTypes
  <2>2. UNCHANGED <<repoVars, used>> /\ recon' = state BY <1>4 DEF ReconcileLists
  <2> HIDE DEF state
  <2>3. RepoTypes' BY <2>1, <2>2, <1>0 DEF RepoTypes, repoVars, undone
  <2>4. \A q \in Creators : StepOK(q)' BY <2>1, <2>2, <1>0 DEF repoVars, undone, StepOK
  <2>5. HooksSoFar' BY <2>1, <2>2 DEF HooksSoFar
  <2>6. QED BY <2>2, <2>3, <2>4, <2>5, <1>0 DEF RepoInv, repoVars, undone, NamesUnique
<1>5. ASSUME NEW q \in Creators, ReconcileInstalls(q) PROVE RepoInv'
  <2>1. /\ UNCHANGED <<req, row, kept, littered, audited, used>>
        /\ recon.pc = "install" /\ q \in recon.todo
        BY <1>5 DEF ReconcileInstalls, undone
  <2>2. /\ dir' \in [Creators -> Dirs]
        /\ \A p \in Creators : p # q => dir'[p] = dir[p]
        /\ dir'[q] = IF dir[q] \in {"bare", "hooked"} THEN "hooked" ELSE "hooks_only"
    <3>1. dir \in [Creators -> Dirs] BY <1>0 DEF RepoTypes
    <3>2. dir' = [dir EXCEPT ![q] = IF dir[q] \in {"bare", "hooked"} THEN "hooked" ELSE "hooks_only"]
          BY <1>5 DEF ReconcileInstalls, Installed
    <3>3. QED BY <3>1, <3>2 DEF Dirs
  <2>3. /\ recon' \in ReconStates /\ recon'.listed = recon.listed
        /\ recon'.todo = recon.todo \ {q}
        /\ recon'.pc \in {"install", "done"}
        /\ recon'.pc = "done" => recon.todo = {q}
    <3>1. recon \in ReconStates BY <1>0 DEF RepoTypes
    <3>2. recon' = [recon EXCEPT !.todo = recon.todo \ {q},
                                 !.pc = IF recon.todo = {q} THEN "done" ELSE recon.pc]
          BY <1>5 DEF ReconcileInstalls
    <3>3. QED BY <2>1, <3>1, <3>2 DEF ReconStates
  <2>4. RepoTypes' BY <2>1, <2>2, <2>3, <1>0 DEF RepoTypes
  <2>5. q \in recon.listed BY <2>1, <1>0 DEF RepoTypes
  <2>6. \A p \in Creators : StepOK(p)'
    <3>1. ASSUME NEW p \in Creators, p # q PROVE StepOK(p)' BY <2>1, <2>2, <2>3, <3>1, <1>0 DEF StepOK
    <3>2. StepOK(q)' BY <2>1, <2>2, <2>3, <2>5, <1>0 DEF StepOK
    <3>3. QED BY <3>1, <3>2
  <2>7. HooksSoFar'
    <3>1. recon'.pc = "done" => recon'.todo = {} BY <2>3
    <3>2. ASSUME NEW p \in recon'.listed \ recon'.todo, p \in row'
          PROVE  dir'[p] \in {"hooked", "hooks_only"} \/ p \in kept'
      <4>1. p \in Creators BY <3>2, <2>1, <1>0 DEF RepoTypes
      <4>2. CASE p = q BY <2>2, <4>2
      <4>3. CASE p # q BY <2>1, <2>2, <2>3, <3>2, <4>1, <4>3, <1>0 DEF HooksSoFar
      <4>4. QED BY <4>2, <4>3
    <3>3. QED BY <3>1, <3>2 DEF HooksSoFar
  <2>8. QED BY <2>1, <2>4, <2>6, <2>7, <1>0 DEF RepoInv, NamesUnique
<1>6. CASE ReconcileFails
  <2>1. UNCHANGED <<repoVars, used>> /\ recon' = [recon EXCEPT !.pc = "failed", !.todo = {}]
        BY <1>6 DEF ReconcileFails
  <2>2. recon' \in ReconStates /\ recon'.pc = "failed" /\ recon'.todo = {} /\ recon'.listed = recon.listed
        BY <2>1, <1>0 DEF RepoTypes, ReconStates
  <2>3. RepoTypes' BY <2>1, <2>2, <1>0 DEF RepoTypes, repoVars, undone
  <2>4. \A q \in Creators : StepOK(q)' BY <2>1, <2>2, <1>0 DEF StepOK, repoVars, undone
  <2>5. HooksSoFar' BY <2>2 DEF HooksSoFar
  <2>6. QED BY <2>1, <2>3, <2>4, <2>5, <1>0 DEF RepoInv, repoVars, undone, NamesUnique
<1>7. CASE Crash
  <2>1. UNCHANGED <<row, dir, kept, littered, audited, used, recon>> BY <1>7 DEF Crash, undone
  <2>2. ASSUME NEW q \in Creators
        PROVE  /\ req'[q] \in ReqStates
               /\ req[q].pc \in Ended => req'[q] = req[q]
               /\ req[q].pc \notin Ended => req'[q].pc = "lost"
               /\ req[q].pc # "idle" => req'[q].name = req[q].name
    <3>1. req[q] \in ReqStates BY <1>0 DEF RepoTypes
    <3>2. CASE req[q].pc \in Ended BY <1>7, <3>1, <3>2 DEF Crash, undone
    <3>3. CASE req[q].pc \notin Ended
      <4>1. req'[q] = [req[q] EXCEPT !.pc = "lost"] BY <1>7, <3>3 DEF Crash, undone
      <4>2. QED BY <3>1, <3>3, <4>1 DEF ReqStates, Ended
    <3>4. QED BY <3>2, <3>3
  <2>3. req' \in [Creators -> ReqStates]
    <3>1. req' = [q \in Creators |-> req'[q]] BY <1>7 DEF Crash, undone
    <3>2. QED BY <2>2, <3>1
  <2>4. RepoTypes' BY <2>1, <2>3, <1>0 DEF RepoTypes
  <2>5. \A q \in Creators : StepOK(q)' BY <2>1, <2>2, <1>0 DEF StepOK, Ended
  <2>6. NamesUnique'
    <3>1. \A q \in row : q \in Creators /\ req[q].pc # "idle" BY <1>0 DEF RepoTypes, StepOK
    <3>2. QED BY <2>1, <2>2, <3>1, <1>0 DEF NamesUnique
  <2>7. QED BY <2>1, <2>4, <2>5, <2>6, <1>0 DEF RepoInv, HooksSoFar
<1>8. CASE UNCHANGED <<repoVars, used, recon>>
      BY <1>8 DEF repoVars, undone, RepoInv, RepoTypes, StepOK, NamesUnique, HooksSoFar
<1>9. QED BY <1>1, <1>2, <1>3, <1>4, <1>5, <1>6, <1>7, <1>8
      DEF AccountsNext, BootstrapChecks, BootstrapCreates, LoginBegins, delete_sessions_for_user,
          DeleteSessionsFails, create_session, CreateSessionFails, logout, Expires, OtherTables, vars

-----------------------------------------------------------------------------
(* The specification *)

Bounds == faults \in 0..MaxFaults /\ crashes \in 0..MaxCrashes

(* Errors and crashes are counted. *)
LEMMA BoundsStep == Bounds /\ [AccountsNext]_vars => Bounds'
<1> SUFFICES ASSUME Bounds, [AccountsNext]_vars PROVE Bounds'
    OBVIOUS
<1>1. /\ faults' = faults \/ Fault
      /\ crashes' = crashes \/ (crashes < MaxCrashes /\ crashes' = crashes + 1)
  <2>1. ASSUME NEW q \in Creators, CreatorStep(q) PROVE (faults' = faults \/ Fault) /\ crashes' = crashes
        BY <2>1 DEF CreatorStep, init_bare_repo, InitFails, create_repo, RowRefused, get_repo,
              install_post_receive_hook, GetOrHookFails, delete_repo, cleanup_bare_repo, CleanupFails,
              record_audit_event, AuditFails, Others, undone
  <2>2. QED BY <2>1
        DEF AccountsNext, BootstrapChecks, BootstrapCreates, LoginBegins,
            delete_sessions_for_user, DeleteSessionsFails, create_session, CreateSessionFails,
            logout, Expires, OtherTables, ProvisionBegins, Refer,
            ReconcileInstalls, ReconcileLists, ReconcileFails, Crash, vars
<1>2. QED BY <1>1, AccountsBounds DEF Bounds, Fault

AccountsInv == UserInv /\ SessionInv /\ RepoInv /\ Bounds

(* An empty server satisfies the invariant. *)
LEMMA AccountsInvInit == AccountsInit => AccountsInv
<1> SUFFICES ASSUME AccountsInit PROVE AccountsInv
    OBVIOUS
<1>1. UserInv BY DEF AccountsInit, UserInv, BootsBeside, Creating
<1>2. SessionInv
      BY DEF AccountsInit, SessionInv, LoginStates, LoginsBeside, OneSession, UnderWay, SessionsOf
<1>3. RepoTypes BY DEF AccountsInit, RepoTypes, ReqStates, ReconStates, Dirs
<1>4. \A q \in Creators : StepOK(q) BY DEF AccountsInit, StepOK
<1>5. RepoInv BY <1>3, <1>4 DEF AccountsInit, RepoInv, NamesUnique, HooksSoFar
<1>6. Bounds BY AccountsBounds DEF AccountsInit, Bounds
<1>7. QED BY <1>1, <1>2, <1>5, <1>6 DEF AccountsInv

(* The inductive invariant of users, sessions and repositories holds.      *)
THEOREM AccountsInvariant == AccountsSpec => []AccountsInv
<1>1. AccountsInv /\ [AccountsNext]_vars => AccountsInv'
      BY UserStep, SessionStep, RepoStep, BoundsStep DEF AccountsInv
<1>2. QED BY <1>1, AccountsInvInit, PTL DEF AccountsSpec

(* The tables and the steps of every request keep their types, and a       *)
(* creation past a step of provision_repo has what the step made.          *)
THEOREM AccountsTypeCorrect == AccountsSpec => []AccountsTypeOK
<1>1. AccountsInv => AccountsTypeOK
  <2> SUFFICES ASSUME AccountsInv PROVE AccountsTypeOK
      OBVIOUS
  <2>0. UserInv /\ SessionInv /\ RepoTypes /\ Bounds /\ \A q \in Creators : StepOK(q)
        BY DEF AccountsInv, RepoInv
  <2>1. \A l \in Logins : login[l].pc \in {"idle", "delete", "create", "done", "lost"}
        BY <2>0 DEF SessionInv, LoginStates
  <2>2. \A q \in Creators :
           /\ req[q].pc \in {"init", "row", "get", "hook", "audit", "rollback", "cleanup"} \cup Ended
           /\ req[q].pc # "idle" => req[q].name \in Names
        BY <2>0 DEF RepoTypes, ReqStates, Ended
  <2>3. recon.listed \subseteq Creators BY <2>0 DEF RepoTypes, ReconStates
  <2>4. \A q \in Creators :
           /\ req[q].pc \in {"get", "hook", "rollback"} => q \in row /\ dir[q] \in {"bare", "hooked"}
           /\ req[q].pc = "audit" => q \in row /\ dir[q] = "hooked"
        BY <2>0 DEF StepOK
  <2>5. QED BY <2>0, <2>1, <2>2, <2>3, <2>4
        DEF AccountsTypeOK, UserInv, SessionInv, RepoTypes, Dirs, Bounds
<1>2. QED BY <1>1, AccountsInvariant, PTL

(* provision_repo and rollback_repo_provisioning: a repository answered as *)
(* created is whole for good, one that failed leaves nothing that the      *)
(* rollback could delete, and a row has its bare repository also after a   *)
(* crash, whatever creations of other names and reconcile-hooks do.        *)
THEOREM ProvisioningSound == AccountsSpec => []ProvisioningIsSound
<1>1. AccountsInv => ProvisioningIsSound
  <2> SUFFICES ASSUME AccountsInv PROVE ProvisioningIsSound
      OBVIOUS
  <2>0. RepoTypes /\ NamesUnique /\ \A q \in Creators : StepOK(q) BY DEF AccountsInv, RepoInv
  <2>1. OkIsWhole BY <2>0 DEF OkIsWhole, StepOK, NamesUnique
  <2>2. NothingLeftBehind BY <2>0 DEF NothingLeftBehind, StepOK
  <2>3. RowHasRepository BY <2>0 DEF RowHasRepository, StepOK, RepoTypes
  <2>4. QED BY <2>1, <2>2, <2>3 DEF ProvisioningIsSound
<1>2. QED BY <1>1, AccountsInvariant, PTL

(* reconcile_hooks leaves no listed repository without its hook.           *)
THEOREM ReconcileRestores == AccountsSpec => []HooksRestored
<1>1. AccountsInv => HooksRestored
      BY DEF AccountsInv, RepoInv, HooksSoFar, HooksRestored
<1>2. QED BY <1>1, AccountsInvariant, PTL

(* login and bootstrap_admin look before they write without a transaction: *)
(* two live sessions of a user or two users take two that overlapped.      *)
THEOREM OverlapNeeded == AccountsSpec => []OnlyOverlapping
<1>1. AccountsInv => OnlyOverlapping
      BY DEF AccountsInv, UserInv, SessionInv, BootsBeside, Creating, OneBootstrap, OnlyOverlapping
<1>2. QED BY <1>1, AccountsInvariant, PTL
=============================================================================
