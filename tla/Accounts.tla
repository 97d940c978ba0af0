------------------------------ MODULE Accounts ------------------------------
(***************************************************************************)
(* Users, sessions and repositories of janus-server: bootstrap-admin and   *)
(* reconcile-hooks (app.rs), which run as processes of their own beside    *)
(* the server, and the requests that log in, log out and create a          *)
(* repository (web/routes.rs, auth.rs, git.rs, db.rs).                     *)
(*                                                                         *)
(* Every call of db.rs is one step; so is every git command and hook file. *)
(* A repository is a row and a directory made one after the other, the     *)
(* directory under a name of its own; a step that fails undoes those       *)
(* before it, as far as undoing does not fail, and a crash of the server   *)
(* undoes nothing.                                                         *)
(***************************************************************************)
EXTENDS Naturals, FiniteSets

CONSTANTS
    Bootstraps,   \* runs of bootstrap-admin, each for a user of its own
    Logins,       \* login requests with the right password
    Creators,     \* requests to create a repository, and the repository
    Names,        \* normalized names of repositories
    MaxFaults,    \* failing git commands, file operations and transactions
    MaxCrashes    \* crashes of the server

ASSUME AccountsBounds == MaxFaults \in Nat /\ MaxCrashes \in Nat
ASSUME AccountsActors == Bootstraps \cap Logins = {}

VARIABLES
    boot,       \* where each bootstrap-admin stands
    users,      \* users, by the bootstrap that created them
    login,      \* each login: [pc, user]
    session,    \* its session: "none", "live", "expired" or "deleted"
    spared,     \* the sessions each login failed to delete
    beside,     \* logins and bootstraps that ran at the same time as another
    req,        \* each creation: [pc, name]
    row,        \* creations with a row in repos
    dir,        \* their directories
    used,       \* rows other rows refer to: workflows, push events
    kept,       \* rows a rollback could not delete
    littered,   \* creations whose directory could not be removed
    audited,    \* creations with an audit event
    recon,      \* reconcile-hooks: [pc, todo, listed]
    faults,
    crashes

userVars == <<boot, users>>
sessionVars == <<login, session, spared>>
undone == <<kept, littered>>
repoVars == <<req, row, dir, undone, audited>>
vars == <<userVars, sessionVars, beside, repoVars, used, recon, faults, crashes>>

Fault == faults < MaxFaults /\ faults' = faults + 1

AccountsInit ==
    /\ boot = [b \in Bootstraps |-> "idle"] /\ users = {}
    /\ login = [l \in Logins |-> [pc |-> "idle"]]
    /\ session = [l \in Logins |-> "none"]
    /\ spared = [l \in Logins |-> {}]
    /\ beside = [x \in Bootstraps \cup Logins |-> {}]
    /\ req = [q \in Creators |-> [pc |-> "idle"]]
    /\ row = {} /\ dir = [q \in Creators |-> "none"]
    /\ used = {} /\ kept = {} /\ littered = {} /\ audited = {}
    /\ recon = [pc |-> "idle", todo |-> {}, listed |-> {}]
    /\ faults = 0 /\ crashes = 0

(* x begins while those of running are under way. *)
Beside(x, running) ==
    [y \in DOMAIN beside |-> IF y = x THEN running
                             ELSE IF y \in running THEN beside[y] \cup {x} ELSE beside[y]]

-----------------------------------------------------------------------------
(* bootstrap-admin *)

(* user_count must be zero. *)
BootstrapChecks(b) ==
    /\ boot[b] = "idle"
    /\ boot' = [boot EXCEPT ![b] = IF users = {} THEN "create" ELSE "refused"]
    /\ beside' = Beside(b, {c \in Bootstraps : boot[c] = "create"})
    /\ UNCHANGED <<users, sessionVars, repoVars, used, recon, faults, crashes>>

(* create_user, then the audit event, which changes no table of this model.*)
BootstrapCreates(b) ==
    /\ boot[b] = "create"
    /\ boot' = [boot EXCEPT ![b] = "done"]
    /\ users' = users \cup {b}
    /\ UNCHANGED <<sessionVars, beside, repoVars, used, recon, faults, crashes>>

-----------------------------------------------------------------------------
(* Sessions *)

SetLogin(l, pc) == login' = [login EXCEPT ![l].pc = pc]

(* What a step of a login or a session leaves alone. *)
OtherTables == UNCHANGED <<userVars, repoVars, used, recon, crashes>>

(* The user exists and the password is right; sessions that have expired   *)
(* are deleted, or the error is ignored.                                   *)
LoginBegins(l, u) ==
    /\ login[l].pc = "idle" /\ u \in users
    /\ login' = [login EXCEPT ![l] = [pc |-> "delete", user |-> u]]
    /\ \/ /\ session' = [m \in Logins |-> IF session[m] = "expired" THEN "deleted" ELSE session[m]]
          /\ UNCHANGED faults
       \/ Fault /\ UNCHANGED session
    /\ beside' = Beside(l, {m \in Logins : login[m].pc \in {"delete", "create"}})
    /\ UNCHANGED spared /\ OtherTables

SessionsOf(u) == {m \in Logins : session[m] \in {"live", "expired"} /\ login[m].user = u}

(* Mutant: only sessions that have expired are deleted. *)
delete_sessions_for_user_Expired(l) ==
    /\ login[l].pc = "delete" /\ SetLogin(l, "create")
    /\ session' = [m \in Logins |-> IF m \in SessionsOf(login[l].user) /\ session[m] = "expired"
                                    THEN "deleted" ELSE session[m]]
    /\ UNCHANGED <<spared, beside, faults>> /\ OtherTables

delete_sessions_for_user(l) ==
    /\ login[l].pc = "delete" /\ SetLogin(l, "create")
    /\ session' = [m \in Logins |-> IF m \in SessionsOf(login[l].user) THEN "deleted"
                                    ELSE session[m]]
    /\ UNCHANGED <<spared, beside, faults>> /\ OtherTables

(* Its error is ignored as well: the login goes on. *)
DeleteSessionsFails(l) ==
    /\ login[l].pc = "delete" /\ Fault /\ SetLogin(l, "create")
    /\ spared' = [spared EXCEPT ![l] = SessionsOf(login[l].user)]
    /\ UNCHANGED <<session, beside>> /\ OtherTables

create_session(l) ==
    /\ login[l].pc = "create" /\ SetLogin(l, "done")
    /\ session' = [session EXCEPT ![l] = "live"]
    /\ UNCHANGED <<spared, beside, faults>> /\ OtherTables

CreateSessionFails(l) ==
    /\ login[l].pc = "create" /\ Fault /\ SetLogin(l, "lost")
    /\ UNCHANGED <<session, spared, beside>> /\ OtherTables

logout(l) ==
    /\ session[l] = "live"
    /\ session' = [session EXCEPT ![l] = "deleted"]
    /\ UNCHANGED <<login, spared, beside, faults>> /\ OtherTables

(* Its time to live is over. *)
Expires(l) ==
    /\ session[l] = "live"
    /\ session' = [session EXCEPT ![l] = "expired"]
    /\ UNCHANGED <<login, spared, beside, faults>> /\ OtherTables

(* CurrentUser: some session a request may carry is live. *)
CurrentUser == \E l \in Logins : session[l] = "live"

-----------------------------------------------------------------------------
(* provision_repo, by the two requests that create a repository *)

SetReq(q, pc) == req' = [req EXCEPT ![q].pc = pc]

ProvisionBegins(q, n) ==
    /\ req[q].pc = "idle" /\ CurrentUser
    /\ req' = [req EXCEPT ![q] = [pc |-> "init", name |-> n]]
    /\ UNCHANGED <<userVars, sessionVars, beside, row, dir, undone, audited, used, recon, faults, crashes>>

(* The rest of what a step of a creation leaves alone. *)
Others == UNCHANGED <<userVars, sessionVars, beside, used, recon, crashes>>

init_bare_repo(q) ==
    /\ req[q].pc = "init" /\ SetReq(q, "row")
    /\ dir' = [dir EXCEPT ![q] = "bare"]
    /\ UNCHANGED <<row, undone, audited, faults>> /\ Others

(* git fails, maybe after it has made the directory, which stays.          *)
InitFails(q) ==
    /\ req[q].pc = "init" /\ Fault /\ SetReq(q, "init_failed")
    /\ \E left \in {"none", "partial"} : dir' = [dir EXCEPT ![q] = left]
    /\ UNCHANGED <<row, undone, audited>> /\ Others

Taken(q) == \E p \in row : req[p].name = req[q].name

create_repo(q) ==
    /\ req[q].pc = "row" /\ ~Taken(q) /\ SetReq(q, "get")
    /\ row' = row \cup {q}
    /\ UNCHANGED <<dir, undone, audited, faults>> /\ Others

(* The name is taken or the insert fails: the directory is to be removed.  *)
RowRefused(q) ==
    /\ req[q].pc = "row" /\ SetReq(q, "cleanup")
    /\ (Taken(q) /\ UNCHANGED faults) \/ Fault
    /\ UNCHANGED <<row, dir, undone, audited>> /\ Others

(* Mutant: the hook is not installed. *)
get_repo_NoHook(q) ==
    /\ req[q].pc = "get" /\ SetReq(q, "audit")
    /\ UNCHANGED <<row, dir, undone, audited, faults>> /\ Others

get_repo(q) ==
    /\ req[q].pc = "get" /\ SetReq(q, "hook")
    /\ UNCHANGED <<row, dir, undone, audited, faults>> /\ Others

install_post_receive_hook(q) ==
    /\ req[q].pc = "hook" /\ SetReq(q, "audit")
    /\ dir' = [dir EXCEPT ![q] = "hooked"]
    /\ UNCHANGED <<row, undone, audited, faults>> /\ Others

(* Mutant: the request fails without a rollback. *)
GetOrHookFails_NoRollback(q) ==
    /\ req[q].pc \in {"get", "hook"} /\ Fault /\ SetReq(q, "failed")
    /\ UNCHANGED <<row, dir, undone, audited>> /\ Others

(* Reading the row back fails, or writing the hook. *)
GetOrHookFails(q) ==
    /\ req[q].pc \in {"get", "hook"} /\ Fault /\ SetReq(q, "rollback")
    /\ UNCHANGED <<row, dir, undone, audited>> /\ Others

(* rollback_repo_provisioning: the row, unless a row refers to it or the   *)
(* transaction fails, which is logged; then the directory all the same.    *)
delete_repo(q) ==
    /\ req[q].pc = "rollback" /\ SetReq(q, "cleanup")
    /\ \/ q \notin used /\ row' = row \ {q} /\ UNCHANGED <<kept, faults>>
       \/ /\ (q \in used /\ UNCHANGED faults) \/ Fault
          /\ kept' = kept \cup {q} /\ UNCHANGED row
    /\ UNCHANGED <<dir, littered, audited>> /\ Others

cleanup_bare_repo(q) ==
    /\ req[q].pc = "cleanup" /\ SetReq(q, "failed")
    /\ dir' = [dir EXCEPT ![q] = "none"]
    /\ UNCHANGED <<row, undone, audited, faults>> /\ Others

(* remove_dir_all fails, at once or half way, which is only logged. *)
CleanupFails(q) ==
    /\ req[q].pc = "cleanup" /\ dir[q] # "none" /\ Fault /\ SetReq(q, "failed")
    /\ \E left \in {dir[q], "partial"} : dir' = [dir EXCEPT ![q] = left]
    /\ littered' = littered \cup {q}
    /\ UNCHANGED <<row, kept, audited>> /\ Others

record_audit_event(q) ==
    /\ req[q].pc = "audit" /\ SetReq(q, "ok")
    /\ audited' = audited \cup {q}
    /\ UNCHANGED <<row, dir, undone, faults>> /\ Others

(* The request fails though the repository was created. *)
AuditFails(q) ==
    /\ req[q].pc = "audit" /\ Fault /\ SetReq(q, "audit_failed")
    /\ UNCHANGED <<row, dir, undone, audited>> /\ Others

CreatorStep(q) ==
    \/ init_bare_repo(q) \/ InitFails(q) \/ create_repo(q) \/ RowRefused(q)
    \/ get_repo(q) \/ install_post_receive_hook(q) \/ GetOrHookFails(q)
    \/ delete_repo(q) \/ cleanup_bare_repo(q) \/ CleanupFails(q)
    \/ record_audit_event(q) \/ AuditFails(q)

(* Its row is visible at once: somebody saves a workflow or pushes.        *)
Refer(q) ==
    /\ q \in row \ used
    /\ used' = used \cup {q}
    /\ UNCHANGED <<userVars, sessionVars, beside, repoVars, recon, faults, crashes>>

-----------------------------------------------------------------------------
(* reconcile-hooks *)

ReconcileLists ==
    /\ recon.pc # "install" /\ row # {}
    /\ recon' = [pc |-> "install", todo |-> row, listed |-> row]
    /\ UNCHANGED <<userVars, sessionVars, beside, repoVars, used, faults, crashes>>

Installed(q) == [dir EXCEPT ![q] = IF @ \in {"bare", "hooked"} THEN "hooked" ELSE "hooks_only"]

(* Mutant: the first repository's hook ends the run. *)
ReconcileInstalls_FirstOnly(q) ==
    /\ recon.pc = "install" /\ q \in recon.todo
    /\ dir' = Installed(q)
    /\ recon' = [recon EXCEPT !.pc = "done", !.todo = {}]
    /\ UNCHANGED <<userVars, sessionVars, beside, req, row, undone, audited, used, faults, crashes>>

(* create_dir_all makes the directory when it is gone. *)
ReconcileInstalls(q) ==
    /\ recon.pc = "install" /\ q \in recon.todo
    /\ dir' = Installed(q)
    /\ recon' = [recon EXCEPT !.todo = @ \ {q}, !.pc = IF recon.todo = {q} THEN "done" ELSE @]
    /\ UNCHANGED <<userVars, sessionVars, beside, req, row, undone, audited, used, faults, crashes>>

(* A hook that cannot be written ends the run. *)
ReconcileFails ==
    /\ recon.pc = "install" /\ Fault
    /\ recon' = [recon EXCEPT !.pc = "failed", !.todo = {}]
    /\ UNCHANGED <<userVars, sessionVars, beside, repoVars, used, crashes>>

-----------------------------------------------------------------------------
Ended == {"idle", "ok", "failed", "init_failed", "audit_failed", "lost"}

(* The server dies: its requests are gone, the tables and files stay.      *)
Crash ==
    /\ crashes < MaxCrashes /\ crashes' = crashes + 1
    /\ req' = [q \in Creators |-> IF req[q].pc \in Ended THEN req[q]
                                  ELSE [req[q] EXCEPT !.pc = "lost"]]
    /\ login' = [l \in Logins |-> IF login[l].pc \in {"idle", "done"} THEN login[l]
                                  ELSE [login[l] EXCEPT !.pc = "lost"]]
    /\ UNCHANGED <<userVars, session, spared, beside, row, dir, undone, audited, used, recon, faults>>

AccountsNext ==
    \/ \E b \in Bootstraps : BootstrapChecks(b) \/ BootstrapCreates(b)
    \/ \E l \in Logins, u \in Bootstraps : LoginBegins(l, u)
    \/ \E l \in Logins :
        \/ delete_sessions_for_user(l) \/ DeleteSessionsFails(l)
        \/ create_session(l) \/ CreateSessionFails(l) \/ logout(l) \/ Expires(l)
    \/ \E q \in Creators, n \in Names : ProvisionBegins(q, n)
    \/ \E q \in Creators : CreatorStep(q) \/ Refer(q) \/ ReconcileInstalls(q)
    \/ ReconcileLists \/ ReconcileFails
    \/ Crash

AccountsSpec == AccountsInit /\ [][AccountsNext]_vars

-----------------------------------------------------------------------------
(* Properties *)

(* The tables and the steps of every request; a creation past a step has   *)
(* what the step made (provision_repo), whatever reconcile-hooks does.     *)
AccountsTypeOK ==
    /\ boot \in [Bootstraps -> {"idle", "create", "done", "refused"}]
    /\ users = {b \in Bootstraps : boot[b] = "done"}
    /\ \A l \in Logins :
        /\ login[l].pc \in {"idle", "delete", "create", "done", "lost"}
        /\ login[l].pc # "idle" => login[l].user \in users
    /\ session \in [Logins -> {"none", "live", "expired", "deleted"}]
    /\ \A l \in Logins : session[l] # "none" => login[l].pc = "done"
    /\ spared \in [Logins -> SUBSET Logins]
    /\ \A q \in Creators :
        /\ req[q].pc \in {"init", "row", "get", "hook", "audit", "rollback", "cleanup"} \cup Ended
        /\ req[q].pc # "idle" => req[q].name \in Names
        /\ req[q].pc \in {"get", "hook", "rollback"} => q \in row /\ dir[q] \in {"bare", "hooked"}
        /\ req[q].pc = "audit" => q \in row /\ dir[q] = "hooked"
    /\ dir \in [Creators -> {"none", "partial", "bare", "hooked", "hooks_only"}]
    /\ row \subseteq Creators /\ used \subseteq Creators /\ kept \subseteq row
    /\ littered \subseteq Creators
    /\ audited \subseteq row /\ recon.todo \subseteq recon.listed /\ recon.listed \subseteq Creators
    /\ faults \in 0..MaxFaults /\ crashes \in 0..MaxCrashes

(* A repository whose creation was answered as done has its row under a    *)
(* name nobody shares, a directory with the hook, and an audit event, and  *)
(* keeps them whatever other creations and rollbacks do (provision_repo,   *)
(* record_audit_event).                                                    *)
OkIsWhole == \A q \in Creators : req[q].pc = "ok" =>
    /\ q \in row /\ dir[q] = "hooked" /\ q \in audited
    /\ \A p \in row : req[p].name = req[q].name => p = q

(* A creation that failed after its directory was made leaves no row,      *)
(* unless the row could not be deleted, and no repository, unless the      *)
(* directory could not be removed; nothing but the hook may be there, in a *)
(* directory made again by a reconcile-hooks that had listed the row       *)
(* (cleanup_bare_repo, rollback_repo_provisioning).                        *)
NothingLeftBehind == \A q \in Creators : req[q].pc = "failed" =>
    /\ q \in row => q \in kept
    /\ dir[q] \notin {"none", "hooks_only"} => q \in littered

(* A row has its bare repository, even after a crash between the steps of  *)
(* a creation or its rollback, unless the rollback could not delete it     *)
(* (provision_repo, rollback_repo_provisioning).                           *)
RowHasRepository == \A q \in row \ kept : dir[q] \in {"bare", "hooked"}

(* Directory, row, hook and audit event of a repository are made by steps  *)
(* that fail one by one, and so are the steps that undo them, and yet it   *)
(* is whole, or gone but for what could not be undone, or can be repaired  *)
(* (provision_repo, rollback_repo_provisioning).                           *)
ProvisioningIsSound == OkIsWhole /\ NothingLeftBehind /\ RowHasRepository

(* When reconcile-hooks has come to its end, every repository it listed    *)
(* that still has a row has a hook, be its creation under way, lost in a   *)
(* crash or half rolled back (reconcile_hooks).                            *)
HooksRestored == recon.pc = "done" =>
    \A q \in recon.listed \cap row : dir[q] \in {"hooked", "hooks_only"} \/ q \in kept

(* A user has two live sessions only if the logins overlapped or the later *)
(* one failed to delete the session of the earlier (login).                *)
OneSession == \A l, m \in Logins :
    l # m /\ session[l] = "live" /\ session[m] = "live" /\ login[l].user = login[m].user =>
        m \in beside[l] \/ m \in spared[l] \/ l \in spared[m]

(* bootstrap-admin makes a second user only when it ran at the same time   *)
(* as the one that made the first (bootstrap_admin).                       *)
OneBootstrap == \A b, c \in users : b # c => c \in beside[b]

(* A look followed by a change goes wrong only between requests that       *)
(* overlap, and deleting before creating only when the deletion failed,    *)
(* which nobody is told, never through anything else an earlier request    *)
(* left (login, bootstrap_admin).                                          *)
OnlyOverlapping == OneSession /\ OneBootstrap
=============================================================================
