----------------------------- MODULE RequestGate -----------------------------
(***************************************************************************)
(* How a janus-runner takes the signed requests of a janus-server: the     *)
(* server's signer and its keys (runner_auth.rs), the runner's check of    *)
(* key, timestamp, nonce and permission (auth.rs) and its rate limiter     *)
(* (rate_limit.rs), over a network that may delay, repeat and lose.        *)
(*                                                                         *)
(* Time is the runner's clock in ticks, Second of them a second.  A        *)
(* request's timestamp has whole seconds and comes from the server's       *)
(* clock, which is ahead of the runner's by a constant, maybe negative     *)
(* number of ticks.  A delivery is checked without waiting for anything,   *)
(* so it is one step: no tick passes between its checks.  Signatures and   *)
(* digests are taken to do their work: a request names the key it was      *)
(* signed with and arrives as it was sent.                                 *)
(***************************************************************************)
EXTENDS Integers, Sequences, FiniteSets

CONSTANTS
    Requests,      \* signed requests, each with its own nonce
    Keys,          \* key ids of the server, numbered as it generates them
    Scopes,        \* what requests do: the permissions they need
    ScopeOf,       \* what each request does
    Permissions,   \* what the runner's configuration allows each key
    NameOf,        \* the name of each key's entry in that configuration
    Second,        \* ticks of a second
    Tolerance,     \* SIGNATURE_TOLERANCE_SECONDS
    Window,        \* ticks of a rate window
    Limit,         \* requests a window allows
    Ahead,         \* the server's clock minus the runner's, one of these
    MaxTime,       \* bound of the clock
    MaxBoots       \* restarts of the runner

ASSUME KeysAssumption == Keys \subseteq Nat /\ 1 \in Keys /\ Permissions \in [Keys -> SUBSET Scopes]
ASSUME ScopesAssumption == ScopeOf \in [Requests -> Scopes]
ASSUME TimesAssumption ==
    /\ Second \in Nat \ {0} /\ Tolerance \in Nat \ {0} /\ Window \in Nat \ {0}
    /\ Limit \in Nat \ {0} /\ MaxTime \in Nat /\ MaxBoots \in Nat
(* The server's clock is at most a second less than the tolerance ahead.   *)
ASSUME ClocksAssumption ==
    Ahead \subseteq Int /\ \A d \in Ahead : d <= (Tolerance - 1) * Second

(* NONCE_RETENTION_SECONDS. *)
Retention == 2 * Tolerance * Second

(* Requests are counted per scope and name of a key's entry (token_name). *)
Counters == Scopes \X {NameOf[k] : k \in Keys}

VARIABLES
    now,         \* the runner's clock
    ahead,       \* how far the server's clock is ahead of it
    configured,  \* the key the server's configuration names
    signing,     \* the key the running server signs with
    added,       \* the keys in the runner's configuration
    trusted,     \* the keys the running runner has loaded
    sent,        \* requests signed so far: key and timestamp
    seen,        \* seen_nonces: [key, nonce, at]
    windows,     \* rate windows by counter: [started, count]
    granted,     \* requests let through since the runner started: [r, of, at]
    boots        \* restarts of the runner so far

keyVars == <<configured, signing, added, trusted>>
gate == <<seen, windows, granted>>
vars == <<now, ahead, keyVars, sent, gate, boots>>

GateInit ==
    /\ now = 0 /\ ahead \in Ahead
    /\ configured = 1 /\ signing = 1
    /\ added = {1} /\ trusted = {1}
    /\ sent = << >> /\ seen = {} /\ windows = << >> /\ granted = << >>
    /\ boots = 0

Tick ==
    /\ now < MaxTime
    /\ now' = now + 1
    /\ UNCHANGED <<ahead, keyVars, sent, gate, boots>>

-----------------------------------------------------------------------------
(* The server *)

(* RunnerSigner::sign, the timestamp cut to whole seconds. *)
sign(r) ==
    /\ r \notin DOMAIN sent
    /\ sent' = [q \in DOMAIN sent \cup {r} |->
                  IF q = r THEN [key |-> signing, stamp |-> ((now + ahead) \div Second) * Second]
                  ELSE sent[q]]
    /\ UNCHANGED <<now, ahead, keyVars, gate, boots>>

(* Mutant: the running server signs with the new key at once. *)
rotate_runner_key_AtOnce ==
    /\ configured = signing /\ configured + 1 \in Keys
    /\ configured' = configured + 1 /\ signing' = configured + 1
    /\ UNCHANGED <<now, ahead, added, trusted, sent, gate, boots>>

(* rotate_runner_key, run beside the server: files of a new key, then the  *)
(* configuration.  The running server keeps its key.                       *)
rotate_runner_key ==
    /\ configured = signing /\ configured + 1 \in Keys
    /\ configured' = configured + 1
    /\ UNCHANGED <<now, ahead, signing, added, trusted, sent, gate, boots>>

(* RunnerSigner::load_or_generate at the start of the server.  The         *)
(* documented order: only once every runner trusts the new key.            *)
ServerRestart ==
    /\ configured # signing /\ configured \in trusted
    /\ signing' = configured
    /\ UNCHANGED <<now, ahead, configured, added, trusted, sent, gate, boots>>

-----------------------------------------------------------------------------
(* The runner *)

(* verify_timestamp: the difference, cut to whole seconds, is tolerated.   *)
Fresh(r) ==
    LET age == now - sent[r].stamp
    IN  age < (Tolerance + 1) * Second /\ -age < (Tolerance + 1) * Second

(* The operator edits the list of trusted keys: a new key is added when    *)
(* the server's configuration has it; an old one is removed when the       *)
(* server no longer signs with it and what it signed has drained.          *)
AddKey ==
    /\ configured \notin added
    /\ added' = added \cup {configured}
    /\ UNCHANGED <<now, ahead, configured, signing, trusted, sent, gate, boots>>

RemoveKey(k) ==
    /\ k \in added \ {configured, signing}
    /\ \A r \in DOMAIN sent : sent[r].key = k => now - sent[r].stamp >= (Tolerance + 1) * Second
    /\ added' = added \ {k}
    /\ UNCHANGED <<now, ahead, configured, signing, trusted, sent, gate, boots>>

(* The runner is stopped or dies and starts: load_from_config, and nothing *)
(* is remembered.                                                          *)
RunnerRestart ==
    /\ boots < MaxBoots
    /\ boots' = boots + 1
    /\ trusted' = added
    /\ seen' = {} /\ windows' = << >> /\ granted' = << >>
    /\ UNCHANGED <<now, ahead, configured, signing, added, sent>>

(* Mutant: a nonce is kept as long as the tolerance only. *)
Remembered_HalfAsLong == {n \in seen : n.at >= now - Tolerance * Second}

(* The nonces verify_nonce retains. *)
Remembered == {n \in seen : n.at >= now - Retention}

NonceKnown(r) == \E n \in Remembered : n.key = sent[r].key /\ n.nonce = r

(* Mutant: twice the window is taken for half of it. *)
Pruned_TooSoon == {w \in DOMAIN windows : 2 * (now - windows[w].started) < Window}

(* The windows prune_expired_windows keeps: those younger than two.        *)
Pruned == {w \in DOMAIN windows : now - windows[w].started < 2 * Window}

NewWindow == [started |-> now, count |-> 0]

(* The window a call is counted in: a new one when the last one is over.   *)
CurrentWindow(w) ==
    IF w \in Pruned /\ now - windows[w].started < Window THEN windows[w] ELSE NewWindow

(* What r is counted under, with the name of the key it was signed with:   *)
(* the scope and the token_name that name its window.                      *)
CounterOf(r) == <<ScopeOf[r], NameOf[sent[r].key]>>

(* The outcome of the delivery of r now, in the order of the checks.       *)
Outcome(r) ==
    IF sent[r].key \notin trusted THEN "unknown_key"
    ELSE IF ~Fresh(r) THEN "stale"
    ELSE IF NonceKnown(r) THEN "replay"
    ELSE IF ScopeOf[r] \notin Permissions[sent[r].key] THEN "forbidden"
    ELSE IF CurrentWindow(CounterOf(r)).count >= Limit THEN "limited"
    ELSE "accepted"

(* check: the other windows that are left, and the current one with count. *)
Counted(w, count) ==
    [v \in Pruned \cup {w} |-> IF v = w THEN [CurrentWindow(w) EXCEPT !.count = count]
                               ELSE windows[v]]

(* A nonce is recorded before the signature is looked at. *)
Recorded(r) == Remembered \cup {[key |-> sent[r].key, nonce |-> r, at |-> now]}

Accepts(r) ==
    /\ Outcome(r) = "accepted"
    /\ seen' = Recorded(r)
    /\ windows' = Counted(CounterOf(r), CurrentWindow(CounterOf(r)).count + 1)
    /\ granted' = Append(granted, [r |-> r, of |-> CounterOf(r), at |-> now])

(* Mutant: a limited request counts as well. *)
Limits_Counts(r) ==
    /\ Outcome(r) = "limited"
    /\ seen' = Recorded(r)
    /\ windows' = Counted(CounterOf(r), CurrentWindow(CounterOf(r)).count + 1)
    /\ UNCHANGED granted

(* Limited: the nonce is used up, and the window pruned but not counted.   *)
Limits(r) ==
    /\ Outcome(r) = "limited"
    /\ seen' = Recorded(r)
    /\ windows' = Counted(CounterOf(r), CurrentWindow(CounterOf(r)).count)
    /\ UNCHANGED granted

Forbids(r) ==
    /\ Outcome(r) = "forbidden"
    /\ seen' = Recorded(r)
    /\ UNCHANGED <<windows, granted>>

(* A repeated request still makes the runner forget what is too old. *)
Repeated(r) ==
    /\ Outcome(r) = "replay"
    /\ seen' = Remembered
    /\ UNCHANGED <<windows, granted>>

Rejects(r) ==
    /\ Outcome(r) \in {"unknown_key", "stale"}
    /\ UNCHANGED gate

(* A copy of a sent request arrives, whenever and how often it may. *)
Deliver(r) ==
    /\ r \in DOMAIN sent
    /\ Accepts(r) \/ Limits(r) \/ Forbids(r) \/ Repeated(r) \/ Rejects(r)
    /\ UNCHANGED <<now, ahead, keyVars, sent, boots>>

-----------------------------------------------------------------------------
GateNext ==
    \/ Tick
    \/ \E r \in Requests : sign(r)
    \/ \E k \in Keys : RemoveKey(k)
    \/ rotate_runner_key \/ ServerRestart \/ AddKey \/ RunnerRestart
    \/ \E r \in Requests : Deliver(r)

GateSpec == GateInit /\ [][GateNext]_vars

-----------------------------------------------------------------------------
(* Properties *)

Nonces == [key : Keys, nonce : Requests, at : Nat]

Sent == [key : Keys, stamp : Int]

(* The tables of gate, signer and limiter: a window never counts more than *)
(* its limit (RateLimiter::check), and every stored nonce and grant is of  *)
(* a request that was signed before (verify_nonce).                        *)
GateTypeOK ==
    /\ now \in Nat /\ ahead \in Ahead /\ boots \in Nat
    /\ configured \in Keys /\ signing \in Keys
    /\ added \subseteq Keys /\ trusted \subseteq Keys
    /\ DOMAIN sent \subseteq Requests /\ \A r \in DOMAIN sent : sent[r] \in Sent
    /\ seen \subseteq Nonces
    /\ \A n \in seen : n.nonce \in DOMAIN sent /\ sent[n.nonce].stamp - ahead <= n.at /\ n.at <= now
    /\ DOMAIN windows \subseteq Counters
    /\ \A w \in DOMAIN windows : windows[w] \in [started : 0..now, count : 0..Limit]
    /\ granted \in Seq([r : Requests, of : Counters, at : Nat])
    /\ \A i \in DOMAIN granted : granted[i].r \in DOMAIN sent /\ granted[i].at <= now

(* A runner lets no request through twice while it runs, however often and *)
(* late copies of it arrive (verify_timestamp, verify_nonce).              *)
AcceptedOnce == \A i, j \in DOMAIN granted : granted[i].r = granted[j].r => i = j

GrantsIn(c, from, to) ==
    Cardinality({i \in DOMAIN granted : granted[i].of = c /\ granted[i].at \in from..to})

(* In no stretch of a window's length are requests of a scope and an entry *)
(* let through more than twice the limit less one, wherever windows begin  *)
(* (RateLimiter::check, prune_expired_windows).                            *)
BurstBounded == \A c \in Counters, i \in DOMAIN granted :
    GrantsIn(c, granted[i].at, granted[i].at + Window - 1) <= 2 * Limit - 1

(* A request is only ever limited when as many as the limit, of its scope  *)
(* and signed with a key of its entry's name, were let through in the last *)
(* window's length (RateLimiter::check).                                   *)
LimitedWhenFull == \A r \in DOMAIN sent :
    Outcome(r) = "limited" => GrantsIn(CounterOf(r), now - Window + 1, now) >= Limit

(* The limiter counts what it should, no less and no more, where windows   *)
(* meet, where they are pruned and where the key that signs changes        *)
(* (RateLimiter::check).                                                   *)
LimiterCounts == BurstBounded /\ LimitedWhenFull

(* A rotation in the documented order refuses no request that arrives in   *)
(* time (README.md of the runner: "During server key rotation, keep both"; *)
(* rotate_runner_key, load_from_config).                                   *)
RotationIsSeamless == \A r \in DOMAIN sent : Fresh(r) => sent[r].key \in trusted
=============================================================================
