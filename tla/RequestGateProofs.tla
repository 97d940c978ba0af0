-------------------------- MODULE RequestGateProofs --------------------------
(***************************************************************************)
(* Proofs about the gate of the runner, for every set of requests, keys    *)
(* and scopes, every tolerance, window and limit and every clock that is   *)
(* ahead by at most a second less than the tolerance.                      *)
(***************************************************************************)
EXTENDS RequestGate, FiniteSetTheorems, TLAPS

(* What verify_timestamp tolerates, in ticks. *)
Span == (Tolerance + 1) * Second

(* A nonce is kept for longer than any clock lets its timestamp pass. *)
LEMMA Spans ==
    /\ Span \in Nat /\ Retention \in Nat
    /\ \A d \in Ahead : d \in Int /\ d + Span <= Retention /\ d < Span
<1>1. Tolerance * Second \in Nat
  BY TimesAssumption
<1>2. Span = Tolerance * Second + Second
  BY TimesAssumption DEF Span
<1>3. Retention = Tolerance * Second + Tolerance * Second
  BY TimesAssumption DEF Retention
<1>4. \A d \in Ahead : d \in Int /\ d <= Tolerance * Second - Second
  BY TimesAssumption, ClocksAssumption
<1>5. Second \in Nat /\ Second > 0
  BY TimesAssumption
<1> QED BY <1>1, <1>2, <1>3, <1>4, <1>5

(* A time cut to whole seconds is not later. *)
LEMMA CutTime ==
    ASSUME NEW t \in Int
    PROVE  (t \div Second) * Second \in Int /\ (t \div Second) * Second <= t
BY TimesAssumption

-----------------------------------------------------------------------------
(* Type correctness *)

(* The tables have their types at first. *)
LEMMA InitType == GateInit => GateTypeOK
BY KeysAssumption DEF GateInit, GateTypeOK

(* What was let through is a request and a time. *)
LEMMA GrantShape ==
    GateTypeOK => \A i \in DOMAIN granted : granted[i] \in [r : Requests, of : Counters, at : Nat]
<1> SUFFICES ASSUME GateTypeOK, NEW i \in DOMAIN granted
             PROVE  granted[i] \in [r : Requests, of : Counters, at : Nat]
  OBVIOUS
<1> DEFINE Grants == [r : Requests, of : Counters, at : Nat]
<1>1. granted \in Seq(Grants)
  BY DEF GateTypeOK
<1> HIDE DEF Grants
<1>2. granted[i] \in Grants
  BY <1>1
<1> QED BY <1>2 DEF Grants

(* Time passes. *)
LEMMA TickType == GateTypeOK /\ Tick => GateTypeOK'
<1> SUFFICES ASSUME GateTypeOK, Tick PROVE GateTypeOK'
  OBVIOUS
<1>1. now' \in Nat /\ now < now' /\ now \in Nat
  BY DEF Tick, GateTypeOK
<1>2. UNCHANGED <<ahead, configured, signing, added, trusted, sent, seen, windows, granted, boots>>
  BY DEF Tick, keyVars, gate
<1>3. \A n \in seen : n.at <= now'
  BY <1>1 DEF GateTypeOK, Nonces
<1>4. \A w \in DOMAIN windows : windows[w] \in [started : 0..now', count : 0..Limit]
  <2>1. ASSUME NEW window \in [started : 0..now, count : 0..Limit]
        PROVE  window \in [started : 0..now', count : 0..Limit]
    BY <1>1
  <2>2. \A w \in DOMAIN windows : windows[w] \in [started : 0..now, count : 0..Limit]
    BY DEF GateTypeOK
  <2> QED BY <2>1, <2>2
<1>5. \A i \in DOMAIN granted : granted[i].at <= now'
  BY <1>1, GrantShape DEF GateTypeOK
<1> QED BY <1>1, <1>2, <1>3, <1>4, <1>5 DEF GateTypeOK

(* A request that is signed has the current key and a timestamp. *)
LEMMA SignType ==
    ASSUME GateTypeOK, NEW r \in Requests, sign(r)
    PROVE  /\ GateTypeOK'
           /\ DOMAIN sent' = DOMAIN sent \cup {r}
           /\ \A q \in DOMAIN sent : sent'[q] = sent[q]
           /\ sent'[r].key = signing /\ sent'[r].stamp <= now + ahead
<1>1. ahead \in Int /\ now \in Nat
  BY ClocksAssumption DEF GateTypeOK
<1>2. /\ DOMAIN sent' = DOMAIN sent \cup {r} /\ r \notin DOMAIN sent
      /\ \A q \in DOMAIN sent : sent'[q] = sent[q]
      /\ sent'[r] = [key |-> signing, stamp |-> ((now + ahead) \div Second) * Second]
  BY DEF sign
<1>3. ((now + ahead) \div Second) * Second \in Int /\ ((now + ahead) \div Second) * Second <= now + ahead
  BY <1>1, CutTime
<1>4. sent'[r] \in Sent /\ sent'[r].key = signing /\ sent'[r].stamp <= now + ahead
  BY <1>2, <1>3 DEF Sent, GateTypeOK
<1>5. UNCHANGED <<now, ahead, configured, signing, added, trusted, seen, windows, granted, boots>>
  BY DEF sign, keyVars, gate
<1>6. DOMAIN sent' \subseteq Requests /\ \A q \in DOMAIN sent' : sent'[q] \in Sent
  BY <1>2, <1>4 DEF GateTypeOK
<1>7. \A n \in seen : n.nonce \in DOMAIN sent' /\ sent'[n.nonce].stamp - ahead <= n.at
  BY <1>2 DEF GateTypeOK
<1>8. \A i \in DOMAIN granted : granted[i].r \in DOMAIN sent'
  BY <1>2 DEF GateTypeOK
<1> QED BY <1>2, <1>4, <1>5, <1>6, <1>7, <1>8 DEF GateTypeOK

(* Changing keys touches neither the clock nor the gate. *)
LEMMA KeysType ==
    ASSUME GateTypeOK,
           rotate_runner_key \/ ServerRestart \/ AddKey \/ (\E k \in Keys : RemoveKey(k))
    PROVE  GateTypeOK' /\ UNCHANGED <<now, ahead, sent, gate>>
BY DEF rotate_runner_key, ServerRestart, AddKey, RemoveKey, gate, GateTypeOK

(* A restart of the runner forgets nonces and windows. *)
LEMMA RestartType == GateTypeOK /\ RunnerRestart => GateTypeOK'
BY DEF RunnerRestart, GateTypeOK

(* A timestamp is never later than the runner's clock and how far the      *)
(* server's is ahead. *)
StampsPast == \A r \in DOMAIN sent : sent[r].stamp <= now + ahead

(* A window as it is when a call has been counted in it or not. *)
LEMMA CountedType ==
    ASSUME GateTypeOK, NEW w \in Counters, NEW count \in 0..Limit
    PROVE  /\ DOMAIN Counted(w, count) = Pruned \cup {w} /\ Pruned \subseteq DOMAIN windows
           /\ CurrentWindow(w) \in [started : 0..now, count : 0..Limit]
           /\ Counted(w, count)[w] = [started |-> CurrentWindow(w).started, count |-> count]
           /\ \A v \in Pruned : v # w => Counted(w, count)[v] = windows[v]
           /\ \A v \in Pruned \cup {w} : Counted(w, count)[v] \in [started : 0..now, count : 0..Limit]
<1>1. Pruned \subseteq DOMAIN windows
  BY DEF Pruned
<1>2. CurrentWindow(w) \in [started : 0..now, count : 0..Limit]
  BY <1>1, TimesAssumption DEF CurrentWindow, NewWindow, GateTypeOK
<1>3. /\ DOMAIN Counted(w, count) = Pruned \cup {w}
      /\ Counted(w, count)[w] = [CurrentWindow(w) EXCEPT !.count = count]
      /\ \A v \in Pruned : v # w => Counted(w, count)[v] = windows[v]
  BY DEF Counted
<1>4. [CurrentWindow(w) EXCEPT !.count = count] = [started |-> CurrentWindow(w).started, count |-> count]
  BY <1>2
<1>5. \A v \in Pruned \cup {w} : Counted(w, count)[v] \in [started : 0..now, count : 0..Limit]
  BY <1>1, <1>2, <1>3, <1>4 DEF GateTypeOK
<1> QED BY <1>1, <1>2, <1>3, <1>4, <1>5

(* What is remembered when a request is recorded. *)
LEMMA RecordedType ==
    ASSUME GateTypeOK, StampsPast, NEW r \in DOMAIN sent
    PROVE  /\ Recorded(r) \subseteq Nonces
           /\ \A n \in Recorded(r) :
                n.nonce \in DOMAIN sent /\ sent[n.nonce].stamp - ahead <= n.at /\ n.at <= now
<1> DEFINE new == [key |-> sent[r].key, nonce |-> r, at |-> now]
<1>1. new \in Nonces /\ new.nonce = r /\ new.at = now
  BY DEF GateTypeOK, Nonces, Sent
<1>2. sent[r].stamp - ahead <= now
  BY ClocksAssumption DEF StampsPast, GateTypeOK, Sent
<1> HIDE DEF new
<1>3. Recorded(r) = Remembered \cup {new} /\ Remembered \subseteq seen
  BY DEF Recorded, Remembered, new
<1>4. now <= now
  BY DEF GateTypeOK
<1> QED BY <1>1, <1>2, <1>3, <1>4 DEF GateTypeOK

(* A request is counted under its scope and the name of a key's entry. *)
LEMMA CounterType == GateTypeOK => \A r \in DOMAIN sent : CounterOf(r) \in Counters
BY ScopesAssumption DEF GateTypeOK, Sent, CounterOf, Counters

(* Every answer of the gate keeps the types. *)
LEMMA DeliverType ==
    ASSUME GateTypeOK, StampsPast, NEW r \in Requests, Deliver(r)
    PROVE  GateTypeOK'
<1>1. r \in DOMAIN sent /\ UNCHANGED <<now, ahead, configured, signing, added, trusted, sent, boots>>
  BY DEF Deliver, keyVars
<1>2. CounterOf(r) \in Counters
  BY <1>1, CounterType
<1>3. ASSUME NEW S, S \subseteq seen \/ S = Recorded(r), seen' = S,
             NEW count \in 0..Limit,
             UNCHANGED windows \/ windows' = Counted(CounterOf(r), count),
             UNCHANGED granted \/ granted' = Append(granted, [r |-> r, of |-> CounterOf(r), at |-> now])
      PROVE  GateTypeOK'
  <2>1. /\ seen' \subseteq Nonces
        /\ \A n \in seen' : n.nonce \in DOMAIN sent /\ sent[n.nonce].stamp - ahead <= n.at /\ n.at <= now
    <3>1. CASE S \subseteq seen
      BY <1>3, <3>1 DEF GateTypeOK
    <3>2. CASE S = Recorded(r)
      BY <1>1, <1>3, <3>2, RecordedType
    <3> QED BY <1>3, <3>1, <3>2
  <2>2. /\ DOMAIN windows' \subseteq Counters
        /\ \A w \in DOMAIN windows' : windows'[w] \in [started : 0..now, count : 0..Limit]
    <3>1. CASE UNCHANGED windows
      BY <1>1, <3>1 DEF GateTypeOK
    <3>2. CASE windows' = Counted(CounterOf(r), count)
      <4>1. Pruned \cup {CounterOf(r)} \subseteq Counters
        BY <1>2 DEF Pruned, GateTypeOK
      <4>2. /\ DOMAIN windows' = Pruned \cup {CounterOf(r)}
            /\ \A w \in Pruned \cup {CounterOf(r)} : windows'[w] \in [started : 0..now, count : 0..Limit]
        BY <1>2, <3>2, CountedType
      <4> QED BY <4>1, <4>2
    <3> QED BY <1>3, <3>1, <3>2
  <2>3. /\ granted' \in Seq([r : Requests, of : Counters, at : Nat])
        /\ \A i \in DOMAIN granted' : granted'[i].r \in DOMAIN sent /\ granted'[i].at <= now
    <3>1. CASE UNCHANGED granted
      BY <3>1 DEF GateTypeOK
    <3>2. CASE granted' = Append(granted, [r |-> r, of |-> CounterOf(r), at |-> now])
      <4> DEFINE grant == [r |-> r, of |-> CounterOf(r), at |-> now]
      <4>1. /\ granted \in Seq([r : Requests, of : Counters, at : Nat])
            /\ grant \in [r : Requests, of : Counters, at : Nat] /\ grant.r = r /\ grant.at <= now
        BY <1>2 DEF GateTypeOK
      <4>2. granted' = Append(granted, grant)
        BY <3>2
      <4> HIDE DEF grant
      <4>3. /\ granted' \in Seq([r : Requests, of : Counters, at : Nat])
            /\ \A i \in DOMAIN granted' :
                 granted'[i] = grant \/ (i \in DOMAIN granted /\ granted'[i] = granted[i])
        BY <4>1, <4>2
      <4> QED BY <1>1, <4>1, <4>3 DEF GateTypeOK
    <3> QED BY <1>3, <3>1, <3>2
  <2> QED BY <1>1, <2>1, <2>2, <2>3 DEF GateTypeOK
<1>4. Remembered \subseteq seen /\ 0 \in 0..Limit
  BY TimesAssumption DEF Remembered
<1>5. CurrentWindow(CounterOf(r)).count \in 0..Limit
  BY <1>2, <1>4, CountedType
<1>6. CASE Accepts(r)
  <2>1. CurrentWindow(CounterOf(r)).count + 1 \in 0..Limit
    BY <1>5, <1>6, TimesAssumption DEF Accepts, Outcome
  <2> QED BY <1>3, <1>6, <2>1 DEF Accepts
<1>7. CASE Limits(r)
  BY <1>3, <1>5, <1>7 DEF Limits
<1>8. CASE Forbids(r)
  BY <1>3, <1>4, <1>8 DEF Forbids
<1>9. CASE Repeated(r)
  BY <1>3, <1>4, <1>9 DEF Repeated
<1>10. CASE Rejects(r)
  BY <1>3, <1>4, <1>10 DEF Rejects, gate
<1> QED BY <1>6, <1>7, <1>8, <1>9, <1>10 DEF Deliver

(* Nothing is signed at first. *)
LEMMA InitStamps == GateInit => StampsPast
BY DEF GateInit, StampsPast

(* No timestamp is later than the clock of its signer. *)
LEMMA NextStamps == GateTypeOK /\ StampsPast /\ [GateNext]_vars => StampsPast'
<1> SUFFICES ASSUME GateTypeOK, StampsPast, [GateNext]_vars PROVE StampsPast'
  OBVIOUS
<1>1. CASE UNCHANGED <<now, ahead, sent>>
  BY <1>1 DEF StampsPast
<1>2. CASE Tick
  <2>1. now' = now + 1 /\ UNCHANGED <<ahead, sent>> /\ now \in Nat /\ ahead \in Int
    BY <1>2, ClocksAssumption DEF Tick, GateTypeOK
  <2>2. \A r \in DOMAIN sent : sent[r].stamp \in Int
    BY DEF GateTypeOK, Sent
  <2> QED BY <2>1, <2>2 DEF StampsPast
<1>3. ASSUME NEW r \in Requests, sign(r) PROVE StampsPast'
  <2>1. UNCHANGED <<now, ahead>>
    BY <1>3 DEF sign
  <2> QED BY <1>3, <2>1, SignType DEF StampsPast
<1>4. CASE rotate_runner_key \/ ServerRestart \/ AddKey \/ \E k \in Keys : RemoveKey(k)
  BY <1>1, <1>4, KeysType
<1>5. CASE RunnerRestart
  BY <1>1, <1>5 DEF RunnerRestart
<1>6. ASSUME NEW r \in Requests, Deliver(r) PROVE StampsPast'
  BY <1>1, <1>6 DEF Deliver
<1>7. CASE UNCHANGED vars
  BY <1>1, <1>7 DEF vars
<1> QED BY <1>2, <1>3, <1>4, <1>5, <1>6, <1>7 DEF GateNext

(* Every step keeps the types. *)
LEMMA NextType == GateTypeOK /\ StampsPast /\ [GateNext]_vars => GateTypeOK'
<1> SUFFICES ASSUME GateTypeOK, StampsPast, [GateNext]_vars PROVE GateTypeOK'
  OBVIOUS
<1>1. CASE UNCHANGED vars
  BY <1>1 DEF vars, keyVars, gate, GateTypeOK
<1> QED BY <1>1, TickType, SignType, KeysType, RestartType, DeliverType DEF GateNext

-----------------------------------------------------------------------------
(* Rotation of the key *)

(* The key that signs is trusted and stays in the runner's list, as does   *)
(* every key of a request that is still fresh; a configured key that is    *)
(* trusted is in the list, and no key is ahead of the configured one.      *)
KeysInv ==
    /\ signing \in trusted \cap added
    /\ \A r \in DOMAIN sent : Fresh(r) => sent[r].key \in trusted \cap added
    /\ configured \in trusted => configured \in added
    /\ \A k \in trusted \cup added : k <= configured

(* The server signs with a key that the runner trusts at first. *)
LEMMA InitKeys == GateInit => KeysInv
BY KeysAssumption DEF GateInit, KeysInv

(* A timestamp of the future is tolerated anyway: a request only ever gets *)
(* too old.                                                                *)
LEMMA FreshIsYoung ==
    ASSUME GateTypeOK, StampsPast, NEW r \in DOMAIN sent
    PROVE  Fresh(r) <=> now - sent[r].stamp < Span
<1>1. now \in Nat /\ ahead \in Int /\ sent[r].stamp \in Int /\ sent[r].stamp <= now + ahead
  BY ClocksAssumption DEF GateTypeOK, Sent, StampsPast
<1>2. ahead < Span /\ Span \in Nat
  BY Spans DEF GateTypeOK
<1> QED BY <1>1, <1>2 DEF Fresh, Span

(* Every step of a rotation keeps this. *)
LEMMA NextKeys == GateTypeOK /\ StampsPast /\ KeysInv /\ [GateNext]_vars => KeysInv'
<1> SUFFICES ASSUME GateTypeOK, StampsPast, KeysInv, [GateNext]_vars PROVE KeysInv'
  OBVIOUS
<1>0. /\ configured \in Nat /\ now \in Nat /\ trusted \cup added \subseteq Nat
      /\ \A r \in DOMAIN sent : sent[r].stamp \in Int
  BY KeysAssumption DEF GateTypeOK, Sent
<1>1. CASE UNCHANGED <<now, keyVars, sent>>
  BY <1>1 DEF KeysInv, Fresh, keyVars
<1>2. CASE Tick
  <2>1. now' = now + 1 /\ UNCHANGED <<sent, keyVars>>
    BY <1>2 DEF Tick
  <2>2. ASSUME NEW r \in DOMAIN sent, Fresh(r)' PROVE Fresh(r)
    <3>1. now' - sent[r].stamp < Span
      BY <2>1, <2>2 DEF Fresh, Span
    <3> QED BY <1>0, <2>1, <3>1, Spans, FreshIsYoung
  <2> QED BY <2>1, <2>2 DEF KeysInv, keyVars
<1>3. ASSUME NEW r \in Requests, sign(r) PROVE KeysInv'
  <2>1. UNCHANGED <<now, keyVars>>
    BY <1>3 DEF sign
  <2> QED BY <1>3, <2>1, SignType DEF KeysInv, Fresh, keyVars
<1>4. CASE rotate_runner_key
  <2>1. configured' = configured + 1 /\ configured + 1 \notin trusted
    BY <1>0, <1>4 DEF rotate_runner_key, KeysInv
  <2>2. UNCHANGED <<now, signing, added, trusted, sent>>
    BY <1>4 DEF rotate_runner_key
  <2>3. \A k \in trusted \cup added : k <= configured'
    BY <1>0, <2>1 DEF KeysInv
  <2> QED BY <2>1, <2>2, <2>3 DEF KeysInv, Fresh
<1>5. CASE ServerRestart
  BY <1>5 DEF ServerRestart, KeysInv, Fresh
<1>6. CASE AddKey
  BY <1>0, <1>6 DEF AddKey, KeysInv, Fresh
<1>7. ASSUME NEW k \in Keys, RemoveKey(k) PROVE KeysInv'
  <2>1. ASSUME NEW r \in DOMAIN sent, Fresh(r) PROVE sent[r].key # k
    <3>1. now - sent[r].stamp < Span
      BY <2>1, FreshIsYoung
    <3> QED BY <1>0, <1>7, <3>1, Spans DEF RemoveKey, Span
  <2> QED BY <1>7, <2>1 DEF RemoveKey, KeysInv, Fresh
<1>8. CASE RunnerRestart
  BY <1>8 DEF RunnerRestart, KeysInv, Fresh
<1>9. ASSUME NEW r \in Requests, Deliver(r) PROVE KeysInv'
  BY <1>1, <1>9 DEF Deliver
<1>10. CASE UNCHANGED vars
  BY <1>1, <1>10 DEF vars
<1> QED BY <1>2, <1>3, <1>4, <1>5, <1>6, <1>7, <1>8, <1>9, <1>10 DEF GateNext

-----------------------------------------------------------------------------
(* Nonces *)

(* A request let through is still remembered, or was let through so long   *)
(* ago that no copy of it is fresh.                                        *)
GrantsRemembered == \A i \in DOMAIN granted :
    /\ sent[granted[i].r].stamp - ahead <= granted[i].at
    /\ \/ granted[i].at < now - Retention
       \/ \E n \in seen : /\ n.nonce = granted[i].r /\ n.key = sent[granted[i].r].key
                          /\ n.at = granted[i].at

(* Nothing has been let through at first. *)
LEMMA InitGrants == GateInit => GrantsRemembered /\ AcceptedOnce
BY DEF GateInit, GrantsRemembered, AcceptedOnce

(* A request that is accepted was not let through before. *)
LEMMA NotLetThrough ==
    ASSUME GateTypeOK, GrantsRemembered, NEW r \in DOMAIN sent, Fresh(r), ~NonceKnown(r),
           NEW i \in DOMAIN granted
    PROVE  granted[i].r # r
<1> SUFFICES ASSUME granted[i].r = r PROVE FALSE
  OBVIOUS
<1>1. /\ now \in Nat /\ sent[r].stamp \in Int /\ granted[i].at \in Nat /\ ahead \in Int
      /\ sent[r].stamp - ahead <= granted[i].at
  BY GrantShape, ClocksAssumption DEF GateTypeOK, Sent, GrantsRemembered
<1>2. /\ Span \in Nat /\ Retention \in Nat /\ ahead + Span <= Retention
      /\ now - sent[r].stamp < Span
  BY Spans DEF GateTypeOK, Fresh, Span
<1>3. ~(granted[i].at < now - Retention)
  BY <1>1, <1>2
<1>4. PICK n \in seen : n.nonce = r /\ n.key = sent[r].key /\ n.at = granted[i].at
  BY <1>3 DEF GrantsRemembered
<1>5. n \in Remembered
  BY <1>1, <1>2, <1>3, <1>4 DEF Remembered
<1> QED BY <1>4, <1>5 DEF NonceKnown

(* Grants stay remembered when only what is too old is forgotten. *)
LEMMA GrantsKept ==
    ASSUME GateTypeOK, GrantsRemembered, UNCHANGED <<now, ahead, granted>>,
           \A r \in DOMAIN sent : sent'[r] = sent[r],
           Remembered \subseteq seen'
    PROVE  GrantsRemembered'
<1> SUFFICES ASSUME NEW i \in DOMAIN granted
             PROVE  /\ sent'[granted[i].r].stamp - ahead <= granted[i].at
                    /\ \/ granted[i].at < now - Retention
                       \/ \E n \in seen' : /\ n.nonce = granted[i].r /\ n.key = sent'[granted[i].r].key
                                           /\ n.at = granted[i].at
  BY DEF GrantsRemembered, Retention
<1>1. granted[i].r \in DOMAIN sent /\ sent'[granted[i].r] = sent[granted[i].r]
  BY DEF GateTypeOK
<1>2. ASSUME ~(granted[i].at < now - Retention)
      PROVE  \E n \in seen' : /\ n.nonce = granted[i].r /\ n.key = sent[granted[i].r].key
                              /\ n.at = granted[i].at
  <2>1. PICK n \in seen : n.nonce = granted[i].r /\ n.key = sent[granted[i].r].key /\ n.at = granted[i].at
    BY <1>2 DEF GrantsRemembered
  <2>2. now \in Nat /\ Retention \in Nat /\ granted[i].at \in Nat
    BY Spans, GrantShape DEF GateTypeOK
  <2>3. n \in Remembered
    BY <1>2, <2>1, <2>2 DEF Remembered
  <2> QED BY <2>1, <2>3
<1> QED BY <1>1, <1>2 DEF GrantsRemembered

(* A request that is let through now is remembered and was not before. *)
LEMMA AcceptsGrants ==
    ASSUME GateTypeOK, StampsPast, GrantsRemembered, AcceptedOnce, NEW r \in DOMAIN sent,
           Accepts(r), UNCHANGED <<now, ahead, sent>>
    PROVE  GrantsRemembered' /\ AcceptedOnce'
<1> DEFINE grant == [r |-> r, of |-> CounterOf(r), at |-> now]
<1>1. /\ granted \in Seq([r : Requests, of : Counters, at : Nat]) /\ grant \in [r : Requests, of : Counters, at : Nat]
      /\ granted' = Append(granted, grant) /\ grant.r = r /\ grant.at = now
  BY CounterType DEF Accepts, GateTypeOK
<1> HIDE DEF grant
<1>2. \A i \in DOMAIN granted' : \/ i \in DOMAIN granted /\ granted'[i] = granted[i]
                                 \/ i = Len(granted) + 1 /\ granted'[i] = grant
  BY <1>1
<1>3. Fresh(r) /\ ~NonceKnown(r)
  BY DEF Accepts, Outcome
<1>4. \A i \in DOMAIN granted : granted[i].r # r
  BY <1>3, NotLetThrough
<1>5. AcceptedOnce'
  <2> SUFFICES ASSUME NEW i \in DOMAIN granted', NEW j \in DOMAIN granted',
                      granted'[i].r = granted'[j].r
               PROVE  i = j
    BY DEF AcceptedOnce
  <2>1. CASE i \in DOMAIN granted /\ granted'[i] = granted[i]
    <3>1. granted'[j] # grant
      BY <1>1, <1>4, <2>1
    <3>2. j \in DOMAIN granted /\ granted'[j] = granted[j]
      BY <1>2, <3>1
    <3> QED BY <2>1, <3>2 DEF AcceptedOnce
  <2>2. CASE i = Len(granted) + 1 /\ granted'[i] = grant
    <3>1. ~(j \in DOMAIN granted /\ granted'[j] = granted[j])
      BY <1>1, <1>4, <2>2
    <3> QED BY <1>2, <2>2, <3>1
  <2> QED BY <1>2, <2>1, <2>2
<1>6. Remembered \subseteq seen' /\ \E n \in seen' : n.nonce = r /\ n.key = sent[r].key /\ n.at = now
  <2> DEFINE new == [key |-> sent[r].key, nonce |-> r, at |-> now]
  <2>1. seen' = Remembered \cup {new}
    BY DEF Accepts, Recorded
  <2>2. new.nonce = r /\ new.key = sent[r].key /\ new.at = now
    OBVIOUS
  <2> HIDE DEF new
  <2> QED BY <2>1, <2>2
<1>7. ASSUME NEW i \in DOMAIN granted'
      PROVE  /\ sent[granted'[i].r].stamp - ahead <= granted'[i].at
             /\ \/ granted'[i].at < now - Retention
                \/ \E n \in seen' : /\ n.nonce = granted'[i].r /\ n.key = sent[granted'[i].r].key
                                    /\ n.at = granted'[i].at
  <2>1. CASE i \in DOMAIN granted /\ granted'[i] = granted[i]
    <3>1. ASSUME ~(granted[i].at < now - Retention)
          PROVE  \E n \in seen' : /\ n.nonce = granted[i].r /\ n.key = sent[granted[i].r].key
                                  /\ n.at = granted[i].at
      <4>1. PICK n \in seen : n.nonce = granted[i].r /\ n.key = sent[granted[i].r].key /\ n.at = granted[i].at
        BY <2>1, <3>1 DEF GrantsRemembered
      <4>2. now \in Nat /\ Retention \in Nat /\ granted[i].at \in Nat
        BY <2>1, Spans, GrantShape DEF GateTypeOK
      <4>3. n \in Remembered
        BY <3>1, <4>1, <4>2 DEF Remembered
      <4> QED BY <1>6, <4>1, <4>3
    <3> QED BY <2>1, <3>1 DEF GrantsRemembered
  <2>2. CASE granted'[i] = grant
    <3>1. sent[r].stamp - ahead <= now
      BY ClocksAssumption DEF StampsPast, GateTypeOK, Sent
    <3> QED BY <1>1, <1>6, <2>2, <3>1
  <2> QED BY <1>2, <2>1, <2>2
<1>8. GrantsRemembered'
  BY <1>7 DEF GrantsRemembered, Retention
<1> QED BY <1>5, <1>8

(* No step forgets a nonce while its request could still be accepted. *)
LEMMA NextGrants ==
    GateTypeOK /\ StampsPast /\ GrantsRemembered /\ AcceptedOnce /\ [GateNext]_vars
        => GrantsRemembered' /\ AcceptedOnce'
<1> SUFFICES ASSUME GateTypeOK, StampsPast, GrantsRemembered, AcceptedOnce, [GateNext]_vars
             PROVE  GrantsRemembered' /\ AcceptedOnce'
  OBVIOUS
<1>0. Remembered \subseteq seen
  BY DEF Remembered
<1>1. ASSUME UNCHANGED <<now, ahead, granted>>, \A r \in DOMAIN sent : sent'[r] = sent[r],
             Remembered \subseteq seen'
      PROVE  GrantsRemembered' /\ AcceptedOnce'
  BY <1>1, GrantsKept DEF AcceptedOnce
<1>2. CASE Tick
  <2>1. now' = now + 1 /\ UNCHANGED <<ahead, sent, seen, granted>>
    BY <1>2 DEF Tick, gate
  <2>2. \A i \in DOMAIN granted : granted[i].at < now - Retention => granted[i].at < now' - Retention
    BY <2>1, GrantShape, Spans DEF GateTypeOK
  <2> QED BY <2>1, <2>2 DEF GrantsRemembered, AcceptedOnce, Retention
<1>3. ASSUME NEW r \in Requests, sign(r) PROVE GrantsRemembered' /\ AcceptedOnce'
  BY <1>0, <1>1, <1>3, SignType DEF sign, gate
<1>4. CASE rotate_runner_key \/ ServerRestart \/ AddKey \/ \E k \in Keys : RemoveKey(k)
  BY <1>0, <1>1, <1>4, KeysType DEF gate
<1>5. CASE RunnerRestart
  BY <1>5 DEF RunnerRestart, GrantsRemembered, AcceptedOnce
<1>6. ASSUME NEW r \in Requests, Deliver(r) PROVE GrantsRemembered' /\ AcceptedOnce'
  <2>1. r \in DOMAIN sent /\ UNCHANGED <<now, ahead, sent>>
    BY <1>6 DEF Deliver
  <2>2. CASE Accepts(r)
    BY <2>1, <2>2, AcceptsGrants
  <2>3. CASE Limits(r) \/ Forbids(r) \/ Repeated(r) \/ Rejects(r)
    <3>1. Remembered \subseteq seen' /\ UNCHANGED granted
      BY <1>0, <2>3 DEF Limits, Forbids, Repeated, Rejects, gate, Recorded
    <3> QED BY <1>1, <2>1, <3>1
  <2> QED BY <1>6, <2>2, <2>3 DEF Deliver
<1>7. CASE UNCHANGED vars
  BY <1>0, <1>1, <1>7 DEF vars, gate
<1> QED BY <1>2, <1>3, <1>4, <1>5, <1>6, <1>7 DEF GateNext

-----------------------------------------------------------------------------
(* The rate limiter *)

(* Which grants are of a counter and a stretch of time. *)
GrantedOf(grants, c, from, to) ==
    {i \in DOMAIN grants : grants[i].of = c /\ grants[i].at \in from..to}

(* The window of a counter has counted the requests let through since it   *)
(* started, the first of them just then; fewer than the limit were let     *)
(* through in the window's length before.  A counter without a window has  *)
(* let none through for that long.                                         *)
WindowCounts(s) ==
    LET started == windows[s].started
    IN  IF s \in DOMAIN windows
        THEN /\ windows[s].count = Cardinality(GrantedOf(granted, s, started, now))
             /\ GrantedOf(granted, s, started, started) # {}
             /\ Cardinality(GrantedOf(granted, s, started - Window + 1, started - 1)) <= Limit - 1
             /\ \A i \in DOMAIN granted :
                    granted[i].of = s => granted[i].at < started + Window
        ELSE \A i \in DOMAIN granted :
                    granted[i].of = s => granted[i].at + Window <= now

WindowsCount == \A s \in Counters : WindowCounts(s)

(* A subset has fewer elements, and one that leaves something out at least *)
(* one fewer.                                                              *)
LEMMA FewerInSubset ==
    ASSUME NEW S, IsFiniteSet(S), NEW T, T \subseteq S
    PROVE  /\ IsFiniteSet(T) /\ Cardinality(S) \in Nat /\ Cardinality(T) \in Nat
           /\ Cardinality(T) <= Cardinality(S)
           /\ S \ T # {} => Cardinality(T) <= Cardinality(S) - 1
<1>1. IsFiniteSet(T) /\ Cardinality(T) <= Cardinality(S) /\ (Cardinality(S) = Cardinality(T) => S = T)
  BY FS_Subset
<1>2. Cardinality(S) \in Nat /\ Cardinality(T) \in Nat
  BY <1>1, FS_CardinalityType
<1>3. S \ T # {} => S # T
  OBVIOUS
<1> QED BY <1>1, <1>2, <1>3

(* What two sets cover has no more elements than they have together. *)
LEMMA NoMoreThanBoth ==
    ASSUME NEW S, NEW A, NEW B, IsFiniteSet(A), IsFiniteSet(B), S \subseteq A \cup B
    PROVE  IsFiniteSet(S) /\ Cardinality(S) <= Cardinality(A) + Cardinality(B)
<1>1. IsFiniteSet(A \cup B) /\ Cardinality(A \cup B) = Cardinality(A) + Cardinality(B) - Cardinality(A \cap B)
  BY FS_Union
<1>2. Cardinality(A) \in Nat /\ Cardinality(B) \in Nat /\ Cardinality(A \cap B) \in Nat
  BY FewerInSubset, FS_CardinalityType
<1>3. Cardinality(S) <= Cardinality(A \cup B) /\ IsFiniteSet(S) /\ Cardinality(S) \in Nat
  BY <1>1, FewerInSubset
<1> QED BY <1>1, <1>2, <1>3

(* Finitely many requests have been let through. *)
LEMMA GrantedFinite ==
    ASSUME GateTypeOK, NEW c, NEW from, NEW to
    PROVE  IsFiniteSet(GrantedOf(granted, c, from, to)) /\ Cardinality(GrantedOf(granted, c, from, to)) \in Nat
<1>1. DOMAIN granted = 1..Len(granted) /\ Len(granted) \in Nat
  BY DEF GateTypeOK
<1>2. IsFiniteSet(DOMAIN granted)
  BY <1>1, FS_Interval
<1>3. GrantedOf(granted, c, from, to) \subseteq DOMAIN granted
  BY DEF GrantedOf
<1> QED BY <1>2, <1>3, FewerInSubset

(* The times of grants and windows are numbers. *)
LEMMA TimesShape ==
    ASSUME GateTypeOK
    PROVE  /\ now \in Nat /\ Window \in Nat /\ Window > 0 /\ Limit \in Nat /\ Limit > 0
           /\ \A i \in DOMAIN granted : granted[i].at \in Nat /\ granted[i].at <= now
           /\ \A w \in DOMAIN windows : /\ windows[w].started \in Nat /\ windows[w].started <= now
                                        /\ windows[w].count \in Nat
BY TimesAssumption, GrantShape DEF GateTypeOK

(* When a counter's last window is over or gone, fewer than the limit were *)
(* let through in the last window's length, and none of them just now.     *)
LEMMA FewSinceWindow ==
    ASSUME GateTypeOK, NEW s \in Counters, WindowCounts(s),
           ~(s \in Pruned /\ now - windows[s].started < Window)
    PROVE  /\ Cardinality(GrantedOf(granted, s, now - Window + 1, now)) <= Limit - 1
           /\ \A i \in DOMAIN granted : granted[i].of = s => granted[i].at < now
<1> DEFINE last == GrantedOf(granted, s, now - Window + 1, now)
           started == windows[s].started
<1>1. CASE s \in DOMAIN windows
  <2>1. started \in Nat /\ started <= now /\ windows[s].count \in Nat /\ windows[s].count <= Limit
    BY <1>1, TimesShape DEF GateTypeOK
  <2>2. now - started >= Window
    BY <1>1, <2>1, TimesShape DEF Pruned
  <2>3. PICK first \in DOMAIN granted : granted[first].of = s /\ granted[first].at \in started..started
    BY <1>1 DEF WindowCounts, GrantedOf
  <2>4. last \subseteq GrantedOf(granted, s, started, now)
    BY <2>1, <2>2, TimesShape DEF GrantedOf
  <2>5. first \in GrantedOf(granted, s, started, now) /\ first \notin last
    BY <2>1, <2>2, <2>3, TimesShape DEF GrantedOf
  <2>6. Cardinality(last) <= windows[s].count - 1 /\ Cardinality(last) \in Nat
    <3>1. windows[s].count = Cardinality(GrantedOf(granted, s, started, now))
      BY <1>1 DEF WindowCounts
    <3> HIDE DEF last
    <3> QED BY <2>4, <2>5, <3>1, GrantedFinite, FewerInSubset
  <2>7. \A i \in DOMAIN granted : granted[i].of = s => granted[i].at < now
    BY <1>1, <2>1, <2>2, TimesShape DEF WindowCounts
  <2> QED BY <2>1, <2>6, <2>7, TimesShape
<1>2. CASE s \notin DOMAIN windows
  <2>1. \A i \in DOMAIN granted : granted[i].of = s => granted[i].at + Window <= now
    BY <1>2 DEF WindowCounts
  <2>2. last = {}
    BY <2>1, TimesShape DEF GrantedOf
  <2>3. Cardinality(last) = 0
    BY <2>2, FS_EmptySet
  <2> QED BY <2>1, <2>3, TimesShape
<1> QED BY <1>1, <1>2

(* A window that is not full has room for one more in every stretch of its *)
(* length that ends no earlier than now.                                   *)
LEMMA RoomLeft ==
    ASSUME GateTypeOK, NEW s \in Counters, WindowCounts(s), CurrentWindow(s).count < Limit,
           NEW a \in Nat, now - Window < a, a <= now
    PROVE  /\ IsFiniteSet(GrantedOf(granted, s, a, a + Window - 1))
           /\ Cardinality(GrantedOf(granted, s, a, a + Window - 1)) \in Nat
           /\ Cardinality(GrantedOf(granted, s, a, a + Window - 1)) <= 2 * Limit - 2
<1> DEFINE stretch == GrantedOf(granted, s, a, a + Window - 1)
           started == windows[s].started
<1>0. IsFiniteSet(stretch) /\ Cardinality(stretch) \in Nat
  BY GrantedFinite
<1>1. CASE s \in Pruned /\ now - started < Window
  <2>0. s \in DOMAIN windows /\ CurrentWindow(s) = windows[s]
    BY <1>1 DEF Pruned, CurrentWindow
  <2> DEFINE before == GrantedOf(granted, s, started - Window + 1, started - 1)
             since == GrantedOf(granted, s, started, now)
  <2>1. started \in Nat /\ started <= now /\ windows[s].count \in Nat
    BY <2>0, TimesShape
  <2>2. stretch \subseteq before \cup since
    <3> SUFFICES ASSUME NEW i \in stretch PROVE i \in before \cup since
      OBVIOUS
    <3>1. i \in DOMAIN granted /\ granted[i].of = s /\ a <= granted[i].at
      BY TimesShape DEF GrantedOf
    <3>2. granted[i].at \in Nat /\ granted[i].at <= now
      BY <3>1, TimesShape
    <3>3. CASE granted[i].at < started
      BY <1>1, <2>1, <3>1, <3>2, <3>3, TimesShape DEF GrantedOf
    <3>4. CASE granted[i].at >= started
      BY <2>1, <3>1, <3>2, <3>4, TimesShape DEF GrantedOf
    <3> QED BY <2>1, <3>2, <3>3, <3>4
  <2>3. IsFiniteSet(before) /\ IsFiniteSet(since) /\ Cardinality(before) \in Nat /\ Cardinality(since) \in Nat
    BY GrantedFinite
  <2>4. Cardinality(before) <= Limit - 1 /\ Cardinality(since) <= Limit - 1
    <3>1. windows[s].count = Cardinality(since) /\ Cardinality(before) <= Limit - 1
      BY <2>0 DEF WindowCounts
    <3> QED BY <2>0, <2>1, <3>1, TimesShape
  <2> HIDE DEF before, since, stretch
  <2>5. Cardinality(stretch) <= Cardinality(before) + Cardinality(since)
    BY <2>2, <2>3, NoMoreThanBoth
  <2> QED BY <1>0, <2>3, <2>4, <2>5, TimesShape DEF stretch
<1>2. CASE ~(s \in Pruned /\ now - started < Window)
  <2> DEFINE last == GrantedOf(granted, s, now - Window + 1, now)
  <2>1. Cardinality(last) <= Limit - 1
    BY <1>2, FewSinceWindow
  <2>2. stretch \subseteq last
    BY TimesShape DEF GrantedOf
  <2>3. IsFiniteSet(last) /\ Cardinality(last) \in Nat
    BY GrantedFinite
  <2> HIDE DEF last, stretch
  <2>4. Cardinality(stretch) <= Cardinality(last)
    BY <2>2, <2>3, FewerInSubset
  <2> QED BY <1>0, <2>1, <2>3, <2>4, TimesShape DEF stretch
<1> QED BY <1>1, <1>2

(* What a grant adds to the requests let through. *)
LEMMA OneMoreGranted ==
    ASSUME GateTypeOK, NEW grant, grant.at = now, granted' = Append(granted, grant),
           NEW s, NEW from \in Int, NEW to \in Int
    PROVE  GrantedOf(granted', s, from, to) =
                IF s = grant.of /\ from <= now /\ now <= to
                THEN GrantedOf(granted, s, from, to) \cup {Len(granted) + 1}
                ELSE GrantedOf(granted, s, from, to)
<1> DEFINE n == Len(granted) + 1
<1>1. now \in Nat
  BY DEF GateTypeOK
<1>2. granted' = Append(granted, grant)
  OBVIOUS
<1>3. /\ DOMAIN granted = 1..Len(granted) /\ Len(granted) \in Nat
      /\ DOMAIN granted' = 1..n /\ granted'[n] = grant
      /\ \A i \in DOMAIN granted : granted'[i] = granted[i]
  <2> DEFINE Grants == [r : Requests, of : Counters, at : Nat]
  <2>1. granted \in Seq(Grants)
    BY DEF GateTypeOK
  <2> HIDE DEF Grants
  <2> QED BY <1>2, <2>1
<1>4. DOMAIN granted' = DOMAIN granted \cup {n} /\ n \notin DOMAIN granted
  BY <1>3
<1> HIDE DEF n
<1>5. ASSUME NEW i
      PROVE  i \in GrantedOf(granted', s, from, to) <=>
                \/ i \in GrantedOf(granted, s, from, to)
                \/ i = n /\ s = grant.of /\ from <= now /\ now <= to
  <2>1. CASE i = n
    BY <1>1, <1>3, <1>4, <2>1 DEF GrantedOf
  <2>2. CASE i # n
    BY <1>3, <1>4, <2>2 DEF GrantedOf
  <2> QED BY <2>1, <2>2
<1> QED BY <1>5 DEF n

(* A grant, a limited request or neither leaves every other count right;   *)
(* windows that are pruned are over for long.                              *)
LEMMA OtherCounters ==
    ASSUME GateTypeOK, WindowsCount, NEW r \in DOMAIN sent, NEW count \in 0..Limit,
           windows' = Counted(CounterOf(r), count), UNCHANGED now,
           UNCHANGED granted \/ granted' = Append(granted, [r |-> r, of |-> CounterOf(r), at |-> now]),
           NEW s \in Counters, s # CounterOf(r)
    PROVE  WindowCounts(s)'
<1> DEFINE started == windows[s].started
<1>0. CounterOf(r) \in Counters /\ WindowCounts(s)
  BY CounterType DEF WindowsCount
<1>1. /\ DOMAIN windows' = Pruned \cup {CounterOf(r)} /\ Pruned \subseteq DOMAIN windows
      /\ s \in Pruned => windows'[s] = windows[s]
  <2> DEFINE counted == Counted(CounterOf(r), count)
  <2>1. /\ DOMAIN counted = Pruned \cup {CounterOf(r)} /\ Pruned \subseteq DOMAIN windows
        /\ \A v \in Pruned : v # CounterOf(r) => counted[v] = windows[v]
    BY <1>0, CountedType
  <2>2. windows' = counted
    OBVIOUS
  <2> HIDE DEF counted
  <2> QED BY <2>1, <2>2
<1>2. ASSUME NEW from \in Int, NEW to \in Int
      PROVE  GrantedOf(granted', s, from, to) = GrantedOf(granted, s, from, to)
  <2>1. CASE UNCHANGED granted
    BY <2>1
  <2>2. CASE granted' = Append(granted, [r |-> r, of |-> CounterOf(r), at |-> now])
    <3> DEFINE grant == [r |-> r, of |-> CounterOf(r), at |-> now]
    <3>1. grant.r = r /\ grant.of = CounterOf(r) /\ grant.at = now /\ granted' = Append(granted, grant)
      BY <2>2
    <3> HIDE DEF grant
    <3> QED BY <3>1, OneMoreGranted
  <2> QED BY <2>1, <2>2
<1>3. \A i \in DOMAIN granted' : granted'[i].of = s =>
        i \in DOMAIN granted /\ granted'[i] = granted[i]
  <2>1. CASE UNCHANGED granted
    BY <2>1
  <2>2. CASE granted' = Append(granted, [r |-> r, of |-> CounterOf(r), at |-> now])
    <3> DEFINE Grants == [r : Requests, of : Counters, at : Nat]
               grant == [r |-> r, of |-> CounterOf(r), at |-> now]
    <3>1. granted \in Seq(Grants) /\ grant.r = r /\ granted' = Append(granted, grant)
      BY <2>2 DEF GateTypeOK
    <3> HIDE DEF Grants, grant
    <3>2. \A i \in DOMAIN granted' : granted'[i] = grant \/ (i \in DOMAIN granted /\ granted'[i] = granted[i])
      BY <3>1
    <3> QED BY <3>1, <3>2
  <2> QED BY <2>1, <2>2
<1>4. CASE s \in Pruned
  <2>1. /\ s \in DOMAIN windows' /\ s \in DOMAIN windows /\ windows'[s] = windows[s]
        /\ started \in Int /\ now \in Int /\ Window \in Int
    BY <1>1, <1>4, TimesShape
  <2>2. /\ GrantedOf(granted', s, started, now) = GrantedOf(granted, s, started, now)
        /\ GrantedOf(granted', s, started, started) = GrantedOf(granted, s, started, started)
        /\ GrantedOf(granted', s, started - Window + 1, started - 1) = GrantedOf(granted, s, started - Window + 1, started - 1)
    <3> HIDE DEF started
    <3>1. started - Window + 1 \in Int /\ started - 1 \in Int
      BY <2>1
    <3>2. ASSUME NEW from \in Int, NEW to \in Int
          PROVE  GrantedOf(granted', s, from, to) = GrantedOf(granted, s, from, to)
      BY <1>2
    <3>3. now' = now /\ started' = started
      BY <2>1 DEF started
    <3> QED BY <2>1, <3>1, <3>2, <3>3 DEF GrantedOf
  <2> QED BY <1>0, <1>3, <2>1, <2>2 DEF WindowCounts
<1>5. CASE s \notin Pruned
  <2>1. s \notin DOMAIN windows'
    BY <1>1, <1>5
  <2>2. \A i \in DOMAIN granted : granted[i].of = s => granted[i].at + Window <= now
    <3>1. CASE s \in DOMAIN windows
      <4>1. \A i \in DOMAIN granted : granted[i].of = s => granted[i].at < started + Window
        BY <1>0, <3>1 DEF WindowCounts
      <4>2. now - started >= 2 * Window
        BY <1>5, <3>1, TimesShape DEF Pruned
      <4> QED BY <3>1, <4>1, <4>2, TimesShape
    <3>2. CASE s \notin DOMAIN windows
      BY <1>0, <3>2 DEF WindowCounts
    <3> QED BY <3>1, <3>2
  <2> QED BY <1>3, <2>1, <2>2 DEF WindowCounts
<1> QED BY <1>4, <1>5

(* What is accepted is counted, in the window that is open or in a new one. *)
LEMMA AcceptedCounted ==
    ASSUME GateTypeOK, WindowsCount, NEW r \in DOMAIN sent, Accepts(r), UNCHANGED now,
           NEW s \in Counters, s = CounterOf(r)
    PROVE  WindowCounts(s)'
<1> DEFINE n == Len(granted) + 1
           old == CurrentWindow(s)
           new == [started |-> old.started, count |-> old.count + 1]
<1>0. s \in Counters /\ WindowCounts(s) /\ n \notin DOMAIN granted
  BY CounterType DEF WindowsCount
<1>1. old \in [started : 0..now, count : 0..Limit] /\ old.count < Limit
  <2>1. old \in [started : 0..now, count : 0..Limit]
    <3>1. 0 \in 0..Limit
      BY TimesAssumption
    <3> QED BY <1>0, <3>1, CountedType
  <2> QED BY <2>1, TimesAssumption DEF Accepts, Outcome
<1>2. s \in DOMAIN windows' /\ windows'[s] = new
  <2> DEFINE counted == Counted(s, old.count + 1)
  <2>1. old.count + 1 \in 0..Limit
    BY <1>1, TimesAssumption
  <2>2. DOMAIN counted = Pruned \cup {s} /\ counted[s] = new
    <3>1. ASSUME NEW w \in Counters, NEW c \in 0..Limit
          PROVE  /\ DOMAIN Counted(w, c) = Pruned \cup {w}
                 /\ Counted(w, c)[w] = [started |-> CurrentWindow(w).started, count |-> c]
      BY CountedType
    <3>2. s \in Counters
      BY <1>0
    <3> QED BY <2>1, <3>1, <3>2
  <2>3. windows' = counted
    BY DEF Accepts
  <2> HIDE DEF counted
  <2> QED BY <2>2, <2>3
<1>3. new.started = old.started /\ new.count = old.count + 1
  OBVIOUS
<1>4. granted' = Append(granted, [r |-> r, of |-> CounterOf(r), at |-> now])
  BY DEF Accepts
<1>5. /\ now \in Nat /\ Window \in Nat /\ Window > 0 /\ Limit \in Nat /\ Limit > 0
      /\ old.started \in Nat /\ old.started <= now /\ old.count \in Nat
  BY <1>1, TimesShape
<1> HIDE DEF new
<1>6. \A i \in DOMAIN granted' : \/ i \in DOMAIN granted /\ granted'[i] = granted[i]
                                 \/ granted'[i].at = now
  <2> DEFINE Grants == [r : Requests, of : Counters, at : Nat]
             grant == [r |-> r, of |-> CounterOf(r), at |-> now]
  <2>1. granted \in Seq(Grants) /\ grant.at = now /\ granted' = Append(granted, grant)
    BY <1>4 DEF GateTypeOK
  <2> HIDE DEF Grants, grant
  <2> QED BY <2>1
<1>7. ASSUME NEW from \in Int, NEW to \in Int
      PROVE  GrantedOf(granted', s, from, to) = IF from <= now /\ now <= to
                                                THEN GrantedOf(granted, s, from, to) \cup {n}
                                                ELSE GrantedOf(granted, s, from, to)
  <2> DEFINE grant == [r |-> r, of |-> CounterOf(r), at |-> now]
  <2>1. grant.r = r /\ grant.of = CounterOf(r) /\ grant.at = now /\ granted' = Append(granted, grant)
    BY <1>4
  <2> HIDE DEF grant
  <2> QED BY <2>1, OneMoreGranted
<1>8. CASE s \in Pruned /\ now - windows[s].started < Window
  <2>1. s \in DOMAIN windows /\ old = windows[s]
    BY <1>8 DEF Pruned, CurrentWindow
  <2>2. /\ old.count = Cardinality(GrantedOf(granted, s, old.started, now))
        /\ GrantedOf(granted, s, old.started, old.started) # {}
        /\ Cardinality(GrantedOf(granted, s, old.started - Window + 1, old.started - 1)) <= Limit - 1
        /\ \A i \in DOMAIN granted : granted[i].of = s => granted[i].at < old.started + Window
    BY <1>0, <2>1 DEF WindowCounts
  <2>3. /\ GrantedOf(granted', s, old.started, now) = GrantedOf(granted, s, old.started, now) \cup {n}
        /\ GrantedOf(granted, s, old.started, old.started) \subseteq GrantedOf(granted', s, old.started, old.started)
        /\ GrantedOf(granted', s, old.started - Window + 1, old.started - 1)
             = GrantedOf(granted, s, old.started - Window + 1, old.started - 1)
    <3> HIDE DEF old, n
    <3>1. old.started - Window + 1 \in Int /\ old.started - 1 \in Int
      BY <1>5
    <3> QED BY <1>5, <1>7, <3>1
  <2>4. n \notin GrantedOf(granted, s, old.started, now)
    BY <1>0 DEF GrantedOf
  <2>5. Cardinality(GrantedOf(granted', s, old.started, now)) = old.count + 1
    <3> DEFINE since == GrantedOf(granted, s, old.started, now)
    <3>1. IsFiniteSet(since)
      BY GrantedFinite
    <3>2. n \notin since /\ old.count = Cardinality(since)
      BY <2>2, <2>4
    <3>3. GrantedOf(granted', s, old.started, now) = since \cup {n}
      BY <2>3
    <3> HIDE DEF since, n
    <3> QED BY <3>1, <3>2, <3>3, FS_AddElement
  <2>6. \A i \in DOMAIN granted' : granted'[i].of = s => granted'[i].at < old.started + Window
    BY <1>5, <1>6, <1>8, <2>1, <2>2
  <2> HIDE DEF old
  <2> QED BY <1>2, <1>3, <2>2, <2>3, <2>5, <2>6 DEF WindowCounts
<1>9. CASE ~(s \in Pruned /\ now - windows[s].started < Window)
  <2>1. old.started = now /\ old.count = 0
    BY <1>9 DEF CurrentWindow, NewWindow
  <2>2. /\ Cardinality(GrantedOf(granted, s, now - Window + 1, now)) <= Limit - 1
        /\ \A i \in DOMAIN granted : granted[i].of = s => granted[i].at < now
    BY <1>0, <1>9, FewSinceWindow
  <2>3. GrantedOf(granted, s, now, now) = {}
    BY <1>5, <2>2, TimesShape DEF GrantedOf
  <2>4. /\ GrantedOf(granted', s, now, now) = {n}
        /\ GrantedOf(granted', s, now - Window + 1, now - 1) = GrantedOf(granted, s, now - Window + 1, now - 1)
    <3> HIDE DEF old, n
    <3>1. now - Window + 1 \in Int /\ now - 1 \in Int
      BY <1>5
    <3> QED BY <1>5, <1>7, <2>3, <3>1
  <2>5. Cardinality(GrantedOf(granted', s, now, now)) = 1
    BY <2>4, FS_Singleton
  <2>6. Cardinality(GrantedOf(granted, s, now - Window + 1, now - 1)) <= Limit - 1
    <3> DEFINE last == GrantedOf(granted, s, now - Window + 1, now)
               before == GrantedOf(granted, s, now - Window + 1, now - 1)
    <3>1. before \subseteq last
      BY <1>5 DEF GrantedOf
    <3>2. IsFiniteSet(last)
      BY GrantedFinite
    <3> HIDE DEF last, before
    <3>3. Cardinality(before) <= Cardinality(last) /\ Cardinality(before) \in Nat /\ Cardinality(last) \in Nat
      BY <3>1, <3>2, FewerInSubset
    <3> QED BY <1>5, <2>2, <3>3 DEF last, before
  <2>7. \A i \in DOMAIN granted' : granted'[i].of = s => granted'[i].at < now + Window
    BY <1>5, <1>6, TimesShape
  <2> HIDE DEF old
  <2> QED BY <1>2, <1>3, <2>1, <2>4, <2>5, <2>6, <2>7 DEF WindowCounts
<1> QED BY <1>8, <1>9

(* A call that is refused leaves its window right. *)
LEMMA LimitedCounted ==
    ASSUME GateTypeOK, WindowsCount, NEW r \in DOMAIN sent, Limits(r), UNCHANGED now,
           NEW s \in Counters, s = CounterOf(r)
    PROVE  WindowCounts(s)'
<1> DEFINE old == CurrentWindow(s)
<1>0. s \in Counters /\ WindowCounts(s)
  BY CounterType DEF WindowsCount
<1>1. 0 \in 0..Limit /\ Limit > 0
  BY TimesAssumption
<1>2. old \in [started : 0..now, count : 0..Limit]
  BY <1>0, <1>1, CountedType
<1>3. old.count >= Limit
  BY DEF Limits, Outcome
<1>4. old = windows[s] /\ s \in DOMAIN windows
  BY <1>1, <1>2, <1>3, TimesAssumption DEF CurrentWindow, NewWindow, Pruned
<1>5. s \in DOMAIN windows' /\ windows'[s] = [started |-> old.started, count |-> old.count]
  <2> DEFINE counted == Counted(s, old.count)
  <2>1. DOMAIN counted = Pruned \cup {s} /\ counted[s] = [started |-> old.started, count |-> old.count]
    BY <1>0, <1>2, CountedType
  <2>2. windows' = counted
    BY DEF Limits
  <2> HIDE DEF counted
  <2> QED BY <2>1, <2>2
<1>6. windows'[s] = windows[s] /\ granted' = granted
  BY <1>2, <1>4, <1>5 DEF Limits
<1> QED BY <1>0, <1>4, <1>5, <1>6 DEF WindowCounts

(* No window is open at first. *)
LEMMA InitWindows == GateInit => WindowsCount
BY DEF GateInit, WindowsCount, WindowCounts

(* A window counts what was let through since it was opened. *)
LEMMA NextWindows == GateTypeOK /\ WindowsCount /\ [GateNext]_vars => WindowsCount'
<1> SUFFICES ASSUME GateTypeOK, WindowsCount, [GateNext]_vars PROVE WindowsCount'
  OBVIOUS
<1>1. CASE UNCHANGED <<now, windows, granted>>
  BY <1>1 DEF WindowsCount, WindowCounts
<1>2. CASE Tick
  <2>1. now' = now + 1 /\ UNCHANGED <<windows, granted>>
    BY <1>2 DEF Tick, gate
  <2> SUFFICES ASSUME NEW s \in Counters PROVE WindowCounts(s)'
    BY DEF WindowsCount
  <2>2. WindowCounts(s)
    BY DEF WindowsCount
  <2>3. CASE s \in DOMAIN windows
    <3>1. GrantedOf(granted, s, windows[s].started, now') = GrantedOf(granted, s, windows[s].started, now)
      BY <2>1, <2>3, TimesShape DEF GrantedOf
    <3> QED BY <2>1, <2>2, <2>3, <3>1 DEF WindowCounts
  <2>4. CASE s \notin DOMAIN windows
    <3>1. \A i \in DOMAIN granted : granted[i].of = s => granted[i].at + Window <= now
      BY <2>2, <2>4 DEF WindowCounts
    <3>2. \A i \in DOMAIN granted : granted[i].of = s => granted[i].at + Window <= now'
      BY <2>1, <3>1, TimesShape
    <3> QED BY <2>1, <2>4, <3>2 DEF WindowCounts
  <2> QED BY <2>3, <2>4
<1>3. ASSUME NEW r \in Requests, sign(r) PROVE WindowsCount'
  BY <1>1, <1>3 DEF sign, gate
<1>4. CASE rotate_runner_key \/ ServerRestart \/ AddKey \/ \E k \in Keys : RemoveKey(k)
  BY <1>1, <1>4, KeysType DEF gate
<1>5. CASE RunnerRestart
  BY <1>5 DEF RunnerRestart, WindowsCount, WindowCounts
<1>6. ASSUME NEW r \in Requests, Deliver(r) PROVE WindowsCount'
  <2>1. r \in DOMAIN sent /\ UNCHANGED now
    BY <1>6 DEF Deliver
  <2>2. CounterOf(r) \in Counters /\ 0 \in 0..Limit
    BY <2>1, CounterType, TimesAssumption
  <2>3. CurrentWindow(CounterOf(r)) \in [started : 0..now, count : 0..Limit]
    BY <2>2, CountedType
  <2>4. CASE Accepts(r)
    <3>1. CurrentWindow(CounterOf(r)).count + 1 \in 0..Limit
      BY <2>3, <2>4, TimesAssumption DEF Accepts, Outcome
    <3>2. \A s \in Counters : s # CounterOf(r) => WindowCounts(s)'
      BY <2>1, <2>4, <3>1, OtherCounters DEF Accepts
    <3>3. \A s \in Counters : s = CounterOf(r) => WindowCounts(s)'
      BY <2>1, <2>4, AcceptedCounted
    <3> QED BY <3>2, <3>3 DEF WindowsCount
  <2>5. CASE Limits(r)
    <3>1. \A s \in Counters : s # CounterOf(r) => WindowCounts(s)'
      BY <2>1, <2>3, <2>5, OtherCounters DEF Limits
    <3>2. \A s \in Counters : s = CounterOf(r) => WindowCounts(s)'
      BY <2>1, <2>5, LimitedCounted
    <3> QED BY <3>1, <3>2 DEF WindowsCount
  <2>6. CASE Forbids(r) \/ Repeated(r) \/ Rejects(r)
    BY <1>1, <2>1, <2>6 DEF Forbids, Repeated, Rejects, gate
  <2> QED BY <1>6, <2>4, <2>5, <2>6 DEF Deliver
<1>7. CASE UNCHANGED vars
  BY <1>1, <1>7 DEF vars, gate
<1> QED BY <1>2, <1>3, <1>4, <1>5, <1>6, <1>7 DEF GateNext

(* A grant keeps every stretch of a window's length below twice the limit. *)
LEMMA AcceptsBurst ==
    ASSUME GateTypeOK, WindowsCount, BurstBounded, NEW r \in DOMAIN sent, Accepts(r),
           NEW s \in Counters, NEW i \in DOMAIN granted'
    PROVE  Cardinality(GrantedOf(granted', s, granted'[i].at, granted'[i].at + Window - 1)) <= 2 * Limit - 1
<1> DEFINE n == Len(granted) + 1
           a == granted'[i].at
           until == a + Window - 1
<1>1. granted' = Append(granted, [r |-> r, of |-> CounterOf(r), at |-> now])
  BY DEF Accepts
<1>2. \/ i \in DOMAIN granted /\ granted'[i] = granted[i]
      \/ granted'[i].at = now
  <2> DEFINE Grants == [r : Requests, of : Counters, at : Nat]
             grant == [r |-> r, of |-> CounterOf(r), at |-> now]
  <2>1. granted \in Seq(Grants) /\ grant.at = now /\ granted' = Append(granted, grant)
    BY <1>1 DEF GateTypeOK
  <2> HIDE DEF Grants, grant
  <2> QED BY <2>1
<1>3. a \in Nat /\ a <= now /\ until \in Int /\ now \in Nat /\ Window \in Nat /\ Limit \in Nat /\ Limit > 0
  BY <1>2, TimesShape
<1>4. GrantedOf(granted', s, a, until) = IF s = CounterOf(r) /\ a <= now /\ now <= until
                                         THEN GrantedOf(granted, s, a, until) \cup {n}
                                         ELSE GrantedOf(granted, s, a, until)
  <2> HIDE DEF a, until, n
  <2>1. ASSUME NEW from \in Int, NEW to \in Int
        PROVE  GrantedOf(granted', s, from, to) = IF s = CounterOf(r) /\ from <= now /\ now <= to
                                                  THEN GrantedOf(granted, s, from, to) \cup {n}
                                                  ELSE GrantedOf(granted, s, from, to)
    <3> DEFINE grant == [r |-> r, of |-> CounterOf(r), at |-> now]
    <3>1. grant.r = r /\ grant.of = CounterOf(r) /\ grant.at = now /\ granted' = Append(granted, grant)
      BY <1>1
    <3> HIDE DEF grant
    <3> QED BY <3>1, OneMoreGranted DEF n
  <2> QED BY <1>3, <2>1
<1>5. n \notin DOMAIN granted
  BY DEF GateTypeOK
<1>6. CASE s = CounterOf(r) /\ now <= until
  <2>1. WindowCounts(s) /\ CurrentWindow(s).count < Limit
    <3>1. CurrentWindow(s).count \in 0..Limit
      <4>1. 0 \in 0..Limit
        BY <1>3
      <4> QED BY <4>1, CountedType
    <3>2. ~(CurrentWindow(s).count >= Limit)
      BY <1>6 DEF Accepts, Outcome
    <3> QED BY <1>3, <3>1, <3>2 DEF WindowsCount
  <2>2. now - Window < a
    BY <1>3, <1>6
  <2> DEFINE stretch == GrantedOf(granted, s, a, until)
  <2>3. IsFiniteSet(stretch) /\ Cardinality(stretch) \in Nat /\ Cardinality(stretch) <= 2 * Limit - 2
    <3> HIDE DEF a
    <3> QED BY <1>3, <2>1, <2>2, RoomLeft
  <2>4. GrantedOf(granted', s, a, until) = stretch \cup {n} /\ n \notin stretch
    BY <1>3, <1>4, <1>5, <1>6 DEF GrantedOf
  <2> HIDE DEF stretch, a, until
  <2>5. Cardinality(GrantedOf(granted', s, a, until)) = Cardinality(stretch) + 1
    BY <2>3, <2>4, FS_AddElement
  <2> QED BY <1>3, <2>3, <2>5 DEF a, until
<1>7. CASE ~(s = CounterOf(r) /\ now <= until)
  <2>1. GrantedOf(granted', s, a, until) = GrantedOf(granted, s, a, until)
    BY <1>4, <1>7
  <2>2. CASE i \in DOMAIN granted /\ granted'[i] = granted[i]
    BY <2>1, <2>2 DEF BurstBounded, GrantsIn, GrantedOf
  <2>3. CASE a = now
    <3>1. s # CounterOf(r)
      BY <1>3, <1>7, <2>3, TimesShape
    <3>2. CASE \E j \in GrantedOf(granted, s, a, until) : TRUE
      <4>1. PICK j \in DOMAIN granted : granted[j].at = now
        BY <1>3, <2>3, <3>2, TimesShape DEF GrantedOf
      <4> QED BY <2>1, <2>3, <4>1 DEF BurstBounded, GrantsIn, GrantedOf
    <3>3. CASE GrantedOf(granted, s, a, until) = {}
      <4>1. Cardinality(GrantedOf(granted', s, a, until)) = 0
        BY <2>1, <3>3, FS_EmptySet
      <4> QED BY <1>3, <4>1
    <3> QED BY <3>2, <3>3
  <2> QED BY <1>2, <2>2, <2>3
<1> QED BY <1>6, <1>7

(* No more requests than the limit are let through within a window. *)
LEMMA NextBurst ==
    GateTypeOK /\ WindowsCount /\ BurstBounded /\ [GateNext]_vars => BurstBounded'
<1> SUFFICES ASSUME GateTypeOK, WindowsCount, BurstBounded, [GateNext]_vars PROVE BurstBounded'
  OBVIOUS
<1>1. CASE UNCHANGED granted
  BY <1>1 DEF BurstBounded, GrantsIn
<1>2. CASE granted' = << >>
  BY <1>2 DEF BurstBounded
<1>3. ASSUME NEW r \in Requests, Deliver(r), Accepts(r) PROVE BurstBounded'
  <2>1. r \in DOMAIN sent
    BY <1>3 DEF Deliver
  <2> QED BY <1>3, <2>1, AcceptsBurst DEF BurstBounded, GrantsIn, GrantedOf
<1>4. ASSUME NEW r \in Requests, Deliver(r) PROVE BurstBounded'
  <2>1. Accepts(r) \/ UNCHANGED granted
    BY <1>4 DEF Deliver, Limits, Forbids, Repeated, Rejects, gate
  <2> QED BY <1>1, <1>3, <1>4, <2>1
<1>5. CASE Tick \/ (\E r \in Requests : sign(r)) \/ rotate_runner_key \/ ServerRestart \/ AddKey
           \/ \E k \in Keys : RemoveKey(k)
  BY <1>1, <1>5, KeysType DEF Tick, sign, gate
<1>6. CASE RunnerRestart
  BY <1>2, <1>6 DEF RunnerRestart
<1>7. CASE UNCHANGED vars
  BY <1>1, <1>7 DEF vars, gate
<1> QED BY <1>4, <1>5, <1>6, <1>7 DEF GateNext

(* A request is limited when the window that is open is full. *)
LEMMA FullWhenLimited == GateTypeOK /\ WindowsCount => LimitedWhenFull
<1> SUFFICES ASSUME GateTypeOK, WindowsCount, NEW r \in DOMAIN sent, Outcome(r) = "limited"
             PROVE  GrantsIn(CounterOf(r), now - Window + 1, now) >= Limit
  BY DEF LimitedWhenFull
<1> DEFINE s == CounterOf(r)
           since == GrantedOf(granted, s, windows[s].started, now)
           last == GrantedOf(granted, s, now - Window + 1, now)
<1>1. s \in Counters /\ WindowCounts(s)
  BY CounterType DEF WindowsCount
<1>2. CurrentWindow(s).count >= Limit
  BY DEF Outcome
<1>3. s \in DOMAIN windows /\ now - windows[s].started < Window /\ CurrentWindow(s) = windows[s]
  BY <1>2, TimesShape DEF CurrentWindow, NewWindow, Pruned
<1>4. Cardinality(since) >= Limit
  BY <1>1, <1>2, <1>3 DEF WindowCounts
<1>5. since \subseteq last
  BY <1>3, TimesShape DEF GrantedOf
<1>6. IsFiniteSet(last)
  BY GrantedFinite
<1>7. Cardinality(last) = GrantsIn(s, now - Window + 1, now)
  BY DEF GrantsIn, GrantedOf
<1> HIDE DEF since, last, s
<1>8. Cardinality(since) <= Cardinality(last) /\ Cardinality(since) \in Nat /\ Cardinality(last) \in Nat
  BY <1>5, <1>6, FewerInSubset
<1> QED BY <1>4, <1>7, <1>8, TimesShape DEF s

-----------------------------------------------------------------------------
(* The theorems *)

GateInv == /\ GateTypeOK /\ StampsPast /\ KeysInv
           /\ GrantsRemembered /\ AcceptedOnce
           /\ WindowsCount /\ BurstBounded

(* The invariant holds at first. *)
LEMMA InitInv == GateInit => GateInv
<1>1. GateInit => BurstBounded
  BY DEF GateInit, BurstBounded
<1> QED BY <1>1, InitType, InitStamps, InitKeys, InitGrants, InitWindows DEF GateInv

(* Every step keeps the invariant. *)
LEMMA NextInv == GateInv /\ [GateNext]_vars => GateInv'
BY NextType, NextStamps, NextKeys, NextGrants, NextWindows, NextBurst DEF GateInv

(* The inductive invariant of the gate always holds. *)
LEMMA Invariant == GateSpec => []GateInv
BY InitInv, NextInv, PTL DEF GateSpec

(* The tables of gate, signer and limiter keep their types: no window      *)
(* counts more than its limit, every nonce is of a request signed before   *)
(* (RateLimiter::check, verify_nonce).                                     *)
THEOREM GateTypeCorrect == GateSpec => []GateTypeOK
<1>1. GateInv => GateTypeOK
  BY DEF GateInv
<1> QED BY <1>1, Invariant, PTL

(* However often and late copies of a request arrive, a running runner     *)
(* lets it through once: what is old enough to be forgotten by             *)
(* verify_nonce is too old for verify_timestamp, when the server's clock   *)
(* is ahead by no more than a second less than the tolerance.              *)
THEOREM NoReplay == GateSpec => []AcceptedOnce
<1>1. GateInv => AcceptedOnce
  BY DEF GateInv
<1> QED BY <1>1, Invariant, PTL

(* RateLimiter::check lets through at most twice the limit less one in any *)
(* stretch of a window's length, and limits only when as many as the limit *)
(* were let through in the last.                                           *)
THEOREM LimiterExact == GateSpec => []LimiterCounts
<1>1. GateInv => LimiterCounts
  BY FullWhenLimited DEF GateInv, LimiterCounts
<1> QED BY <1>1, Invariant, PTL

(* While keys are rotated in the documented order, and any number of       *)
(* times, the runner trusts the key of every request that is in time       *)
(* (rotate_runner_key, load_from_config).                                  *)
THEOREM SeamlessRotation == GateSpec => []RotationIsSeamless
<1>1. GateInv => RotationIsSeamless
  BY DEF GateInv, KeysInv, RotationIsSeamless
<1> QED BY <1>1, Invariant, PTL
=============================================================================
