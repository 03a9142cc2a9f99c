----------------------------- MODULE DBusProofs -----------------------------
(***************************************************************************)
(* Proofs about DBus, for any names, peers and serial numbers and any      *)
(* number of messages under way.                                           *)
(***************************************************************************)
EXTENDS DBus, FiniteSetTheorems, SequenceTheorems, TLAPS

-----------------------------------------------------------------------------
(* The inductive invariant.                                                  *)

Owners == Peers \cup {None}

Messages ==
    [type : {"changed"}, name : Names, old : Owners, new : Owners]
      \cup [type : {"reply"}, serial : Serials, owner : Owners]
      \cup [type : {"signal"}, from : Peers, names : SUBSET Names]

Changes(msg, n) == msg.type = "changed" /\ msg.name = n

(* o is the owner of n for a reader of the first i messages of w: what the   *)
(* next message about n says it was, or the owner now if there is none.      *)
Sees(w, own, n, i, o) ==
    \/ o = own[n] /\ \A j \in DOMAIN w : j > i => ~Changes(w[j], n)
    \/ \E j \in DOMAIN w :
          /\ j > i /\ Changes(w[j], n) /\ w[j].old = o
          /\ \A k \in DOMAIN w : i < k /\ k < j => ~Changes(w[k], n)

(* A message tells the truth of the moment it was sent.                      *)
Truthful(w, own, r, i) ==
    /\ w[i].type = "changed" => Sees(w, own, w[i].name, i, w[i].new)
    /\ w[i].type = "reply" =>
          \A n \in Names : r[w[i].serial] = GetOwner(n) => Sees(w, own, n, i, w[i].owner)
    /\ w[i].type = "signal" =>
          \A n \in Names : n \in w[i].names <=> Sees(w, own, n, i, w[i].from)

WireTruthful(w, own, r) == \A i \in DOMAIN w : Truthful(w, own, r, i)

Asked(n, r, q) ==
    \/ \E s \in Serials : r[s] = GetOwner(n)
    \/ \E i \in DOMAIN q : q[i].name = n

(* The owner a directory has is the one a reader of no message sees; it has  *)
(* none if there is none, or while the answer is awaited.                    *)
UpToDate(w, own, n, d, r, q) ==
    /\ d[n] # None => Sees(w, own, n, 0, d[n])
    /\ d[n] = None => Asked(n, r, q) \/ Sees(w, own, n, 0, None)

AnswersCurrent(w, own, l, q) ==
    \A i \in DOMAIN q : q[i].name \in l => Sees(w, own, q[i].name, 0, q[i].owner)

InStep(w, own, l, d, r, q) ==
    /\ WireTruthful(w, own, r)
    /\ \A n \in l : UpToDate(w, own, n, d, r, q)
    /\ AnswersCurrent(w, own, l, q)

(* Names that are out of step are left out.                                  *)
Synchronised ==
    link = "up" => InStep(wire, owner, live \ desynced, dirOwner, requests, queue)

(* A peer refers to the directories in S that name it as their owner; an     *)
(* object that is not alive has no directory.                                *)
Filed(l, S, d, p) ==
    /\ \A n \in Names : n \notin l => d[n] = None /\ \A x \in Peers : n \notin p[x]
    /\ \A x \in Peers, n \in S : n \in p[x] <=> d[n] = x

DirectoriesFiled == link = "up" => Filed(live, live \ desynced, dirOwner, peerNames)

(* What user code, a listener or a request for the owner holds is alive.     *)
Alive ==
    /\ user \subseteq live /\ keepAlive \subseteq live
    /\ \A n \in Names : Asked(n, requests, queue) => n \in live

(* The closure of ioev_callback keeps the connection.                        *)
LoopOpen == InLoop => conn = "open"

Inv ==
    /\ TypeOK
    /\ wire \in Seq(Messages)
    /\ WatchedWhileAwaited
    /\ LoopOpen
    /\ Alive
    /\ DirectoriesFiled
    /\ Synchronised

-----------------------------------------------------------------------------
(* What a reader of the wire sees.                                           *)

LEMMA MessageFields ==
    ASSUME NEW msg \in Messages
    PROVE  /\ msg.type = "changed" => msg.name \in Names /\ msg.old \in Owners /\ msg.new \in Owners
           /\ msg.type = "reply" => msg.serial \in Serials /\ msg.owner \in Owners
           /\ msg.type = "signal" => msg.from \in Peers /\ msg.names \subseteq Names
           /\ msg.type \in {"changed", "reply", "signal"}
  BY DEF Messages

LEMMA TailFacts ==
    ASSUME NEW M, NEW w \in Seq(M), w # <<>>
    PROVE  /\ Tail(w) \in Seq(M)
           /\ Len(w) \in Nat /\ Len(w) >= 1
           /\ DOMAIN w = 1 .. Len(w)
           /\ DOMAIN Tail(w) = 1 .. Len(w) - 1
           /\ Len(Tail(w)) = Len(w) - 1
           /\ \A i \in 1 .. Len(w) - 1 : Tail(w)[i] = w[i + 1]
           /\ Head(w) = w[1] /\ Head(w) \in M
  OBVIOUS

LEMMA AppendFacts ==
    ASSUME NEW M, NEW w \in Seq(M), NEW msg \in M
    PROVE  /\ Append(w, msg) \in Seq(M)
           /\ Len(w) \in Nat
           /\ DOMAIN w = 1 .. Len(w)
           /\ DOMAIN Append(w, msg) = 1 .. Len(w) + 1
           /\ Len(Append(w, msg)) = Len(w) + 1
           /\ \A i \in 1 .. Len(w) : Append(w, msg)[i] = w[i]
           /\ Append(w, msg)[Len(w) + 1] = msg
  OBVIOUS

(* Reading the oldest message brings the reader one message further.         *)
LEMMA SeesTail ==
    ASSUME NEW w \in Seq(Messages), w # <<>>, NEW own, NEW n, NEW i \in Nat, NEW o
    PROVE  Sees(Tail(w), own, n, i, o) <=> Sees(w, own, n, i + 1, o)
<1>. DEFINE t == Tail(w)
<1>1. /\ Len(w) \in Nat /\ Len(w) >= 1
      /\ DOMAIN w = 1 .. Len(w)
      /\ DOMAIN t = 1 .. Len(w) - 1
      /\ \A j \in 1 .. Len(w) - 1 : t[j] = w[j + 1]
  BY TailFacts
<1>. HIDE DEF t
<1>2. (\A j \in DOMAIN t : j > i => ~Changes(t[j], n))
        <=> (\A j \in DOMAIN w : j > i + 1 => ~Changes(w[j], n))
  <2>1. ASSUME \A j \in DOMAIN t : j > i => ~Changes(t[j], n),
               NEW j \in DOMAIN w, j > i + 1
        PROVE  ~Changes(w[j], n)
    <3>1. j - 1 \in DOMAIN t /\ j - 1 > i /\ t[j - 1] = w[j]
      BY <1>1, <2>1
    <3>. QED  BY <2>1, <3>1
  <2>2. ASSUME \A j \in DOMAIN w : j > i + 1 => ~Changes(w[j], n),
               NEW j \in DOMAIN t, j > i
        PROVE  ~Changes(t[j], n)
    <3>1. j + 1 \in DOMAIN w /\ j + 1 > i + 1 /\ t[j] = w[j + 1]
      BY <1>1, <2>2
    <3>. QED  BY <2>2, <3>1
  <2>. QED  BY <2>1, <2>2
<1>3. ASSUME NEW j \in DOMAIN t, j > i, Changes(t[j], n), t[j].old = o,
             \A k \in DOMAIN t : i < k /\ k < j => ~Changes(t[k], n)
      PROVE  Sees(w, own, n, i + 1, o)
  <2>1. j + 1 \in DOMAIN w /\ j + 1 > i + 1 /\ t[j] = w[j + 1]
    BY <1>1, <1>3
  <2>2. ASSUME NEW k \in DOMAIN w, i + 1 < k, k < j + 1
        PROVE  ~Changes(w[k], n)
    <3>1. k - 1 \in DOMAIN t /\ i < k - 1 /\ k - 1 < j /\ t[k - 1] = w[k]
      BY <1>1, <1>3, <2>2
    <3>. QED  BY <1>3, <3>1
  <2>. QED  BY <1>3, <2>1, <2>2 DEF Sees
<1>4. ASSUME NEW j \in DOMAIN w, j > i + 1, Changes(w[j], n), w[j].old = o,
             \A k \in DOMAIN w : i + 1 < k /\ k < j => ~Changes(w[k], n)
      PROVE  Sees(t, own, n, i, o)
  <2>1. j - 1 \in DOMAIN t /\ j - 1 > i /\ t[j - 1] = w[j]
    BY <1>1, <1>4
  <2>2. ASSUME NEW k \in DOMAIN t, i < k, k < j - 1
        PROVE  ~Changes(t[k], n)
    <3>1. k + 1 \in DOMAIN w /\ i + 1 < k + 1 /\ k + 1 < j /\ t[k] = w[k + 1]
      BY <1>1, <1>4, <2>2
    <3>. QED  BY <1>4, <3>1
  <2>. QED  BY <1>4, <2>1, <2>2 DEF Sees
<1>5. Sees(t, own, n, i, o) => Sees(w, own, n, i + 1, o)
  <2>1. CASE o = own[n] /\ \A j \in DOMAIN t : j > i => ~Changes(t[j], n)
    BY <1>2, <2>1 DEF Sees
  <2>. QED  BY <1>3, <2>1 DEF Sees
<1>6. Sees(w, own, n, i + 1, o) => Sees(t, own, n, i, o)
  <2>1. CASE o = own[n] /\ \A j \in DOMAIN w : j > i + 1 => ~Changes(w[j], n)
    BY <1>2, <2>1 DEF Sees
  <2>. QED  BY <1>4, <2>1 DEF Sees
<1>. QED  BY <1>5, <1>6 DEF t

(* A message on top says about n that nothing changed, or what it was.       *)
Continues(msg, own, own2, n) ==
    \/ ~Changes(msg, n) /\ own2[n] = own[n]
    \/ Changes(msg, n) /\ msg.old = own[n]

LEMMA SeesAppend ==
    ASSUME NEW w \in Seq(Messages), NEW msg \in Messages, NEW own, NEW own2, NEW n,
           Continues(msg, own, own2, n), NEW i \in 0 .. Len(w), NEW o
    PROVE  Sees(Append(w, msg), own2, n, i, o) <=> Sees(w, own, n, i, o)
<1>. DEFINE t == Append(w, msg)
            len == Len(w)
<1>1. /\ len \in Nat
      /\ DOMAIN w = 1 .. len
      /\ DOMAIN t = 1 .. len + 1
      /\ \A j \in 1 .. len : t[j] = w[j]
      /\ t[len + 1] = msg
  BY AppendFacts
<1>2. i \in 0 .. len
  OBVIOUS
<1>. HIDE DEF t, len
<1>3. CASE ~Changes(msg, n) /\ own2[n] = own[n]
  BY <1>1, <1>2, <1>3 DEF Sees
<1>4. CASE Changes(msg, n) /\ msg.old = own[n]
  <2>1. ASSUME Sees(w, own, n, i, o)
        PROVE  Sees(t, own2, n, i, o)
    BY <1>1, <1>2, <1>4, <2>1 DEF Sees
  <2>2. ASSUME Sees(t, own2, n, i, o)
        PROVE  Sees(w, own, n, i, o)
    BY <1>1, <1>2, <1>4, <2>2 DEF Sees
  <2>. QED  BY <2>1, <2>2 DEF t
<1>5. QED  BY <1>3, <1>4 DEF Continues, t

(* After all messages one sees the owner of now.                             *)
LEMMA SeesLast ==
    ASSUME NEW w \in Seq(Messages), NEW own, NEW n, NEW o
    PROVE  Sees(w, own, n, Len(w), o) <=> o = own[n]
<1>1. Len(w) \in Nat /\ DOMAIN w = 1 .. Len(w)
  OBVIOUS
<1>2. \A j \in DOMAIN w : ~(j > Len(w))
  BY <1>1
<1>. QED  BY <1>2 DEF Sees

LEMMA SeesOne ==
    ASSUME NEW w \in Seq(Messages), NEW own, NEW n, NEW i \in Nat, NEW o, NEW x,
           Sees(w, own, n, i, o), Sees(w, own, n, i, x)
    PROVE  o = x
<1>1. DOMAIN w \subseteq Nat
  OBVIOUS
<1>. QED  BY <1>1 DEF Sees

(* A message that says nothing about n changes nothing.                      *)
LEMMA SeesSkip ==
    ASSUME NEW w \in Seq(Messages), w # <<>>, NEW own, NEW n, NEW o, ~Changes(w[1], n)
    PROVE  Sees(w, own, n, 1, o) <=> Sees(w, own, n, 0, o)
<1>1. DOMAIN w \subseteq Nat \ {0} /\ 1 \in DOMAIN w
  BY TailFacts
<1>2. \A j \in DOMAIN w : j > 0 => j = 1 \/ j > 1
  BY <1>1
<1>3. \A j \in DOMAIN w : j > 1 => j > 0
  BY <1>1
<1>4. \A k \in DOMAIN w : 1 < k => 0 < k
  BY <1>1
<1>. QED  BY <1>1, <1>2, <1>3, <1>4 DEF Sees

-----------------------------------------------------------------------------
(* Counting.                                                                 *)

Requests == {Call, Unused} \cup {GetOwner(n) : n \in Names}

Pending(r) == {s \in Serials : r[s] # Unused}

LEMMA RequestKinds ==
    /\ Call # Unused
    /\ \A n : GetOwner(n) # Unused /\ GetOwner(n) # Call
    /\ \A n, m : GetOwner(n) = GetOwner(m) => n = m
    /\ \A n : GetOwner(n).kind = "owner" /\ GetOwner(n).name = n
    /\ Call.kind = "call" /\ Unused.kind = "none"
  BY DEF Call, Unused, GetOwner

LEMMA PendingFinite ==
    ASSUME NEW r
    PROVE  IsFiniteSet(Pending(r)) /\ Cardinality(Pending(r)) \in Nat
<1>1. IsFiniteSet(Pending(r))
  BY FS_Subset, DBusAssumption DEF Pending
<1>. QED  BY <1>1, FS_CardinalityType

LEMMA PendingAdd ==
    ASSUME NEW r \in [Serials -> Requests], NEW s \in Serials, r[s] = Unused,
           NEW req \in Requests, req # Unused
    PROVE  Cardinality(Pending([r EXCEPT ![s] = req])) = Cardinality(Pending(r)) + 1
<1>1. Pending([r EXCEPT ![s] = req]) = Pending(r) \cup {s} /\ s \notin Pending(r)
  BY DEF Pending
<1>. QED  BY <1>1, PendingFinite, FS_AddElement

LEMMA PendingRemove ==
    ASSUME NEW r \in [Serials -> Requests], NEW s \in Serials, r[s] # Unused
    PROVE  /\ Cardinality(Pending([r EXCEPT ![s] = Unused])) = Cardinality(Pending(r)) - 1
           /\ Cardinality(Pending(r)) >= 1
<1>1. Unused \in Requests
  BY DEF Requests
<1>2. Pending([r EXCEPT ![s] = Unused]) = Pending(r) \ {s} /\ s \in Pending(r)
  BY <1>1 DEF Pending
<1>3. Cardinality(Pending(r) \ {s}) = Cardinality(Pending(r)) - 1
  BY <1>2, PendingFinite, FS_RemoveElement
<1>4. Cardinality(Pending(r)) \in Nat /\ Cardinality(Pending(r) \ {s}) \in Nat
  BY <1>2, PendingFinite
<1>5. Cardinality(Pending(r)) >= 1
  BY <1>3, <1>4
<1>. QED  BY <1>2, <1>3, <1>5

LEMMA ListenersAdd ==
    ASSUME NEW K \in SUBSET Names, NEW n \in Names, n \notin K
    PROVE  Cardinality(K \cup {n}) = Cardinality(K) + 1
<1>1. IsFiniteSet(K)
  BY FS_Subset, DBusAssumption
<1>. QED  BY <1>1, FS_AddElement

LEMMA ListenersRemove ==
    ASSUME NEW K \in SUBSET Names, NEW n \in K
    PROVE  Cardinality(K \ {n}) = Cardinality(K) - 1 /\ Cardinality(K) >= 1
<1>1. IsFiniteSet(K) /\ IsFiniteSet(K \ {n})
  BY FS_Subset, DBusAssumption
<1>2. Cardinality(K \ {n}) = Cardinality(K) - 1
  BY <1>1, FS_RemoveElement
<1>3. Cardinality(K) \in Nat /\ Cardinality(K \ {n}) \in Nat
  BY <1>1, FS_CardinalityType
<1>. QED  BY <1>2, <1>3

LEMMA ListenersFinite ==
    ASSUME NEW K \in SUBSET Names
    PROVE  Cardinality(K) \in Nat
  BY FS_Subset, FS_CardinalityType, DBusAssumption

(* What the connection awaits is counted in nsignals.                        *)
Counted(c, ns, wd, r, k) ==
    /\ wd <=> (c = "open" /\ ns > 0)
    /\ c = "open" => ns = Cardinality(Pending(r)) + Cardinality(k)

LEMMA WatchedIsCounted ==
    WatchedWhileAwaited <=> Counted(conn, nsignals, watched, requests, keepAlive)
  BY DEF WatchedWhileAwaited, Counted, Pending

LEMMA CountUp ==
    ASSUME nsignals \in Nat, watched \in BOOLEAN, conn = "open",
           watched <=> (conn = "open" /\ nsignals > 0), NsignalInc
    PROVE  /\ nsignals' \in Nat /\ watched' \in BOOLEAN
           /\ nsignals' = nsignals + 1 /\ (watched' <=> nsignals' > 0)
<1>1. nsignals' = nsignals + 1 /\ watched' = (watched \/ nsignals = 0)
  BY DEF NsignalInc
<1>2. nsignals' \in Nat /\ nsignals' > 0 /\ (nsignals > 0 \/ nsignals = 0)
  BY <1>1
<1>3. watched'
  BY <1>1, <1>2, Zenon
<1>4. watched' \in BOOLEAN
  BY <1>1, Zenon
<1>. QED  BY <1>1, <1>2, <1>3, <1>4

LEMMA CountDown ==
    ASSUME nsignals \in Nat, watched \in BOOLEAN, conn = "open", nsignals >= 1,
           watched <=> (conn = "open" /\ nsignals > 0), NsignalDec
    PROVE  /\ nsignals' \in Nat /\ watched' \in BOOLEAN
           /\ nsignals' = nsignals - 1 /\ (watched' <=> nsignals' > 0)
<1>1. nsignals' = nsignals - 1 /\ watched' = (watched /\ nsignals # 1)
  BY DEF NsignalDec
<1>2. nsignals' \in Nat /\ nsignals > 0 /\ (nsignals' > 0 <=> nsignals # 1)
  BY <1>1
<1>3. watched' <=> nsignals' > 0
  BY <1>1, <1>2, Zenon
<1>4. watched' \in BOOLEAN
  BY <1>1, Zenon
<1>. QED  BY <1>1, <1>2, <1>3, <1>4

-----------------------------------------------------------------------------
(* The caches.                                                               *)

LEMMA CachesFacts ==
    ASSUME NEW l \in SUBSET Names, NEW d \in [Names -> Owners],
           NEW p \in [Peers -> SUBSET Names], Caches(l, d, p)
    PROVE  /\ live' = l
           /\ dirOwner' \in [Names -> Owners]
           /\ peerNames' \in [Peers -> SUBSET Names]
           /\ \A n \in l : dirOwner'[n] = d[n]
           /\ \A S \in SUBSET l :
                 (\A x \in Peers, n \in S : n \in p[x] <=> d[n] = x) =>
                    Filed(l, S, dirOwner', peerNames')
<1>. DEFINE owners == [n \in Names |-> IF n \in l THEN d[n] ELSE None]
<1>1. /\ live' = l /\ dirOwner' = owners
      /\ peerNames' = [x \in Peers |-> IF \E n \in l : owners[n] = x THEN p[x] \cap l ELSE {}]
  BY DEF Caches
<1>2. /\ owners \in [Names -> Owners]
      /\ \A n \in Names : owners[n] = IF n \in l THEN d[n] ELSE None
  BY DEF Owners
<1>. HIDE DEF owners
<1>3. peerNames' \in [Peers -> SUBSET Names]
  BY <1>1
<1>4. ASSUME NEW S \in SUBSET l,
             \A x \in Peers, n \in S : n \in p[x] <=> d[n] = x,
             NEW x \in Peers, NEW n \in S
      PROVE  n \in peerNames'[x] <=> owners[n] = x
  <2>1. n \in l /\ n \in Names /\ owners[n] = d[n]
    BY <1>2
  <2>2. n \in peerNames'[x] <=> (\E m \in l : owners[m] = x) /\ n \in p[x]
    BY <1>1, <2>1
  <2>. QED  BY <1>4, <2>1, <2>2
<1>5. \A n \in Names : n \notin l => owners[n] = None /\ \A x \in Peers : n \notin peerNames'[x]
  BY <1>1, <1>2
<1>6. ASSUME NEW S \in SUBSET l,
             \A x \in Peers, n \in S : n \in p[x] <=> d[n] = x
      PROVE  Filed(l, S, dirOwner', peerNames')
  BY <1>1, <1>4, <1>5, <1>6 DEF Filed
<1>. QED  BY <1>1, <1>2, <1>3, <1>6

LEMMA DropFacts ==
    ASSUME live \subseteq Names, dirOwner \in [Names -> Owners],
           peerNames \in [Peers -> SUBSET Names],
           NEW u, NEW k, NEW r, NEW q, AfterDrop(u, k, r, q, dirOwner, peerNames)
    PROVE  /\ live' = {n \in live : Held(n, u, k, r, q)}
           /\ dirOwner' \in [Names -> Owners]
           /\ peerNames' \in [Peers -> SUBSET Names]
           /\ \A n \in live' : dirOwner'[n] = dirOwner[n]
           /\ Filed(live, live \ desynced, dirOwner, peerNames) =>
                 Filed(live', live' \ desynced', dirOwner', peerNames')
           /\ u \cap live \subseteq live' /\ k \cap live \subseteq live'
           /\ \A n \in live : Asked(n, r, q) => n \in live'
           /\ live' \ desynced' \subseteq live \ desynced
           /\ desynced' \subseteq desynced
<1>. DEFINE l == {n \in live : Held(n, u, k, r, q)}
            S == l \ desynced
<1>1. Caches(l, dirOwner, peerNames) /\ desynced' = desynced \cap live'
  BY DEF AfterDrop
<1>2. l \in SUBSET Names /\ S \in SUBSET l /\ S \subseteq live \ desynced
  OBVIOUS
<1>3. Filed(live, live \ desynced, dirOwner, peerNames) =>
        \A x \in Peers, n \in S : n \in peerNames[x] <=> dirOwner[n] = x
  BY <1>2 DEF Filed
<1>4. u \cap live \subseteq l /\ k \cap live \subseteq l /\ \A n \in live : Asked(n, r, q) => n \in l
  BY DEF Held, Asked
<1>5. l = {n \in live : Held(n, u, k, r, q)} /\ S = l \ desynced
  OBVIOUS
<1>. HIDE DEF l, S
<1>6. /\ live' = l
      /\ dirOwner' \in [Names -> Owners]
      /\ peerNames' \in [Peers -> SUBSET Names]
      /\ \A n \in l : dirOwner'[n] = dirOwner[n]
      /\ Filed(live, live \ desynced, dirOwner, peerNames) => Filed(l, S, dirOwner', peerNames')
  BY <1>1, <1>2, <1>3, CachesFacts
<1>7. live' \ desynced' = S
  BY <1>1, <1>5, <1>6
<1>. QED  BY <1>1, <1>2, <1>4, <1>5, <1>6, <1>7

LEMMA MoveFacts ==
    ASSUME NEW n \in Names, NEW old, NEW new \in Owners,
           NEW l \in SUBSET Names, NEW d \in [Names -> Owners],
           NEW p \in [Peers -> SUBSET Names],
           NameChanged(n, old, new, l, d, p)
    PROVE  /\ live' = l
           /\ dirOwner' \in [Names -> Owners]
           /\ peerNames' \in [Peers -> SUBSET Names]
           /\ \A m \in l : dirOwner'[m] = IF m = n THEN new ELSE d[m]
           /\ \A S \in SUBSET l :
                 (\A x \in Peers, m \in S : m \in p[x] <=> d[m] = x) =>
                    ((d[n] # None /\ n \in S => d[n] = old) => Filed(l, S, dirOwner', peerNames'))
<1>. SUFFICES ASSUME NEW S \in SUBSET l
    PROVE  /\ live' = l
           /\ dirOwner' \in [Names -> Owners]
           /\ peerNames' \in [Peers -> SUBSET Names]
           /\ \A m \in l : dirOwner'[m] = IF m = n THEN new ELSE d[m]
           /\ (\A x \in Peers, m \in S : m \in p[x] <=> d[m] = x) =>
                 ((d[n] # None /\ n \in S => d[n] = old) => Filed(l, S, dirOwner', peerNames'))
  <2>1. {} \in SUBSET l
    OBVIOUS
  <2>. QED  BY <2>1
<1>. DEFINE left == [x \in Peers |-> IF x = old THEN p[x] \ {n} ELSE p[x]]
            Right == /\ \A x \in Peers, m \in S : m \in p[x] <=> d[m] = x
                     /\ d[n] # None /\ n \in S => d[n] = old
<1>1. /\ left \in [Peers -> SUBSET Names]
      /\ \A x \in Peers : left[x] = IF x = old THEN p[x] \ {n} ELSE p[x]
  OBVIOUS
<1>2. Right => \A x \in Peers, m \in S : m # n => (m \in left[x] <=> d[m] = x)
  BY <1>1
<1>3. Right => (n \in S => \A x \in Peers : n \notin left[x])
  BY <1>1, DBusAssumption
<1>4. None \in Owners /\ None \notin Peers
  BY DBusAssumption DEF Owners
<1>. HIDE DEF Right
<1>5. CASE n \notin l \/ new = None
  <2>. DEFINE e == [d EXCEPT ![n] = None]
  <2>1. Caches(l, e, left)
    BY <1>5 DEF NameChanged
  <2>2. e \in [Names -> Owners] /\ e[n] = None /\ (\A m \in Names : m # n => e[m] = d[m])
    BY <1>4
  <2>. HIDE DEF left, e
  <2>3. ASSUME Right, NEW x \in Peers, NEW m \in S
        PROVE  m \in left[x] <=> e[m] = x
    <3>1. CASE m = n
      BY <1>3, <1>4, <2>2, <2>3, <3>1
    <3>2. CASE m # n
      BY <1>2, <2>2, <2>3, <3>2
    <3>. QED  BY <3>1, <3>2
  <2>4. /\ live' = l
        /\ dirOwner' \in [Names -> Owners]
        /\ peerNames' \in [Peers -> SUBSET Names]
        /\ \A m \in l : dirOwner'[m] = e[m]
        /\ \A T \in SUBSET l :
              (\A x \in Peers, m \in T : m \in left[x] <=> e[m] = x) =>
                 Filed(l, T, dirOwner', peerNames')
    BY <1>1, <2>1, <2>2, CachesFacts
  <2>5. \A m \in l : e[m] = IF m = n THEN new ELSE d[m]
    BY <1>5, <2>2
  <2>6. Right => Filed(l, S, dirOwner', peerNames')
    BY <2>3, <2>4
  <2>. QED  BY <2>4, <2>5, <2>6 DEF Right
<1>6. CASE n \in l /\ new # None
  <2>. DEFINE e == [d EXCEPT ![n] = new]
              f == [left EXCEPT ![new] = @ \cup {n}]
  <2>1. Caches(l, e, f)
    BY <1>6 DEF NameChanged
  <2>2. new \in Peers
    BY <1>6 DEF Owners
  <2>3. e \in [Names -> Owners] /\ e[n] = new /\ (\A m \in Names : m # n => e[m] = d[m])
    OBVIOUS
  <2>. HIDE DEF left, e
  <2>4. f \in [Peers -> SUBSET Names]
    BY <1>1, <2>2
  <2>5. f[new] = left[new] \cup {n} /\ (\A x \in Peers : x # new => f[x] = left[x])
    BY <1>1, <2>2
  <2>. HIDE DEF f
  <2>6. ASSUME Right, NEW x \in Peers, NEW m \in S
        PROVE  m \in f[x] <=> e[m] = x
    <3>1. CASE m = n /\ x = new
      BY <2>3, <2>5, <3>1
    <3>2. CASE m = n /\ x # new
      BY <1>3, <1>6, <2>3, <2>5, <2>6, <3>2
    <3>3. CASE m # n /\ x = new
      BY <1>2, <2>3, <2>5, <2>6, <3>3
    <3>4. CASE m # n /\ x # new
      BY <1>2, <2>3, <2>5, <2>6, <3>4
    <3>. QED  BY <3>1, <3>2, <3>3, <3>4
  <2>7. /\ live' = l
        /\ dirOwner' \in [Names -> Owners]
        /\ peerNames' \in [Peers -> SUBSET Names]
        /\ \A m \in l : dirOwner'[m] = e[m]
        /\ \A T \in SUBSET l :
              (\A x \in Peers, m \in T : m \in f[x] <=> e[m] = x) =>
                 Filed(l, T, dirOwner', peerNames')
    BY <2>1, <2>3, <2>4, CachesFacts
  <2>8. \A m \in l : e[m] = IF m = n THEN new ELSE d[m]
    BY <2>3
  <2>9. Right => Filed(l, S, dirOwner', peerNames')
    BY <2>6, <2>7
  <2>. QED  BY <2>7, <2>8, <2>9 DEF Right
<1>. QED  BY <1>5, <1>6

-----------------------------------------------------------------------------
(* How the wire, the requests and the directories stay in step.              *)

Answers == [name : Names, owner : Peers]

(* Objects that go take their directories with them.                         *)
LEMMA ObjectsGo ==
    ASSUME NEW w, NEW own, NEW l, NEW d, NEW r, NEW q, InStep(w, own, l, d, r, q),
           NEW m \in SUBSET l, NEW e, \A n \in m : e[n] = d[n]
    PROVE  InStep(w, own, m, e, r, q)
<1>1. \A n \in m : UpToDate(w, own, n, e, r, q)
  <2>1. SUFFICES ASSUME NEW n \in m PROVE UpToDate(w, own, n, e, r, q)
    OBVIOUS
  <2>2. UpToDate(w, own, n, d, r, q) /\ e[n] = d[n]
    BY DEF InStep
  <2>. QED  BY <2>2 DEF UpToDate
<1>2. AnswersCurrent(w, own, m, q)
  BY DEF InStep, AnswersCurrent
<1>. QED  BY <1>1, <1>2 DEF InStep

(* A request takes a serial number that no reply on the wire has.            *)
LEMMA RequestSent ==
    ASSUME NEW w, NEW own, NEW l, NEW d, NEW r \in [Serials -> Requests], NEW q,
           InStep(w, own, l, d, r, q),
           NEW s \in Serials, r[s] = Unused, NEW req \in Requests,
           \A i \in DOMAIN w : w[i].type = "reply" => w[i].serial # s /\ w[i].serial \in Serials
    PROVE  InStep(w, own, l, d, [r EXCEPT ![s] = req], q)
<1>. DEFINE t == [r EXCEPT ![s] = req]
<1>1. \A z \in Serials : z # s => t[z] = r[z]
  OBVIOUS
<1>. HIDE DEF t
<1>2. WireTruthful(w, own, t)
  <2>1. SUFFICES ASSUME NEW i \in DOMAIN w PROVE Truthful(w, own, t, i)
    BY DEF WireTruthful
  <2>2. Truthful(w, own, r, i)
    BY DEF InStep, WireTruthful
  <2>3. w[i].type = "reply" => t[w[i].serial] = r[w[i].serial]
    BY <1>1
  <2>. QED  BY <2>2, <2>3 DEF Truthful
<1>3. ASSUME NEW n \in l
      PROVE  UpToDate(w, own, n, d, t, q)
  <2>1. UpToDate(w, own, n, d, r, q)
    BY DEF InStep
  <2>2. Asked(n, r, q) => Asked(n, t, q)
    BY <1>1, RequestKinds DEF Asked
  <2>. QED  BY <2>1, <2>2 DEF UpToDate
<1>. QED  BY <1>2, <1>3 DEF InStep, t

(* The oldest message is read.                                               *)
LEMMA WireRead ==
    ASSUME NEW w \in Seq(Messages), w # <<>>, NEW own, NEW r, NEW t,
           WireTruthful(w, own, r),
           \A s \in Serials, n \in Names : t[s] = GetOwner(n) => r[s] = GetOwner(n)
    PROVE  WireTruthful(Tail(w), own, t)
<1>1. SUFFICES ASSUME NEW i \in DOMAIN Tail(w)
               PROVE  Truthful(Tail(w), own, t, i)
  BY DEF WireTruthful
<1>2. i \in Nat /\ i + 1 \in DOMAIN w /\ Tail(w)[i] = w[i + 1] /\ w[i + 1] \in Messages
  BY TailFacts
<1>3. Truthful(w, own, r, i + 1)
  BY <1>2 DEF WireTruthful
<1>4. \A n, o : Sees(Tail(w), own, n, i, o) <=> Sees(w, own, n, i + 1, o)
  BY <1>2, SeesTail
<1>5. w[i + 1].type = "reply" => w[i + 1].serial \in Serials
  BY <1>2, MessageFields
<1>6. w[i + 1].type = "changed" => Sees(Tail(w), own, w[i + 1].name, i, w[i + 1].new)
  BY <1>3, <1>4 DEF Truthful
<1>7. w[i + 1].type = "reply" =>
          \A n \in Names : t[w[i + 1].serial] = GetOwner(n) =>
             Sees(Tail(w), own, n, i, w[i + 1].owner)
  BY <1>3, <1>4, <1>5 DEF Truthful
<1>8. w[i + 1].type = "signal" =>
          \A n \in Names : n \in w[i + 1].names <=> Sees(Tail(w), own, n, i, w[i + 1].from)
  BY <1>3, <1>4 DEF Truthful
<1>. QED  BY <1>2, <1>6, <1>7, <1>8 DEF Truthful

(* A directory that the message read is not about stays up to date.          *)
LEMMA ReadPast ==
    ASSUME NEW w \in Seq(Messages), w # <<>>, NEW own, NEW n, ~Changes(w[1], n)
    PROVE  \A o : Sees(Tail(w), own, n, 0, o) <=> Sees(w, own, n, 0, o)
<1>1. \A o : Sees(Tail(w), own, n, 0, o) <=> Sees(w, own, n, 0 + 1, o)
  BY SeesTail
<1>2. \A o : Sees(w, own, n, 1, o) <=> Sees(w, own, n, 0, o)
  BY SeesSkip
<1>. QED  BY <1>1, <1>2

(* The daemon sends a message that tells the truth.                          *)
LEMMA MessageSent ==
    ASSUME NEW w \in Seq(Messages), NEW own, NEW own2, NEW l \in SUBSET Names, NEW d, NEW r,
           NEW q, InStep(w, own, l, d, r, q),
           NEW msg \in Messages, \A n \in Names : Continues(msg, own, own2, n),
           Truthful(Append(w, msg), own2, r, Len(w) + 1)
    PROVE  InStep(Append(w, msg), own2, l, d, r, q)
<1>. DEFINE t == Append(w, msg)
<1>1. /\ Len(w) \in Nat /\ DOMAIN w = 1 .. Len(w) /\ DOMAIN t = 1 .. Len(w) + 1
      /\ \A i \in 1 .. Len(w) : t[i] = w[i]
  BY AppendFacts
<1>2. \A n \in Names, i \in 0 .. Len(w) : \A o : Sees(t, own2, n, i, o) <=> Sees(w, own, n, i, o)
  BY SeesAppend
<1>3. Truthful(t, own2, r, Len(w) + 1)
  OBVIOUS
<1>4. 0 \in 0 .. Len(w)
  BY <1>1
<1>. HIDE DEF t
<1>5. WireTruthful(t, own2, r)
  <2>1. SUFFICES ASSUME NEW i \in DOMAIN t, i # Len(w) + 1 PROVE Truthful(t, own2, r, i)
    BY <1>3 DEF WireTruthful
  <2>2. i \in DOMAIN w /\ i \in 0 .. Len(w) /\ t[i] = w[i] /\ w[i] \in Messages
    BY <1>1, <2>1
  <2>3. Truthful(w, own, r, i)
    BY <2>2 DEF InStep, WireTruthful
  <2>4. w[i].type = "changed" => w[i].name \in Names
    BY <2>2, MessageFields
  <2>5. w[i].type = "changed" => Sees(t, own2, w[i].name, i, w[i].new)
    BY <1>2, <2>2, <2>3, <2>4 DEF Truthful
  <2>6. w[i].type = "reply" =>
            \A n \in Names : r[w[i].serial] = GetOwner(n) => Sees(t, own2, n, i, w[i].owner)
    BY <1>2, <2>2, <2>3 DEF Truthful
  <2>7. w[i].type = "signal" =>
            \A n \in Names : n \in w[i].names <=> Sees(t, own2, n, i, w[i].from)
    BY <1>2, <2>2, <2>3 DEF Truthful
  <2>. QED  BY <2>2, <2>5, <2>6, <2>7 DEF Truthful
<1>6. ASSUME NEW n \in l
      PROVE  UpToDate(t, own2, n, d, r, q)
  <2>1. UpToDate(w, own, n, d, r, q)
    BY DEF InStep
  <2>2. \A o : Sees(t, own2, n, 0, o) <=> Sees(w, own, n, 0, o)
    BY <1>2, <1>4
  <2>. QED  BY <2>1, <2>2 DEF UpToDate
<1>7. AnswersCurrent(t, own2, l, q)
  BY <1>2, <1>4 DEF InStep, AnswersCurrent
<1>. QED  BY <1>5, <1>6, <1>7 DEF InStep, t

-----------------------------------------------------------------------------
(* The operations of user code.                                              *)

LEMMA Types ==
    TypeOK <=>
      /\ owner \in [Names -> Owners] /\ unanswered \subseteq Serials
      /\ Len(wire) <= MaxWire /\ link \in {"up", "down"}
      /\ conn \in {"open", "shutdown", "closed"} /\ userConn \in BOOLEAN
      /\ nsignals \in Nat /\ watched \in BOOLEAN /\ rules \subseteq Names
      /\ live \subseteq Names /\ user \subseteq Names /\ keepAlive \subseteq Names
      /\ dirOwner \in [Names -> Owners]
      /\ peerNames \in [Peers -> SUBSET Names]
      /\ requests \in [Serials -> Requests]
      /\ queue \in Seq(Answers)
      /\ nread \in 0 .. Len(wire) /\ inHandler \in BOOLEAN /\ desynced \subseteq Names
  BY DEF TypeOK, Owners, Requests, Answers

LEMMA TypesPrime ==
    TypeOK' <=>
      /\ owner' \in [Names -> Owners] /\ unanswered' \subseteq Serials
      /\ Len(wire') <= MaxWire /\ link' \in {"up", "down"}
      /\ conn' \in {"open", "shutdown", "closed"} /\ userConn' \in BOOLEAN
      /\ nsignals' \in Nat /\ watched' \in BOOLEAN /\ rules' \subseteq Names
      /\ live' \subseteq Names /\ user' \subseteq Names /\ keepAlive' \subseteq Names
      /\ dirOwner' \in [Names -> Owners]
      /\ peerNames' \in [Peers -> SUBSET Names]
      /\ requests' \in [Serials -> Requests]
      /\ queue' \in Seq(Answers)
      /\ nread' \in 0 .. Len(wire') /\ inHandler' \in BOOLEAN /\ desynced' \subseteq Names
  BY DEF TypeOK, Owners, Requests, Answers

LEMMA WatchedIsCountedPrime ==
    WatchedWhileAwaited' <=> Counted(conn', nsignals', watched', requests', keepAlive')
  BY DEF WatchedWhileAwaited, Counted, Pending

(* A request is sent: it is counted, and the wire has no reply to it.        *)
LEMMA Sends ==
    ASSUME Inv, conn = "open", conn' = conn, keepAlive' = keepAlive,
           NEW s \in Serials, NEW req \in Requests, req # Unused, SendRequest(s, req)
    PROVE  /\ requests' \in [Serials -> Requests]
           /\ requests'[s] = req
           /\ unanswered' \subseteq Serials
           /\ nsignals' \in Nat /\ watched' \in BOOLEAN
           /\ WatchedWhileAwaited'
           /\ \A n : Asked(n, requests', queue) => Asked(n, requests, queue) \/ req = GetOwner(n)
           /\ \A l, d : link = "up" /\ InStep(wire, owner, l, d, requests, queue) =>
                 InStep(wire, owner, l, d, requests', queue)
<1>1. /\ requests \in [Serials -> Requests] /\ nsignals \in Nat /\ watched \in BOOLEAN
      /\ keepAlive \in SUBSET Names /\ unanswered \subseteq Serials
      /\ wire \in Seq(Messages)
      /\ Counted(conn, nsignals, watched, requests, keepAlive)
  BY Types, WatchedIsCounted DEF Inv
<1>2. /\ requests[s] = Unused /\ requests' = [requests EXCEPT ![s] = req]
      /\ unanswered' = unanswered \cup {s} /\ NsignalInc
      /\ \A i \in DOMAIN wire : wire[i].type = "reply" => wire[i].serial # s
  BY DEF SendRequest, FreeSerial
<1>3. /\ nsignals' \in Nat /\ watched' \in BOOLEAN
      /\ nsignals' = nsignals + 1 /\ (watched' <=> nsignals' > 0)
  BY <1>1, <1>2, CountUp DEF Counted
<1>4. Cardinality(Pending(requests')) = Cardinality(Pending(requests)) + 1
  BY <1>1, <1>2, PendingAdd
<1>5. Cardinality(Pending(requests)) \in Nat /\ Cardinality(keepAlive) \in Nat
  BY <1>1, PendingFinite, ListenersFinite
<1>6. nsignals' = Cardinality(Pending(requests')) + Cardinality(keepAlive')
  BY <1>1, <1>3, <1>4, <1>5 DEF Counted
<1>7. WatchedWhileAwaited'
  BY <1>3, <1>6, WatchedIsCountedPrime DEF Counted
<1>8. \A i \in DOMAIN wire : wire[i].type = "reply" =>
          wire[i].serial # s /\ wire[i].serial \in Serials
  <2>1. \A i \in DOMAIN wire : wire[i] \in Messages
    BY <1>1
  <2>. QED  BY <1>2, <2>1, MessageFields
<1>9. ASSUME NEW l, NEW d, InStep(wire, owner, l, d, requests, queue)
      PROVE  InStep(wire, owner, l, d, requests', queue)
  BY <1>1, <1>2, <1>8, <1>9, RequestSent
<1>10. \A n : Asked(n, requests', queue) => Asked(n, requests, queue) \/ req = GetOwner(n)
  BY <1>1, <1>2 DEF Asked
<1>. QED  BY <1>1, <1>2, <1>3, <1>7, <1>9, <1>10

LEMMA KeepsGetObject ==
    ASSUME Inv, NEW n \in Names, GetObject(n)
    PROVE  Inv'
<1>1. /\ conn = "open" /\ link = "up" /\ user' = user \cup {n}
      /\ UNCHANGED <<owner, wire, link, conn, userConn, rules, keepAlive, queue, nread, inHandler,
                     desynced>>
  BY DEF GetObject, connVars, loopVars
<1>2. CASE n \in live /\ UNCHANGED <<cacheVars, requests, unanswered, watchVars>>
  <2>1. UNCHANGED <<live, dirOwner, peerNames, requests, unanswered, nsignals, watched>>
    BY <1>2 DEF cacheVars, watchVars
  <2>2. TypeOK'
    BY <1>1, <2>1, Types, TypesPrime DEF Inv
  <2>3. WatchedWhileAwaited'
    BY <1>1, <2>1, WatchedIsCounted, WatchedIsCountedPrime DEF Inv
  <2>4. Alive'
    BY <1>1, <1>2, <2>1 DEF Inv, Alive
  <2>. QED  BY <1>1, <2>1, <2>2, <2>3, <2>4
            DEF Inv, LoopOpen, InLoop, DirectoriesFiled, Synchronised
<1>3. CASE /\ n \notin live
           /\ \E s \in Serials : SendRequest(s, GetOwner(n))
           /\ live' = live \cup {n}
           /\ UNCHANGED <<dirOwner, peerNames>>
  <2>1. PICK s \in Serials : SendRequest(s, GetOwner(n))
    BY <1>3
  <2>2. GetOwner(n) \in Requests /\ GetOwner(n) # Unused
    BY RequestKinds DEF Requests
  <2>3. /\ requests' \in [Serials -> Requests]
        /\ requests'[s] = GetOwner(n)
        /\ unanswered' \subseteq Serials
        /\ nsignals' \in Nat /\ watched' \in BOOLEAN
        /\ WatchedWhileAwaited'
        /\ \A m : Asked(m, requests', queue) => Asked(m, requests, queue) \/ GetOwner(n) = GetOwner(m)
        /\ InStep(wire, owner, live \ desynced, dirOwner, requests, queue) =>
              InStep(wire, owner, live \ desynced, dirOwner, requests', queue)
    BY <1>1, <2>1, <2>2, Sends
  <2>4. TypeOK'
    BY <1>1, <1>3, <2>3, Types, TypesPrime DEF Inv
  <2>5. Alive'
    <3>1. \A m \in Names : Asked(m, requests', queue') => m \in live'
      BY <1>1, <1>3, <2>3, RequestKinds DEF Inv, Alive
    <3>. QED  BY <1>1, <1>3, <3>1 DEF Inv, Alive
  <2>6. /\ dirOwner[n] = None /\ None \notin Peers
        /\ Filed(live, live \ desynced, dirOwner, peerNames)
        /\ \A x \in Peers : n \notin peerNames[x]
    BY <1>1, <1>3, DBusAssumption DEF Inv, DirectoriesFiled, Filed
  <2>7. DirectoriesFiled'
    <3>1. Filed(live', live' \ desynced, dirOwner, peerNames)
      BY <1>3, <2>6 DEF Filed
    <3>. QED  BY <1>1, <1>3, <3>1 DEF DirectoriesFiled
  <2>8. InStep(wire, owner, live' \ desynced, dirOwner, requests', queue)
    <3>1. InStep(wire, owner, live \ desynced, dirOwner, requests', queue)
      BY <1>1, <2>3 DEF Inv, Synchronised
    <3>2. UpToDate(wire, owner, n, dirOwner, requests', queue)
      <4>1. Asked(n, requests', queue)
        BY <2>3 DEF Asked
      <4>. QED  BY <2>6, <4>1 DEF UpToDate
    <3>3. \A i \in DOMAIN queue : queue[i].name # n
      BY <1>3 DEF Inv, Alive, Asked
    <3>4. \A m \in live' \ desynced : UpToDate(wire, owner, m, dirOwner, requests', queue)
      BY <1>3, <3>1, <3>2 DEF InStep
    <3>5. AnswersCurrent(wire, owner, live' \ desynced, queue)
      BY <1>3, <3>1, <3>3 DEF InStep, AnswersCurrent
    <3>. QED  BY <3>1, <3>4, <3>5 DEF InStep
  <2>9. Synchronised'
    BY <1>1, <1>3, <2>8 DEF Synchronised
  <2>. QED  BY <1>1, <2>3, <2>4, <2>5, <2>7, <2>9 DEF Inv, LoopOpen, InLoop
<1>. QED  BY <1>2, <1>3 DEF GetObject

LEMMA KeepsCallMethod ==
    ASSUME Inv, NEW n \in Names, CallMethod(n)
    PROVE  Inv'
<1>1. /\ conn = "open"
      /\ UNCHANGED <<owner, wire, link, conn, userConn, rules, live, dirOwner, peerNames, user,
                     keepAlive, queue, nread, inHandler, desynced>>
  BY DEF CallMethod, connVars, cacheVars, loopVars
<1>2. PICK s \in Serials : SendRequest(s, Call)
  BY DEF CallMethod
<1>3. Call \in Requests /\ Call # Unused
  BY RequestKinds DEF Requests
<1>4. /\ requests' \in [Serials -> Requests]
      /\ unanswered' \subseteq Serials
      /\ nsignals' \in Nat /\ watched' \in BOOLEAN
      /\ WatchedWhileAwaited'
      /\ \A m : Asked(m, requests', queue) => Asked(m, requests, queue) \/ Call = GetOwner(m)
      /\ link = "up" /\ InStep(wire, owner, live \ desynced, dirOwner, requests, queue) =>
            InStep(wire, owner, live \ desynced, dirOwner, requests', queue)
  BY <1>1, <1>2, <1>3, Sends
<1>5. TypeOK'
  BY <1>1, <1>4, Types, TypesPrime DEF Inv
<1>6. Alive'
  BY <1>1, <1>4, RequestKinds DEF Inv, Alive
<1>7. Synchronised'
  BY <1>1, <1>4 DEF Inv, Synchronised
<1>. QED  BY <1>1, <1>4, <1>5, <1>6, <1>7 DEF Inv, LoopOpen, InLoop, DirectoriesFiled

LEMMA KeepsNewSignal ==
    ASSUME Inv, NEW n \in Names, NewSignal(n)
    PROVE  Inv'
<1>1. /\ conn = "open" /\ n \in user \ keepAlive /\ NsignalInc
      /\ keepAlive' = keepAlive \cup {n}
      /\ rules' = IF link = "up" THEN rules \cup {n} ELSE rules
      /\ UNCHANGED <<owner, unanswered, wire, link, conn, userConn, live, dirOwner, peerNames,
                     user, requests, queue, nread, inHandler, desynced>>
  BY DEF NewSignal, daemonVars, connVars, cacheVars, loopVars
<1>2. /\ nsignals \in Nat /\ watched \in BOOLEAN /\ keepAlive \in SUBSET Names
      /\ Counted(conn, nsignals, watched, requests, keepAlive)
  BY Types, WatchedIsCounted DEF Inv
<1>3. /\ nsignals' \in Nat /\ watched' \in BOOLEAN
      /\ nsignals' = nsignals + 1 /\ (watched' <=> nsignals' > 0)
  BY <1>1, <1>2, CountUp DEF Counted
<1>4. Cardinality(keepAlive') = Cardinality(keepAlive) + 1
  BY <1>1, <1>2, ListenersAdd
<1>5. Cardinality(Pending(requests)) \in Nat /\ Cardinality(keepAlive) \in Nat
  BY <1>2, PendingFinite, ListenersFinite
<1>6. nsignals' = Cardinality(Pending(requests')) + Cardinality(keepAlive')
  BY <1>1, <1>2, <1>3, <1>4, <1>5 DEF Counted
<1>7. WatchedWhileAwaited'
  BY <1>1, <1>3, <1>6, WatchedIsCountedPrime DEF Counted
<1>8. TypeOK'
  <2>1. rules' \subseteq Names /\ keepAlive' \subseteq Names
    BY <1>1, <1>2, Types DEF Inv
  <2>. QED  BY <1>1, <1>3, <2>1, Types, TypesPrime DEF Inv
<1>9. Alive'
  BY <1>1 DEF Inv, Alive
<1>. QED  BY <1>1, <1>7, <1>8, <1>9 DEF Inv, LoopOpen, InLoop, DirectoriesFiled, Synchronised

(* Objects that nothing holds go; what is in step stays so.                  *)
LEMMA Drops ==
    ASSUME Inv, UNCHANGED <<owner, wire, link, requests, queue>>,
           NEW u, NEW k, u \subseteq user, k \subseteq keepAlive,
           user' = u, keepAlive' = k,
           AfterDrop(u, k, requests, queue, dirOwner, peerNames)
    PROVE  /\ live' \subseteq Names
           /\ dirOwner' \in [Names -> Owners]
           /\ peerNames' \in [Peers -> SUBSET Names]
           /\ desynced' \subseteq Names
           /\ DirectoriesFiled'
           /\ Alive'
           /\ Synchronised'
<1>1. /\ live \subseteq Names /\ dirOwner \in [Names -> Owners]
      /\ peerNames \in [Peers -> SUBSET Names] /\ desynced \subseteq Names
      /\ user \subseteq live /\ keepAlive \subseteq live
      /\ \A n \in Names : Asked(n, requests, queue) => n \in live
  BY Types DEF Inv, Alive
<1>2. /\ live' = {n \in live : Held(n, u, k, requests, queue)}
      /\ dirOwner' \in [Names -> Owners]
      /\ peerNames' \in [Peers -> SUBSET Names]
      /\ \A n \in live' : dirOwner'[n] = dirOwner[n]
      /\ Filed(live, live \ desynced, dirOwner, peerNames) =>
            Filed(live', live' \ desynced', dirOwner', peerNames')
      /\ u \cap live \subseteq live' /\ k \cap live \subseteq live'
      /\ \A n \in live : Asked(n, requests, queue) => n \in live'
      /\ live' \ desynced' \subseteq live \ desynced
      /\ desynced' \subseteq desynced
  BY <1>1, DropFacts
<1>3. live' \subseteq Names /\ desynced' \subseteq Names
  BY <1>1, <1>2
<1>4. Alive'
  BY <1>1, <1>2 DEF Alive
<1>5. ASSUME link = "up"
      PROVE  InStep(wire, owner, live' \ desynced', dirOwner', requests, queue)
  <2>1. InStep(wire, owner, live \ desynced, dirOwner, requests, queue)
    BY <1>5 DEF Inv, Synchronised
  <2>2. \A n \in live' \ desynced' : dirOwner'[n] = dirOwner[n]
    BY <1>2
  <2>. QED  BY <1>2, <2>1, <2>2, ObjectsGo
<1>6. Synchronised'
  BY <1>5 DEF Synchronised
<1>7. DirectoriesFiled'
  BY <1>2 DEF Inv, DirectoriesFiled
<1>. QED  BY <1>2, <1>3, <1>4, <1>6, <1>7

LEMMA KeepsDelSignal ==
    ASSUME Inv, NEW n \in Names, DelSignal(n)
    PROVE  Inv'
<1>1. /\ conn = "open" /\ n \in keepAlive /\ NsignalDec
      /\ keepAlive' = keepAlive \ {n}
      /\ rules' = IF HasInterface THEN rules ELSE rules \ {n}
      /\ AfterDrop(user, keepAlive \ {n}, requests, queue, dirOwner, peerNames)
      /\ UNCHANGED <<owner, unanswered, wire, link, conn, userConn, user, requests, queue, nread,
                     inHandler>>
  BY DEF DelSignal, RemoveMatch, daemonVars, connVars, loopVars
<1>2. /\ nsignals \in Nat /\ watched \in BOOLEAN /\ keepAlive \in SUBSET Names
      /\ Counted(conn, nsignals, watched, requests, keepAlive)
  BY Types, WatchedIsCounted DEF Inv
<1>3. Cardinality(keepAlive') = Cardinality(keepAlive) - 1 /\ Cardinality(keepAlive) >= 1
  BY <1>1, <1>2, ListenersRemove
<1>4. Cardinality(Pending(requests)) \in Nat /\ Cardinality(keepAlive) \in Nat
  BY <1>2, PendingFinite, ListenersFinite
<1>5. nsignals = Cardinality(Pending(requests)) + Cardinality(keepAlive)
  BY <1>1, <1>2 DEF Counted
<1>6. nsignals >= 1
  BY <1>3, <1>4, <1>5
<1>7. /\ nsignals' \in Nat /\ watched' \in BOOLEAN
      /\ nsignals' = nsignals - 1 /\ (watched' <=> nsignals' > 0)
  BY <1>1, <1>2, <1>6, CountDown DEF Counted
<1>8. nsignals' = Cardinality(Pending(requests')) + Cardinality(keepAlive')
  BY <1>1, <1>3, <1>4, <1>5, <1>7
<1>9. WatchedWhileAwaited'
  BY <1>1, <1>7, <1>8, WatchedIsCountedPrime DEF Counted
<1>10. /\ live' \subseteq Names
       /\ dirOwner' \in [Names -> Owners]
       /\ peerNames' \in [Peers -> SUBSET Names]
       /\ desynced' \subseteq Names
       /\ DirectoriesFiled'
       /\ Alive'
       /\ Synchronised'
  <2>1. user \subseteq user /\ keepAlive \ {n} \subseteq keepAlive
    OBVIOUS
  <2>. QED  BY <1>1, <2>1, Drops
<1>11. TypeOK'
  <2>1. rules' \subseteq Names /\ keepAlive' \subseteq Names
    BY <1>1, <1>2, Types DEF Inv
  <2>. QED  BY <1>1, <1>7, <1>10, <2>1, Types, TypesPrime DEF Inv
<1>. QED  BY <1>1, <1>9, <1>10, <1>11 DEF Inv, LoopOpen, InLoop

LEMMA KeepsDropObject ==
    ASSUME Inv, NEW n \in Names, DropObject(n)
    PROVE  Inv'
<1>1. /\ user' = user \ {n}
      /\ AfterDrop(user \ {n}, keepAlive, requests, queue, dirOwner, peerNames)
      /\ UNCHANGED <<owner, unanswered, wire, link, conn, userConn, nsignals, watched, rules,
                     keepAlive, requests, queue, nread, inHandler>>
  BY DEF DropObject, daemonVars, connVars, watchVars, loopVars
<1>2. /\ live' \subseteq Names
      /\ dirOwner' \in [Names -> Owners]
      /\ peerNames' \in [Peers -> SUBSET Names]
      /\ desynced' \subseteq Names
      /\ DirectoriesFiled'
      /\ Alive'
      /\ Synchronised'
  <2>1. user \ {n} \subseteq user /\ keepAlive \subseteq keepAlive
    OBVIOUS
  <2>. QED  BY <1>1, <2>1, Drops
<1>3. TypeOK'
  <2>1. user' \subseteq Names
    BY <1>1, Types DEF Inv
  <2>. QED  BY <1>1, <1>2, <2>1, Types, TypesPrime DEF Inv
<1>4. WatchedWhileAwaited'
  BY <1>1, WatchedIsCounted, WatchedIsCountedPrime DEF Inv
<1>. QED  BY <1>1, <1>2, <1>3, <1>4 DEF Inv, LoopOpen, InLoop

LEMMA KeepsDropConnection ==
    ASSUME Inv, DropConnection
    PROVE  Inv'
<1>1. /\ userConn' = FALSE
      /\ UNCHANGED <<owner, unanswered, wire, link, conn, nsignals, watched, rules, live,
                     dirOwner, peerNames, user, keepAlive, requests, queue, nread, inHandler,
                     desynced>>
  BY DEF DropConnection, daemonVars, watchVars, cacheVars, loopVars
<1>2. TypeOK'
  BY <1>1, Types, TypesPrime DEF Inv
<1>3. WatchedWhileAwaited'
  BY <1>1, WatchedIsCounted, WatchedIsCountedPrime DEF Inv
<1>. QED  BY <1>1, <1>2, <1>3 DEF Inv, LoopOpen, InLoop, DirectoriesFiled, Synchronised, Alive

-----------------------------------------------------------------------------
(* The end of the connection, and the daemon.                                *)

LEMMA KeepsShutdown ==
    ASSUME Inv, Shutdown
    PROVE  Inv'
<1>1. /\ conn' = "shutdown" /\ watched' = FALSE
      /\ keepAlive' = {} /\ requests' = [s \in Serials |-> Unused]
      /\ user = {} /\ queue = <<>> /\ ~InLoop /\ desynced' = {}
      /\ Caches({}, dirOwner, peerNames)
      /\ UNCHANGED <<owner, unanswered, wire, link, userConn, nsignals, rules, user, queue, nread,
                     inHandler>>
  BY DEF Shutdown, Rooted, daemonVars, loopVars
<1>2. dirOwner \in [Names -> Owners] /\ peerNames \in [Peers -> SUBSET Names]
  BY Types DEF Inv
<1>3. /\ live' = {}
      /\ dirOwner' \in [Names -> Owners]
      /\ peerNames' \in [Peers -> SUBSET Names]
      /\ Filed({}, {}, dirOwner', peerNames')
  <2>1. {} \in SUBSET Names /\ {} \in SUBSET {}
    OBVIOUS
  <2>2. \A x \in Peers, n \in {} : n \in peerNames[x] <=> dirOwner[n] = x
    OBVIOUS
  <2>. QED  BY <1>1, <1>2, <2>1, <2>2, CachesFacts
<1>4. requests' \in [Serials -> Requests]
  BY <1>1 DEF Requests
<1>5. TypeOK'
  BY <1>1, <1>3, <1>4, Types, TypesPrime DEF Inv
<1>6. WatchedWhileAwaited'
  BY <1>1 DEF WatchedWhileAwaited
<1>7. ASSUME link = "up"
      PROVE  InStep(wire, owner, {}, dirOwner', requests', queue)
  <2>1. WireTruthful(wire, owner, requests)
    BY <1>7 DEF Inv, Synchronised, InStep
  <2>2. WireTruthful(wire, owner, requests')
    <3>1. SUFFICES ASSUME NEW i \in DOMAIN wire PROVE Truthful(wire, owner, requests', i)
      BY DEF WireTruthful
    <3>2. Truthful(wire, owner, requests, i) /\ wire[i] \in Messages
      BY <2>1 DEF WireTruthful, Inv
    <3>3. wire[i].type = "reply" => requests'[wire[i].serial] = Unused
      BY <1>1, <3>2, MessageFields
    <3>. QED  BY <3>2, <3>3, RequestKinds DEF Truthful
  <2>. QED  BY <1>1, <2>2 DEF InStep, AnswersCurrent
<1>8. live' \ desynced' = {}
  BY <1>3
<1>9. Synchronised' /\ DirectoriesFiled'
  BY <1>1, <1>3, <1>7, <1>8 DEF Synchronised, DirectoriesFiled
<1>10. Alive'
  <2>1. \A n \in Names : ~Asked(n, requests', queue')
    BY <1>1, RequestKinds DEF Asked
  <2>. QED  BY <1>1, <1>3, <2>1 DEF Alive
<1>11. LoopOpen'
  BY <1>1 DEF LoopOpen, InLoop
<1>. QED  BY <1>1, <1>5, <1>6, <1>9, <1>10, <1>11 DEF Inv

LEMMA LinkGone ==
    ASSUME Inv, link' = "down", wire' \in Seq(Messages), Len(wire') = nread,
           unanswered' = {}, rules' = {},
           conn' \in {"open", "shutdown", "closed"}, conn' = "open" <=> conn = "open",
           UNCHANGED <<owner, userConn, nsignals, watched, live, dirOwner, peerNames, user,
                       keepAlive, requests, queue, nread, inHandler, desynced>>
    PROVE  Inv'
<1>1. nread \in 0 .. Len(wire) /\ Len(wire) <= MaxWire /\ wire \in Seq(Messages)
  BY Types DEF Inv
<1>2. Len(wire') <= MaxWire /\ nread' \in 0 .. Len(wire')
  BY <1>1, DBusAssumption
<1>3. TypeOK'
  BY <1>2, Types, TypesPrime DEF Inv
<1>4. WatchedWhileAwaited'
  BY DEF Inv, WatchedWhileAwaited
<1>. QED  BY <1>3, <1>4 DEF Inv, LoopOpen, InLoop, DirectoriesFiled, Synchronised, Alive

LEMMA KeepsShutdownPart2 ==
    ASSUME Inv, ShutdownPart2
    PROVE  Inv'
<1>1. nread \in 0 .. Len(wire) /\ conn = "shutdown" /\ wire \in Seq(Messages)
  BY Types DEF Inv, ShutdownPart2
<1>2. nread = 0
  BY <1>1 DEF Inv, LoopOpen, InLoop
<1>3. wire' \in Seq(Messages) /\ Len(wire') = nread
  BY <1>2 DEF ShutdownPart2
<1>. QED  BY <1>3, LinkGone DEF ShutdownPart2, watchVars, cacheVars, loopVars

LEMMA KeepsDisconnect ==
    ASSUME Inv, Disconnect
    PROVE  Inv'
<1>1. /\ conn \in {"open", "shutdown", "closed"}
      /\ wire \in Seq(Messages) /\ nread \in 0 .. Len(wire)
  BY Types DEF Inv
<1>2. SubSeq(wire, 1, nread) \in Seq(Messages) /\ Len(SubSeq(wire, 1, nread)) = nread
  <2>1. Len(wire) \in Nat /\ DOMAIN wire = 1 .. Len(wire)
    BY <1>1
  <2>2. nread \in Nat /\ \A i \in 1 .. nread : wire[i] \in Messages
    BY <1>1, <2>1
  <2>. QED  BY <1>1, <2>1, <2>2, SubSeqProperties
<1>. QED  BY <1>1, <1>2, LinkGone DEF Disconnect, connVars, watchVars, cacheVars, loopVars

(* The daemon sends a message, and perhaps a name gets another owner.        *)
LEMMA Delivers ==
    ASSUME Inv, NEW msg \in Messages, Deliver(msg),
           \A n \in Names : Continues(msg, owner, owner', n),
           Truthful(Append(wire, msg), owner', requests, Len(wire) + 1),
           owner' \in [Names -> Owners], unanswered' \subseteq Serials,
           UNCHANGED <<link, conn, userConn, nsignals, watched, rules, live, dirOwner,
                       peerNames, user, keepAlive, requests, queue, nread, inHandler, desynced>>
    PROVE  Inv'
<1>1. link = "up" /\ Len(wire) < MaxWire /\ wire' = Append(wire, msg)
  BY DEF Deliver
<1>2. /\ wire \in Seq(Messages) /\ live \ desynced \in SUBSET Names
      /\ nread \in 0 .. Len(wire)
  BY Types DEF Inv
<1>3. wire' \in Seq(Messages) /\ Len(wire') <= MaxWire /\ nread \in 0 .. Len(wire')
  BY <1>1, <1>2, AppendFacts, DBusAssumption
<1>4. InStep(wire', owner', live \ desynced, dirOwner, requests, queue)
  <2>1. InStep(wire, owner, live \ desynced, dirOwner, requests, queue)
    BY <1>1 DEF Inv, Synchronised
  <2>. QED  BY <1>1, <1>2, <2>1, MessageSent
<1>5. TypeOK'
  BY <1>3, Types, TypesPrime DEF Inv
<1>6. WatchedWhileAwaited'
  BY WatchedIsCounted, WatchedIsCountedPrime DEF Inv
<1>7. Synchronised'
  BY <1>4 DEF Synchronised
<1>. QED  BY <1>1, <1>3, <1>5, <1>6, <1>7 DEF Inv, LoopOpen, InLoop, DirectoriesFiled, Alive

LEMMA KeepsChangeOwner ==
    ASSUME Inv, NEW n \in Names, NEW p \in Peers \cup {None}, ChangeOwner(n, p)
    PROVE  Inv'
<1>. DEFINE msg == NameOwnerChanged(n, owner[n], p)
<1>1. /\ Deliver(msg) /\ owner' = [owner EXCEPT ![n] = p]
      /\ UNCHANGED <<unanswered, link, conn, userConn, nsignals, watched, rules, live, dirOwner,
                     peerNames, user, keepAlive, requests, queue, nread, inHandler, desynced>>
  BY DEF ChangeOwner, connVars, watchVars, cacheVars, loopVars
<1>2. /\ owner \in [Names -> Owners] /\ unanswered \subseteq Serials /\ wire \in Seq(Messages)
      /\ p \in Owners
  BY Types DEF Inv, Owners
<1>3. /\ msg.type = "changed" /\ msg.name = n /\ msg.old = owner[n] /\ msg.new = p
      /\ msg \in Messages
  BY <1>2 DEF NameOwnerChanged, Messages
<1>. HIDE DEF msg
<1>4. owner' \in [Names -> Owners] /\ owner'[n] = p /\ \A m \in Names : m # n => owner'[m] = owner[m]
  BY <1>1, <1>2
<1>5. \A m \in Names : Continues(msg, owner, owner', m)
  BY <1>3, <1>4 DEF Continues, Changes
<1>6. Truthful(Append(wire, msg), owner', requests, Len(wire) + 1)
  <2>. DEFINE w == Append(wire, msg)
  <2>1. w[Len(wire) + 1] = msg /\ Len(w) = Len(wire) + 1 /\ w \in Seq(Messages)
    BY <1>2, <1>3, AppendFacts
  <2>. HIDE DEF w
  <2>2. Sees(w, owner', n, Len(w), p)
    BY <1>4, <2>1, SeesLast
  <2>3. Truthful(w, owner', requests, Len(wire) + 1)
    BY <1>3, <2>1, <2>2 DEF Truthful
  <2>. QED  BY <2>3 DEF w
<1>. QED  BY <1>1, <1>2, <1>3, <1>4, <1>5, <1>6, Delivers

LEMMA KeepsAnswer ==
    ASSUME Inv, NEW s \in Serials, Answer(s)
    PROVE  Inv'
<1>. DEFINE o == IF requests[s].kind = "owner" THEN owner[requests[s].name] ELSE None
            msg == Reply(s, o)
<1>1. /\ Deliver(msg) /\ unanswered' = unanswered \ {s}
      /\ UNCHANGED <<owner, link, conn, userConn, nsignals, watched, rules, live, dirOwner,
                     peerNames, user, keepAlive, requests, queue, nread, inHandler, desynced>>
  BY DEF Answer, connVars, watchVars, cacheVars, loopVars
<1>2. /\ owner \in [Names -> Owners] /\ unanswered \subseteq Serials /\ wire \in Seq(Messages)
      /\ requests \in [Serials -> Requests]
  BY Types DEF Inv
<1>3. o \in Owners
  <2>1. requests[s] \in Requests
    BY <1>2
  <2>2. requests[s].kind = "owner" => requests[s].name \in Names
    BY <2>1 DEF Requests, Call, Unused, GetOwner
  <2>. QED  BY <1>2, <2>2 DEF Owners
<1>4. \A n \in Names : requests[s] = GetOwner(n) => o = owner[n]
  BY RequestKinds
<1>. HIDE DEF o
<1>5. msg.type = "reply" /\ msg.serial = s /\ msg.owner = o /\ msg \in Messages
  BY <1>3 DEF Reply, Messages
<1>. HIDE DEF msg
<1>6. \A m \in Names : Continues(msg, owner, owner', m)
  BY <1>1, <1>5 DEF Continues, Changes
<1>7. Truthful(Append(wire, msg), owner, requests, Len(wire) + 1)
  <2>. DEFINE w == Append(wire, msg)
  <2>1. w[Len(wire) + 1] = msg /\ Len(w) = Len(wire) + 1 /\ w \in Seq(Messages)
    BY <1>2, <1>5, AppendFacts
  <2>. HIDE DEF w
  <2>2. \A n \in Names : requests[s] = GetOwner(n) => Sees(w, owner, n, Len(w), o)
    BY <1>4, <2>1, SeesLast
  <2>3. Truthful(w, owner, requests, Len(wire) + 1)
    BY <1>5, <2>1, <2>2 DEF Truthful
  <2>. QED  BY <2>3 DEF w
<1>8. unanswered' \subseteq Serials
  BY <1>1, <1>2
<1>. QED  BY <1>1, <1>2, <1>5, <1>6, <1>7, <1>8, Delivers

LEMMA KeepsEmit ==
    ASSUME Inv, NEW p \in Peers, Emit(p)
    PROVE  Inv'
<1>. DEFINE msg == Signal(p)
<1>1. /\ Deliver(msg)
      /\ UNCHANGED <<owner, unanswered, link, conn, userConn, nsignals, watched, rules, live,
                     dirOwner, peerNames, user, keepAlive, requests, queue, nread, inHandler,
                     desynced>>
  BY DEF Emit, daemonVars, connVars, watchVars, cacheVars, loopVars
<1>2. owner \in [Names -> Owners] /\ unanswered \subseteq Serials /\ wire \in Seq(Messages)
  BY Types DEF Inv
<1>3. /\ msg.type = "signal" /\ msg.from = p /\ msg.names = {n \in Names : owner[n] = p}
      /\ msg \in Messages
  BY DEF Signal, Messages
<1>. HIDE DEF msg
<1>4. \A m \in Names : Continues(msg, owner, owner', m)
  BY <1>1, <1>3 DEF Continues, Changes
<1>5. Truthful(Append(wire, msg), owner, requests, Len(wire) + 1)
  <2>. DEFINE w == Append(wire, msg)
  <2>1. w[Len(wire) + 1] = msg /\ Len(w) = Len(wire) + 1 /\ w \in Seq(Messages)
    BY <1>2, <1>3, AppendFacts
  <2>. HIDE DEF w
  <2>2. \A n \in Names : n \in msg.names <=> Sees(w, owner, n, Len(w), p)
    BY <1>3, <2>1, SeesLast
  <2>3. Truthful(w, owner, requests, Len(wire) + 1)
    BY <1>3, <2>1, <2>2 DEF Truthful
  <2>. QED  BY <2>3 DEF w
<1>. QED  BY <1>1, <1>2, <1>3, <1>4, <1>5, Delivers

-----------------------------------------------------------------------------
(* Messages that are dispatched, and the answers that are applied.           *)

LEMMA KeepsRead ==
    ASSUME Inv, Read
    PROVE  Inv'
<1>1. /\ conn = "open" /\ nread' \in 1 .. Len(wire)
      /\ UNCHANGED <<owner, unanswered, wire, inHandler, link, conn, userConn, nsignals, watched,
                     rules, live, dirOwner, peerNames, user, keepAlive, requests, queue, desynced>>
  BY DEF Read, daemonVars, connVars, watchVars, cacheVars
<1>2. nread' \in 0 .. Len(wire)
  BY <1>1
<1>3. TypeOK'
  BY <1>1, <1>2, Types, TypesPrime DEF Inv
<1>4. WatchedWhileAwaited'
  BY <1>1, WatchedIsCounted, WatchedIsCountedPrime DEF Inv
<1>. QED  BY <1>1, <1>3, <1>4 DEF Inv, LoopOpen, DirectoriesFiled, Synchronised, Alive

LEMMA KeepsHandlerReturns ==
    ASSUME Inv, HandlerReturns
    PROVE  Inv'
<1>1. /\ inHandler' = FALSE /\ inHandler
      /\ UNCHANGED <<owner, unanswered, wire, nread, link, conn, userConn, nsignals, watched,
                     rules, live, dirOwner, peerNames, user, keepAlive, requests, queue, desynced>>
  BY DEF HandlerReturns, daemonVars, connVars, watchVars, cacheVars
<1>2. TypeOK'
  BY <1>1, Types, TypesPrime DEF Inv
<1>3. WatchedWhileAwaited'
  BY <1>1, WatchedIsCounted, WatchedIsCountedPrime DEF Inv
<1>. QED  BY <1>1, <1>2, <1>3
          DEF Inv, LoopOpen, InLoop, DirectoriesFiled, Synchronised, Alive

LEMMA DispatchFacts ==
    ASSUME Inv, Dispatch
    PROVE  /\ conn = "open" /\ wire # <<>>
           /\ wire \in Seq(Messages) /\ Head(wire) = wire[1] /\ Head(wire) \in Messages
           /\ wire' = Tail(wire) /\ wire' \in Seq(Messages) /\ Len(wire') <= MaxWire
           /\ nread' \in 0 .. Len(wire')
           /\ UNCHANGED <<owner, unanswered, link, conn, userConn, rules, user, keepAlive>>
           /\ \A n, o : Sees(wire', owner, n, 0, o) <=> Sees(wire, owner, n, 1, o)
<1>1. /\ nread > 0 /\ nread' = nread - 1
      /\ wire' = Tail(wire)
      /\ UNCHANGED <<owner, unanswered, link, conn, userConn, rules, user, keepAlive>>
  BY DEF Dispatch, daemonVars, connVars
<1>2. /\ wire \in Seq(Messages) /\ Len(wire) <= MaxWire /\ nread \in 0 .. Len(wire)
      /\ conn = "open"
  BY <1>1, Types DEF Inv, LoopOpen, InLoop
<1>3. wire # <<>>
  BY <1>1, <1>2
<1>4. /\ Head(wire) = wire[1] /\ Head(wire) \in Messages
      /\ Len(wire) \in Nat /\ Len(Tail(wire)) = Len(wire) - 1
      /\ Tail(wire) \in Seq(Messages)
  BY <1>2, <1>3, TailFacts
<1>5. Len(wire') <= MaxWire /\ nread' \in 0 .. Len(wire')
  BY <1>1, <1>2, <1>4, DBusAssumption
<1>6. \A n, o : Sees(Tail(wire), owner, n, 0, o) <=> Sees(wire, owner, n, 0 + 1, o)
  BY <1>2, <1>3, SeesTail
<1>. QED  BY <1>1, <1>2, <1>3, <1>4, <1>5, <1>6

LEMMA DispatchInStep ==
    ASSUME Inv, Dispatch, link = "up"
    PROVE  /\ InStep(wire, owner, live \ desynced, dirOwner, requests, queue)
           /\ WireTruthful(wire, owner, requests)
           /\ Truthful(wire, owner, requests, 1)
           /\ Filed(live, live \ desynced, dirOwner, peerNames)
<1>1. wire # <<>> /\ wire \in Seq(Messages)
  BY DispatchFacts
<1>2. /\ InStep(wire, owner, live \ desynced, dirOwner, requests, queue)
      /\ Filed(live, live \ desynced, dirOwner, peerNames)
  BY DEF Inv, Synchronised, DirectoriesFiled
<1>3. 1 \in DOMAIN wire
  BY <1>1, TailFacts
<1>. QED  BY <1>2, <1>3 DEF InStep, WireTruthful

(* A message leaves the names that it says nothing about as they are.        *)
LEMMA Untouched ==
    ASSUME Inv, Dispatch, NEW n, ~Changes(Head(wire), n)
    PROVE  \A o : Sees(wire', owner, n, 0, o) <=> Sees(wire, owner, n, 0, o)
<1>1. wire # <<>> /\ wire \in Seq(Messages) /\ Head(wire) = wire[1] /\ wire' = Tail(wire)
  BY DispatchFacts
<1>. QED  BY <1>1, ReadPast

LEMMA KeepsNameOwnerChanged ==
    ASSUME Inv, Dispatch, FilterNameOwnerChanged(Head(wire))
    PROVE  Inv'
<1>. DEFINE msg == Head(wire)
            S == live \ desynced'
<1>1. /\ conn = "open" /\ wire # <<>>
      /\ wire \in Seq(Messages) /\ msg = wire[1] /\ msg \in Messages
      /\ wire' = Tail(wire) /\ wire' \in Seq(Messages) /\ Len(wire') <= MaxWire
      /\ nread' \in 0 .. Len(wire')
      /\ UNCHANGED <<owner, unanswered, link, conn, userConn, rules, user, keepAlive>>
      /\ \A n, o : Sees(wire', owner, n, 0, o) <=> Sees(wire, owner, n, 1, o)
  BY DispatchFacts
<1>2. /\ msg.type = "changed"
      /\ NameChanged(msg.name, msg.old, msg.new, live, dirOwner, peerNames)
      /\ desynced' = IF \E i \in DOMAIN queue : queue[i].name = msg.name
                     THEN desynced \cup {msg.name} ELSE desynced
      /\ UNCHANGED <<nsignals, watched, requests, queue, inHandler>>
  BY DEF FilterNameOwnerChanged, watchVars
<1>3. \A n : ~Changes(msg, n) => \A o : Sees(wire', owner, n, 0, o) <=> Sees(wire, owner, n, 0, o)
  BY Untouched
<1>. HIDE DEF msg
<1>4. msg.name \in Names /\ msg.old \in Owners /\ msg.new \in Owners
  BY <1>1, <1>2, MessageFields
<1>5. /\ live \in SUBSET Names /\ dirOwner \in [Names -> Owners]
      /\ peerNames \in [Peers -> SUBSET Names] /\ desynced \subseteq Names
  BY Types DEF Inv
<1>6. /\ S \in SUBSET live /\ S \subseteq live \ desynced /\ desynced' \subseteq Names
      /\ msg.name \in S => \A i \in DOMAIN queue : queue[i].name # msg.name
  BY <1>2, <1>4, <1>5
<1>7. S = live \ desynced'
  OBVIOUS
<1>. HIDE DEF S
<1>8. /\ live' = live
      /\ dirOwner' \in [Names -> Owners]
      /\ peerNames' \in [Peers -> SUBSET Names]
      /\ \A m \in live : dirOwner'[m] = IF m = msg.name THEN msg.new ELSE dirOwner[m]
      /\ \A T \in SUBSET live :
            (\A x \in Peers, m \in T : m \in peerNames[x] <=> dirOwner[m] = x) =>
               ((dirOwner[msg.name] # None /\ msg.name \in T => dirOwner[msg.name] = msg.old)
                   => Filed(live, T, dirOwner', peerNames'))
  BY <1>2, <1>4, <1>5, <1>6, MoveFacts
<1>9. ASSUME link = "up"
      PROVE  Filed(live, S, dirOwner', peerNames')
  <2>1. \A x \in Peers, m \in S : m \in peerNames[x] <=> dirOwner[m] = x
    BY <1>6, <1>9, DispatchInStep DEF Filed
  <2>2. ASSUME dirOwner[msg.name] # None, msg.name \in S
        PROVE  dirOwner[msg.name] = msg.old
    <3>1. Sees(wire, owner, msg.name, 0, dirOwner[msg.name])
      BY <1>6, <1>9, <2>2, DispatchInStep DEF InStep, UpToDate
    <3>2. Changes(wire[1], msg.name) /\ wire[1].old = msg.old
      BY <1>1, <1>2 DEF Changes
    <3>3. 1 \in DOMAIN wire /\ DOMAIN wire \subseteq Nat
      BY <1>1
    <3>4. Sees(wire, owner, msg.name, 0, msg.old)
      BY <3>2, <3>3 DEF Sees
    <3>. QED  BY <1>1, <3>1, <3>4, SeesOne
  <2>. QED  BY <1>6, <1>8, <2>1, <2>2
<1>10. ASSUME link = "up"
       PROVE  InStep(wire', owner, S, dirOwner', requests, queue)
  <2>1. WireTruthful(wire', owner, requests)
    BY <1>1, <1>10, DispatchInStep, WireRead
  <2>2. ASSUME NEW n \in S
        PROVE  UpToDate(wire', owner, n, dirOwner', requests, queue)
    <3>1. CASE n = msg.name
      <4>1. Truthful(wire, owner, requests, 1)
        BY <1>10, DispatchInStep
      <4>2. Sees(wire', owner, n, 0, msg.new)
        BY <1>1, <1>2, <3>1, <4>1 DEF Truthful
      <4>3. dirOwner'[n] = msg.new
        BY <1>6, <1>8, <3>1
      <4>. QED  BY <4>2, <4>3 DEF UpToDate
    <3>2. CASE n # msg.name
      <4>1. \A o : Sees(wire', owner, n, 0, o) <=> Sees(wire, owner, n, 0, o)
        BY <1>3, <3>2 DEF Changes
      <4>2. UpToDate(wire, owner, n, dirOwner, requests, queue) /\ dirOwner'[n] = dirOwner[n]
        BY <1>6, <1>8, <1>10, <3>2, DispatchInStep DEF InStep
      <4>. QED  BY <4>1, <4>2 DEF UpToDate
    <3>. QED  BY <3>1, <3>2
  <2>3. AnswersCurrent(wire', owner, S, queue)
    <3>1. SUFFICES ASSUME NEW i \in DOMAIN queue, queue[i].name \in S
                   PROVE  Sees(wire', owner, queue[i].name, 0, queue[i].owner)
      BY DEF AnswersCurrent
    <3>2. queue[i].name # msg.name
      BY <1>6, <3>1
    <3>3. Sees(wire, owner, queue[i].name, 0, queue[i].owner)
      BY <1>6, <1>10, <3>1, DispatchInStep DEF InStep, AnswersCurrent
    <3>. QED  BY <1>3, <3>2, <3>3 DEF Changes
  <2>. QED  BY <2>1, <2>2, <2>3 DEF InStep
<1>11. Synchronised' /\ DirectoriesFiled'
  BY <1>1, <1>2, <1>7, <1>8, <1>9, <1>10 DEF Synchronised, DirectoriesFiled
<1>12. TypeOK'
  BY <1>1, <1>2, <1>6, <1>8, Types, TypesPrime DEF Inv
<1>13. WatchedWhileAwaited'
  BY <1>1, <1>2, WatchedIsCounted, WatchedIsCountedPrime DEF Inv
<1>14. Alive' /\ LoopOpen'
  BY <1>1, <1>2, <1>8 DEF Inv, Alive, LoopOpen
<1>. QED  BY <1>1, <1>11, <1>12, <1>13, <1>14 DEF Inv

(* A message of which nothing comes but that it is read; a name whose owner  *)
(* it would have changed is out of step from now on.                         *)
LEMMA OnlyRead ==
    ASSUME Inv, Dispatch, desynced \subseteq desynced', desynced' \subseteq Names,
           \A n \in live \ desynced' : ~Changes(Head(wire), n),
           inHandler' \in BOOLEAN,
           UNCHANGED <<nsignals, watched, requests, queue, live, dirOwner, peerNames>>
    PROVE  Inv'
<1>. DEFINE S == live \ desynced'
<1>1. /\ conn = "open" /\ wire # <<>> /\ wire \in Seq(Messages)
      /\ wire' = Tail(wire) /\ wire' \in Seq(Messages) /\ Len(wire') <= MaxWire
      /\ nread' \in 0 .. Len(wire')
      /\ UNCHANGED <<owner, unanswered, link, conn, userConn, rules, user, keepAlive>>
  BY DispatchFacts
<1>2. \A n \in S : \A o : Sees(wire', owner, n, 0, o) <=> Sees(wire, owner, n, 0, o)
  BY Untouched
<1>3. S \subseteq live \ desynced /\ S = live \ desynced'
  OBVIOUS
<1>. HIDE DEF S
<1>4. ASSUME link = "up"
      PROVE  /\ InStep(wire', owner, S, dirOwner, requests, queue)
             /\ Filed(live, S, dirOwner, peerNames)
  <2>1. /\ InStep(wire, owner, live \ desynced, dirOwner, requests, queue)
        /\ WireTruthful(wire, owner, requests)
        /\ Filed(live, live \ desynced, dirOwner, peerNames)
    BY <1>4, DispatchInStep
  <2>2. WireTruthful(wire', owner, requests)
    BY <1>1, <2>1, WireRead
  <2>3. \A n \in S : UpToDate(wire', owner, n, dirOwner, requests, queue)
    BY <1>2, <1>3, <2>1 DEF InStep, UpToDate
  <2>4. AnswersCurrent(wire', owner, S, queue)
    BY <1>2, <1>3, <2>1 DEF InStep, AnswersCurrent
  <2>. QED  BY <1>3, <2>1, <2>2, <2>3, <2>4 DEF InStep, Filed
<1>5. Synchronised' /\ DirectoriesFiled'
  BY <1>1, <1>3, <1>4 DEF Synchronised, DirectoriesFiled
<1>6. TypeOK'
  BY <1>1, Types, TypesPrime DEF Inv
<1>7. WatchedWhileAwaited'
  BY <1>1, WatchedIsCounted, WatchedIsCountedPrime DEF Inv
<1>8. Alive' /\ LoopOpen'
  BY <1>1 DEF Inv, Alive, LoopOpen
<1>. QED  BY <1>1, <1>5, <1>6, <1>7, <1>8 DEF Inv

LEMMA KeepsSignalMessage ==
    ASSUME Inv, Dispatch, FilterSignal(Head(wire))
    PROVE  Inv'
<1>1. /\ Head(wire).type = "signal" /\ inHandler' \in BOOLEAN
      /\ UNCHANGED <<nsignals, watched, requests, queue, live, dirOwner, peerNames, desynced>>
  BY DEF FilterSignal, watchVars, cacheVars
<1>2. desynced \subseteq desynced' /\ desynced' \subseteq Names
  BY <1>1, Types DEF Inv
<1>3. \A n \in live \ desynced' : ~Changes(Head(wire), n)
  BY <1>1 DEF Changes
<1>. QED  BY <1>1, <1>2, <1>3, OnlyRead

LEMMA KeepsUnfiltered ==
    ASSUME Inv, Dispatch, Unfiltered(Head(wire))
    PROVE  Inv'
<1>1. /\ UNCHANGED <<nsignals, watched, requests, queue, live, dirOwner, peerNames, inHandler>>
      /\ desynced' = IF Head(wire).type = "changed" /\ Head(wire).name \in live
                     THEN desynced \cup {Head(wire).name} ELSE desynced
  BY DEF Unfiltered, watchVars, cacheVars
<1>2. inHandler \in BOOLEAN /\ desynced \subseteq Names /\ live \subseteq Names
  BY Types DEF Inv
<1>3. desynced \subseteq desynced' /\ desynced' \subseteq Names
  BY <1>1, <1>2
<1>4. \A n \in live \ desynced' : ~Changes(Head(wire), n)
  BY <1>1 DEF Changes
<1>. QED  BY <1>1, <1>2, <1>3, <1>4, OnlyRead

LEMMA KeepsReply ==
    ASSUME Inv, Dispatch, FilterReply(Head(wire))
    PROVE  Inv'
<1>. DEFINE msg == Head(wire)
            req == requests[msg.serial]
            r == [requests EXCEPT ![msg.serial] = Unused]
            q == IF req.kind = "owner" /\ msg.owner # None
                 THEN Append(queue, [name |-> req.name, owner |-> msg.owner]) ELSE queue
<1>1. /\ conn = "open" /\ wire # <<>>
      /\ wire \in Seq(Messages) /\ msg = wire[1] /\ msg \in Messages
      /\ wire' = Tail(wire) /\ wire' \in Seq(Messages) /\ Len(wire') <= MaxWire
      /\ nread' \in 0 .. Len(wire')
      /\ UNCHANGED <<owner, unanswered, link, conn, userConn, rules, user, keepAlive>>
      /\ \A n, o : Sees(wire', owner, n, 0, o) <=> Sees(wire, owner, n, 1, o)
  BY DispatchFacts
<1>2. msg.type = "reply" /\ inHandler' = inHandler
  BY DEF FilterReply
<1>3. \A n, o : Sees(wire', owner, n, 0, o) <=> Sees(wire, owner, n, 0, o)
  BY <1>2, Untouched DEF Changes
<1>4. msg.serial \in Serials /\ msg.owner \in Owners
  BY <1>1, <1>2, MessageFields
<1>5. CASE requests[msg.serial] = Unused
  <2>1. UNCHANGED <<nsignals, watched, requests, queue, live, dirOwner, peerNames, desynced>>
    BY <1>5 DEF FilterReply, watchVars, cacheVars
  <2>2. desynced \subseteq desynced' /\ desynced' \subseteq Names /\ inHandler' \in BOOLEAN
    BY <1>2, <2>1, Types DEF Inv
  <2>3. \A n \in live \ desynced' : ~Changes(Head(wire), n)
    BY <1>2 DEF Changes
  <2>. QED  BY <2>1, <2>2, <2>3, OnlyRead
<1>6. CASE requests[msg.serial] # Unused
  <2>1. /\ requests' = r /\ queue' = q /\ NsignalDec
        /\ AfterDrop(user, keepAlive, r, q, dirOwner, peerNames)
    BY <1>6 DEF FilterReply
  <2>2. /\ requests \in [Serials -> Requests] /\ nsignals \in Nat /\ watched \in BOOLEAN
        /\ keepAlive \in SUBSET Names /\ live \subseteq Names /\ desynced \subseteq Names
        /\ dirOwner \in [Names -> Owners] /\ peerNames \in [Peers -> SUBSET Names]
        /\ Counted(conn, nsignals, watched, requests, keepAlive)
        /\ user \subseteq live /\ keepAlive \subseteq live
        /\ \A n \in Names : Asked(n, requests, queue) => n \in live
        /\ queue \in Seq(Answers)
    BY Types, WatchedIsCounted DEF Inv, Alive
  <2>3. /\ r \in [Serials -> Requests] /\ r[msg.serial] = Unused
        /\ \A z \in Serials : z # msg.serial => r[z] = requests[z]
    BY <1>4, <2>2 DEF Requests
  <2>4. Cardinality(Pending(r)) = Cardinality(Pending(requests)) - 1
          /\ Cardinality(Pending(requests)) >= 1
    BY <1>4, <1>6, <2>2, PendingRemove
  <2>5. req.kind = "owner" => req.name \in Names /\ req = GetOwner(req.name)
    <3>1. req \in Requests
      BY <1>4, <2>2
    <3>. QED  BY <3>1, RequestKinds DEF Requests
  <2>6. \A n \in Names : req = GetOwner(n) => req.kind = "owner" /\ req.name = n
    BY RequestKinds
  <2>7. req = requests[msg.serial]
    OBVIOUS
  <2>. HIDE DEF msg, req, r
  <2>8. /\ q \in Seq(Answers)
        /\ Len(queue) \in Nat /\ DOMAIN queue = 1 .. Len(queue)
        /\ req.kind = "owner" /\ msg.owner # None =>
             /\ DOMAIN q = 1 .. Len(queue) + 1
             /\ \A i \in 1 .. Len(queue) : q[i] = queue[i]
             /\ q[Len(queue) + 1] = [name |-> req.name, owner |-> msg.owner]
        /\ ~(req.kind = "owner" /\ msg.owner # None) => q = queue
    <3>1. req.kind = "owner" /\ msg.owner # None =>
            [name |-> req.name, owner |-> msg.owner] \in Answers
      BY <1>4, <2>5 DEF Answers, Owners
    <3>2. Len(queue) \in Nat /\ DOMAIN queue = 1 .. Len(queue)
      BY <2>2
    <3>3. CASE req.kind = "owner" /\ msg.owner # None
      <4>. DEFINE ans == [name |-> req.name, owner |-> msg.owner]
      <4>1. q = Append(queue, ans) /\ ans \in Answers
        BY <3>1, <3>3
      <4>. HIDE DEF ans
      <4>2. /\ q \in Seq(Answers) /\ DOMAIN q = 1 .. Len(queue) + 1
            /\ \A i \in 1 .. Len(queue) : q[i] = queue[i]
            /\ q[Len(queue) + 1] = ans
        BY <2>2, <4>1, AppendFacts
      <4>. QED  BY <3>2, <3>3, <4>2 DEF ans
    <3>4. CASE ~(req.kind = "owner" /\ msg.owner # None)
      BY <2>2, <3>2, <3>4
    <3>. QED  BY <3>3, <3>4
  <2>. HIDE DEF q
  <2>9. \A i \in DOMAIN queue : i \in DOMAIN q /\ q[i] = queue[i]
    BY <2>8
  <2>10. \A i \in DOMAIN q :
           \/ i \in DOMAIN queue /\ q[i] = queue[i]
           \/ /\ req.kind = "owner" /\ msg.owner # None
              /\ q[i].name = req.name /\ q[i].owner = msg.owner
    BY <2>8
  <2>11. req.kind = "owner" /\ msg.owner # None => \E i \in DOMAIN q : q[i].name = req.name
    <3>1. ASSUME req.kind = "owner", msg.owner # None
          PROVE  Len(queue) + 1 \in DOMAIN q /\ q[Len(queue) + 1].name = req.name
      BY <2>8, <3>1
    <3>. QED  BY <3>1
  <2>12. Cardinality(Pending(requests)) \in Nat /\ Cardinality(keepAlive) \in Nat
    BY <2>2, PendingFinite, ListenersFinite
  <2>13. nsignals = Cardinality(Pending(requests)) + Cardinality(keepAlive)
    BY <1>1, <2>2 DEF Counted
  <2>14. nsignals >= 1
    BY <2>4, <2>12, <2>13
  <2>15. /\ nsignals' \in Nat /\ watched' \in BOOLEAN
         /\ nsignals' = nsignals - 1 /\ (watched' <=> nsignals' > 0)
    BY <1>1, <2>1, <2>2, <2>14, CountDown DEF Counted
  <2>16. nsignals' = Cardinality(Pending(requests')) + Cardinality(keepAlive')
    <3>1. keepAlive' = keepAlive /\ requests' = r
      BY <1>1, <2>1
    <3>2. nsignals' = Cardinality(Pending(r)) + Cardinality(keepAlive)
      BY <2>4, <2>12, <2>13, <2>15
    <3>. QED  BY <3>1, <3>2
  <2>17. WatchedWhileAwaited'
    BY <1>1, <2>15, <2>16, WatchedIsCountedPrime DEF Counted
  <2>18. /\ live' = {n \in live : Held(n, user, keepAlive, r, q)}
         /\ dirOwner' \in [Names -> Owners]
         /\ peerNames' \in [Peers -> SUBSET Names]
         /\ \A n \in live' : dirOwner'[n] = dirOwner[n]
         /\ Filed(live, live \ desynced, dirOwner, peerNames) =>
               Filed(live', live' \ desynced', dirOwner', peerNames')
         /\ user \cap live \subseteq live' /\ keepAlive \cap live \subseteq live'
         /\ \A n \in live : Asked(n, r, q) => n \in live'
         /\ live' \ desynced' \subseteq live \ desynced
         /\ desynced' \subseteq desynced
    BY <2>1, <2>2, DropFacts
  <2>19. Alive'
    <3>1. ASSUME NEW n \in Names, Asked(n, r, q)
          PROVE  Asked(n, requests, queue)
      <4>1. ASSUME NEW s \in Serials, r[s] = GetOwner(n)
            PROVE  Asked(n, requests, queue)
        BY <2>3, <4>1, RequestKinds DEF Asked
      <4>2. ASSUME NEW i \in DOMAIN q, q[i].name = n
            PROVE  Asked(n, requests, queue)
        <5>1. CASE i \in DOMAIN queue /\ q[i] = queue[i]
          BY <4>2, <5>1 DEF Asked
        <5>2. CASE req.kind = "owner" /\ q[i].name = req.name
          <6>1. requests[msg.serial] = GetOwner(n)
            BY <2>5, <2>7, <4>2, <5>2
          <6>. QED  BY <1>4, <6>1 DEF Asked
        <5>. QED  BY <2>10, <5>1, <5>2
      <4>. QED  BY <3>1, <4>1, <4>2 DEF Asked
    <3>2. \A n \in Names : Asked(n, r, q) => n \in live'
      BY <2>2, <2>18, <3>1
    <3>. QED  BY <1>1, <2>1, <2>2, <2>18, <3>2 DEF Alive
  <2>20. ASSUME link = "up"
         PROVE  InStep(wire', owner, live' \ desynced', dirOwner', r, q)
    <3>1. /\ InStep(wire, owner, live \ desynced, dirOwner, requests, queue)
          /\ WireTruthful(wire, owner, requests)
          /\ Truthful(wire, owner, requests, 1)
      BY <2>20, DispatchInStep
    <3>2. \A n \in Names : req = GetOwner(n) => Sees(wire', owner, n, 0, msg.owner)
      BY <1>1, <1>2, <2>7, <3>1 DEF Truthful
    <3>3. WireTruthful(wire', owner, r)
      <4>1. \A s \in Serials, n \in Names : r[s] = GetOwner(n) => requests[s] = GetOwner(n)
        BY <2>3, RequestKinds
      <4>. QED  BY <1>1, <3>1, <4>1, WireRead
    <3>4. ASSUME NEW n \in live' \ desynced'
          PROVE  UpToDate(wire', owner, n, dirOwner', r, q)
      <4>1. n \in live \ desynced /\ n \in Names /\ dirOwner'[n] = dirOwner[n]
        BY <2>2, <2>18
      <4>2. UpToDate(wire, owner, n, dirOwner, requests, queue)
        BY <3>1, <4>1 DEF InStep
      <4>3. Asked(n, requests, queue) => Asked(n, r, q) \/ Sees(wire', owner, n, 0, None)
        <5>1. ASSUME NEW i \in DOMAIN queue, queue[i].name = n
              PROVE  Asked(n, r, q)
          BY <2>9, <5>1 DEF Asked
        <5>2. ASSUME NEW s \in Serials, requests[s] = GetOwner(n), s # msg.serial
              PROVE  Asked(n, r, q)
          BY <2>3, <5>2 DEF Asked
        <5>3. ASSUME requests[msg.serial] = GetOwner(n)
              PROVE  Asked(n, r, q) \/ Sees(wire', owner, n, 0, None)
          <6>1. req = GetOwner(n)
            BY <2>7, <5>3
          <6>2. Sees(wire', owner, n, 0, msg.owner) /\ req.kind = "owner" /\ req.name = n
            BY <2>6, <3>2, <4>1, <6>1
          <6>3. CASE msg.owner = None
            BY <6>2, <6>3
          <6>4. CASE msg.owner # None
            BY <2>11, <6>2, <6>4 DEF Asked
          <6>. QED  BY <6>3, <6>4
        <5>. QED  BY <5>1, <5>2, <5>3 DEF Asked
      <4>. QED  BY <1>3, <4>1, <4>2, <4>3 DEF UpToDate
    <3>5. AnswersCurrent(wire', owner, live' \ desynced', q)
      <4>1. SUFFICES ASSUME NEW i \in DOMAIN q, q[i].name \in live' \ desynced'
                     PROVE  Sees(wire', owner, q[i].name, 0, q[i].owner)
        BY DEF AnswersCurrent
      <4>2. CASE i \in DOMAIN queue /\ q[i] = queue[i]
        <5>1. Sees(wire, owner, q[i].name, 0, q[i].owner)
          BY <2>18, <3>1, <4>1, <4>2 DEF InStep, AnswersCurrent
        <5>. QED  BY <1>3, <5>1
      <4>3. CASE /\ req.kind = "owner" /\ msg.owner # None
                 /\ q[i].name = req.name /\ q[i].owner = msg.owner
        BY <2>5, <3>2, <4>3
      <4>. QED  BY <2>10, <4>2, <4>3
    <3>. QED  BY <3>3, <3>4, <3>5 DEF InStep
  <2>21. Synchronised' /\ DirectoriesFiled'
    BY <1>1, <2>1, <2>18, <2>20 DEF Inv, Synchronised, DirectoriesFiled
  <2>22. /\ live' \subseteq Names /\ requests' \in [Serials -> Requests] /\ queue' \in Seq(Answers)
         /\ desynced' \subseteq Names
    BY <2>1, <2>2, <2>3, <2>8, <2>18
  <2>23. TypeOK'
    BY <1>1, <1>2, <2>15, <2>18, <2>22, Types, TypesPrime DEF Inv
  <2>24. LoopOpen'
    BY <1>1 DEF LoopOpen
  <2>. QED  BY <1>1, <2>17, <2>19, <2>21, <2>23, <2>24 DEF Inv
<1>. QED  BY <1>5, <1>6

LEMMA KeepsDispatch ==
    ASSUME Inv, Dispatch
    PROVE  Inv'
  BY KeepsNameOwnerChanged, KeepsReply, KeepsSignalMessage, KeepsUnfiltered DEF Dispatch

LEMMA KeepsSetOwner ==
    ASSUME Inv, SetOwner
    PROVE  Inv'
<1>. DEFINE n == Head(queue).name
            o == Head(queue).owner
            l == {x \in live : Held(x, user, keepAlive, requests, Tail(queue))}
            S == l \ desynced
<1>1. /\ queue # <<>> /\ queue' = Tail(queue)
      /\ NameChanged(n, dirOwner[n], o, l, dirOwner, peerNames)
      /\ desynced' = desynced \cap live'
      /\ UNCHANGED <<owner, unanswered, wire, link, conn, userConn, nsignals, watched, rules,
                     user, keepAlive, requests, nread, inHandler>>
  BY DEF SetOwner, daemonVars, connVars, watchVars, loopVars
<1>2. /\ queue \in Seq(Answers) /\ live \subseteq Names /\ dirOwner \in [Names -> Owners]
      /\ peerNames \in [Peers -> SUBSET Names] /\ user \subseteq live /\ keepAlive \subseteq live
      /\ desynced \subseteq Names
      /\ \A m \in Names : Asked(m, requests, queue) => m \in live
      /\ link = "up" =>
           \A x \in Peers, m \in live \ desynced : m \in peerNames[x] <=> dirOwner[m] = x
  BY Types DEF Inv, DirectoriesFiled, Filed, Alive
<1>3. /\ Tail(queue) \in Seq(Answers) /\ Head(queue) \in Answers /\ Head(queue) = queue[1]
      /\ Len(queue) \in Nat /\ Len(queue) >= 1
      /\ DOMAIN queue = 1 .. Len(queue) /\ DOMAIN Tail(queue) = 1 .. Len(queue) - 1
      /\ \A i \in 1 .. Len(queue) - 1 : Tail(queue)[i] = queue[i + 1]
  BY <1>1, <1>2, TailFacts
<1>4. n \in Names /\ o \in Peers /\ o \in Owners /\ o # None
  BY <1>3, DBusAssumption DEF Answers, Owners
<1>5. /\ l \subseteq live /\ user \subseteq l /\ keepAlive \subseteq l /\ l \in SUBSET Names
      /\ S \in SUBSET l /\ S \subseteq live \ desynced /\ S = l \ desynced
      /\ \A m \in live : Asked(m, requests, Tail(queue)) => m \in l
  BY <1>2 DEF Held, Asked
<1>6. n = queue[1].name /\ o = queue[1].owner
  BY <1>3
<1>. HIDE DEF n, o, l, S
<1>7. \A i \in DOMAIN Tail(queue) : i + 1 \in DOMAIN queue /\ Tail(queue)[i] = queue[i + 1]
  BY <1>3
<1>8. /\ live' = l
      /\ dirOwner' \in [Names -> Owners]
      /\ peerNames' \in [Peers -> SUBSET Names]
      /\ \A m \in l : dirOwner'[m] = IF m = n THEN o ELSE dirOwner[m]
      /\ link = "up" => Filed(l, S, dirOwner', peerNames')
  <2>1. PICK old : old = dirOwner[n]
    OBVIOUS
  <2>2. NameChanged(n, old, o, l, dirOwner, peerNames)
    BY <1>1, <2>1
  <2>3. /\ n \in Names /\ o \in Owners /\ l \in SUBSET Names /\ S \in SUBSET l
        /\ dirOwner \in [Names -> Owners] /\ peerNames \in [Peers -> SUBSET Names]
    BY <1>2, <1>4, <1>5
  <2>4. /\ live' = l
        /\ dirOwner' \in [Names -> Owners]
        /\ peerNames' \in [Peers -> SUBSET Names]
        /\ \A m \in l : dirOwner'[m] = IF m = n THEN o ELSE dirOwner[m]
        /\ \A T \in SUBSET l :
              (\A x \in Peers, m \in T : m \in peerNames[x] <=> dirOwner[m] = x) =>
                 ((dirOwner[n] # None /\ n \in T => dirOwner[n] = old)
                     => Filed(l, T, dirOwner', peerNames'))
    BY <2>2, <2>3, MoveFacts
  <2>5. dirOwner[n] # None /\ n \in S => dirOwner[n] = old
    BY <2>1
  <2>6. link = "up" => \A x \in Peers, m \in S : m \in peerNames[x] <=> dirOwner[m] = x
    BY <1>2, <1>5
  <2>. QED  BY <2>3, <2>4, <2>5, <2>6
<1>9. live' \ desynced' = S /\ desynced' \subseteq Names
  BY <1>1, <1>2, <1>5, <1>8
<1>10. ASSUME link = "up"
       PROVE  InStep(wire, owner, S, dirOwner', requests, Tail(queue))
  <2>1. InStep(wire, owner, live \ desynced, dirOwner, requests, queue)
    BY <1>10 DEF Inv, Synchronised
  <2>2. AnswersCurrent(wire, owner, S, Tail(queue))
    BY <1>5, <1>7, <2>1 DEF InStep, AnswersCurrent
  <2>3. ASSUME NEW m \in S
        PROVE  UpToDate(wire, owner, m, dirOwner', requests, Tail(queue))
    <3>1. CASE m = n
      <4>1. Sees(wire, owner, n, 0, o)
        BY <1>3, <1>5, <1>6, <2>1, <3>1 DEF InStep, AnswersCurrent
      <4>2. dirOwner'[m] = o
        BY <1>5, <1>8, <3>1
      <4>. QED  BY <1>4, <3>1, <4>1, <4>2 DEF UpToDate
    <3>2. CASE m # n
      <4>1. UpToDate(wire, owner, m, dirOwner, requests, queue) /\ dirOwner'[m] = dirOwner[m]
        BY <1>5, <1>8, <2>1, <3>2 DEF InStep
      <4>2. Asked(m, requests, queue) => Asked(m, requests, Tail(queue))
        <5>1. ASSUME NEW i \in DOMAIN queue, queue[i].name = m
              PROVE  Asked(m, requests, Tail(queue))
          <6>1. i # 1
            BY <1>6, <3>2, <5>1
          <6>2. i - 1 \in DOMAIN Tail(queue) /\ Tail(queue)[i - 1] = queue[i]
            BY <1>3, <6>1
          <6>. QED  BY <5>1, <6>2 DEF Asked
        <5>. QED  BY <5>1 DEF Asked
      <4>. QED  BY <4>1, <4>2 DEF UpToDate
    <3>. QED  BY <3>1, <3>2
  <2>. QED  BY <2>1, <2>2, <2>3 DEF InStep
<1>11. Synchronised' /\ DirectoriesFiled'
  BY <1>1, <1>8, <1>9, <1>10 DEF Synchronised, DirectoriesFiled
<1>12. TypeOK'
  BY <1>1, <1>3, <1>5, <1>8, <1>9, Types, TypesPrime DEF Inv
<1>13. WatchedWhileAwaited'
  BY <1>1, WatchedIsCounted, WatchedIsCountedPrime DEF Inv
<1>14. Alive'
  <2>1. \A m \in Names : Asked(m, requests, Tail(queue)) => Asked(m, requests, queue)
    BY <1>7 DEF Asked
  <2>2. \A m \in Names : Asked(m, requests, Tail(queue)) => m \in l
    BY <1>2, <1>5, <2>1
  <2>. QED  BY <1>1, <1>5, <1>8, <2>2 DEF Alive
<1>. QED  BY <1>1, <1>11, <1>12, <1>13, <1>14 DEF Inv, LoopOpen, InLoop

-----------------------------------------------------------------------------
(* The theorems.                                                             *)

LEMMA InitInv == Init => Inv
<1>. SUFFICES ASSUME Init PROVE Inv
  OBVIOUS
<1>1. TypeOK
  <2>1. requests \in [Serials -> Requests] /\ owner \in [Names -> Owners]
          /\ dirOwner \in [Names -> Owners]
    BY DEF Init, Requests, Owners
  <2>2. Len(wire) <= MaxWire /\ queue \in Seq(Answers) /\ nread \in 0 .. Len(wire)
    BY DBusAssumption DEF Init
  <2>. QED  BY <2>1, <2>2, Types DEF Init
<1>2. WatchedWhileAwaited
  <2>1. {s \in Serials : requests[s] # Unused} = {}
    BY DEF Init
  <2>2. Cardinality({}) = 0
    BY FS_EmptySet
  <2>3. nsignals = 0 /\ watched = FALSE /\ keepAlive = {}
    BY DEF Init
  <2>4. ~(nsignals > 0)
        /\ nsignals = Cardinality({s \in Serials : requests[s] # Unused}) + Cardinality(keepAlive)
    BY <2>1, <2>2, <2>3
  <2>. QED  BY <2>3, <2>4 DEF WatchedWhileAwaited
<1>3. wire \in Seq(Messages) /\ LoopOpen
  BY DEF Init, LoopOpen
<1>4. Alive
  <2>1. \A n \in Names : ~Asked(n, requests, queue)
    BY RequestKinds DEF Init, Asked
  <2>. QED  BY <2>1 DEF Init, Alive
<1>5. DirectoriesFiled
  BY DBusAssumption DEF Init, Filed, DirectoriesFiled
<1>6. Synchronised
  BY DEF Init, Synchronised, InStep, WireTruthful, AnswersCurrent
<1>. QED  BY <1>1, <1>2, <1>3, <1>4, <1>5, <1>6 DEF Inv

LEMMA StepInv ==
    ASSUME Inv, [Next]_vars
    PROVE  Inv'
<1>1. CASE UNCHANGED vars
  <2>1. UNCHANGED <<owner, unanswered, wire, link, conn, userConn, nsignals, watched, rules,
                    live, dirOwner, peerNames, user, keepAlive, requests, queue, nread,
                    inHandler, desynced>>
    BY <1>1 DEF vars, daemonVars, connVars, watchVars, cacheVars, loopVars
  <2>2. TypeOK'
    BY <2>1, Types, TypesPrime DEF Inv
  <2>3. WatchedWhileAwaited'
    BY <2>1, WatchedIsCounted, WatchedIsCountedPrime DEF Inv
  <2>. QED  BY <2>1, <2>2, <2>3
            DEF Inv, LoopOpen, InLoop, Alive, DirectoriesFiled, Synchronised
<1>2. CASE Next
  BY <1>2, KeepsGetObject, KeepsCallMethod, KeepsNewSignal, KeepsDelSignal, KeepsDropObject,
     KeepsDropConnection, KeepsRead, KeepsDispatch, KeepsHandlerReturns, KeepsSetOwner,
     KeepsShutdown, KeepsShutdownPart2, KeepsDisconnect, KeepsChangeOwner, KeepsAnswer, KeepsEmit
     DEF Next
<1>. QED  BY <1>1, <1>2

(* The inductive invariant holds.  While the connection is up every message  *)
(* tells the truth of the moment it was sent, and the directory of every     *)
(* name that is not out of step knows what a reader of the wire knows, also  *)
(* between the messages of one read (ioev_callback, dbus_filter,             *)
(* di_dbus_name_changed, di_dbus_object_set_owner).                          *)
THEOREM Invariant == Spec => []Inv
<1>1. Inv /\ [Next]_vars => Inv'
  BY StepInv
<1>. QED  BY <1>1, InitInv, PTL DEF Spec

(* The types of all variables are kept; in particular nsignals never drops   *)
(* below zero (di_dbus_nsignal_dec).                                         *)
THEOREM TypesKept == Spec => []TypeOK
<1>1. Inv => TypeOK
  BY DEF Inv
<1>. QED  BY <1>1, Invariant, PTL

(* The connection is watched exactly while a reply or a signal is awaited    *)
(* (di_dbus_nsignal_inc, di_dbus_nsignal_dec).                               *)
THEOREM AwaitedIsWatched == Spec => []WatchedWhileAwaited
<1>1. Inv => WatchedWhileAwaited
  BY DEF Inv
<1>. QED  BY <1>1, Invariant, PTL

(* A directory has the owner the daemon knows, or something under way will   *)
(* correct it, unless a change of the name was lost without the filter or    *)
(* overtook the handler of GetNameOwner (di_dbus_name_changed,               *)
(* di_dbus_object_set_owner, ioev_callback).                                 *)
THEOREM OwnersInSync == Spec => []OwnerInSync
<1>1. ASSUME Inv PROVE OwnerInSync
  <2>1. SUFFICES ASSUME NEW n \in live \ desynced,
                        link # "down",
                        ~\E s \in Serials : requests[s] = GetOwner(n),
                        ~\E i \in DOMAIN queue : queue[i].name = n,
                        ~\E i \in DOMAIN wire : wire[i].type = "changed" /\ wire[i].name = n
                 PROVE  dirOwner[n] = owner[n]
    BY DEF OwnerInSync
  <2>2. link = "up"
    BY <1>1, <2>1, Types DEF Inv
  <2>3. UpToDate(wire, owner, n, dirOwner, requests, queue)
    BY <1>1, <2>1, <2>2 DEF Inv, Synchronised, InStep
  <2>4. Sees(wire, owner, n, 0, dirOwner[n])
    BY <2>1, <2>3 DEF UpToDate, Asked
  <2>. QED  BY <2>1, <2>4 DEF Sees, Changes
<1>2. Inv => OwnerInSync
  BY <1>1
<1>. QED  BY <1>2, Invariant, PTL

(* The next signal finds a filter if there is a listener, and reaches        *)
(* exactly the listeners on the names its sender owned when it sent it, as   *)
(* far as these owners have been asked for and the names are not out of step *)
(* (dbus_filter, di_peer_foreach_cb).                                        *)
THEOREM SignalsReachListeners == Spec => []SignalsRouted
<1>1. ASSUME Inv PROVE SignalsRouted
  <2>. DEFINE msg == Head(wire)
              known == {n \in keepAlive \ desynced :
                          /\ \A s \in Serials : requests[s] # GetOwner(n)
                          /\ \A i \in DOMAIN queue : queue[i].name # n}
  <2>1. SUFFICES ASSUME wire # <<>>, msg.type = "signal", link = "up"
                 PROVE  /\ conn = "open" /\ keepAlive # {} => watched
                        /\ Recipients(msg) \ desynced \subseteq msg.names
                        /\ msg.names \cap known \subseteq Recipients(msg)
    BY DEF SignalsRouted
  <2>2. /\ wire \in Seq(Messages) /\ keepAlive \subseteq live /\ live \subseteq Names
        /\ peerNames \in [Peers -> SUBSET Names]
        /\ Filed(live, live \ desynced, dirOwner, peerNames)
    BY <1>1, <2>1, Types DEF Inv, Alive, DirectoriesFiled
  <2>3. InStep(wire, owner, live \ desynced, dirOwner, requests, queue)
    BY <1>1, <2>1 DEF Inv, Synchronised
  <2>4. msg = wire[1] /\ msg \in Messages /\ 1 \in DOMAIN wire
    BY <2>1, <2>2, TailFacts
  <2>. HIDE DEF msg
  <2>5. msg.from \in Peers /\ msg.names \subseteq Names
    BY <2>1, <2>4, MessageFields
  <2>6. \A n \in Names : n \in msg.names <=> Sees(wire, owner, n, 0, msg.from)
    <3>1. Truthful(wire, owner, requests, 1)
      BY <2>3, <2>4 DEF InStep, WireTruthful
    <3>2. \A n \in Names : n \in msg.names <=> Sees(wire, owner, n, 1, msg.from)
      BY <2>1, <2>4, <3>1 DEF Truthful
    <3>3. \A n : ~Changes(wire[1], n)
      BY <2>1, <2>4 DEF Changes
    <3>. QED  BY <2>1, <2>2, <3>2, <3>3, SeesSkip
  <2>7. msg.from # None
    BY <2>5, DBusAssumption
  <2>8. ASSUME NEW n \in Recipients(msg) \ desynced
        PROVE  n \in msg.names
    <3>1. n \in peerNames[msg.from] /\ n \in live \ desynced /\ n \in Names
      BY <2>2, <2>8 DEF Recipients
    <3>2. dirOwner[n] = msg.from
      BY <2>2, <2>5, <3>1 DEF Filed
    <3>3. UpToDate(wire, owner, n, dirOwner, requests, queue)
      BY <2>3, <3>1 DEF InStep
    <3>. QED  BY <2>6, <2>7, <3>1, <3>2, <3>3 DEF UpToDate
  <2>9. ASSUME NEW n \in msg.names, n \in known
        PROVE  n \in Recipients(msg)
    <3>1. n \in keepAlive /\ n \in live \ desynced /\ n \in Names
      BY <2>2, <2>9
    <3>2. ~Asked(n, requests, queue)
      BY <2>9 DEF Asked
    <3>3. UpToDate(wire, owner, n, dirOwner, requests, queue)
      BY <2>3, <3>1 DEF InStep
    <3>4. Sees(wire, owner, n, 0, dirOwner[n])
      BY <3>2, <3>3 DEF UpToDate
    <3>5. Sees(wire, owner, n, 0, msg.from)
      BY <2>6, <2>9, <3>1
    <3>6. dirOwner[n] = msg.from
      BY <2>2, <3>4, <3>5, SeesOne
    <3>. QED  BY <2>2, <2>5, <3>1, <3>6 DEF Filed, Recipients
  <2>10. ASSUME conn = "open", keepAlive # {}
         PROVE  watched
    <3>1. /\ keepAlive \in SUBSET Names /\ nsignals \in Nat
          /\ Counted(conn, nsignals, watched, requests, keepAlive)
      BY <1>1, Types, WatchedIsCounted DEF Inv
    <3>2. PICK n : n \in keepAlive
      BY <2>10
    <3>3. Cardinality(keepAlive) >= 1
      BY <3>1, <3>2, ListenersRemove
    <3>4. Cardinality(Pending(requests)) \in Nat /\ Cardinality(keepAlive) \in Nat
      BY <3>1, PendingFinite, ListenersFinite
    <3>5. nsignals > 0
      BY <2>10, <3>1, <3>3, <3>4 DEF Counted
    <3>. QED  BY <2>10, <3>1, <3>5 DEF Counted
  <2>. QED  BY <2>8, <2>9, <2>10
<1>2. Inv => SignalsRouted
  BY <1>1
<1>. QED  BY <1>2, Invariant, PTL
=============================================================================
