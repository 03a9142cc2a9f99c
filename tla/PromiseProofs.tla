---------------------------- MODULE PromiseProofs ----------------------------
(***************************************************************************)
(* Proofs about Promise, for any number of promises, chains and joins.      *)
(***************************************************************************)
EXTENDS Promise, FiniteSetTheorems, TLAPS

(* No handler is registered on the promise that is being dispatched.         *)
NoSelfThen == ~SelfThen

-----------------------------------------------------------------------------
(* The inductive invariant.                                                  *)

Distinct(s) == \A i, j \in DOMAIN s : s[i] = s[j] => i = j

(* Promises are numbered without gaps, and those to come are blank.          *)
Blank(p) ==
    /\ handlers[p] = <<>> /\ closure[p] = NoClosure /\ results[p] = <<>>
    /\ inputs[p] = <<>> /\ calls[p] = 0 /\ value[p] = NoVal
Numbered ==
    /\ \E n \in Nat : {p \in Promises : Exists(p)} = 1 .. n
    /\ \A p \in Promises : ~Exists(p) => Blank(p)

(* Settled promises are in the queue once, from the time they are put there  *)
(* until they have been dispatched.                                          *)
Queue ==
    /\ Distinct(pending)
    /\ \A p \in Promises : is_pending[p] <=> p \in ToSet(pending) \cup {current}
    /\ \A p \in ToSet(pending) : Settled(p)
    /\ current \notin ToSet(pending)

(* Only di_idle_cb dispatches.                                               *)
Dispatch ==
    /\ current # NoPromise => loop = "idle" /\ Settled(current)
    /\ todo # <<>> \/ running # NoPromise => current # NoPromise

(* The idle watcher and the root for the queue.                              *)
Watched ==
    /\ pending # <<>> /\ loop = "wait" => idle /\ (rooted \/ exited)
    /\ loop = "stopped" /\ pending # <<>> => exited

(* Handlers of settled promises wait in the queue.                           *)
Handled(hs, st, q) ==
    \A p \in Promises : st[p] \in {"resolved", "rejected"} /\ hs[p] # <<>> => p \in q

(* A closure is in one place: with a promise, in the dispatch, or running.   *)
(* It has not settled its promise by itself then.                            *)
Places(hs, td, run, cl) ==
    /\ Distinct(td)
    /\ run \notin ToSet(td)
    /\ \A p \in Promises :
         /\ Distinct(hs[p])
         /\ ToSet(hs[p]) \cap ToSet(td) = {}
         /\ run \notin ToSet(hs[p])
         /\ \A q \in Promises : p # q => ToSet(hs[p]) \cap ToSet(hs[q]) = {}
         /\ \A t \in ToSet(hs[p]) : cl[t].st = "armed"
    /\ \A t \in ToSet(td) : cl[t].st = "armed"
    /\ run # NoPromise => cl[run].st = "armed" /\ cl[run].i = 0

(* The user handler of a closure leaves it when it is called.                *)
Fresh(cl, ca) ==
    \A t \in Promises :
        /\ ca[t] <= 1
        /\ cl[t].res = "user" \/ cl[t].rej = "user" => ca[t] = 0 /\ cl[t].i = 0

(* The closures of a join or an any_promise follow its promise, and wait for *)
(* the promises it was given.                                                *)
Pair(r, in) == Len(in[r]) = 2
InnerOne(t, cl, rs, in, hs, td, cur) ==
    /\ cl[t].res \in {"join", "any"} => cl[t].i # 0
    /\ cl[t].i # 0 =>
         /\ cl[t].ret \in Promises /\ t = cl[t].ret + cl[t].i /\ Pair(cl[t].ret, in)
         /\ cl[t].res = "join" => rs[cl[t].ret] # <<>>
         /\ cl[t].res = "any" => rs[cl[t].ret] = <<>>
         /\ \A p \in Promises : t \in ToSet(hs[p]) => p = in[cl[t].ret][cl[t].i]
         /\ t \in ToSet(td) => cur = in[cl[t].ret][cl[t].i]
Inner(cl, rs, in, hs, td, cur) == \A t \in Promises : InnerOne(t, cl, rs, in, hs, td, cur)

(* The promises a join was given exist.                                      *)
Given(in, st) == \A r \in Promises : \A p \in ToSet(in[r]) : st[p] # "free"

(* The promise i of a join r is yet to be heard of, or never will be.        *)
Open(r, i, cl, in, st) == cl[r + i].res = "join" \/ st[in[r][i]] = "rejected"
(* Its result has been stored.                                               *)
Hit(r, i, in, st, va, rs) == st[in[r][i]] = "resolved" /\ rs[r][i] = va[in[r][i]]
One(b) == IF b THEN 1 ELSE 0

(* A join waits for as many promises as have not resolved.                   *)
Join(r, cl, in, st, va, rs, le) ==
    /\ Len(rs[r]) = 2 /\ Pair(r, in) /\ cl[r].st = "none"
    /\ \A i \in {1, 2} : r + i \in Promises /\ cl[r + i].ret = r /\ cl[r + i].i = i
    /\ le[r] = One(Open(r, 1, cl, in, st)) + One(Open(r, 2, cl, in, st))
    /\ \A i \in {1, 2} : Open(r, i, cl, in, st) \/ Hit(r, i, in, st, va, rs)
    /\ va[r] = Tuple => Hit(r, 1, in, st, va, rs) /\ Hit(r, 2, in, st, va, rs)
Joins(cl, in, st, va, rs, le) ==
    \A r \in Promises : rs[r] # <<>> => Join(r, cl, in, st, va, rs, le)

Inv ==
    /\ TypeOK
    /\ Numbered
    /\ Queue
    /\ Dispatch
    /\ Watched
    /\ NoSelfThen => Handled(handlers, status, ToSet(pending)) /\ (current # NoPromise => handlers[current] = <<>>)
    /\ Places(handlers, todo, running, closure)
    /\ Fresh(closure, calls)
    /\ Inner(closure, results, inputs, handlers, todo, current)
    /\ Given(inputs, status)
    /\ Joins(closure, inputs, status, value, results, left)

-----------------------------------------------------------------------------
(* Sequences of promises.                                                    *)

LEMMA SeqSet ==
    ASSUME NEW S, NEW s \in Seq(S)
    PROVE  /\ ToSet(s) \subseteq S /\ (s = <<>> <=> ToSet(s) = {})
           /\ DOMAIN s = 1 .. Len(s) /\ Len(s) \in Nat
<1>1. DOMAIN s = 1 .. Len(s) /\ Len(s) \in Nat /\ \A i \in 1 .. Len(s) : s[i] \in S
  OBVIOUS
<1>2. ToSet(s) \subseteq S
  BY <1>1 DEF ToSet
<1>3. s = <<>> => ToSet(s) = {}
  BY DEF ToSet
<1>4. s # <<>> => s[1] \in ToSet(s)
  BY <1>1 DEF ToSet
<1>. QED  BY <1>1, <1>2, <1>3, <1>4

LEMMA ElementOf ==
    ASSUME NEW S, NEW s \in Seq(S), NEW i \in 1 .. Len(s)
    PROVE  s[i] \in S
  OBVIOUS

LEMMA ExceptAt ==
    ASSUME NEW S, NEW s \in Seq(S), NEW i \in 1 .. Len(s), NEW x \in S,
           NEW q, q = [s EXCEPT ![i] = x]
    PROVE  /\ q \in Seq(S) /\ Len(q) = Len(s) /\ q[i] = x
           /\ \A j \in 1 .. Len(s) : j # i => q[j] = s[j]
  OBVIOUS

LEMMA AppendSet ==
    ASSUME NEW S, NEW s \in Seq(S), NEW x \in S
    PROVE  /\ Append(s, x) \in Seq(S) /\ ToSet(Append(s, x)) = ToSet(s) \cup {x}
           /\ Append(s, x) # <<>>
           /\ Distinct(s) /\ x \notin ToSet(s) => Distinct(Append(s, x))
<1>. DEFINE a == Append(s, x)
            n == Len(s) + 1
<1>1. /\ a \in Seq(S) /\ Len(a) = n /\ a[n] = x /\ \A i \in 1 .. Len(s) : a[i] = s[i]
      /\ Len(s) \in Nat
  OBVIOUS
<1>2. DOMAIN s = 1 .. Len(s) /\ DOMAIN a = 1 .. n
  BY <1>1
<1>. HIDE DEF a
<1>3. ToSet(a) = ToSet(s) \cup {x}
  <2>1. \A y \in ToSet(a) : y \in ToSet(s) \cup {x}
    BY <1>1, <1>2 DEF ToSet
  <2>2. \A y \in ToSet(s) : y \in ToSet(a)
    BY <1>1, <1>2 DEF ToSet
  <2>3. x \in ToSet(a)
    BY <1>1, <1>2 DEF ToSet
  <2>. QED  BY <2>1, <2>2, <2>3
<1>4. ASSUME Distinct(s), x \notin ToSet(s)
      PROVE  Distinct(a)
  <2>1. ASSUME NEW i \in 1 .. n, NEW j \in 1 .. n, a[i] = a[j]
        PROVE  i = j
    <3>1. \A k \in 1 .. Len(s) : s[k] # x
      BY <1>2, <1>4 DEF ToSet
    <3>2. CASE i \in 1 .. Len(s) /\ j \in 1 .. Len(s)
      BY <1>1, <1>2, <1>4, <2>1, <3>2 DEF Distinct
    <3>3. CASE i = n \/ j = n
      BY <1>1, <2>1, <3>1, <3>3
    <3>. QED  BY <1>1, <3>2, <3>3
  <2>. QED  BY <1>2, <2>1 DEF Distinct
<1>. QED  BY <1>1, <1>3, <1>4 DEF a

LEMMA TailSet ==
    ASSUME NEW S, NEW s \in Seq(S), s # <<>>
    PROVE  /\ Tail(s) \in Seq(S) /\ Head(s) \in S
           /\ ToSet(s) = {Head(s)} \cup ToSet(Tail(s))
           /\ Distinct(s) => Distinct(Tail(s)) /\ Head(s) \notin ToSet(Tail(s))
<1>. DEFINE a == Tail(s)
            n == Len(s) - 1
<1>1. /\ a \in Seq(S) /\ Len(a) = n /\ n \in Nat /\ Len(s) \in Nat /\ Head(s) = s[1] /\ s[1] \in S
      /\ \A i \in 1 .. n : a[i] = s[i + 1]
  OBVIOUS
<1>2. DOMAIN s = 1 .. Len(s) /\ DOMAIN a = 1 .. n
  BY <1>1
<1>. HIDE DEF a
<1>3. ToSet(s) = {Head(s)} \cup ToSet(a)
  <2>1. ASSUME NEW i \in 1 .. Len(s)
        PROVE  s[i] = Head(s) \/ s[i] \in ToSet(a)
    <3>1. CASE i = 1
      BY <1>1, <3>1
    <3>2. CASE i # 1
      <4>1. i - 1 \in 1 .. n /\ (i - 1) + 1 = i
        BY <1>1, <3>2
      <4>2. a[i - 1] = s[i]
        BY <1>1, <4>1
      <4>. QED  BY <1>2, <4>1, <4>2 DEF ToSet
    <3>. QED  BY <3>1, <3>2
  <2>2. ASSUME NEW i \in 1 .. n
        PROVE  a[i] \in ToSet(s)
    <3>1. i + 1 \in 1 .. Len(s)
      BY <1>1
    <3>. QED  BY <1>1, <1>2, <3>1 DEF ToSet
  <2>3. Head(s) \in ToSet(s)
    BY <1>1, <1>2 DEF ToSet
  <2>4. \A y \in ToSet(s) : y = Head(s) \/ y \in ToSet(a)
    BY <1>2, <2>1 DEF ToSet
  <2>5. \A y \in ToSet(a) : y \in ToSet(s)
    BY <1>2, <2>2 DEF ToSet
  <2>. QED  BY <2>3, <2>4, <2>5
<1>4. ASSUME Distinct(s)
      PROVE  Distinct(a) /\ Head(s) \notin ToSet(a)
  <2>1. ASSUME NEW i \in 1 .. n, NEW j \in 1 .. n, a[i] = a[j]
        PROVE  i = j
    <3>1. i + 1 \in 1 .. Len(s) /\ j + 1 \in 1 .. Len(s)
      BY <1>1
    <3>2. s[i + 1] = s[j + 1]
      BY <1>1, <2>1
    <3>3. i + 1 = j + 1
      BY <1>2, <1>4, <3>1, <3>2 DEF Distinct
    <3>. QED  BY <3>3
  <2>2. ASSUME NEW i \in 1 .. n, a[i] = Head(s)
        PROVE  FALSE
    <3>1. i + 1 \in 1 .. Len(s) /\ 1 \in 1 .. Len(s)
      BY <1>1
    <3>2. s[i + 1] = s[1]
      BY <1>1, <2>2
    <3>3. i + 1 = 1
      BY <1>2, <1>4, <3>1, <3>2 DEF Distinct
    <3>. QED  BY <3>3
  <2>. QED  BY <1>2, <2>1, <2>2 DEF Distinct, ToSet
<1>. QED  BY <1>1, <1>3, <1>4 DEF a

LEMMA FrontSet ==
    ASSUME NEW S, NEW s \in Seq(S), s # <<>>
    PROVE  /\ Front(s) \in Seq(S) /\ Last(s) \in S
           /\ ToSet(s) = {Last(s)} \cup ToSet(Front(s))
           /\ Distinct(s) => Distinct(Front(s)) /\ Last(s) \notin ToSet(Front(s))
<1>. DEFINE a == Front(s)
            n == Len(s) - 1
<1>1. Len(s) \in Nat /\ n \in Nat /\ Len(s) \in 1 .. Len(s) /\ \A i \in 1 .. Len(s) : s[i] \in S
  OBVIOUS
<1>2. /\ a \in Seq(S) /\ Len(a) = n /\ Last(s) = s[Len(s)] /\ Last(s) \in S
      /\ \A i \in 1 .. n : a[i] = s[i]
  <2>1. a = SubSeq(s, 1, n)
    BY DEF Front
  <2>2. \A i \in 1 .. n : i \in 1 .. Len(s) /\ s[i] \in S
    BY <1>1
  <2>3. SubSeq(s, 1, n) \in Seq(S)
    BY <1>1, <2>2
  <2>4. Len(SubSeq(s, 1, n)) = n
    <3>1. PICK k \in Nat : k = n
      BY <1>1
    <3>2. Len(SubSeq(s, 1, k)) = k
      OBVIOUS
    <3>. QED  BY <3>1, <3>2
  <2>5. \A i \in 1 .. n : SubSeq(s, 1, n)[i] = s[i]
    BY <1>1
  <2>. QED  BY <1>1, <2>1, <2>3, <2>4, <2>5 DEF Last
<1>3. DOMAIN s = 1 .. Len(s) /\ DOMAIN a = 1 .. n
  BY <1>2
<1>. HIDE DEF a
<1>4. ToSet(s) = {Last(s)} \cup ToSet(a)
  <2>1. ASSUME NEW i \in 1 .. Len(s)
        PROVE  s[i] = Last(s) \/ s[i] \in ToSet(a)
    <3>1. CASE i = Len(s)
      BY <1>2, <3>1
    <3>2. CASE i # Len(s)
      <4>1. i \in 1 .. n
        BY <1>1, <3>2
      <4>. QED  BY <1>2, <1>3, <4>1 DEF ToSet
    <3>. QED  BY <3>1, <3>2
  <2>2. ASSUME NEW i \in 1 .. n
        PROVE  a[i] \in ToSet(s)
    <3>1. i \in 1 .. Len(s)
      BY <1>1
    <3>. QED  BY <1>2, <1>3, <3>1 DEF ToSet
  <2>3. Last(s) \in ToSet(s)
    BY <1>1, <1>2, <1>3 DEF ToSet
  <2>4. \A y \in ToSet(s) : y = Last(s) \/ y \in ToSet(a)
    BY <1>3, <2>1 DEF ToSet
  <2>5. \A y \in ToSet(a) : y \in ToSet(s)
    BY <1>3, <2>2 DEF ToSet
  <2>. QED  BY <2>3, <2>4, <2>5
<1>5. ASSUME Distinct(s)
      PROVE  Distinct(a) /\ Last(s) \notin ToSet(a)
  <2>1. \A i \in 1 .. n : i \in 1 .. Len(s) /\ i # Len(s)
    BY <1>1
  <2>2. ASSUME NEW i \in 1 .. n, NEW j \in 1 .. n, a[i] = a[j]
        PROVE  i = j
    BY <1>2, <1>3, <1>5, <2>1, <2>2 DEF Distinct
  <2>3. ASSUME NEW i \in 1 .. n, a[i] = Last(s)
        PROVE  FALSE
    BY <1>1, <1>2, <1>3, <1>5, <2>1, <2>3 DEF Distinct
  <2>. QED  BY <1>3, <2>2, <2>3 DEF Distinct, ToSet
<1>. QED  BY <1>2, <1>4, <1>5 DEF a

(* At most two promises.                                                     *)
Small(ps) == ps \in Seq(Promises) /\ Len(ps) <= 2 /\ Distinct(ps)

LEMMA SmallOnes ==
    /\ Small(<<>>) /\ ToSet(<<>>) = {}
    /\ \A p \in Promises : Small(<<p>>) /\ ToSet(<<p>>) = {p}
    /\ \A p, q \in Promises : p # q => Small(<<p, q>>) /\ ToSet(<<p, q>>) = {p, q}
<1>1. Small(<<>>) /\ ToSet(<<>>) = {}
  BY DEF Small, Distinct, ToSet
<1>2. ASSUME NEW p \in Promises
      PROVE  Small(<<p>>) /\ ToSet(<<p>>) = {p}
  BY DEF Small, Distinct, ToSet
<1>3. ASSUME NEW p \in Promises, NEW q \in Promises, p # q
      PROVE  Small(<<p, q>>) /\ ToSet(<<p, q>>) = {p, q}
  BY <1>3 DEF Small, Distinct, ToSet
<1>. QED  BY <1>1, <1>2, <1>3

LEMMA ConcatSet ==
    ASSUME NEW S, NEW s \in Seq(S), NEW t \in Seq(S)
    PROVE  /\ s \o t \in Seq(S) /\ ToSet(s \o t) = ToSet(s) \cup ToSet(t)
           /\ Distinct(s) /\ Distinct(t) /\ ToSet(s) \cap ToSet(t) = {} => Distinct(s \o t)
<1>1. PICK a : a = s \o t
  OBVIOUS
<1>2. PICK m \in Nat : m = Len(s)
  OBVIOUS
<1>3. PICK n \in Nat : n = Len(t)
  OBVIOUS
<1>4. /\ a \in Seq(S) /\ Len(a) = m + n
      /\ \A i \in 1 .. m : a[i] = s[i]
      /\ \A i \in (m + 1) .. (m + n) : a[i] = t[i - m]
  BY <1>1, <1>2, <1>3
<1>5. DOMAIN s = 1 .. m /\ DOMAIN t = 1 .. n /\ DOMAIN a = 1 .. (m + n)
  BY <1>2, <1>3, <1>4
<1>6. \A i \in 1 .. n : i + m \in (m + 1) .. (m + n) /\ (i + m) - m = i
  OBVIOUS
<1>7. \A i \in 1 .. (m + n) : i \in 1 .. m \/ (i \in (m + 1) .. (m + n) /\ i - m \in 1 .. n)
  OBVIOUS
<1>8. ASSUME NEW i \in 1 .. n
      PROVE  a[i + m] = t[i] /\ i + m \in 1 .. (m + n)
  <2>1. i + m \in (m + 1) .. (m + n) /\ (i + m) - m = i /\ i + m \in 1 .. (m + n)
    OBVIOUS
  <2>. QED  BY <1>4, <2>1
<1>9. ToSet(a) = ToSet(s) \cup ToSet(t)
  <2>1. \A i \in 1 .. (m + n) : a[i] \in ToSet(s) \cup ToSet(t)
    BY <1>4, <1>5, <1>7 DEF ToSet
  <2>2. \A i \in 1 .. m : s[i] \in ToSet(a)
    <3>1. \A i \in 1 .. m : i \in 1 .. (m + n)
      OBVIOUS
    <3>. QED  BY <1>4, <1>5, <3>1 DEF ToSet
  <2>3. \A i \in 1 .. n : t[i] \in ToSet(a)
    BY <1>5, <1>8 DEF ToSet
  <2>4. \A x \in ToSet(a) : x \in ToSet(s) \cup ToSet(t)
    BY <1>5, <2>1 DEF ToSet
  <2>5. \A x \in ToSet(s) : x \in ToSet(a)
    BY <1>5, <2>2 DEF ToSet
  <2>6. \A x \in ToSet(t) : x \in ToSet(a)
    BY <1>5, <2>3 DEF ToSet
  <2>. QED  BY <2>4, <2>5, <2>6
<1>10. ASSUME Distinct(s), Distinct(t), ToSet(s) \cap ToSet(t) = {}
       PROVE  Distinct(a)
  <2>1. ASSUME NEW i \in 1 .. (m + n), NEW j \in 1 .. (m + n), a[i] = a[j]
        PROVE  i = j
    <3>1. CASE i \in 1 .. m /\ j \in 1 .. m
      BY <1>4, <1>5, <1>10, <2>1, <3>1 DEF Distinct
    <3>2. CASE i \in 1 .. m /\ j \notin 1 .. m
      <4>1. j \in (m + 1) .. (m + n) /\ j - m \in 1 .. n
        BY <1>7, <3>2
      <4>2. a[i] \in ToSet(s) /\ a[j] \in ToSet(t)
        BY <1>4, <1>5, <3>2, <4>1 DEF ToSet
      <4>. QED  BY <1>10, <2>1, <4>2
    <3>3. CASE i \notin 1 .. m /\ j \in 1 .. m
      <4>1. i \in (m + 1) .. (m + n) /\ i - m \in 1 .. n
        BY <1>7, <3>3
      <4>2. a[j] \in ToSet(s) /\ a[i] \in ToSet(t)
        BY <1>4, <1>5, <3>3, <4>1 DEF ToSet
      <4>. QED  BY <1>10, <2>1, <4>2
    <3>4. CASE i \notin 1 .. m /\ j \notin 1 .. m
      <4>1. /\ i \in (m + 1) .. (m + n) /\ i - m \in 1 .. n
            /\ j \in (m + 1) .. (m + n) /\ j - m \in 1 .. n
        BY <1>7, <3>4
      <4>2. t[i - m] = t[j - m]
        BY <1>4, <2>1, <4>1
      <4>3. i - m = j - m
        BY <1>5, <1>10, <4>1, <4>2 DEF Distinct
      <4>. QED  BY <4>1, <4>3
    <3>. QED  BY <3>1, <3>2, <3>3, <3>4
  <2>. QED  BY <1>5, <2>1 DEF Distinct
<1>. QED  BY <1>1, <1>4, <1>9, <1>10

LEMMA KeptSet ==
    ASSUME NEW ps, Small(ps), NEW S
    PROVE  Small(Kept(ps, S)) /\ ToSet(Kept(ps, S)) = ToSet(ps) \cap S
<1>. DEFINE At(i) == IF i \in DOMAIN ps /\ ps[i] \in S THEN <<ps[i]>> ELSE <<>>
<1>1. Kept(ps, S) = At(1) \o At(2)
  BY DEF Kept
<1>2. /\ ps \in Seq(Promises) /\ DOMAIN ps = 1 .. Len(ps) /\ Len(ps) \in {0, 1, 2} /\ Distinct(ps)
  <2>1. ps \in Seq(Promises) /\ Len(ps) <= 2 /\ Distinct(ps)
    BY DEF Small
  <2>2. Len(ps) \in Nat /\ DOMAIN ps = 1 .. Len(ps)
    BY <2>1
  <2>3. Len(ps) \in {0, 1, 2}
    BY <2>1, <2>2
  <2>. QED  BY <2>1, <2>2, <2>3
<1>3. /\ 1 \in DOMAIN ps => ps[1] \in Promises
      /\ 2 \in DOMAIN ps => ps[2] \in Promises /\ 1 \in DOMAIN ps /\ ps[1] # ps[2]
  BY <1>2 DEF Distinct
<1>4. ToSet(ps) = (IF 1 \in DOMAIN ps THEN {ps[1]} ELSE {}) \cup (IF 2 \in DOMAIN ps THEN {ps[2]} ELSE {})
  BY <1>2 DEF ToSet
<1>5. /\ At(1) \in Seq(Promises) /\ At(2) \in Seq(Promises)
      /\ Distinct(At(1)) /\ Distinct(At(2)) /\ Len(At(1)) <= 1 /\ Len(At(2)) <= 1
  BY <1>3, SmallOnes DEF Small
<1>6. /\ ToSet(At(1)) = IF 1 \in DOMAIN ps /\ ps[1] \in S THEN {ps[1]} ELSE {}
      /\ ToSet(At(2)) = IF 2 \in DOMAIN ps /\ ps[2] \in S THEN {ps[2]} ELSE {}
  BY <1>3, SmallOnes
<1>. HIDE DEF At
<1>7. ToSet(At(1)) \cap ToSet(At(2)) = {}
  BY <1>3, <1>6
<1>8. /\ At(1) \o At(2) \in Seq(Promises) /\ ToSet(At(1) \o At(2)) = ToSet(At(1)) \cup ToSet(At(2))
      /\ Distinct(At(1) \o At(2))
  BY <1>5, <1>7, ConcatSet
<1>9. Len(At(1) \o At(2)) <= 2
  BY <1>5
<1>10. ToSet(At(1)) \cup ToSet(At(2)) = ToSet(ps) \cap S
  BY <1>4, <1>6
<1>. QED  BY <1>1, <1>8, <1>9, <1>10 DEF Small

-----------------------------------------------------------------------------
(* The queue of pending promises.                                            *)

LEMMA QueueSets ==
    ASSUME TypeOK, Queue
    PROVE  /\ AllPending = Promises \cap (ToSet(pending) \cup {current})
           /\ pending \in Seq(Promises) /\ ToSet(pending) \subseteq Promises
           /\ is_pending \in [Promises -> BOOLEAN]
<1>1. pending \in Seq(Promises) /\ is_pending \in [Promises -> BOOLEAN]
  BY DEF TypeOK
<1>2. ToSet(pending) \subseteq Promises
  BY <1>1, SeqSet
<1>. QED  BY <1>1, <1>2 DEF Queue, AllPending

(* di_promise_start_dispatch: the settled promises ps are in the queue then, *)
(* except the one that is being dispatched.                                  *)
LEMMA DispatchStarts ==
    ASSUME TypeOK, Queue, Watched, loop # "stopped", NEW ps, Small(ps), StartDispatch(ps)
    PROVE  /\ pending' \in Seq(Promises) /\ Distinct(pending')
           /\ ToSet(pending') = ToSet(pending) \cup (ToSet(ps) \ {current})
           /\ is_pending' \in [Promises -> BOOLEAN]
           /\ \A p \in Promises : is_pending'[p] <=> p \in ToSet(pending') \cup {current}
           /\ idle' \in BOOLEAN /\ rooted' \in BOOLEAN
           /\ pending' # <<>> /\ loop = "wait" => idle' /\ (rooted' \/ exited)
<1>1. PICK new : new = Kept(ps, Promises \ AllPending)
  OBVIOUS
<1>2. /\ pending' = pending \o new
      /\ is_pending' = [p \in Promises |-> is_pending[p] \/ p \in ToSet(new)]
      /\ idle' = (idle \/ new # <<>>)
      /\ rooted' = (rooted \/ (pending = <<>> /\ new # <<>> /\ ~exited))
  BY <1>1 DEF StartDispatch
<1>3. Small(new) /\ ToSet(new) = ToSet(ps) \cap (Promises \ AllPending)
  BY <1>1, KeptSet
<1>4. ps \in Seq(Promises) /\ new \in Seq(Promises) /\ Distinct(new)
  BY <1>3 DEF Small
<1>5. ToSet(ps) \subseteq Promises
  BY <1>4, SeqSet
<1>6. /\ AllPending = Promises \cap (ToSet(pending) \cup {current})
      /\ pending \in Seq(Promises) /\ ToSet(pending) \subseteq Promises
      /\ is_pending \in [Promises -> BOOLEAN]
  BY QueueSets
<1>7. ToSet(pending) \cap ToSet(new) = {} /\ Distinct(pending)
  BY <1>3, <1>6 DEF Queue
<1>8. /\ pending \o new \in Seq(Promises) /\ Distinct(pending \o new)
      /\ ToSet(pending \o new) = ToSet(pending) \cup ToSet(new)
  BY <1>4, <1>6, <1>7, ConcatSet
<1>9. ToSet(pending) \cup ToSet(new) = ToSet(pending) \cup (ToSet(ps) \ {current})
  <2>1. current \notin ToSet(pending)
    BY DEF Queue
  <2>. QED  BY <1>3, <1>5, <1>6, <2>1
<1>10. ToSet(pending') = ToSet(pending) \cup ToSet(new)
  BY <1>2, <1>8
<1>11. /\ is_pending' \in [Promises -> BOOLEAN]
       /\ \A p \in Promises : is_pending'[p] <=> p \in ToSet(pending') \cup {current}
  <2>1. \A p \in Promises : is_pending[p] <=> p \in ToSet(pending) \cup {current}
    BY DEF Queue
  <2>2. \A p \in Promises : is_pending'[p] <=> is_pending[p] \/ p \in ToSet(new)
    BY <1>2
  <2>3. is_pending' \in [Promises -> BOOLEAN]
    BY <1>2
  <2>. QED  BY <1>10, <2>1, <2>2, <2>3
<1>12. idle' \in BOOLEAN /\ rooted' \in BOOLEAN
  BY <1>2 DEF TypeOK
<1>13. ASSUME pending' # <<>>, loop = "wait"
       PROVE  idle' /\ (rooted' \/ exited)
  <2>1. CASE pending # <<>>
    BY <1>2, <1>13, <2>1 DEF Watched
  <2>2. CASE pending = <<>>
    <3>1. new # <<>>
      <4>1. new = <<>> => pending' = <<>>
        BY <1>2, <2>2
      <4>. QED  BY <1>13, <4>1
    <3>. QED  BY <1>2, <2>2, <3>1
  <2>. QED  BY <2>1, <2>2
<1>. QED  BY <1>2, <1>8, <1>9, <1>10, <1>11, <1>12, <1>13

(* The parts of the invariant that speak of the queue, after it.             *)
LEMMA QueueKept ==
    ASSUME TypeOK, Queue, Watched, loop # "stopped", NEW ps, Small(ps), StartDispatch(ps),
           loop' = loop, exited' = exited, current' = current,
           \A p \in Promises : Settled(p) => Settled(p)',
           \A p \in ToSet(ps) : Settled(p)'
    PROVE  Queue' /\ Watched'
<1>1. /\ pending' \in Seq(Promises) /\ Distinct(pending')
      /\ ToSet(pending') = ToSet(pending) \cup (ToSet(ps) \ {current})
      /\ \A p \in Promises : is_pending'[p] <=> p \in ToSet(pending') \cup {current}
      /\ pending' # <<>> /\ loop = "wait" => idle' /\ (rooted' \/ exited)
  BY DispatchStarts
<1>2. ToSet(pending) \subseteq Promises
  BY QueueSets
<1>3. \A p \in ToSet(pending') : Settled(p)'
  BY <1>1, <1>2 DEF Queue
<1>4. current' \notin ToSet(pending')
  BY <1>1 DEF Queue
<1>5. Queue'
  BY <1>1, <1>3, <1>4 DEF Queue
<1>6. Watched'
  BY <1>1 DEF Watched
<1>. QED  BY <1>5, <1>6

Values == [Promises -> Value]

(* di_promise_resolve and di_promise_reject.                                 *)
(* Those of ps that were not settled are, and go to the queue.               *)
NowSettled(new, ps, st, v) ==
    /\ new = ToSet(ps) \ AllSettled
    /\ status' = [p \in Promises |-> IF p \in new THEN st ELSE status[p]]
    /\ value' = [p \in Promises |-> IF p \in new THEN v[p] ELSE value[p]]
    /\ pending' \in Seq(Promises) /\ Distinct(pending')
    /\ ToSet(pending') = ToSet(pending) \cup new
    /\ is_pending' \in [Promises -> BOOLEAN]
    /\ \A p \in Promises : is_pending'[p] <=> p \in ToSet(pending') \cup {current}
    /\ idle' \in BOOLEAN /\ rooted' \in BOOLEAN
    /\ pending' # <<>> /\ loop = "wait" => idle' /\ (rooted' \/ exited)

LEMMA Settles ==
    ASSUME TypeOK, Queue, Watched, Dispatch, loop # "stopped", NEW ps, Small(ps),
           NEW st \in {"resolved", "rejected"}, NEW v \in Values, Settle(ps, st, v)
    PROVE  \E new \in SUBSET Promises : NowSettled(new, ps, st, v)
<1>1. PICK new : new = Kept(ps, Promises \ AllSettled)
  OBVIOUS
<1>2. /\ status' = [p \in Promises |-> IF p \in ToSet(new) THEN st ELSE status[p]]
      /\ value' = [p \in Promises |-> IF p \in ToSet(new) THEN v[p] ELSE value[p]]
      /\ StartDispatch(new)
  BY <1>1 DEF Settle
<1>3. Small(new) /\ ToSet(new) = ToSet(ps) \cap (Promises \ AllSettled)
  BY <1>1, KeptSet
<1>4. ps \in Seq(Promises)
  BY DEF Small
<1>5. ToSet(ps) \subseteq Promises
  BY <1>4, SeqSet
<1>6. ToSet(new) = ToSet(ps) \ AllSettled /\ ToSet(new) \in SUBSET Promises
  BY <1>3, <1>5
<1>7. /\ pending' \in Seq(Promises) /\ Distinct(pending')
      /\ ToSet(pending') = ToSet(pending) \cup (ToSet(new) \ {current})
      /\ is_pending' \in [Promises -> BOOLEAN]
      /\ \A p \in Promises : is_pending'[p] <=> p \in ToSet(pending') \cup {current}
      /\ idle' \in BOOLEAN /\ rooted' \in BOOLEAN
      /\ pending' # <<>> /\ loop = "wait" => idle' /\ (rooted' \/ exited)
  BY <1>2, <1>3, DispatchStarts
<1>8. current \notin ToSet(new)
  <2>1. current \in Promises /\ current # NoPromise => current \in AllSettled
    BY DEF Dispatch, AllSettled
  <2>2. NoPromise \notin Promises
    BY DEF NoPromise, Promises
  <2>. QED  BY <1>6, <2>1, <2>2
<1>9. ToSet(pending') = ToSet(pending) \cup ToSet(new)
  BY <1>7, <1>8
<1>10. NowSettled(ToSet(new), ps, st, v)
  BY <1>2, <1>6, <1>7, <1>9 DEF NowSettled
<1>. QED  BY <1>6, <1>10

-----------------------------------------------------------------------------
(* What a closure that gives its handlers up leaves as it is.                *)

Final == {"resolved", "rejected"}
States == {"none", "armed", "failed", "spent"}
Emptied(cl, t, s) == [cl EXCEPT ![t] = [cl[t] EXCEPT !.res = "none", !.rej = "none", !.st = s]]
SameBut(cl, cl2, t) == \A p \in Promises : p # t => cl2[p] = cl[p]

LEMMA NoPromiseIsNone == NoPromise \notin Promises /\ Promises \subseteq Nat
  BY DEF NoPromise, Promises

LEMMA EmptiedFields ==
    ASSUME NEW cl \in [Promises -> Closure], NEW t \in Promises, NEW s \in States,
           NEW cl2, cl2 = Emptied(cl, t, s)
    PROVE  /\ cl2 \in [Promises -> Closure] /\ SameBut(cl, cl2, t)
           /\ cl2[t].res = "none" /\ cl2[t].rej = "none" /\ cl2[t].st = s
           /\ cl2[t].ret = cl[t].ret /\ cl2[t].i = cl[t].i
<1>1. PICK c : c = [cl[t] EXCEPT !.res = "none", !.rej = "none", !.st = s]
  OBVIOUS
<1>2. cl[t] \in Closure
  OBVIOUS
<1>3. /\ c \in Closure /\ c.res = "none" /\ c.rej = "none" /\ c.st = s /\ c.ret = cl[t].ret
      /\ c.i = cl[t].i
  BY <1>1, <1>2 DEF Closure, States
<1>4. cl2 = [cl EXCEPT ![t] = c]
  BY <1>1 DEF Emptied
<1>. QED  BY <1>3, <1>4 DEF SameBut

LEMMA PlacesPopped ==
    ASSUME NEW hs \in [Promises -> Seq(Promises)], NEW td \in Seq(Promises), td # <<>>,
           NEW cl, NEW cl2, NEW t, t = Head(td), Places(hs, td, NoPromise, cl), SameBut(cl, cl2, t)
    PROVE  /\ Places(hs, Tail(td), NoPromise, cl2)
           /\ cl2[t].st = "armed" /\ cl2[t].i = 0 => Places(hs, Tail(td), t, cl2)
           /\ t \in Promises /\ cl[t].st = "armed"
<1>1. /\ Tail(td) \in Seq(Promises) /\ t \in Promises /\ ToSet(td) = {t} \cup ToSet(Tail(td))
      /\ Distinct(td) => Distinct(Tail(td)) /\ t \notin ToSet(Tail(td))
  BY TailSet
<1>2. PICK tl : tl = Tail(td)
  OBVIOUS
<1>3. /\ Distinct(tl) /\ t \notin ToSet(tl) /\ ToSet(td) = {t} \cup ToSet(tl)
      /\ tl \in Seq(Promises)
  BY <1>1, <1>2 DEF Places
<1>4. /\ \A p \in Promises :
           /\ Distinct(hs[p])
           /\ ToSet(hs[p]) \cap ToSet(td) = {}
           /\ \A q \in Promises : p # q => ToSet(hs[p]) \cap ToSet(hs[q]) = {}
           /\ \A x \in ToSet(hs[p]) : cl[x].st = "armed"
      /\ \A x \in ToSet(td) : cl[x].st = "armed"
  BY DEF Places
<1>5. \A p \in Promises : ToSet(hs[p]) \subseteq Promises
  BY SeqSet
<1>6. ToSet(tl) \subseteq Promises
  BY <1>3, SeqSet
<1>7. \A p \in Promises : t \notin ToSet(hs[p]) /\ ToSet(hs[p]) \cap ToSet(tl) = {}
  BY <1>3, <1>4
<1>8. \A p \in Promises : \A x \in ToSet(hs[p]) : cl2[x].st = "armed"
  BY <1>4, <1>5, <1>7 DEF SameBut
<1>9. \A x \in ToSet(tl) : cl2[x].st = "armed"
  BY <1>3, <1>4, <1>6 DEF SameBut
<1>10. NoPromise \notin Promises
  BY NoPromiseIsNone
<1>11. Places(hs, tl, NoPromise, cl2)
  BY <1>3, <1>4, <1>5, <1>6, <1>7, <1>8, <1>9, <1>10 DEF Places
<1>12. cl2[t].st = "armed" /\ cl2[t].i = 0 => Places(hs, tl, t, cl2)
  BY <1>3, <1>4, <1>7, <1>8, <1>9 DEF Places
<1>13. cl[t].st = "armed"
  BY <1>1, <1>4
<1>. QED  BY <1>1, <1>2, <1>11, <1>12, <1>13

LEMMA FreshEmptied ==
    ASSUME NEW cl \in [Promises -> Closure], NEW t \in Promises, NEW s \in States,
           NEW cl2, cl2 = Emptied(cl, t, s), NEW ca, Fresh(cl, ca)
    PROVE  Fresh(cl2, ca)
<1>1. /\ SameBut(cl, cl2, t) /\ cl2[t].res = "none" /\ cl2[t].rej = "none"
  BY EmptiedFields
<1>. QED  BY <1>1 DEF Fresh, SameBut

LEMMA FreshCalled ==
    ASSUME NEW cl, NEW t \in Promises, cl[t].res = "none", cl[t].rej = "none", NEW ca, Fresh(cl, ca),
           NEW ca2, SameBut(ca, ca2, t), ca2[t] = 1
    PROVE  Fresh(cl, ca2)
  BY DEF Fresh, SameBut

LEMMA InnerEmptied ==
    ASSUME NEW cl \in [Promises -> Closure], NEW t \in Promises, NEW s \in States,
           NEW cl2, cl2 = Emptied(cl, t, s), NEW rs, NEW in, NEW hs, NEW td, NEW tl, NEW cur,
           ToSet(tl) \subseteq ToSet(td), Inner(cl, rs, in, hs, td, cur)
    PROVE  Inner(cl2, rs, in, hs, tl, cur)
<1>1. /\ SameBut(cl, cl2, t) /\ cl2[t].res = "none" /\ cl2[t].rej = "none"
      /\ cl2[t].ret = cl[t].ret /\ cl2[t].i = cl[t].i
  BY EmptiedFields
<1>2. \A x \in Promises : /\ cl2[x].ret = cl[x].ret /\ cl2[x].i = cl[x].i
                          /\ cl2[x].res = cl[x].res \/ cl2[x].res = "none"
  BY <1>1 DEF SameBut
<1>. QED  BY <1>2 DEF Inner, InnerOne

(* A join, when what it depends on stays.                                    *)
LEMMA JoinKept ==
    ASSUME NEW r, NEW cl, NEW cl2, NEW in, NEW in2, NEW st, NEW st2, NEW va, NEW va2,
           NEW rs, NEW rs2, NEW le, NEW le2,
           Join(r, cl, in, st, va, rs, le), rs2[r] = rs[r], le2[r] = le[r], in2[r] = in[r],
           cl2[r].st = cl[r].st,
           cl2[r + 1].ret = cl[r + 1].ret, cl2[r + 1].i = cl[r + 1].i,
           cl2[r + 2].ret = cl[r + 2].ret, cl2[r + 2].i = cl[r + 2].i,
           Open(r, 1, cl2, in2, st2) <=> Open(r, 1, cl, in, st),
           Open(r, 2, cl2, in2, st2) <=> Open(r, 2, cl, in, st),
           Hit(r, 1, in, st, va, rs) => Hit(r, 1, in2, st2, va2, rs2),
           Hit(r, 2, in, st, va, rs) => Hit(r, 2, in2, st2, va2, rs2),
           va2[r] = Tuple => Hit(r, 1, in, st, va, rs) /\ Hit(r, 2, in, st, va, rs)
    PROVE  Join(r, cl2, in2, st2, va2, rs2, le2)
<1>1. One(Open(r, 1, cl2, in2, st2)) = One(Open(r, 1, cl, in, st))
  BY DEF One
<1>2. One(Open(r, 2, cl2, in2, st2)) = One(Open(r, 2, cl, in, st))
  BY DEF One
<1>3. /\ Len(rs[r]) = 2 /\ Pair(r, in) /\ cl[r].st = "none"
      /\ r + 1 \in Promises /\ r + 2 \in Promises
      /\ cl[r + 1].ret = r /\ cl[r + 1].i = 1 /\ cl[r + 2].ret = r /\ cl[r + 2].i = 2
      /\ le[r] = One(Open(r, 1, cl, in, st)) + One(Open(r, 2, cl, in, st))
      /\ Open(r, 1, cl, in, st) \/ Hit(r, 1, in, st, va, rs)
      /\ Open(r, 2, cl, in, st) \/ Hit(r, 2, in, st, va, rs)
      /\ va[r] = Tuple => Hit(r, 1, in, st, va, rs) /\ Hit(r, 2, in, st, va, rs)
  BY DEF Join
<1>4. Pair(r, in2)
  BY <1>3 DEF Pair
<1>5. le2[r] = One(Open(r, 1, cl2, in2, st2)) + One(Open(r, 2, cl2, in2, st2))
  BY <1>1, <1>2, <1>3
<1>. QED  BY <1>3, <1>4, <1>5 DEF Join

(* Settled promises stay as they are.                                        *)
Grows(st, va, st2, va2) ==
    \A p \in Promises :
        /\ st[p] \in Final => st2[p] = st[p] /\ va2[p] = va[p]
        /\ st2[p] = "free" <=> st[p] = "free"

(* A join resolves when both results are there.                              *)
Tuples(in, st, va, va2, rs) ==
    \A r \in Promises :
        rs[r] # <<>> /\ va2[r] = Tuple =>
            va[r] = Tuple \/ (Hit(r, 1, in, st, va, rs) /\ Hit(r, 2, in, st, va, rs))

LEMMA PairTyped ==
    ASSUME NEW in \in [Promises -> Seq(Promises)], NEW r \in Promises, Pair(r, in)
    PROVE  in[r][1] \in Promises /\ in[r][2] \in Promises /\ DOMAIN in[r] = {1, 2}
<1>1. in[r] \in Seq(Promises) /\ Len(in[r]) = 2
  BY DEF Pair
<1>2. DOMAIN in[r] = 1 .. 2
  BY <1>1
<1>3. 1 .. 2 = {1, 2}
  OBVIOUS
<1>4. PICK q : q = in[r]
  OBVIOUS
<1>5. q \in Seq(Promises) /\ 1 \in 1 .. Len(q) /\ 2 \in 1 .. Len(q)
  <2>1. q \in Seq(Promises) /\ Len(q) = 2
    BY <1>1, <1>4
  <2>2. 1 \in 1 .. 2 /\ 2 \in 1 .. 2
    OBVIOUS
  <2>. QED  BY <2>1, <2>2
<1>6. q[1] \in Promises /\ q[2] \in Promises
  BY <1>5, ElementOf
<1>. QED  BY <1>2, <1>3, <1>4, <1>6

LEMMA JoinsSettled ==
    ASSUME NEW cl, NEW in \in [Promises -> Seq(Promises)], NEW st, NEW va, NEW st2, NEW va2,
           NEW rs, NEW le, Joins(cl, in, st, va, rs, le), Grows(st, va, st2, va2),
           Tuples(in, st, va, va2, rs)
    PROVE  Joins(cl, in, st2, va2, rs, le)
<1>1. ASSUME NEW r \in Promises, rs[r] # <<>>
      PROVE  Join(r, cl, in, st2, va2, rs, le)
  <2>1. Join(r, cl, in, st, va, rs, le)
    BY <1>1 DEF Joins
  <2>2. /\ Pair(r, in)
        /\ Open(r, 1, cl, in, st) \/ Hit(r, 1, in, st, va, rs)
        /\ Open(r, 2, cl, in, st) \/ Hit(r, 2, in, st, va, rs)
        /\ va[r] = Tuple => Hit(r, 1, in, st, va, rs) /\ Hit(r, 2, in, st, va, rs)
    BY <2>1 DEF Join
  <2>3. in[r][1] \in Promises /\ in[r][2] \in Promises
    BY <2>2, PairTyped
  <2>4. /\ st[in[r][1]] \in Final => st2[in[r][1]] = st[in[r][1]] /\ va2[in[r][1]] = va[in[r][1]]
        /\ st[in[r][2]] \in Final => st2[in[r][2]] = st[in[r][2]] /\ va2[in[r][2]] = va[in[r][2]]
    BY <2>3 DEF Grows
  <2>5. /\ Hit(r, 1, in, st, va, rs) => Hit(r, 1, in, st2, va2, rs)
        /\ Hit(r, 2, in, st, va, rs) => Hit(r, 2, in, st2, va2, rs)
    BY <2>4 DEF Hit, Final
  <2>6. Open(r, 1, cl, in, st2) <=> Open(r, 1, cl, in, st)
    BY <2>2, <2>4 DEF Open, Hit, Final
  <2>7. Open(r, 2, cl, in, st2) <=> Open(r, 2, cl, in, st)
    BY <2>2, <2>4 DEF Open, Hit, Final
  <2>8. va2[r] = Tuple => Hit(r, 1, in, st, va, rs) /\ Hit(r, 2, in, st, va, rs)
    BY <1>1, <2>2 DEF Tuples
  <2>. QED  BY <2>1, <2>5, <2>6, <2>7, <2>8, JoinKept
<1>. QED  BY <1>1 DEF Joins

LEMMA JoinsEmptied ==
    ASSUME NEW cl \in [Promises -> Closure], NEW t \in Promises, NEW s \in States,
           NEW cl2, cl2 = Emptied(cl, t, s), cl[t].st = "armed",
           NEW in, NEW st, NEW va, NEW rs, NEW le, Joins(cl, in, st, va, rs, le),
           cl[t].res = "join" => st[in[cl[t].ret][cl[t].i]] = "rejected"
    PROVE  Joins(cl2, in, st, va, rs, le)
<1>1. /\ SameBut(cl, cl2, t) /\ cl2[t].res = "none" /\ cl2[t].ret = cl[t].ret /\ cl2[t].i = cl[t].i
  BY EmptiedFields
<1>2. ASSUME NEW r \in Promises, rs[r] # <<>>
      PROVE  Join(r, cl2, in, st, va, rs, le)
  <2>1. Join(r, cl, in, st, va, rs, le)
    BY <1>2 DEF Joins
  <2>2. /\ cl[r].st = "none" /\ r + 1 \in Promises /\ r + 2 \in Promises
        /\ cl[r + 1].ret = r /\ cl[r + 1].i = 1 /\ cl[r + 2].ret = r /\ cl[r + 2].i = 2
        /\ va[r] = Tuple => Hit(r, 1, in, st, va, rs) /\ Hit(r, 2, in, st, va, rs)
    BY <2>1 DEF Join
  <2>3. r # t
    BY <2>2
  <2>4. cl2[r].st = cl[r].st
    BY <1>1, <2>3 DEF SameBut
  <2>5. /\ cl2[r + 1].ret = cl[r + 1].ret /\ cl2[r + 1].i = cl[r + 1].i
        /\ Open(r, 1, cl2, in, st) <=> Open(r, 1, cl, in, st)
    <3>1. CASE r + 1 = t
      BY <1>1, <2>2, <3>1 DEF Open
    <3>2. CASE r + 1 # t
      <4>1. cl2[r + 1] = cl[r + 1]
        BY <1>1, <2>2, <3>2 DEF SameBut
      <4>. QED  BY <4>1 DEF Open
    <3>. QED  BY <3>1, <3>2
  <2>6. /\ cl2[r + 2].ret = cl[r + 2].ret /\ cl2[r + 2].i = cl[r + 2].i
        /\ Open(r, 2, cl2, in, st) <=> Open(r, 2, cl, in, st)
    <3>1. CASE r + 2 = t
      BY <1>1, <2>2, <3>1 DEF Open
    <3>2. CASE r + 2 # t
      <4>1. cl2[r + 2] = cl[r + 2]
        BY <1>1, <2>2, <3>2 DEF SameBut
      <4>. QED  BY <4>1 DEF Open
    <3>. QED  BY <3>1, <3>2
  <2>. QED  BY <2>1, <2>2, <2>4, <2>5, <2>6, JoinKept
<1>. QED  BY <1>2 DEF Joins

(* di_promise_join_handler stores the result of the promise i of the join r. *)
Stored(rs, r, i, x) == [rs EXCEPT ![r] = [rs[r] EXCEPT ![i] = x]]
Lowered(le, r) == [le EXCEPT ![r] = le[r] - 1]

LEMMA StoredFields ==
    ASSUME NEW rs \in [Promises -> Seq(Value)], NEW r \in Promises, Len(rs[r]) = 2,
           NEW i \in {1, 2}, NEW x \in Value, NEW rs2, rs2 = Stored(rs, r, i, x)
    PROVE  /\ rs2 \in [Promises -> Seq(Value)] /\ SameBut(rs, rs2, r)
           /\ Len(rs2[r]) = 2 /\ rs2[r][i] = x /\ rs2[r] # <<>>
           /\ \A j \in {1, 2} : j # i => rs2[r][j] = rs[r][j]
<1>1. PICK s \in Seq(Value) : s = rs[r]
  OBVIOUS
<1>2. PICK q : q = [s EXCEPT ![i] = x]
  OBVIOUS
<1>3. i \in 1 .. Len(s) /\ Len(s) = 2
  <2>1. Len(s) = 2
    BY <1>1
  <2>2. i \in 1 .. 2
    OBVIOUS
  <2>. QED  BY <2>1, <2>2
<1>4. q \in Seq(Value) /\ Len(q) = 2 /\ q[i] = x /\ \A j \in 1 .. 2 : j # i => q[j] = s[j]
  <2>1. i \in 1 .. Len(s) /\ Len(s) = 2
    BY <1>3
  <2>2. /\ q \in Seq(Value) /\ Len(q) = Len(s) /\ q[i] = x
        /\ \A j \in 1 .. Len(s) : j # i => q[j] = s[j]
    BY <1>1, <1>2, <2>1, ExceptAt
  <2>. QED  BY <2>1, <2>2
<1>5. rs2 = [rs EXCEPT ![r] = q]
  BY <1>1, <1>2 DEF Stored
<1>6. q # <<>>
  <2>1. Len(q) = 2
    BY <1>4
  <2>2. q = <<>> => Len(q) = 0
    OBVIOUS
  <2>. QED  BY <2>1, <2>2
<1>7. \A j \in {1, 2} : j # i => q[j] = s[j]
  BY <1>4
<1>8. rs2[r] = q /\ rs2 \in [Promises -> Seq(Value)] /\ SameBut(rs, rs2, r)
  BY <1>4, <1>5 DEF SameBut
<1>. QED  BY <1>1, <1>4, <1>6, <1>7, <1>8

LEMMA LoweredFields ==
    ASSUME NEW le \in [Promises -> Nat], NEW r \in Promises, le[r] # 0, NEW le2, le2 = Lowered(le, r)
    PROVE  le2 \in [Promises -> Nat] /\ SameBut(le, le2, r) /\ le2[r] = le[r] - 1
<1>1. le[r] - 1 \in Nat
  <2>1. le[r] \in Nat
    OBVIOUS
  <2>. QED  BY <2>1
<1>. QED  BY <1>1 DEF Lowered, SameBut

(* A join is complete in what concerns i.                                    *)
HalfJoin(r, i, cl, in, st, va, rs) ==
    /\ r + i \in Promises /\ cl[r + i].ret = r /\ cl[r + i].i = i
    /\ Open(r, i, cl, in, st) \/ Hit(r, i, in, st, va, rs)
    /\ va[r] = Tuple => Hit(r, i, in, st, va, rs)

LEMMA Halves ==
    ASSUME NEW r, NEW cl, NEW in, NEW st, NEW va, NEW rs, NEW le, NEW i \in {1, 2}, NEW j \in {1, 2}, i # j
    PROVE  Join(r, cl, in, st, va, rs, le) <=>
             /\ Len(rs[r]) = 2 /\ Pair(r, in) /\ cl[r].st = "none"
             /\ HalfJoin(r, i, cl, in, st, va, rs) /\ HalfJoin(r, j, cl, in, st, va, rs)
             /\ le[r] = One(Open(r, i, cl, in, st)) + One(Open(r, j, cl, in, st))
<1>1. CASE i = 1 /\ j = 2
  BY <1>1 DEF Join, HalfJoin
<1>2. CASE i = 2 /\ j = 1
  <2>1. One(Open(r, 1, cl, in, st)) \in Nat /\ One(Open(r, 2, cl, in, st)) \in Nat
    BY DEF One
  <2>2. One(Open(r, 1, cl, in, st)) + One(Open(r, 2, cl, in, st)) =
        One(Open(r, 2, cl, in, st)) + One(Open(r, 1, cl, in, st))
    BY <2>1
  <2>. QED  BY <1>2, <2>2 DEF Join, HalfJoin
<1>. QED  BY <1>1, <1>2

(* The closure t of the join r is called for the promise i, which resolved.  *)
Storing(cl, t, in, st, va, rs, le, r, i) ==
    /\ cl \in [Promises -> Closure] /\ t \in Promises
    /\ in \in [Promises -> Seq(Promises)] /\ va \in [Promises -> Value]
    /\ rs \in [Promises -> Seq(Value)] /\ le \in [Promises -> Nat]
    /\ cl[t].st = "armed" /\ cl[t].res = "join" /\ cl[t].ret = r /\ cl[t].i = i
    /\ r \in Promises /\ i \in {1, 2} /\ t = r + i
    /\ rs[r] # <<>> /\ st[in[r][i]] = "resolved"

LEMMA JoinStored ==
    ASSUME NEW cl, NEW t, NEW in, NEW st, NEW va, NEW rs, NEW le, NEW r, NEW i,
           Storing(cl, t, in, st, va, rs, le, r, i), Joins(cl, in, st, va, rs, le),
           NEW s \in States, NEW cl2, cl2 = Emptied(cl, t, s),
           NEW rs2, rs2 = Stored(rs, r, i, va[in[r][i]]), NEW le2, le2 = Lowered(le, r)
    PROVE  /\ Join(r, cl2, in, st, va, rs2, le2)
           /\ rs2 \in [Promises -> Seq(Value)] /\ le2 \in [Promises -> Nat]
           /\ SameBut(rs, rs2, r) /\ SameBut(le, le2, r) /\ rs2[r] # <<>>
           /\ le[r] = 1 => Hit(r, 1, in, st, va, rs2) /\ Hit(r, 2, in, st, va, rs2)
<1>1. r \in Promises /\ i \in {1, 2} /\ t = r + i /\ t \in Promises /\ rs[r] # <<>>
  BY DEF Storing
<1>2. Join(r, cl, in, st, va, rs, le)
  BY <1>1 DEF Joins
<1>3. PICK j \in {1, 2} : j # i
  <2>1. 1 # 2
    OBVIOUS
  <2>. QED  BY <2>1
<1>4. /\ Len(rs[r]) = 2 /\ Pair(r, in) /\ cl[r].st = "none"
      /\ HalfJoin(r, i, cl, in, st, va, rs) /\ HalfJoin(r, j, cl, in, st, va, rs)
      /\ le[r] = One(Open(r, i, cl, in, st)) + One(Open(r, j, cl, in, st))
  BY <1>1, <1>2, <1>3, Halves
<1>5. /\ SameBut(cl, cl2, t) /\ cl2[t].res = "none" /\ cl2[t].ret = cl[t].ret /\ cl2[t].i = cl[t].i
  <2>1. cl \in [Promises -> Closure]
    BY DEF Storing
  <2>. QED  BY <1>1, <2>1, EmptiedFields
<1>6. Open(r, i, cl, in, st) /\ ~Open(r, i, cl2, in, st)
  BY <1>1, <1>5 DEF Open, Storing
<1>7. in[r][i] \in Promises /\ va[in[r][i]] \in Value
  <2>1. in \in [Promises -> Seq(Promises)] /\ va \in [Promises -> Value]
    BY DEF Storing
  <2>2. in[r][i] \in Promises
    BY <1>1, <1>4, <2>1, PairTyped
  <2>. QED  BY <2>1, <2>2
<1>8. /\ rs2 \in [Promises -> Seq(Value)] /\ SameBut(rs, rs2, r)
      /\ Len(rs2[r]) = 2 /\ rs2[r][i] = va[in[r][i]] /\ rs2[r] # <<>>
      /\ \A k \in {1, 2} : k # i => rs2[r][k] = rs[r][k]
  <2>1. rs \in [Promises -> Seq(Value)] /\ r \in Promises /\ Len(rs[r]) = 2 /\ i \in {1, 2}
    BY <1>1, <1>4 DEF Storing
  <2>2. PICK x \in Value : x = va[in[r][i]]
    BY <1>7
  <2>3. rs2 = Stored(rs, r, i, x)
    BY <2>2
  <2>4. /\ rs2 \in [Promises -> Seq(Value)] /\ SameBut(rs, rs2, r)
        /\ Len(rs2[r]) = 2 /\ rs2[r][i] = x /\ rs2[r] # <<>>
        /\ \A k \in {1, 2} : k # i => rs2[r][k] = rs[r][k]
    BY <2>1, <2>3, StoredFields
  <2>. QED  BY <2>2, <2>4
<1>9. r + j # t /\ r # t /\ r + j \in Promises
  <2>1. cl[r + j].i = j /\ cl[t].i = i /\ cl[t].st = "armed" /\ r + j \in Promises
    BY <1>4 DEF HalfJoin, Storing
  <2>. QED  BY <1>3, <1>4, <2>1
<1>10. cl2[r + j] = cl[r + j] /\ cl2[r] = cl[r]
  BY <1>1, <1>5, <1>9 DEF SameBut
<1>11. Open(r, j, cl2, in, st) <=> Open(r, j, cl, in, st)
  BY <1>10 DEF Open
<1>12. Hit(r, j, in, st, va, rs) => Hit(r, j, in, st, va, rs2)
  BY <1>3, <1>8 DEF Hit
<1>13. HalfJoin(r, j, cl2, in, st, va, rs2)
  BY <1>4, <1>10, <1>11, <1>12 DEF HalfJoin
<1>14. Hit(r, i, in, st, va, rs2)
  BY <1>8 DEF Hit, Storing
<1>15. HalfJoin(r, i, cl2, in, st, va, rs2)
  BY <1>1, <1>5, <1>14 DEF HalfJoin, Storing
<1>16. PICK x \in {0, 1} : x = One(Open(r, j, cl, in, st))
  BY DEF One
<1>17. One(Open(r, j, cl2, in, st)) = x /\ One(Open(r, i, cl2, in, st)) = 0
  BY <1>6, <1>11, <1>16 DEF One
<1>18. One(Open(r, i, cl, in, st)) = 1
  BY <1>6 DEF One
<1>19. le[r] = 1 + x
  BY <1>4, <1>16, <1>18
<1>20. le2 \in [Promises -> Nat] /\ SameBut(le, le2, r) /\ le2[r] = le[r] - 1
  <2>1. le \in [Promises -> Nat]
    BY DEF Storing
  <2>2. le[r] # 0
    BY <1>19
  <2>. QED  BY <1>1, <2>1, <2>2, LoweredFields
<1>21. le2[r] = x /\ x = 0 + x
  BY <1>19, <1>20
<1>22. le2[r] = One(Open(r, i, cl2, in, st)) + One(Open(r, j, cl2, in, st))
  BY <1>17, <1>21
<1>23. Join(r, cl2, in, st, va, rs2, le2)
  BY <1>1, <1>3, <1>4, <1>8, <1>10, <1>13, <1>15, <1>22, Halves
<1>24. ASSUME le[r] = 1
       PROVE  Hit(r, 1, in, st, va, rs2) /\ Hit(r, 2, in, st, va, rs2)
  <2>1. x = 0
    BY <1>19, <1>24
  <2>2. ~Open(r, j, cl, in, st)
    BY <1>16, <2>1 DEF One
  <2>3. Hit(r, j, in, st, va, rs2)
    BY <1>4, <1>12, <2>2 DEF HalfJoin
  <2>. QED  BY <1>1, <1>3, <1>14, <2>3
<1>. QED  BY <1>8, <1>20, <1>23, <1>24

LEMMA JoinsStored ==
    ASSUME NEW cl, NEW t, NEW in, NEW st, NEW va, NEW rs, NEW le, NEW r, NEW i,
           Storing(cl, t, in, st, va, rs, le, r, i), Joins(cl, in, st, va, rs, le),
           NEW s \in States, NEW cl2, cl2 = Emptied(cl, t, s),
           NEW rs2, rs2 = Stored(rs, r, i, va[in[r][i]]), NEW le2, le2 = Lowered(le, r)
    PROVE  /\ Joins(cl2, in, st, va, rs2, le2)
           /\ rs2 \in [Promises -> Seq(Value)] /\ le2 \in [Promises -> Nat]
           /\ \A p \in Promises : rs2[p] = <<>> <=> rs[p] = <<>>
           /\ le[r] = 1 => Hit(r, 1, in, st, va, rs2) /\ Hit(r, 2, in, st, va, rs2)
<1>1. /\ Join(r, cl2, in, st, va, rs2, le2)
      /\ rs2 \in [Promises -> Seq(Value)] /\ le2 \in [Promises -> Nat]
      /\ SameBut(rs, rs2, r) /\ SameBut(le, le2, r) /\ rs2[r] # <<>>
      /\ le[r] = 1 => Hit(r, 1, in, st, va, rs2) /\ Hit(r, 2, in, st, va, rs2)
  BY JoinStored
<1>2. /\ r \in Promises /\ t \in Promises /\ cl[t].ret = r /\ cl[t].st = "armed" /\ rs[r] # <<>>
  BY DEF Storing
<1>3. SameBut(cl, cl2, t)
  <2>1. cl \in [Promises -> Closure]
    BY DEF Storing
  <2>. QED  BY <1>2, <2>1, EmptiedFields
<1>4. ASSUME NEW p \in Promises, p # r, rs2[p] # <<>>
      PROVE  Join(p, cl2, in, st, va, rs2, le2)
  <2>1. rs2[p] = rs[p] /\ le2[p] = le[p]
    BY <1>1, <1>4 DEF SameBut
  <2>2. Join(p, cl, in, st, va, rs, le)
    BY <1>4, <2>1 DEF Joins
  <2>3. /\ cl[p].st = "none" /\ p + 1 \in Promises /\ p + 2 \in Promises
        /\ cl[p + 1].ret = p /\ cl[p + 2].ret = p
        /\ va[p] = Tuple => Hit(p, 1, in, st, va, rs) /\ Hit(p, 2, in, st, va, rs)
    BY <2>2 DEF Join
  <2>4. p # t /\ p + 1 # t /\ p + 2 # t
    BY <1>2, <1>4, <2>3
  <2>5. cl2[p] = cl[p] /\ cl2[p + 1] = cl[p + 1] /\ cl2[p + 2] = cl[p + 2]
    BY <1>3, <2>3, <2>4 DEF SameBut
  <2>6. /\ Open(p, 1, cl2, in, st) <=> Open(p, 1, cl, in, st)
        /\ Open(p, 2, cl2, in, st) <=> Open(p, 2, cl, in, st)
    BY <2>5 DEF Open
  <2>7. /\ Hit(p, 1, in, st, va, rs) => Hit(p, 1, in, st, va, rs2)
        /\ Hit(p, 2, in, st, va, rs) => Hit(p, 2, in, st, va, rs2)
    BY <2>1 DEF Hit
  <2>. QED  BY <2>1, <2>2, <2>3, <2>5, <2>6, <2>7, JoinKept
<1>5. Joins(cl2, in, st, va, rs2, le2)
  BY <1>1, <1>4 DEF Joins
<1>6. \A p \in Promises : rs2[p] = <<>> <=> rs[p] = <<>>
  BY <1>1, <1>2 DEF SameBut
<1>. QED  BY <1>1, <1>5, <1>6

-----------------------------------------------------------------------------
(* The promises that exist, and the next ones.                               *)

LEMMA Counts ==
    ASSUME TypeOK, Numbered
    PROVE  /\ Created \in Nat /\ ThensMade \in Nat /\ JoinsMade \in Nat
           /\ \A p \in Promises : Exists(p) <=> p <= Created
           /\ \A k \in 1 .. Created : k \in Promises
<1>1. PICK n \in Nat : {p \in Promises : Exists(p)} = 1 .. n
  BY DEF Numbered
<1>2. IsFiniteSet(1 .. n) /\ Cardinality(1 .. n) = n
  <2>1. IsFiniteSet(1 .. n) /\ Cardinality(1 .. n) = IF 1 > n THEN 0 ELSE n - 1 + 1
    BY FS_Interval
  <2>. QED  BY <2>1
<1>3. Created = n
  BY <1>1, <1>2 DEF Created
<1>4. \A p \in Promises : ~Exists(p) => closure[p].st = "none" /\ inputs[p] = <<>>
  BY DEF Numbered, Blank, NoClosure
<1>5. ThensMade \in Nat
  <2>1. {p \in Promises : closure[p].st # "none" /\ closure[p].i = 0} \in SUBSET (1 .. n)
    BY <1>1, <1>4
  <2>. QED  BY <1>2, <2>1, FS_Subset, FS_CardinalityType DEF ThensMade
<1>6. JoinsMade \in Nat
  <2>1. {p \in Promises : inputs[p] # <<>>} \in SUBSET (1 .. n)
    BY <1>1, <1>4
  <2>. QED  BY <1>2, <2>1, FS_Subset, FS_CardinalityType DEF JoinsMade
<1>7. \A p \in Promises : Exists(p) <=> p <= n
  <2>1. \A p \in Promises : p \in Nat /\ p # 0
    BY NoPromiseIsNone DEF NoPromise
  <2>2. \A p \in Promises : p \in 1 .. n <=> p <= n
    BY <2>1
  <2>. QED  BY <1>1, <2>2
<1>8. \A k \in 1 .. n : k \in Promises
  BY <1>1
<1>. QED  BY <1>3, <1>5, <1>6, <1>7, <1>8

LEMMA Room ==
    ASSUME NEW b \in Budgets, NEW n \in Nat, n <= b[1] + b[2] + 3 * b[3], n # 0
    PROVE  n \in Promises
<1>1. n \in 1 .. (b[1] + b[2] + 3 * b[3])
  <2>1. b[1] \in Nat /\ b[2] \in Nat /\ b[3] \in Nat
    BY PromiseAssumption
  <2>. QED  BY <2>1
<1>. QED  BY <1>1 DEF Promises

(* The k promises after the last one can be made.                            *)
Blanks(k) == \A i \in 1 .. k : Created + i \in Promises /\ ~Exists(Created + i)

LEMMA BlanksFit ==
    ASSUME TypeOK, Numbered, NEW k \in Nat, NEW b \in Budgets,
           Created + k <= b[1] + b[2] + 3 * b[3]
    PROVE  Blanks(k)
<1>1. Created \in Nat /\ \A p \in Promises : Exists(p) <=> p <= Created
  BY Counts
<1>2. b[1] \in Nat /\ b[2] \in Nat /\ b[3] \in Nat
  BY PromiseAssumption
<1>3. ASSUME NEW i \in 1 .. k
      PROVE  Created + i \in Promises /\ ~Exists(Created + i)
  <2>1. PICK n \in Nat : n = Created + i
    BY <1>1
  <2>2. n <= b[1] + b[2] + 3 * b[3] /\ n # 0 /\ ~(n <= Created)
    BY <1>1, <1>2, <2>1
  <2>3. n \in Promises
    BY <2>2, Room
  <2>. QED  BY <1>1, <2>1, <2>2, <2>3
<1>. QED  BY <1>3 DEF Blanks

LEMMA WithinNew ==
    ASSUME TypeOK, Numbered, Within(NewMade + 1, ThensMade, JoinsMade) \/ MayJoin
    PROVE  Blanks(1)
<1>1. Created \in Nat /\ ThensMade \in Nat /\ JoinsMade \in Nat
  BY Counts
<1>2. PICK b \in Budgets : NewMade < b[1] /\ ThensMade <= b[2] /\ JoinsMade <= b[3]
  <2>1. NewMade \in Int
    BY <1>1 DEF NewMade
  <2>2. \A b \in Budgets : b[1] \in Nat
    BY PromiseAssumption
  <2>. QED  BY <2>1, <2>2 DEF Within, MayJoin
<1>3. b[1] \in Nat /\ b[2] \in Nat /\ b[3] \in Nat
  BY PromiseAssumption
<1>4. Created + 1 <= b[1] + b[2] + 3 * b[3]
  BY <1>1, <1>2, <1>3 DEF NewMade
<1>. QED  BY <1>4, BlanksFit

LEMMA WithinThen ==
    ASSUME TypeOK, Numbered, Within(NewMade, ThensMade + 1, JoinsMade)
    PROVE  Blanks(1)
<1>1. Created \in Nat /\ ThensMade \in Nat /\ JoinsMade \in Nat
  BY Counts
<1>2. PICK b \in Budgets : NewMade <= b[1] /\ ThensMade + 1 <= b[2] /\ JoinsMade <= b[3]
  BY DEF Within
<1>3. b[1] \in Nat /\ b[2] \in Nat /\ b[3] \in Nat
  BY PromiseAssumption
<1>4. Created + 1 <= b[1] + b[2] + 3 * b[3]
  BY <1>1, <1>2, <1>3 DEF NewMade
<1>. QED  BY <1>4, BlanksFit

LEMMA WithinJoin ==
    ASSUME TypeOK, Numbered, Within(NewMade, ThensMade, JoinsMade + 1)
    PROVE  Blanks(3)
<1>1. Created \in Nat /\ ThensMade \in Nat /\ JoinsMade \in Nat
  BY Counts
<1>2. PICK b \in Budgets : NewMade <= b[1] /\ ThensMade <= b[2] /\ JoinsMade + 1 <= b[3]
  BY DEF Within
<1>3. b[1] \in Nat /\ b[2] \in Nat /\ b[3] \in Nat
  BY PromiseAssumption
<1>4. Created + 3 <= b[1] + b[2] + 3 * b[3]
  BY <1>1, <1>2, <1>3 DEF NewMade
<1>. QED  BY <1>4, BlanksFit

(* One new promise, and three.                                               *)
LEMMA OneMore ==
    ASSUME TypeOK, Numbered, Blanks(1), NEW s \in {"unsettled", "resolved"},
           status' = [status EXCEPT ![Created + 1] = s]
    PROVE  /\ Created + 1 \in Promises /\ ~Exists(Created + 1) /\ Created + 1 # NoPromise
           /\ status' \in [Promises -> {"free", "unsettled", "resolved", "rejected"}]
           /\ status'[Created + 1] = s
           /\ \A p \in Promises : p # Created + 1 => status'[p] = status[p]
           /\ \E n \in Nat : {p \in Promises : Exists(p)'} = 1 .. n
<1>1. PICK n \in Nat : {p \in Promises : Exists(p)} = 1 .. n
  BY DEF Numbered
<1>2. /\ Created \in Nat /\ \A p \in Promises : Exists(p) <=> p <= Created
      /\ \A k \in 1 .. Created : k \in Promises
  BY Counts
<1>3. PICK m \in Nat : m = Created
  BY <1>2
<1>4. m + 1 \in Promises /\ ~Exists(m + 1)
  <2>1. 1 \in 1 .. 1
    OBVIOUS
  <2>. QED  BY <1>3, <2>1 DEF Blanks
<1>5. /\ status' \in [Promises -> {"free", "unsettled", "resolved", "rejected"}]
      /\ status'[m + 1] = s /\ \A p \in Promises : p # m + 1 => status'[p] = status[p]
  BY <1>3, <1>4 DEF TypeOK
<1>6. \A p \in Promises : Exists(p)' <=> p <= m + 1
  <2>1. \A p \in Promises : p \in Nat
    BY NoPromiseIsNone
  <2>2. \A p \in Promises : Exists(p)' <=> Exists(p) \/ p = m + 1
    BY <1>4, <1>5 DEF Exists
  <2>. QED  BY <1>2, <1>3, <2>1, <2>2
<1>7. {p \in Promises : Exists(p)'} = 1 .. (m + 1)
  <2>1. \A p \in Promises : p \in Nat /\ p # 0
    BY NoPromiseIsNone DEF NoPromise
  <2>2. \A k \in 1 .. (m + 1) : k \in 1 .. m \/ k = m + 1
    OBVIOUS
  <2>3. \A k \in 1 .. (m + 1) : k \in Promises /\ k <= m + 1
    BY <1>2, <1>3, <1>4, <2>2
  <2>4. \A p \in Promises : p <= m + 1 => p \in 1 .. (m + 1)
    BY <2>1
  <2>. QED  BY <1>6, <2>3, <2>4
<1>8. m + 1 # NoPromise /\ m + 1 \in Nat
  BY DEF NoPromise
<1>. QED  BY <1>3, <1>4, <1>5, <1>7, <1>8

LEMMA ThreeMore ==
    ASSUME TypeOK, Numbered, Blanks(3),
           status' = [status EXCEPT ![Created + 1] = "unsettled", ![Created + 2] = "unsettled",
                                    ![Created + 3] = "unsettled"]
    PROVE  /\ \A i \in 1 .. 3 : /\ Created + i \in Promises /\ ~Exists(Created + i)
                                /\ status'[Created + i] = "unsettled"
           /\ Created \in Nat
           /\ status' \in [Promises -> {"free", "unsettled", "resolved", "rejected"}]
           /\ \A p \in Promises : p \notin {Created + 1, Created + 2, Created + 3} => status'[p] = status[p]
           /\ \E n \in Nat : {p \in Promises : Exists(p)'} = 1 .. n
<1>2. /\ Created \in Nat /\ \A p \in Promises : Exists(p) <=> p <= Created
      /\ \A k \in 1 .. Created : k \in Promises
  BY Counts
<1>3. PICK m \in Nat : m = Created
  BY <1>2
<1>4. /\ m + 1 \in Promises /\ m + 2 \in Promises /\ m + 3 \in Promises
      /\ ~Exists(m + 1) /\ ~Exists(m + 2) /\ ~Exists(m + 3)
  <2>1. 1 \in 1 .. 3 /\ 2 \in 1 .. 3 /\ 3 \in 1 .. 3
    OBVIOUS
  <2>. QED  BY <1>3, <2>1 DEF Blanks
<1>5. /\ status' \in [Promises -> {"free", "unsettled", "resolved", "rejected"}]
      /\ \A p \in Promises : p \notin {m + 1, m + 2, m + 3} => status'[p] = status[p]
      /\ status'[m + 1] = "unsettled" /\ status'[m + 2] = "unsettled" /\ status'[m + 3] = "unsettled"
  BY <1>3, <1>4 DEF TypeOK
<1>6. \A p \in Promises : Exists(p)' <=> p <= m + 3
  <2>1. \A p \in Promises : p \in Nat
    BY NoPromiseIsNone
  <2>2. \A p \in Promises : Exists(p)' <=> Exists(p) \/ p \in {m + 1, m + 2, m + 3}
    BY <1>4, <1>5 DEF Exists
  <2>3. \A p \in Promises : p <= m + 3 <=> p <= m \/ p \in {m + 1, m + 2, m + 3}
    BY <2>1
  <2>. QED  BY <1>2, <1>3, <2>2, <2>3
<1>7. {p \in Promises : Exists(p)'} = 1 .. (m + 3)
  <2>1. \A p \in Promises : p \in Nat /\ p # 0
    BY NoPromiseIsNone DEF NoPromise
  <2>2. \A k \in 1 .. (m + 3) : k \in 1 .. m \/ k \in {m + 1, m + 2, m + 3}
    OBVIOUS
  <2>3. \A k \in 1 .. (m + 3) : k \in Promises /\ k <= m + 3
    BY <1>2, <1>3, <1>4, <2>2
  <2>4. \A p \in Promises : p <= m + 3 => p \in 1 .. (m + 3)
    BY <2>1
  <2>. QED  BY <1>6, <2>3, <2>4
<1>8. \A i \in 1 .. 3 : /\ m + i \in Promises /\ ~Exists(m + i) /\ status'[m + i] = "unsettled"
  <2>1. \A i \in 1 .. 3 : m + i \in {m + 1, m + 2, m + 3}
    OBVIOUS
  <2>. QED  BY <1>4, <1>5, <2>1
<1>. QED  BY <1>3, <1>5, <1>7, <1>8

(* f2 is f for the promises that exist.                                      *)
Same(f, f2, st) == \A p \in Promises : st[p] # "free" => f2[p] = f[p]

(* Promises to come have no closure and no part in a join.                   *)
Unused(cl, rs, in, st) ==
    \A p \in Promises : st[p] = "free" => cl[p] = NoClosure /\ rs[p] = <<>> /\ in[p] = <<>>

LEMMA UsedExist ==
    ASSUME NEW cl, NEW rs, NEW in, NEW st, Unused(cl, rs, in, st), NEW p \in Promises,
           cl[p].st # "none" \/ cl[p].i # 0 \/ cl[p].ret # NoPromise \/ rs[p] # <<>> \/ in[p] # <<>>
    PROVE  st[p] # "free"
  BY DEF Unused, NoClosure

(* Only promises to come change; n is a join with no result yet, or none.    *)
Made(n, cl, cl2, in, in2, st, st2, va, va2, rs, rs2, le, le2) ==
    /\ Unused(cl, rs, in, st) /\ Same(cl, cl2, st) /\ Same(in, in2, st) /\ Same(st, st2, st)
    /\ Same(va, va2, st) /\ Same(rs, rs2, st) /\ Same(le, le2, st)
    /\ n \in Promises /\ st[n] = "free"
    /\ \A r \in Promises : st[r] = "free" /\ r # n => rs2[r] = <<>>
    /\ rs2[n] # <<>> => Join(n, cl2, in2, st2, va2, rs2, le2)

LEMMA JoinsCreated ==
    ASSUME NEW cl, NEW cl2, NEW in \in [Promises -> Seq(Promises)], NEW in2, NEW st, NEW st2, NEW va, NEW va2,
           NEW rs, NEW rs2, NEW le, NEW le2, Joins(cl, in, st, va, rs, le), Given(in, st),
           NEW n, Made(n, cl, cl2, in, in2, st, st2, va, va2, rs, rs2, le, le2)
    PROVE  Joins(cl2, in2, st2, va2, rs2, le2)
<1>1. ASSUME NEW r \in Promises, rs2[r] # <<>>, r # n
      PROVE  Join(r, cl2, in2, st2, va2, rs2, le2)
  <2>1. st[r] # "free" /\ rs2[r] = rs[r] /\ le2[r] = le[r] /\ in2[r] = in[r] /\ va2[r] = va[r] /\ cl2[r] = cl[r]
    BY <1>1 DEF Same, Made
  <2>2. Join(r, cl, in, st, va, rs, le)
    BY <1>1, <2>1 DEF Joins
  <2>3. /\ cl[r].st = "none" /\ r + 1 \in Promises /\ r + 2 \in Promises /\ Pair(r, in)
        /\ cl[r + 1].ret = r /\ cl[r + 1].i = 1 /\ cl[r + 2].ret = r /\ cl[r + 2].i = 2
        /\ va[r] = Tuple => Hit(r, 1, in, st, va, rs) /\ Hit(r, 2, in, st, va, rs)
    BY <2>2 DEF Join
  <2>4. 1 # 0 /\ 2 # 0
    OBVIOUS
  <2>5. st[r + 1] # "free" /\ st[r + 2] # "free"
    <3>1. Unused(cl, rs, in, st)
      BY DEF Made
    <3>. QED  BY <2>3, <2>4, <3>1, UsedExist
  <2>6. cl2[r + 1] = cl[r + 1] /\ cl2[r + 2] = cl[r + 2]
    BY <2>3, <2>5 DEF Same, Made
  <2>7. in[r][1] \in Promises /\ in[r][2] \in Promises /\ DOMAIN in[r] = {1, 2}
    BY <2>3, PairTyped
  <2>8. st[in[r][1]] # "free" /\ st[in[r][2]] # "free"
    BY <2>7 DEF Given, ToSet
  <2>9. /\ st2[in[r][1]] = st[in[r][1]] /\ va2[in[r][1]] = va[in[r][1]]
        /\ st2[in[r][2]] = st[in[r][2]] /\ va2[in[r][2]] = va[in[r][2]]
    BY <2>7, <2>8 DEF Same, Made
  <2>10. /\ Open(r, 1, cl2, in2, st2) <=> Open(r, 1, cl, in, st)
         /\ Open(r, 2, cl2, in2, st2) <=> Open(r, 2, cl, in, st)
    BY <2>1, <2>6, <2>9 DEF Open
  <2>11. /\ Hit(r, 1, in, st, va, rs) => Hit(r, 1, in2, st2, va2, rs2)
         /\ Hit(r, 2, in, st, va, rs) => Hit(r, 2, in2, st2, va2, rs2)
    BY <2>1, <2>9 DEF Hit
  <2>. QED  BY <2>1, <2>2, <2>3, <2>6, <2>10, <2>11, JoinKept
<1>. QED  BY <1>1 DEF Joins, Made

LEMMA GivenCreated ==
    ASSUME NEW in \in [Promises -> Seq(Promises)], NEW st, NEW st2, Given(in, st), Same(st, st2, st)
    PROVE  Given(in, st2)
<1>1. ASSUME NEW r \in Promises, NEW p \in ToSet(in[r])
      PROVE  st2[p] # "free"
  <2>1. p \in Promises
    BY <1>1, SeqSet
  <2>2. st[p] # "free"
    BY <1>1 DEF Given
  <2>. QED  BY <2>1, <2>2 DEF Same
<1>. QED  BY <1>1 DEF Given

(* The closures that wait are those that waited before, or new ones.         *)
OldHandlers(hs, hs2, cl) ==
    \A p \in Promises : \A x \in ToSet(hs2[p]) : cl[x].i # 0 => x \in ToSet(hs[p])

LEMMA InnerCreated ==
    ASSUME NEW cl \in [Promises -> Closure], NEW cl2, NEW in, NEW in2, NEW st, NEW rs, NEW rs2, NEW hs, NEW hs2,
           NEW td, NEW cur, Inner(cl, rs, in, hs, td, cur), Unused(cl, rs, in, st),
           Same(cl, cl2, st), Same(in, in2, st), Same(rs, rs2, st), OldHandlers(hs, hs2, cl),
           NEW t \in Promises, st[t] # "free"
    PROVE  InnerOne(t, cl2, rs2, in2, hs2, td, cur)
<1>1. cl2[t] = cl[t] /\ InnerOne(t, cl, rs, in, hs, td, cur)
  BY DEF Same, Inner
<1>2. CASE cl[t].i = 0
  BY <1>1, <1>2 DEF InnerOne
<1>3. CASE cl[t].i # 0
  <2>1. PICK r \in Promises : r = cl[t].ret
    BY <1>1, <1>3 DEF InnerOne
  <2>2. Pair(r, in)
    BY <1>1, <1>3, <2>1 DEF InnerOne
  <2>3. in[r] # <<>>
    <3>1. Len(in[r]) = 2
      BY <2>2 DEF Pair
    <3>2. in[r] = <<>> => Len(in[r]) = 0
      OBVIOUS
    <3>. QED  BY <3>1, <3>2
  <2>4. st[r] # "free"
    BY <2>3, UsedExist
  <2>5. in2[r] = in[r] /\ rs2[r] = rs[r]
    BY <2>4 DEF Same
  <2>6. Pair(r, in2)
    BY <2>2, <2>5 DEF Pair
  <2>7. \A p \in Promises : t \in ToSet(hs2[p]) => t \in ToSet(hs[p])
    BY <1>3 DEF OldHandlers
  <2>. QED  BY <1>1, <1>3, <2>1, <2>5, <2>6, <2>7 DEF InnerOne
<1>. QED  BY <1>2, <1>3

-----------------------------------------------------------------------------
(* Where closures are.                                                       *)

Nowhere(t, hs, td, run) ==
    /\ t \notin ToSet(td) /\ t # run
    /\ \A p \in Promises : t \notin ToSet(hs[p])

LEMMA UnarmedNowhere ==
    ASSUME NEW hs, NEW td, NEW run, NEW cl, Places(hs, td, run, cl), NEW t \in Promises, cl[t].st # "armed"
    PROVE  Nowhere(t, hs, td, run)
  BY NoPromiseIsNone DEF Places, Nowhere

LEMMA PlacesClosure ==
    ASSUME NEW hs \in [Promises -> Seq(Promises)], NEW td \in Seq(Promises), NEW run \in Promises \cup {NoPromise},
           NEW cl, NEW cl2, Places(hs, td, run, cl),
           \A t \in Promises : cl[t].st = "armed" => cl2[t].st = "armed" /\ cl2[t].i = cl[t].i
    PROVE  Places(hs, td, run, cl2)
<1>1. \A p \in Promises : ToSet(hs[p]) \subseteq Promises
  BY SeqSet
<1>2. ToSet(td) \subseteq Promises
  BY SeqSet
<1>3. \A p \in Promises : \A t \in ToSet(hs[p]) : cl2[t].st = "armed"
  BY <1>1 DEF Places
<1>4. \A t \in ToSet(td) : cl2[t].st = "armed"
  BY <1>2 DEF Places
<1>5. run # NoPromise => cl2[run].st = "armed" /\ cl2[run].i = 0
  BY DEF Places
<1>. QED  BY <1>3, <1>4, <1>5 DEF Places

Lists == [Promises -> Seq(Promises)]
Added(hs, p, t) == [hs EXCEPT ![p] = Append(hs[p], t)]

Grown(hs, hs2, p, t) ==
    /\ hs2 \in Lists /\ SameBut(hs, hs2, p)
    /\ ToSet(hs2[p]) = ToSet(hs[p]) \cup {t} /\ hs2[p] # <<>>
    /\ Distinct(hs[p]) /\ t \notin ToSet(hs[p]) => Distinct(hs2[p])

LEMMA AddedFields ==
    ASSUME NEW hs \in Lists, NEW p \in Promises, NEW t \in Promises,
           NEW hs2, hs2 = Added(hs, p, t)
    PROVE  Grown(hs, hs2, p, t)
<1>1. PICK s \in Seq(Promises) : s = hs[p]
  BY DEF Lists
<1>2. PICK a : a = Append(s, t)
  OBVIOUS
<1>3. /\ a \in Seq(Promises) /\ ToSet(a) = ToSet(s) \cup {t} /\ a # <<>>
      /\ Distinct(s) /\ t \notin ToSet(s) => Distinct(a)
  BY <1>1, <1>2, AppendSet
<1>4. hs2 = [hs EXCEPT ![p] = a]
  BY <1>1, <1>2 DEF Added
<1>5. hs2[p] = a /\ hs2 \in Lists /\ SameBut(hs, hs2, p)
  BY <1>3, <1>4 DEF SameBut, Lists
<1>. QED  BY <1>1, <1>3, <1>5 DEF Grown

LEMMA PlaceAdded ==
    ASSUME NEW hs \in Lists, NEW p \in Promises, NEW t \in Promises,
           NEW hs2, hs2 = Added(hs, p, t), NEW td, NEW run, NEW cl,
           Places(hs, td, run, cl), Nowhere(t, hs, td, run), cl[t].st = "armed"
    PROVE  Places(hs2, td, run, cl)
<1>1. /\ SameBut(hs, hs2, p) /\ ToSet(hs2[p]) = ToSet(hs[p]) \cup {t}
      /\ Distinct(hs[p]) /\ t \notin ToSet(hs[p]) => Distinct(hs2[p])
  <2>1. Grown(hs, hs2, p, t)
    BY AddedFields
  <2>. QED  BY <2>1 DEF Grown
<1>2. \A q \in Promises : q # p => hs2[q] = hs[q]
  BY <1>1 DEF SameBut
<1>3. /\ t \notin ToSet(td) /\ t # run /\ \A q \in Promises : t \notin ToSet(hs[q])
  BY DEF Nowhere
<1>4. ASSUME NEW q \in Promises
      PROVE  /\ Distinct(hs2[q])
             /\ ToSet(hs2[q]) \cap ToSet(td) = {}
             /\ run \notin ToSet(hs2[q])
             /\ \A x \in ToSet(hs2[q]) : cl[x].st = "armed"
  <2>1. CASE q = p
    BY <1>1, <1>3, <2>1 DEF Places
  <2>2. CASE q # p
    BY <1>2, <2>2 DEF Places
  <2>. QED  BY <2>1, <2>2
<1>5. ASSUME NEW q \in Promises, NEW r \in Promises, q # r
      PROVE  ToSet(hs2[q]) \cap ToSet(hs2[r]) = {}
  <2>1. ToSet(hs[q]) \cap ToSet(hs[r]) = {}
    BY <1>5 DEF Places
  <2>2. CASE q = p
    BY <1>1, <1>2, <1>3, <1>5, <2>1, <2>2
  <2>3. CASE r = p
    BY <1>1, <1>2, <1>3, <1>5, <2>1, <2>3
  <2>4. CASE q # p /\ r # p
    BY <1>2, <2>1, <2>4
  <2>. QED  BY <2>2, <2>3, <2>4
<1>6. /\ Distinct(td) /\ run \notin ToSet(td) /\ \A x \in ToSet(td) : cl[x].st = "armed"
      /\ run # NoPromise => cl[run].st = "armed" /\ cl[run].i = 0
  BY DEF Places
<1>. QED  BY <1>4, <1>5, <1>6 DEF Places

LEMMA NowhereAdded ==
    ASSUME NEW hs \in Lists, NEW p \in Promises, NEW t \in Promises,
           NEW hs2, hs2 = Added(hs, p, t), NEW td, NEW run, NEW u, u # t, Nowhere(u, hs, td, run)
    PROVE  Nowhere(u, hs2, td, run)
<1>1. /\ SameBut(hs, hs2, p) /\ ToSet(hs2[p]) = ToSet(hs[p]) \cup {t}
  <2>1. Grown(hs, hs2, p, t)
    BY AddedFields
  <2>. QED  BY <2>1 DEF Grown
<1>. QED  BY <1>1 DEF SameBut, Nowhere

LEMMA OldAdded ==
    ASSUME NEW hs \in Lists, NEW p \in Promises, NEW t \in Promises,
           NEW hs2, hs2 = Added(hs, p, t), NEW cl, cl[t].i = 0
    PROVE  OldHandlers(hs, hs2, cl)
<1>1. /\ SameBut(hs, hs2, p) /\ ToSet(hs2[p]) = ToSet(hs[p]) \cup {t}
  <2>1. Grown(hs, hs2, p, t)
    BY AddedFields
  <2>. QED  BY <2>1 DEF Grown
<1>. QED  BY <1>1 DEF SameBut, OldHandlers

-----------------------------------------------------------------------------
(* The parts of the invariant about the queue and the dispatch.              *)

Live(ps) == \A p \in ToSet(ps) : Exists(p)
(* Only the promises ps get a new value.                                     *)
Valued(ps, v, va, va2) == \A p \in Promises : va2[p] = va[p] \/ (p \in ToSet(ps) /\ va2[p] = v[p])

LEMMA SettlingKeeps ==
    ASSUME Inv, loop # "stopped", NEW ps, Small(ps), Live(ps), NEW st \in Final,
           NEW v \in Values, Settle(ps, st, v),
           UNCHANGED <<handlers, loop, exited, current>>
    PROVE  /\ status' \in [Promises -> {"free", "unsettled", "resolved", "rejected"}]
           /\ value' \in [Promises -> Value]
           /\ is_pending' \in [Promises -> BOOLEAN] /\ pending' \in Seq(Promises)
           /\ idle' \in BOOLEAN /\ rooted' \in BOOLEAN
           /\ Queue' /\ Watched'
           /\ Grows(status, value, status', value') /\ Valued(ps, v, value, value')
           /\ NoSelfThen => Handled(handlers, status, ToSet(pending))' /\ (current' # NoPromise => handlers'[current'] = <<>>)
<1>1. TypeOK /\ Queue /\ Watched /\ Dispatch /\ Numbered
  BY DEF Inv
<1>2. PICK new \in SUBSET Promises : NowSettled(new, ps, st, v)
  <2>1. st \in {"resolved", "rejected"}
    BY DEF Final
  <2>. QED  BY <1>1, <2>1, Settles
<1>3. \A p \in Promises : /\ p \in new => status'[p] = st /\ value'[p] = v[p]
                          /\ p \notin new => status'[p] = status[p] /\ value'[p] = value[p]
  BY <1>2 DEF NowSettled
<1>4. \A p \in new : p \in Promises /\ p \in ToSet(ps) /\ status[p] # "free" /\ status[p] \notin Final
  BY <1>2 DEF AllSettled, Settled, Final, Live, Exists, NowSettled
<1>5. /\ status' \in [Promises -> {"free", "unsettled", "resolved", "rejected"}]
      /\ value' \in [Promises -> Value]
  BY <1>1, <1>2 DEF TypeOK, Final, Values, NowSettled
<1>6. Grows(status, value, status', value')
  BY <1>3, <1>4 DEF Grows, Final
<1>7. Valued(ps, v, value, value')
  BY <1>3, <1>4 DEF Valued
<1>8. \A p \in Promises : Settled(p)' <=> Settled(p) \/ p \in new
  BY <1>3 DEF Settled, Final
<1>9. ToSet(pending) \subseteq Promises
  BY <1>1, QueueSets
<1>10. Queue'
  <2>1. \A p \in ToSet(pending') : Settled(p)'
    BY <1>1, <1>2, <1>8, <1>9 DEF Queue, NowSettled
  <2>2. current \notin new
    <3>1. current \in Promises => Settled(current)
      BY <1>1, NoPromiseIsNone DEF Dispatch
    <3>. QED  BY <1>4, <3>1 DEF Settled, Final
  <2>3. current' \notin ToSet(pending')
    BY <1>1, <1>2, <2>2 DEF Queue, NowSettled
  <2>. QED  BY <1>2, <2>1, <2>3 DEF Queue, NowSettled
<1>11. Watched'
  BY <1>2 DEF Watched, NowSettled
<1>12. ASSUME NoSelfThen
       PROVE  Handled(handlers, status, ToSet(pending))' /\ (current' # NoPromise => handlers'[current'] = <<>>)
  <2>1. Handled(handlers, status, ToSet(pending)) /\ (current # NoPromise => handlers[current] = <<>>)
    BY <1>12 DEF Inv
  <2>2. ASSUME NEW p \in Promises, status'[p] \in {"resolved", "rejected"}, handlers'[p] # <<>>
        PROVE  p \in ToSet(pending')
    BY <1>2, <1>3, <2>1, <2>2 DEF Handled, NowSettled
  <2>. QED  BY <2>1, <2>2 DEF Handled
<1>. QED  BY <1>2, <1>5, <1>6, <1>7, <1>10, <1>11, <1>12 DEF NowSettled

(* Handlers are added to the promises ps, and their dispatch starts if they  *)
(* have settled; new promises appear.                                        *)
LEMMA AddingKeeps ==
    ASSUME Inv, loop # "stopped", NEW ps, Small(ps), StartDispatch(ps),
           UNCHANGED <<loop, exited, current>>,
           status' \in [Promises -> {"free", "unsettled", "resolved", "rejected"}],
           Same(status, status', status), \A p \in ToSet(ps) : Settled(p)'
    PROVE  /\ is_pending' \in [Promises -> BOOLEAN] /\ pending' \in Seq(Promises)
           /\ idle' \in BOOLEAN /\ rooted' \in BOOLEAN
           /\ Queue' /\ Watched'
           /\ ToSet(pending') = ToSet(pending) \cup (ToSet(ps) \ {current})
<1>1. TypeOK /\ Queue /\ Watched
  BY DEF Inv
<1>2. \A p \in Promises : Settled(p) => Settled(p)'
  BY DEF Settled, Same
<1>3. Queue' /\ Watched'
  BY <1>1, <1>2, QueueKept
<1>. QED  BY <1>1, <1>3, DispatchStarts

(* Numbered, when no promise is made.                                        *)
LEMMA NumberedKept ==
    ASSUME Numbered, NEW n, \A p \in Promises : status'[p] = "free" <=> status[p] = "free",
           \A p \in Promises : status[p] = "free" /\ Blank(p) => Blank(p)'
    PROVE  Numbered'
<1>1. \A p \in Promises : Exists(p)' <=> Exists(p)
  BY DEF Exists
<1>2. {p \in Promises : Exists(p)'} = {p \in Promises : Exists(p)}
  BY <1>1
<1>3. \E k \in Nat : {p \in Promises : Exists(p)'} = 1 .. k
  BY <1>2 DEF Numbered
<1>4. \A p \in Promises : ~Exists(p)' => Blank(p)'
  BY <1>1 DEF Numbered, Exists
<1>. QED  BY <1>3, <1>4 DEF Numbered

-----------------------------------------------------------------------------
(* The actions: di_idle_cb, and the end of the program.                      *)

LEMMA StutterInv ==
    ASSUME Inv, UNCHANGED vars
    PROVE  Inv'
<1>1. /\ UNCHANGED <<status, value, handlers, is_pending, closure, results, left, pending, idle, rooted>>
      /\ UNCHANGED <<loop, exited, current, todo, running, calls, inputs>>
  BY DEF vars, promiseVars, joinVars, queueVars, loopVars
<1>2. TypeOK'
  BY <1>1 DEF Inv, TypeOK
<1>3. Numbered'
  BY <1>1 DEF Inv, Numbered, Exists, Blank
<1>4. Queue' /\ Dispatch' /\ Watched'
  BY <1>1 DEF Inv, Queue, Dispatch, Watched, Settled
<1>. QED  BY <1>1, <1>2, <1>3, <1>4 DEF Inv

(* Actions that leave promises and closures alone.                           *)
Quiet ==
    /\ UNCHANGED <<status, value, handlers, closure, results, left, calls, inputs>>
    /\ UNCHANGED <<todo, running>>

LEMMA QuietInv ==
    ASSUME Inv, Quiet, TypeOK', Queue', Dispatch', Watched', UNCHANGED pending,
           current' = current \/ (current' = NoPromise /\ todo = <<>>)
    PROVE  Inv'
<1>1. UNCHANGED <<status, value, handlers, closure, results, left, calls, inputs, todo, running>>
  BY DEF Quiet
<1>2. Numbered'
  BY <1>1 DEF Inv, Numbered, Exists, Blank
<1>3. NoSelfThen => Handled(handlers, status, ToSet(pending))' /\ (current' # NoPromise => handlers'[current'] = <<>>)
  BY <1>1 DEF Inv
<1>4. Inner(closure, results, inputs, handlers, todo, current)'
  <2>1. Inner(closure, results, inputs, handlers, todo, current)
    BY DEF Inv
  <2>2. CASE current' = current
    BY <1>1, <2>1, <2>2
  <2>3. CASE current' = NoPromise /\ todo = <<>>
    <3>1. todo = <<>> /\ todo' = <<>>
      BY <1>1, <2>3
    <3>2. ToSet(todo') = {}
      BY <3>1, SmallOnes
    <3>. QED  BY <1>1, <2>1, <3>2 DEF Inner, InnerOne
  <2>. QED  BY <2>2, <2>3
<1>. QED  BY <1>1, <1>2, <1>3, <1>4 DEF Inv

LEMMA ExitInv ==
    ASSUME Inv, Exit
    PROVE  Inv'
<1>1. /\ UNCHANGED <<status, value, handlers, is_pending, closure, results, left, pending, idle>>
      /\ UNCHANGED <<loop, current, todo, running, calls, inputs>>
      /\ exited' = TRUE /\ rooted' = FALSE /\ UserCode
  BY DEF Exit, promiseVars, joinVars
<1>2. TypeOK'
  BY <1>1 DEF Inv, TypeOK
<1>3. Queue' /\ Dispatch'
  BY <1>1 DEF Inv, Queue, Dispatch, Settled
<1>4. Watched'
  BY <1>1 DEF Inv, Watched, UserCode
<1>5. Quiet
  BY <1>1 DEF Quiet
<1>. QED  BY <1>1, <1>2, <1>3, <1>4, <1>5, QuietInv

LEMMA IdleBeginsInv ==
    ASSUME Inv, IdleBegins
    PROVE  Inv'
<1>1. /\ UNCHANGED <<status, value, handlers, is_pending, closure, results, left, pending, rooted>>
      /\ UNCHANGED <<exited, current, todo, running, calls, inputs>>
      /\ loop' = "idle" /\ idle' = FALSE /\ loop = "wait"
  BY DEF IdleBegins, promiseVars, joinVars
<1>2. TypeOK'
  BY <1>1 DEF Inv, TypeOK
<1>3. Queue' /\ Dispatch'
  BY <1>1 DEF Inv, Queue, Dispatch, Settled
<1>4. Watched'
  BY <1>1 DEF Watched
<1>5. Quiet
  BY <1>1 DEF Quiet
<1>. QED  BY <1>1, <1>2, <1>3, <1>4, <1>5, QuietInv

LEMMA IdleEndsInv ==
    ASSUME Inv, IdleEnds
    PROVE  Inv'
<1>1. /\ UNCHANGED <<status, value, handlers, is_pending, closure, results, left, pending, idle>>
      /\ UNCHANGED <<exited, current, todo, running, calls, inputs>>
      /\ loop' = "wait" /\ rooted' = FALSE /\ loop = "idle" /\ current = NoPromise /\ pending = <<>>
  BY DEF IdleEnds, promiseVars, joinVars
<1>2. TypeOK'
  BY <1>1 DEF Inv, TypeOK
<1>3. Queue' /\ Dispatch'
  BY <1>1 DEF Inv, Queue, Dispatch, Settled
<1>4. Watched'
  BY <1>1 DEF Watched
<1>5. Quiet
  BY <1>1 DEF Quiet
<1>. QED  BY <1>1, <1>2, <1>3, <1>4, <1>5, QuietInv

LEMMA LoopEndsInv ==
    ASSUME Inv, LoopEnds
    PROVE  Inv'
<1>1. /\ UNCHANGED <<status, value, handlers, is_pending, closure, results, left, pending, idle, rooted>>
      /\ UNCHANGED <<exited, current, todo, running, calls, inputs>>
      /\ loop' = "stopped" /\ loop = "wait" /\ ~rooted
  BY DEF LoopEnds, promiseVars, joinVars, queueVars
<1>2. TypeOK'
  BY <1>1 DEF Inv, TypeOK
<1>3. Queue' /\ Dispatch'
  BY <1>1 DEF Inv, Queue, Dispatch, Settled
<1>4. Watched'
  BY <1>1 DEF Inv, Watched
<1>5. Quiet
  BY <1>1 DEF Quiet
<1>. QED  BY <1>1, <1>2, <1>3, <1>4, <1>5, QuietInv

LEMMA DispatchEndsInv ==
    ASSUME Inv, DispatchEnds
    PROVE  Inv'
<1>1. /\ UNCHANGED <<status, value, handlers, closure, results, left, pending, idle, rooted>>
      /\ UNCHANGED <<exited, loop, todo, running, calls, inputs>>
      /\ loop = "idle" /\ current # NoPromise /\ todo = <<>> /\ running = NoPromise
      /\ is_pending' = [is_pending EXCEPT ![current] = FALSE] /\ current' = NoPromise
  BY DEF DispatchEnds, joinVars, queueVars
<1>2. TypeOK /\ Queue
  BY DEF Inv
<1>3. current \in Promises /\ is_pending \in [Promises -> BOOLEAN]
  BY <1>1, <1>2 DEF TypeOK
<1>4. TypeOK'
  BY <1>1, <1>2 DEF TypeOK
<1>5. Queue'
  <2>1. \A p \in Promises : is_pending'[p] <=> is_pending[p] /\ p # current
    BY <1>1, <1>3
  <2>2. \A p \in Promises : is_pending[p] <=> p \in ToSet(pending) \cup {current}
    BY <1>2 DEF Queue
  <2>3. current \notin ToSet(pending) /\ ToSet(pending) \subseteq Promises
    BY <1>2, QueueSets DEF Queue
  <2>4. \A p \in Promises : is_pending'[p] <=> p \in ToSet(pending) \cup {NoPromise}
    BY <2>1, <2>2, <2>3, NoPromiseIsNone
  <2>5. NoPromise \notin ToSet(pending)
    BY <2>3, NoPromiseIsNone
  <2>. QED  BY <1>1, <1>2, <2>4, <2>5 DEF Queue, Settled
<1>6. Dispatch' /\ Watched'
  BY <1>1 DEF Inv, Dispatch, Watched
<1>7. Quiet
  BY <1>1 DEF Quiet
<1>. QED  BY <1>1, <1>4, <1>5, <1>6, <1>7, QuietInv

LEMMA PopPendingInv ==
    ASSUME Inv, PopPending
    PROVE  Inv'
<1>1. /\ UNCHANGED <<status, value, is_pending, closure, results, left, idle, rooted>>
      /\ UNCHANGED <<loop, exited, running, calls, inputs>>
      /\ loop = "idle" /\ current = NoPromise /\ pending # <<>>
  BY DEF PopPending, joinVars
<1>2. TypeOK /\ Queue /\ Dispatch
  BY DEF Inv
<1>3. /\ pending \in Seq(Promises) /\ handlers \in [Promises -> Seq(Promises)]
  BY <1>2 DEF TypeOK
<1>4. PICK p : p = Last(pending)
  OBVIOUS
<1>5. PICK fr : fr = Front(pending)
  OBVIOUS
<1>6. /\ fr \in Seq(Promises) /\ p \in Promises /\ ToSet(pending) = {p} \cup ToSet(fr)
      /\ Distinct(fr) /\ p \notin ToSet(fr)
  <2>1. Distinct(pending)
    BY <1>2 DEF Queue
  <2>. QED  BY <1>1, <1>3, <1>4, <1>5, <2>1, FrontSet
<1>7. current' = p /\ pending' = fr /\ todo' = handlers[p] /\ handlers' = [handlers EXCEPT ![p] = <<>>]
  BY <1>4, <1>5 DEF PopPending
<1>8. /\ handlers' \in [Promises -> Seq(Promises)] /\ handlers'[p] = <<>>
      /\ \A q \in Promises : q # p => handlers'[q] = handlers[q]
  BY <1>3, <1>6, <1>7
<1>9. TypeOK'
  BY <1>1, <1>2, <1>6, <1>7, <1>8 DEF TypeOK
<1>10. todo = <<>> /\ running = NoPromise
  BY <1>1, <1>2 DEF Dispatch
<1>11. Queue'
  <2>1. \A q \in Promises : is_pending'[q] <=> q \in ToSet(fr) \cup {p}
    <3>1. \A q \in Promises : is_pending[q] <=> q \in ToSet(pending) \cup {NoPromise}
      BY <1>1, <1>2 DEF Queue
    <3>. QED  BY <1>1, <1>6, <3>1, NoPromiseIsNone
  <2>2. \A q \in ToSet(fr) : Settled(q)'
    BY <1>1, <1>2, <1>6 DEF Queue, Settled
  <2>. QED  BY <1>6, <1>7, <2>1, <2>2 DEF Queue
<1>12. Settled(p)
  BY <1>2, <1>6 DEF Queue
<1>13. Dispatch'
  BY <1>1, <1>6, <1>7, <1>12, NoPromiseIsNone DEF Dispatch, Settled
<1>14. Watched'
  BY <1>1 DEF Watched
<1>15. Numbered'
  <2>1. \A q \in Promises : Blank(q) => Blank(q)'
    BY <1>1, <1>8 DEF Blank
  <2>. QED  BY <1>1, <2>1, NumberedKept DEF Inv
<1>16. ASSUME NoSelfThen
       PROVE  Handled(handlers, status, ToSet(pending))' /\ (current' # NoPromise => handlers'[current'] = <<>>)
  <2>1. Handled(handlers, status, ToSet(pending))
    BY <1>16 DEF Inv
  <2>. QED  BY <1>1, <1>6, <1>7, <1>8, <2>1 DEF Handled
<1>17. Places(handlers, todo, running, closure)'
  <2>1. Places(handlers, todo, running, closure)
    BY DEF Inv
  <2>2. ToSet(<<>>) = {} /\ Distinct(<<>>)
    BY SmallOnes DEF Small
  <2>3. Places(handlers', handlers[p], running, closure)
    <3>1. \A q \in Promises : NoPromise \notin ToSet(handlers[q])
      BY <1>10, <2>1 DEF Places
    <3>2. ASSUME NEW q \in Promises
          PROVE  /\ Distinct(handlers'[q]) /\ ToSet(handlers'[q]) \cap ToSet(handlers[p]) = {}
                 /\ running \notin ToSet(handlers'[q])
                 /\ \A x \in ToSet(handlers'[q]) : closure[x].st = "armed"
                 /\ \A r \in Promises : q # r => ToSet(handlers'[q]) \cap ToSet(handlers'[r]) = {}
      <4>1. CASE q = p
        BY <1>8, <2>2, <4>1
      <4>2. CASE q # p
        <5>1. /\ Distinct(handlers[q]) /\ ToSet(handlers[q]) \cap ToSet(handlers[p]) = {}
              /\ running \notin ToSet(handlers[q])
              /\ \A x \in ToSet(handlers[q]) : closure[x].st = "armed"
              /\ \A r \in Promises : q # r => ToSet(handlers[q]) \cap ToSet(handlers[r]) = {}
          BY <1>6, <2>1, <4>2 DEF Places
        <5>2. \A r \in Promises : q # r => ToSet(handlers'[q]) \cap ToSet(handlers'[r]) = {}
          BY <1>8, <2>2, <4>2, <5>1
        <5>. QED  BY <1>8, <4>2, <5>1, <5>2
      <4>. QED  BY <4>1, <4>2
    <3>3. /\ Distinct(handlers[p]) /\ running \notin ToSet(handlers[p])
          /\ \A x \in ToSet(handlers[p]) : closure[x].st = "armed"
      BY <1>6, <2>1 DEF Places
    <3>. QED  BY <1>10, <3>2, <3>3 DEF Places
  <2>. QED  BY <1>1, <1>7, <2>3
<1>18. Inner(closure, results, inputs, handlers, todo, current)'
  <2>1. Inner(closure, results, inputs, handlers, todo, current)
    BY DEF Inv
  <2>2. \A q \in Promises : ToSet(handlers'[q]) \subseteq ToSet(handlers[q])
    BY <1>8, SmallOnes
  <2>3. ASSUME NEW t \in Promises
        PROVE  InnerOne(t, closure, results, inputs, handlers', handlers[p], p)
    BY <1>6, <2>1, <2>2 DEF Inner, InnerOne
  <2>. QED  BY <1>1, <1>7, <2>3 DEF Inner
<1>. QED  BY <1>1, <1>9, <1>11, <1>13, <1>14, <1>15, <1>16, <1>17, <1>18 DEF Inv

-----------------------------------------------------------------------------
(* A closure is called.                                                      *)

LEMMA UnusedNow ==
    ASSUME Numbered
    PROVE  Unused(closure, results, inputs, status)
  BY DEF Numbered, Blank, Unused, Exists

(* The closure t is the next of the dispatch.                                *)
Called(t) ==
    /\ t = Head(todo) /\ t \in Promises /\ closure[t].st = "armed" /\ status[t] # "free" /\ results[t] = <<>>
    /\ loop = "idle" /\ running = NoPromise /\ todo # <<>> /\ t \in ToSet(todo)
    /\ current \in Promises /\ status[current] \in Final
    /\ Tail(todo) \in Seq(Promises) /\ ToSet(Tail(todo)) \subseteq ToSet(todo)

LEMMA CallingCalled ==
    ASSUME Inv, Calling, NEW t, t = Head(todo)
    PROVE  Called(t)
<1>1. TypeOK /\ Numbered /\ Dispatch
  BY DEF Inv
<1>2. loop = "idle" /\ running = NoPromise /\ todo # <<>>
  BY DEF Calling
<1>3. todo \in Seq(Promises)
  BY <1>1 DEF TypeOK
<1>4. /\ Tail(todo) \in Seq(Promises) /\ t \in Promises /\ ToSet(todo) = {t} \cup ToSet(Tail(todo))
  BY <1>2, <1>3, TailSet
<1>5. closure[t].st = "armed"
  BY <1>4 DEF Inv, Places
<1>6. Unused(closure, results, inputs, status)
  BY <1>1, UnusedNow
<1>7. status[t] # "free"
  BY <1>4, <1>5, <1>6, UsedExist
<1>8. results[t] = <<>>
  BY <1>4, <1>5 DEF Inv, Joins, Join
<1>9. current \in Promises /\ status[current] \in Final
  BY <1>1, <1>2 DEF Dispatch, TypeOK, Settled, Final
<1>. QED  BY <1>2, <1>4, <1>5, <1>7, <1>8, <1>9 DEF Called

LEMMA EmptiedIs ==
    ASSUME NEW cl \in [Promises -> Closure], NEW t \in Promises, NEW s
    PROVE  [cl EXCEPT ![t].res = "none", ![t].rej = "none", ![t].st = s] = Emptied(cl, t, s)
  BY DEF Emptied, Closure

LEMMA EmptiedStays ==
    ASSUME NEW cl \in [Promises -> Closure], NEW t \in Promises, cl[t].st = "armed"
    PROVE  [cl EXCEPT ![t].res = "none", ![t].rej = "none"] = Emptied(cl, t, "armed")
<1>1. cl[t] \in Closure
  OBVIOUS
<1>2. [cl[t] EXCEPT !.res = "none", !.rej = "none"] = [cl[t] EXCEPT !.res = "none", !.rej = "none", !.st = "armed"]
  BY <1>1 DEF Closure
<1>. QED  BY <1>2 DEF Emptied

LEMMA EmptiedKeeps ==
    ASSUME Inv, NEW t, Called(t), NEW s \in States, closure' = Emptied(closure, t, s), todo' = Tail(todo),
           UNCHANGED <<handlers, current, inputs>>
    PROVE  /\ closure' \in [Promises -> Closure] /\ todo' \in Seq(Promises)
           /\ Places(handlers', todo', NoPromise, closure')
           /\ s = "armed" /\ closure[t].i = 0 => Places(handlers', todo', t, closure')
           /\ Inner(closure', results, inputs', handlers', todo', current')
           /\ Fresh(closure', calls)
           /\ Unused(closure', results, inputs', status)
<1>1. /\ t \in Promises /\ t = Head(todo) /\ todo # <<>> /\ running = NoPromise /\ status[t] # "free"
      /\ Tail(todo) \in Seq(Promises) /\ ToSet(Tail(todo)) \subseteq ToSet(todo)
  BY DEF Called
<1>2. /\ closure \in [Promises -> Closure] /\ handlers \in [Promises -> Seq(Promises)]
      /\ todo \in Seq(Promises) /\ calls \in [Promises -> Nat]
  BY DEF Inv, TypeOK
<1>3. PICK c : c = closure'
  OBVIOUS
<1>4. c = Emptied(closure, t, s)
  BY <1>3
<1>5. /\ c \in [Promises -> Closure] /\ SameBut(closure, c, t) /\ c[t].st = s /\ c[t].i = closure[t].i
  <2>1. closure \in [Promises -> Closure] /\ t \in Promises
    BY <1>1, <1>2
  <2>2. PICK cl \in [Promises -> Closure] : cl = closure
    BY <2>1
  <2>3. c = Emptied(cl, t, s)
    BY <1>4, <2>2
  <2>4. c \in [Promises -> Closure] /\ SameBut(cl, c, t) /\ c[t].st = s /\ c[t].i = cl[t].i
    BY <2>1, <2>3, EmptiedFields
  <2>. QED  BY <2>2, <2>4
<1>6. Places(handlers, todo, NoPromise, closure)
  BY <1>1 DEF Inv
<1>7. /\ Places(handlers, Tail(todo), NoPromise, c)
      /\ c[t].st = "armed" /\ c[t].i = 0 => Places(handlers, Tail(todo), t, c)
  BY <1>1, <1>2, <1>5, <1>6, PlacesPopped
<1>8. Inner(closure, results, inputs, handlers, todo, current) /\ Fresh(closure, calls)
  BY DEF Inv
<1>9. Inner(c, results, inputs, handlers, Tail(todo), current)
  BY <1>1, <1>2, <1>4, <1>8, InnerEmptied
<1>10. Fresh(c, calls)
  BY <1>1, <1>2, <1>4, <1>8, FreshEmptied
<1>11. Unused(closure, results, inputs, status)
  BY UnusedNow DEF Inv
<1>12. Unused(c, results, inputs, status)
  BY <1>1, <1>5, <1>11 DEF Unused, SameBut
<1>. QED  BY <1>1, <1>3, <1>5, <1>7, <1>9, <1>10, <1>12

LEMMA NotStored ==
    ASSUME Inv, NEW t, Called(t), HandlerOf(t) \in {"none", "user"}
    PROVE  /\ closure[t].res = "join" => status[inputs[closure[t].ret][closure[t].i]] = "rejected"
           /\ HandlerOf(t) = "user" => closure[t].i = 0 /\ calls[t] = 0
<1>1. /\ t \in Promises /\ t \in ToSet(todo) /\ status[current] \in Final
  BY DEF Called
<1>2. Fresh(closure, calls)
  BY DEF Inv
<1>3. InnerOne(t, closure, results, inputs, handlers, todo, current)
  BY <1>1 DEF Inv, Inner
<1>4. HandlerOf(t) = "user" => closure[t].i = 0 /\ calls[t] = 0
  BY <1>1, <1>2 DEF Fresh, HandlerOf
<1>5. closure[t].res = "join" => closure[t].i # 0
  BY <1>3 DEF InnerOne
<1>6. closure[t].i # 0 => current = inputs[closure[t].ret][closure[t].i]
  BY <1>1, <1>3 DEF InnerOne
<1>7. status[current] = "resolved" => closure[t].res = HandlerOf(t)
  BY DEF HandlerOf
<1>. QED  BY <1>1, <1>4, <1>5, <1>6, <1>7 DEF Final

(* Blank promises, when closures of existing promises change.                *)
LEMMA BlankKept ==
    ASSUME Numbered, UNCHANGED <<status, value, handlers, results, inputs>>,
           NEW t \in Promises, status[t] # "free", SameBut(closure, closure', t), SameBut(calls, calls', t)
    PROVE  Numbered'
<1>1. \A p \in Promises : status[p] = "free" /\ Blank(p) => Blank(p)'
  BY DEF Blank, SameBut
<1>. QED  BY <1>1, NumberedKept

LEMMA HandlerFailsInv ==
    ASSUME Inv, HandlerFails
    PROVE  Inv'
<1>1. PICK t : t = Head(todo)
  OBVIOUS
<1>2. /\ UNCHANGED <<status, value, handlers, is_pending, results, left, pending, idle, rooted>>
      /\ UNCHANGED <<loop, exited, current, running, calls, inputs>>
      /\ todo' = Tail(todo) /\ HandlerOf(t) = "user" /\ Calling
      /\ closure' = [closure EXCEPT ![t].res = "none", ![t].rej = "none", ![t].st = "failed"]
  BY <1>1 DEF HandlerFails, promiseVars, joinVars, queueVars
<1>3. Called(t)
  BY <1>1, <1>2, CallingCalled
<1>4. TypeOK /\ Numbered /\ Queue /\ Dispatch /\ Watched
  BY DEF Inv
<1>5. closure \in [Promises -> Closure] /\ t \in Promises /\ status[t] # "free" /\ running = NoPromise
  BY <1>3, <1>4 DEF Called, TypeOK
<1>6. closure' = Emptied(closure, t, "failed") /\ "failed" \in States
  BY <1>2, <1>5, EmptiedIs DEF States
<1>7. /\ closure' \in [Promises -> Closure] /\ todo' \in Seq(Promises)
      /\ Places(handlers', todo', NoPromise, closure')
      /\ Inner(closure', results, inputs', handlers', todo', current')
      /\ Fresh(closure', calls)
  BY <1>2, <1>3, <1>6, EmptiedKeeps
<1>8. TypeOK'
  BY <1>2, <1>4, <1>7 DEF TypeOK
<1>9. Queue' /\ Watched'
  BY <1>2, <1>4 DEF Queue, Watched, Settled
<1>10. Dispatch'
  BY <1>2, <1>3, <1>4 DEF Dispatch, Settled, Called
<1>11. Numbered'
  <2>1. SameBut(closure, closure', t) /\ SameBut(calls, calls', t)
    BY <1>2, <1>5, <1>6, EmptiedFields DEF SameBut
  <2>. QED  BY <1>2, <1>4, <1>5, <2>1, BlankKept
<1>12. Joins(closure', inputs, status, value, results, left)
  <2>1. closure[t].res = "join" => status[inputs[closure[t].ret][closure[t].i]] = "rejected"
    BY <1>2, <1>3, NotStored
  <2>2. Joins(closure, inputs, status, value, results, left) /\ closure[t].st = "armed"
    BY <1>3 DEF Inv, Called
  <2>. QED  BY <1>5, <1>6, <2>1, <2>2, JoinsEmptied
<1>. QED  BY <1>2, <1>5, <1>7, <1>8, <1>9, <1>10, <1>11, <1>12 DEF Inv

LEMMA CallHandlerInv ==
    ASSUME Inv, CallHandler
    PROVE  Inv'
<1>1. PICK t : t = Head(todo)
  OBVIOUS
<1>2. /\ UNCHANGED <<status, value, handlers, is_pending, results, left, pending, idle, rooted>>
      /\ UNCHANGED <<loop, exited, current, inputs>>
      /\ todo' = Tail(todo) /\ HandlerOf(t) = "user" /\ Calling /\ running' = t
      /\ closure' = [closure EXCEPT ![t].res = "none", ![t].rej = "none"]
      /\ calls' = [calls EXCEPT ![t] = @ + 1]
  BY <1>1 DEF CallHandler, promiseVars, joinVars, queueVars
<1>3. Called(t)
  BY <1>1, <1>2, CallingCalled
<1>4. TypeOK /\ Numbered /\ Queue /\ Dispatch /\ Watched
  BY DEF Inv
<1>5. /\ closure \in [Promises -> Closure] /\ calls \in [Promises -> Nat] /\ t \in Promises /\ status[t] # "free"
      /\ closure[t].st = "armed"
  BY <1>3, <1>4 DEF Called, TypeOK
<1>6. closure' = Emptied(closure, t, "armed") /\ "armed" \in States
  BY <1>2, <1>5, EmptiedStays DEF States
<1>7. /\ closure' \in [Promises -> Closure] /\ todo' \in Seq(Promises)
      /\ closure[t].i = 0 => Places(handlers', todo', t, closure')
      /\ Inner(closure', results, inputs', handlers', todo', current')
  BY <1>2, <1>3, <1>6, EmptiedKeeps
<1>8. closure[t].i = 0 /\ calls[t] = 0
  BY <1>2, <1>3, NotStored
<1>9. Fresh(closure', calls') /\ calls' \in [Promises -> Nat]
  <2>1. Fresh(closure', calls)
    BY <1>2, <1>3, <1>6, EmptiedKeeps
  <2>2. calls' \in [Promises -> Nat] /\ SameBut(calls, calls', t) /\ calls'[t] = 1
    BY <1>2, <1>5, <1>8 DEF SameBut
  <2>3. closure'[t].res = "none" /\ closure'[t].rej = "none"
    BY <1>5, <1>6, EmptiedFields
  <2>. QED  BY <1>5, <2>1, <2>2, <2>3, FreshCalled
<1>10. TypeOK'
  BY <1>2, <1>4, <1>5, <1>7, <1>9 DEF TypeOK
<1>11. Queue' /\ Watched'
  BY <1>2, <1>4 DEF Queue, Watched, Settled
<1>12. Dispatch'
  BY <1>2, <1>3, <1>4, NoPromiseIsNone DEF Dispatch, Settled, Called
<1>13. Numbered'
  <2>1. SameBut(closure, closure', t)
    BY <1>5, <1>6, EmptiedFields
  <2>2. SameBut(calls, calls', t)
    BY <1>2, <1>5 DEF SameBut
  <2>. QED  BY <1>2, <1>4, <1>5, <2>1, <2>2, BlankKept
<1>14. Joins(closure', inputs, status, value, results, left)
  <2>1. closure[t].res = "join" => status[inputs[closure[t].ret][closure[t].i]] = "rejected"
    BY <1>2, <1>3, NotStored
  <2>2. Joins(closure, inputs, status, value, results, left)
    BY DEF Inv
  <2>. QED  BY <1>5, <1>6, <2>1, <2>2, JoinsEmptied
<1>. QED  BY <1>2, <1>7, <1>8, <1>9, <1>10, <1>11, <1>12, <1>13, <1>14 DEF Inv

-----------------------------------------------------------------------------
(* Promises settle.                                                          *)

LEMMA GivenGrows ==
    ASSUME NEW in \in [Promises -> Seq(Promises)], NEW st, NEW va, NEW st2, NEW va2, Given(in, st),
           Grows(st, va, st2, va2)
    PROVE  Given(in, st2)
<1>1. ASSUME NEW r \in Promises, NEW p \in ToSet(in[r])
      PROVE  st2[p] # "free"
  <2>1. p \in Promises
    BY <1>1, SeqSet
  <2>2. st[p] # "free"
    BY <1>1 DEF Given
  <2>. QED  BY <2>1, <2>2 DEF Grows
<1>. QED  BY <1>1 DEF Given

(* A join among ps that gets its value has both results.                     *)
Completes(ps, v, in, st, va, rs) ==
    \A p \in ToSet(ps) : rs[p] # <<>> /\ v[p] = Tuple => Hit(p, 1, in, st, va, rs) /\ Hit(p, 2, in, st, va, rs)

LEMMA CompletesTuples ==
    ASSUME NEW ps, NEW v, NEW in, NEW st, NEW va, NEW va2, NEW rs, Valued(ps, v, va, va2),
           Completes(ps, v, in, st, va, rs)
    PROVE  Tuples(in, st, va, va2, rs)
  BY DEF Valued, Completes, Tuples

(* What the action does to the closures, before the promises settle.         *)
ClosuresKept ==
    /\ closure' \in [Promises -> Closure] /\ results' \in [Promises -> Seq(Value)]
    /\ left' \in [Promises -> Nat]
    /\ todo' \in Seq(Promises) /\ running' \in Promises \cup {NoPromise}
    /\ UNCHANGED <<handlers, loop, exited, current, inputs, calls>>
    /\ Places(handlers, todo', running', closure') /\ Fresh(closure', calls)
    /\ Inner(closure', results', inputs, handlers, todo', current)
    /\ Joins(closure', inputs, status, value, results', left')
    /\ Unused(closure', results', inputs, status)
    /\ todo' # <<>> \/ running' # NoPromise => current # NoPromise

LEMMA SettleInv ==
    ASSUME Inv, loop # "stopped", NEW ps, Small(ps), Live(ps), NEW st \in Final, NEW v \in Values,
           Settle(ps, st, v), ClosuresKept, Completes(ps, v, inputs, status, value, results')
    PROVE  Inv'
<1>1. UNCHANGED <<handlers, loop, exited, current, inputs, calls>>
  BY DEF ClosuresKept
<1>2. /\ status' \in [Promises -> {"free", "unsettled", "resolved", "rejected"}]
      /\ value' \in [Promises -> Value]
      /\ is_pending' \in [Promises -> BOOLEAN] /\ pending' \in Seq(Promises)
      /\ idle' \in BOOLEAN /\ rooted' \in BOOLEAN
      /\ Queue' /\ Watched'
      /\ Grows(status, value, status', value') /\ Valued(ps, v, value, value')
      /\ NoSelfThen => Handled(handlers, status, ToSet(pending))' /\ (current' # NoPromise => handlers'[current'] = <<>>)
  BY <1>1, SettlingKeeps
<1>3. TypeOK /\ Numbered /\ Dispatch
  BY DEF Inv
<1>4. TypeOK'
  BY <1>1, <1>2, <1>3 DEF TypeOK, ClosuresKept
<1>5. Dispatch'
  <2>1. current # NoPromise => loop' = "idle" /\ Settled(current)'
    <3>1. current # NoPromise => current \in Promises /\ Settled(current)
      BY <1>3 DEF TypeOK, Dispatch
    <3>2. current # NoPromise => Settled(current)'
      BY <1>1, <1>2, <3>1 DEF Grows, Settled, Final
    <3>. QED  BY <1>1, <1>3, <3>2 DEF Dispatch
  <2>2. todo' # <<>> \/ running' # NoPromise => current' # NoPromise
    BY <1>1 DEF ClosuresKept
  <2>. QED  BY <1>1, <2>1, <2>2 DEF Dispatch, Settled
<1>6. Numbered'
  <2>1. \A p \in Promises : status'[p] = "free" <=> status[p] = "free"
    BY <1>2 DEF Grows
  <2>2. ASSUME NEW p \in Promises, status[p] = "free", Blank(p)
        PROVE  Blank(p)'
    <3>1. p \notin ToSet(ps)
      BY <2>2 DEF Live, Exists
    <3>2. value'[p] = value[p]
      BY <1>2, <3>1 DEF Valued
    <3>3. closure'[p] = NoClosure /\ results'[p] = <<>>
      BY <2>2 DEF ClosuresKept, Unused
    <3>. QED  BY <1>1, <2>2, <3>2, <3>3 DEF Blank
  <2>. QED  BY <1>3, <2>1, <2>2, NumberedKept
<1>7. inputs \in [Promises -> Seq(Promises)]
  BY <1>3 DEF TypeOK
<1>8. Given(inputs, status')
  BY <1>2, <1>7, GivenGrows DEF Inv
<1>9. Tuples(inputs, status, value, value', results')
  BY <1>2, CompletesTuples
<1>10. Joins(closure', inputs, status', value', results', left')
  <2>1. Joins(closure', inputs, status, value, results', left')
    BY DEF ClosuresKept
  <2>. QED  BY <1>2, <1>7, <1>9, <2>1, JoinsSettled
<1>. QED  BY <1>1, <1>2, <1>4, <1>5, <1>6, <1>8, <1>10 DEF Inv, ClosuresKept

LEMMA OnlyFields ==
    ASSUME NEW p \in Promises, NEW x \in Value
    PROVE  /\ Only(p, x) \in Values /\ Only(p, x)[p] = x
           /\ \A q \in Promises : q # p => Only(p, x)[q] = NoVal
  BY DEF Only, Values, Value

(* Nothing happens to the closures.                                          *)
LEMMA NothingKept ==
    ASSUME Inv, UNCHANGED <<handlers, closure, results, left, loop, exited, current, todo, running, calls, inputs>>
    PROVE  ClosuresKept
<1>1. TypeOK /\ Dispatch
  BY DEF Inv
<1>2. Unused(closure, results, inputs, status)
  BY UnusedNow DEF Inv
<1>3. /\ closure' \in [Promises -> Closure] /\ results' \in [Promises -> Seq(Value)]
      /\ left' \in [Promises -> Nat] /\ todo' \in Seq(Promises) /\ running' \in Promises \cup {NoPromise}
  BY <1>1 DEF TypeOK
<1>. QED  BY <1>1, <1>2, <1>3 DEF ClosuresKept, Inv, Dispatch

LEMMA SettleOneInv ==
    ASSUME Inv, UserCode, NEW p \in Promises, Exists(p), NEW st \in Final, NEW x \in Value, x # Tuple,
           Settle(<<p>>, st, Only(p, x)),
           UNCHANGED <<handlers, closure, joinVars, loopVars, calls, inputs>>
    PROVE  Inv'
<1>1. loop # "stopped"
  BY DEF UserCode
<1>2. UNCHANGED <<handlers, closure, results, left, loop, exited, current, todo, running, calls, inputs>>
  BY DEF joinVars, loopVars
<1>3. ClosuresKept
  BY <1>2, NothingKept
<1>4. Small(<<p>>) /\ ToSet(<<p>>) = {p}
  BY SmallOnes
<1>5. Live(<<p>>)
  BY <1>4 DEF Live
<1>6. Only(p, x) \in Values /\ Only(p, x)[p] = x
  BY OnlyFields
<1>7. Completes(<<p>>, Only(p, x), inputs, status, value, results')
  BY <1>4, <1>6 DEF Completes
<1>. QED  BY <1>1, <1>3, <1>4, <1>5, <1>6, <1>7, SettleInv

LEMMA PlainValues ==
    /\ NoVal \in Value /\ NoVal # Tuple /\ Tuple \in Value
    /\ \A v \in Val : v \in Value /\ v # Tuple
  BY PromiseAssumption DEF Value

LEMMA ResolveInv ==
    ASSUME Inv, NEW p \in Promises, NEW v \in Val, Resolve(p, v)
    PROVE  Inv'
<1>1. UserCode /\ Exists(p) /\ "resolved" \in Final
  BY DEF Resolve, Visible, Final
<1>2. v \in Value /\ v # Tuple
  BY PlainValues
<1>3. /\ Settle(<<p>>, "resolved", Only(p, v))
      /\ UNCHANGED <<handlers, closure, joinVars, loopVars, calls, inputs>>
  BY DEF Resolve
<1>. QED  BY <1>1, <1>2, <1>3, SettleOneInv

LEMMA RejectInv ==
    ASSUME Inv, NEW p \in Promises, Reject(p)
    PROVE  Inv'
<1>1. UserCode /\ Exists(p) /\ "rejected" \in Final
  BY DEF Reject, Visible, Final
<1>2. NoVal \in Value /\ NoVal # Tuple
  BY PlainValues
<1>3. /\ Settle(<<p>>, "rejected", Only(p, NoVal))
      /\ UNCHANGED <<handlers, closure, joinVars, loopVars, calls, inputs>>
  BY DEF Reject
<1>. QED  BY <1>1, <1>2, <1>3, SettleOneInv

(* The closure t is spent, and the results of joins stay.                    *)
LEMMA SpentKept ==
    ASSUME Inv, NEW t, Called(t), todo' = Tail(todo),
           closure' = [closure EXCEPT ![t].res = "none", ![t].rej = "none", ![t].st = "spent"],
           UNCHANGED <<handlers, results, left, loop, exited, current, running, calls, inputs>>,
           closure[t].res = "join" => status[inputs[closure[t].ret][closure[t].i]] = "rejected"
    PROVE  ClosuresKept
<1>1. /\ t \in Promises /\ closure[t].st = "armed" /\ running = NoPromise /\ current \in Promises
  BY DEF Called
<1>2. closure \in [Promises -> Closure] /\ results \in [Promises -> Seq(Value)] /\ left \in [Promises -> Nat]
  BY DEF Inv, TypeOK
<1>3. closure' = Emptied(closure, t, "spent") /\ "spent" \in States
  BY <1>1, <1>2, EmptiedIs DEF States
<1>4. /\ closure' \in [Promises -> Closure] /\ todo' \in Seq(Promises)
      /\ Places(handlers', todo', NoPromise, closure')
      /\ Inner(closure', results, inputs', handlers', todo', current')
      /\ Fresh(closure', calls)
      /\ Unused(closure', results, inputs', status)
  BY <1>3, EmptiedKeeps
<1>5. Joins(closure', inputs, status, value, results, left)
  <2>1. Joins(closure, inputs, status, value, results, left)
    BY DEF Inv
  <2>. QED  BY <1>1, <1>2, <1>3, <2>1, JoinsEmptied
<1>. QED  BY <1>1, <1>2, <1>4, <1>5, NoPromiseIsNone DEF ClosuresKept

LEMMA PassOnInv ==
    ASSUME Inv, PassOn
    PROVE  Inv'
<1>1. PICK t : t = Head(todo)
  OBVIOUS
<1>2. /\ Calling /\ HandlerOf(t) = "none" /\ todo' = Tail(todo)
      /\ Settle(<<t>>, status[current], Only(t, value[current]))
      /\ closure' = [closure EXCEPT ![t].res = "none", ![t].rej = "none", ![t].st = "spent"]
      /\ UNCHANGED <<handlers, results, left, loop, exited, current, running, calls, inputs>>
  BY <1>1 DEF PassOn, joinVars
<1>3. Called(t)
  BY <1>1, <1>2, CallingCalled
<1>4. ClosuresKept
  <2>1. closure[t].res = "join" => status[inputs[closure[t].ret][closure[t].i]] = "rejected"
    BY <1>2, <1>3, NotStored
  <2>. QED  BY <1>2, <1>3, <2>1, SpentKept
<1>5. /\ t \in Promises /\ status[t] # "free" /\ results[t] = <<>> /\ loop # "stopped"
      /\ current \in Promises /\ status[current] \in Final
  BY <1>3 DEF Called
<1>6. value[current] \in Value
  BY <1>5 DEF Inv, TypeOK
<1>7. Small(<<t>>) /\ ToSet(<<t>>) = {t}
  BY <1>5, SmallOnes
<1>8. Live(<<t>>)
  BY <1>5, <1>7 DEF Live, Exists
<1>9. Only(t, value[current]) \in Values
  BY <1>5, <1>6, OnlyFields
<1>10. Completes(<<t>>, Only(t, value[current]), inputs, status, value, results')
  BY <1>2, <1>5, <1>7 DEF Completes
<1>. QED  BY <1>2, <1>4, <1>5, <1>7, <1>8, <1>9, <1>10, SettleInv

(* The promise a closure of a join or an any_promise works for.              *)
LEMMA InnerCalled ==
    ASSUME Inv, NEW t, Called(t), NEW r, r = closure[t].ret, HandlerOf(t) \in {"join", "any"}
    PROVE  /\ r \in Promises /\ status[r] # "free" /\ r # t /\ t = r + closure[t].i
           /\ status[current] = "resolved" /\ closure[t].res = HandlerOf(t)
           /\ closure[t].i \in {1, 2} /\ current = inputs[r][closure[t].i]
           /\ closure[t].res = "join" => results[r] # <<>>
           /\ closure[t].res = "any" => results[r] = <<>>
<1>1. /\ t \in Promises /\ t \in ToSet(todo) /\ status[current] \in Final
  BY DEF Called
<1>2. closure \in [Promises -> Closure]
  BY DEF Inv, TypeOK
<1>3. closure[t].rej \in {"none", "user"} /\ closure[t].i \in 0 .. 2
  BY <1>1, <1>2 DEF Closure
<1>4. status[current] = "resolved" /\ closure[t].res = HandlerOf(t)
  BY <1>1, <1>3 DEF HandlerOf, Final
<1>5. InnerOne(t, closure, results, inputs, handlers, todo, current)
  BY <1>1 DEF Inv, Inner
<1>6. closure[t].i # 0
  BY <1>4, <1>5 DEF InnerOne
<1>7. /\ r \in Promises /\ t = r + closure[t].i /\ Pair(r, inputs) /\ current = inputs[r][closure[t].i]
      /\ closure[t].res = "join" => results[r] # <<>>
      /\ closure[t].res = "any" => results[r] = <<>>
  BY <1>1, <1>5, <1>6 DEF InnerOne
<1>8. inputs[r] # <<>>
  <2>1. Len(inputs[r]) = 2
    BY <1>7 DEF Pair
  <2>2. inputs[r] = <<>> => Len(inputs[r]) = 0
    OBVIOUS
  <2>. QED  BY <2>1, <2>2
<1>9. status[r] # "free"
  <2>1. Unused(closure, results, inputs, status)
    BY UnusedNow DEF Inv
  <2>. QED  BY <1>7, <1>8, <2>1, UsedExist
<1>10. closure[t].i \in {1, 2}
  BY <1>3, <1>6
<1>11. r # t
  <2>1. r \in Nat
    BY <1>7, NoPromiseIsNone
  <2>. QED  BY <1>7, <1>10, <2>1
<1>. QED  BY <1>4, <1>7, <1>9, <1>10, <1>11

LEMMA AnyHandlerInv ==
    ASSUME Inv, AnyHandler
    PROVE  Inv'
<1>1. PICK t : t = Head(todo)
  OBVIOUS
<1>2. PICK r : r = closure[t].ret
  OBVIOUS
<1>3. /\ Calling /\ HandlerOf(t) = "any" /\ todo' = Tail(todo)
      /\ Settle(<<r, t>>, "resolved", Only(r, value[current]))
      /\ closure' = [closure EXCEPT ![t].res = "none", ![t].rej = "none", ![t].st = "spent"]
      /\ UNCHANGED <<handlers, results, left, loop, exited, current, running, calls, inputs>>
  BY <1>1, <1>2 DEF AnyHandler, joinVars
<1>4. Called(t)
  BY <1>1, <1>3, CallingCalled
<1>5. /\ r \in Promises /\ status[r] # "free" /\ r # t /\ closure[t].res = "any" /\ results[r] = <<>>
  BY <1>2, <1>3, <1>4, InnerCalled
<1>6. ClosuresKept
  BY <1>3, <1>4, <1>5, SpentKept
<1>7. /\ t \in Promises /\ status[t] # "free" /\ results[t] = <<>> /\ loop # "stopped" /\ current \in Promises
  BY <1>4 DEF Called
<1>8. value[current] \in Value /\ "resolved" \in Final
  BY <1>7 DEF Inv, TypeOK, Final
<1>9. Small(<<r, t>>) /\ ToSet(<<r, t>>) = {r, t}
  BY <1>5, <1>7, SmallOnes
<1>10. Live(<<r, t>>)
  BY <1>5, <1>7, <1>9 DEF Live, Exists
<1>11. Only(r, value[current]) \in Values
  BY <1>5, <1>8, OnlyFields
<1>12. Completes(<<r, t>>, Only(r, value[current]), inputs, status, value, results')
  BY <1>3, <1>5, <1>7, <1>9 DEF Completes
<1>. QED  BY <1>3, <1>6, <1>7, <1>8, <1>9, <1>10, <1>11, <1>12, SettleInv

(* Results that are stored do not change which promises are joins.           *)
SameJoins(rs, rs2) == \A p \in Promises : rs2[p] = <<>> <=> rs[p] = <<>>

LEMMA InnerResults ==
    ASSUME NEW cl, NEW rs, NEW rs2, NEW in, NEW hs, NEW td, NEW cur, NEW st, SameJoins(rs, rs2),
           Inner(cl, rs, in, hs, td, cur), Unused(cl, rs, in, st)
    PROVE  Inner(cl, rs2, in, hs, td, cur) /\ Unused(cl, rs2, in, st)
<1>1. Unused(cl, rs2, in, st)
  BY DEF Unused, SameJoins
<1>2. ASSUME NEW t \in Promises
      PROVE  InnerOne(t, cl, rs2, in, hs, td, cur)
  BY DEF Inner, InnerOne, SameJoins
<1>. QED  BY <1>1, <1>2 DEF Inner

LEMMA JoinHandlerInv ==
    ASSUME Inv, JoinHandler
    PROVE  Inv'
<1>1. PICK t : t = Head(todo)
  OBVIOUS
<1>2. PICK r : r = closure[t].ret
  OBVIOUS
<1>3. PICK i : i = closure[t].i
  OBVIOUS
<1>4. PICK done : done = IF left[r] = 1 THEN <<r, t>> ELSE <<t>>
  OBVIOUS
<1>5. /\ Calling /\ HandlerOf(t) = "join" /\ todo' = Tail(todo)
      /\ results' = [results EXCEPT ![r][i] = value[current]]
      /\ left' = [left EXCEPT ![r] = @ - 1]
      /\ Settle(done, "resolved", Only(r, Tuple))
      /\ closure' = [closure EXCEPT ![t].res = "none", ![t].rej = "none", ![t].st = "spent"]
      /\ UNCHANGED <<handlers, loop, exited, current, running, calls, inputs>>
  BY <1>1, <1>2, <1>3, <1>4 DEF JoinHandler
<1>6. Called(t)
  BY <1>1, <1>5, CallingCalled
<1>7. /\ r \in Promises /\ status[r] # "free" /\ r # t /\ t = r + i /\ closure[t].res = "join" /\ results[r] # <<>>
      /\ i \in {1, 2} /\ current = inputs[r][i] /\ status[current] = "resolved"
  BY <1>2, <1>3, <1>5, <1>6, InnerCalled
<1>8. /\ t \in Promises /\ status[t] # "free" /\ results[t] = <<>> /\ loop # "stopped" /\ current \in Promises
      /\ closure[t].st = "armed" /\ running = NoPromise
  BY <1>6 DEF Called
<1>9. /\ closure \in [Promises -> Closure] /\ inputs \in [Promises -> Seq(Promises)]
      /\ value \in [Promises -> Value] /\ results \in [Promises -> Seq(Value)] /\ left \in [Promises -> Nat]
  BY DEF Inv, TypeOK
<1>10. Storing(closure, t, inputs, status, value, results, left, r, i)
  BY <1>2, <1>3, <1>7, <1>8, <1>9 DEF Storing
<1>11. closure' = Emptied(closure, t, "spent") /\ "spent" \in States
  BY <1>5, <1>8, <1>9, EmptiedIs DEF States
<1>12. results' = Stored(results, r, i, value[inputs[r][i]]) /\ left' = Lowered(left, r)
  BY <1>5, <1>7, <1>9 DEF Stored, Lowered
<1>13. /\ Joins(closure', inputs, status, value, results', left')
       /\ results' \in [Promises -> Seq(Value)] /\ left' \in [Promises -> Nat]
       /\ SameJoins(results, results')
       /\ left[r] = 1 => Hit(r, 1, inputs, status, value, results') /\ Hit(r, 2, inputs, status, value, results')
  <2>1. Joins(closure, inputs, status, value, results, left)
    BY DEF Inv
  <2>2. PICK c : c = closure'
    OBVIOUS
  <2>3. PICK rs : rs = results'
    OBVIOUS
  <2>4. PICK le : le = left'
    OBVIOUS
  <2>5. /\ c = Emptied(closure, t, "spent") /\ "spent" \in States
        /\ rs = Stored(results, r, i, value[inputs[r][i]]) /\ le = Lowered(left, r)
    BY <1>11, <1>12, <2>2, <2>3, <2>4
  <2>6. /\ Joins(c, inputs, status, value, rs, le)
        /\ rs \in [Promises -> Seq(Value)] /\ le \in [Promises -> Nat]
        /\ \A p \in Promises : rs[p] = <<>> <=> results[p] = <<>>
        /\ left[r] = 1 => Hit(r, 1, inputs, status, value, rs) /\ Hit(r, 2, inputs, status, value, rs)
    BY <1>10, <2>1, <2>5, JoinsStored
  <2>. QED  BY <2>2, <2>3, <2>4, <2>6 DEF SameJoins
<1>14. /\ closure' \in [Promises -> Closure] /\ todo' \in Seq(Promises)
       /\ Places(handlers', todo', NoPromise, closure')
       /\ Inner(closure', results, inputs', handlers', todo', current')
       /\ Fresh(closure', calls)
       /\ Unused(closure', results, inputs', status)
  BY <1>5, <1>6, <1>11, EmptiedKeeps
<1>15. Inner(closure', results', inputs', handlers', todo', current') /\ Unused(closure', results', inputs', status)
  BY <1>13, <1>14, InnerResults
<1>16. ClosuresKept
  BY <1>5, <1>8, <1>13, <1>14, <1>15, NoPromiseIsNone DEF ClosuresKept
<1>17. Only(r, Tuple) \in Values
  BY <1>7, OnlyFields, PlainValues
<1>18. "resolved" \in Final
  BY DEF Final
<1>19. results'[t] = <<>>
  BY <1>8, <1>13 DEF SameJoins
<1>20. CASE left[r] = 1
  <2>1. done = <<r, t>>
    BY <1>4, <1>20
  <2>2. Small(<<r, t>>) /\ ToSet(<<r, t>>) = {r, t}
    BY <1>7, <1>8, SmallOnes
  <2>3. Live(<<r, t>>)
    BY <1>7, <1>8, <2>2 DEF Live, Exists
  <2>4. Completes(<<r, t>>, Only(r, Tuple), inputs, status, value, results')
    BY <1>13, <1>19, <1>20, <2>2 DEF Completes
  <2>5. Settle(<<r, t>>, "resolved", Only(r, Tuple))
    BY <1>5, <2>1
  <2>. QED  BY <1>8, <1>16, <1>17, <1>18, <2>2, <2>3, <2>4, <2>5, SettleInv
<1>21. CASE left[r] # 1
  <2>1. done = <<t>>
    BY <1>4, <1>21
  <2>2. Small(<<t>>) /\ ToSet(<<t>>) = {t}
    BY <1>8, SmallOnes
  <2>3. Live(<<t>>)
    BY <1>8, <2>2 DEF Live, Exists
  <2>4. Completes(<<t>>, Only(r, Tuple), inputs, status, value, results')
    BY <1>19, <2>2 DEF Completes
  <2>5. Settle(<<t>>, "resolved", Only(r, Tuple))
    BY <1>5, <2>1
  <2>. QED  BY <1>8, <1>16, <1>17, <1>18, <2>2, <2>3, <2>4, <2>5, SettleInv
<1>. QED  BY <1>20, <1>21

-----------------------------------------------------------------------------
(* A user handler returns.                                                   *)

LEMMA RunningFacts ==
    ASSUME Inv, running # NoPromise
    PROVE  /\ running \in Promises /\ status[running] # "free" /\ loop = "idle" /\ current # NoPromise
           /\ closure[running].st = "armed" /\ closure[running].i = 0
           /\ \A r \in Promises : results[r] # <<>> => r # running
<1>1. running \in Promises
  BY DEF Inv, TypeOK
<1>2. closure[running].st = "armed" /\ closure[running].i = 0
  BY DEF Inv, Places
<1>3. Unused(closure, results, inputs, status)
  BY UnusedNow DEF Inv
<1>4. status[running] # "free"
  BY <1>1, <1>2, <1>3, UsedExist
<1>5. loop = "idle" /\ current # NoPromise
  BY DEF Inv, Dispatch
<1>6. \A r \in Promises : results[r] # <<>> => r # running
  BY <1>1, <1>2 DEF Inv, Joins, Join
<1>. QED  BY <1>1, <1>2, <1>4, <1>5, <1>6

LEMMA HandlerReturnsInv ==
    ASSUME Inv, NEW st \in Final, NEW x \in Value, x # Tuple, HandlerReturns(st, x)
    PROVE  Inv'
<1>1. PICK t : t = running
  OBVIOUS
<1>2. /\ t # NoPromise /\ running' = NoPromise
      /\ Settle(<<t>>, st, Only(t, x))
      /\ closure' = [closure EXCEPT ![t].st = "spent"]
      /\ UNCHANGED <<handlers, results, left, loop, exited, current, todo, calls, inputs>>
  BY <1>1 DEF HandlerReturns, joinVars
<1>3. /\ t \in Promises /\ status[t] # "free" /\ loop = "idle" /\ current # NoPromise
      /\ closure[t].st = "armed" /\ \A r \in Promises : results[r] # <<>> => r # t
  BY <1>1, <1>2, RunningFacts
<1>4. TypeOK
  BY DEF Inv
<1>5. PICK c : c = closure'
  OBVIOUS
<1>6. /\ c \in [Promises -> Closure] /\ SameBut(closure, c, t)
      /\ \A p \in Promises : c[p].res = closure[p].res /\ c[p].rej = closure[p].rej
                             /\ c[p].ret = closure[p].ret /\ c[p].i = closure[p].i
  <2>1. closure \in [Promises -> Closure]
    BY <1>4 DEF TypeOK
  <2>2. PICK d : d = [closure[t] EXCEPT !.st = "spent"]
    OBVIOUS
  <2>3. closure[t] \in Closure
    BY <1>3, <2>1
  <2>4. /\ d \in Closure /\ d.res = closure[t].res /\ d.rej = closure[t].rej
        /\ d.ret = closure[t].ret /\ d.i = closure[t].i
    BY <2>2, <2>3 DEF Closure
  <2>5. c = [closure EXCEPT ![t] = d]
    BY <1>2, <1>5, <2>2
  <2>. QED  BY <1>3, <2>1, <2>4, <2>5 DEF SameBut
<1>7. Places(handlers, todo, NoPromise, c)
  <2>1. Places(handlers, todo, t, closure)
    BY <1>1 DEF Inv
  <2>2. handlers \in [Promises -> Seq(Promises)] /\ todo \in Seq(Promises)
    BY <1>4 DEF TypeOK
  <2>3. \A p \in Promises : ToSet(handlers[p]) \subseteq Promises
    BY <2>2, SeqSet
  <2>4. ToSet(todo) \subseteq Promises
    BY <2>2, SeqSet
  <2>5. \A p \in Promises : \A y \in ToSet(handlers[p]) : c[y].st = "armed"
    BY <1>6, <2>1, <2>3 DEF Places, SameBut
  <2>6. \A y \in ToSet(todo) : c[y].st = "armed"
    BY <1>6, <2>1, <2>4 DEF Places, SameBut
  <2>7. NoPromise \notin ToSet(todo) /\ \A p \in Promises : NoPromise \notin ToSet(handlers[p])
    BY <2>3, <2>4, NoPromiseIsNone
  <2>. QED  BY <2>1, <2>5, <2>6, <2>7 DEF Places
<1>8. Fresh(c, calls)
  BY <1>6 DEF Inv, Fresh
<1>9. Inner(c, results, inputs, handlers, todo, current)
  <2>1. Inner(closure, results, inputs, handlers, todo, current)
    BY DEF Inv
  <2>2. ASSUME NEW p \in Promises
        PROVE  InnerOne(p, c, results, inputs, handlers, todo, current)
    <3>1. /\ c[p].res = closure[p].res /\ c[p].ret = closure[p].ret /\ c[p].i = closure[p].i
      BY <1>6
    <3>2. InnerOne(p, closure, results, inputs, handlers, todo, current)
      BY <2>1 DEF Inner
    <3>. QED  BY <3>1, <3>2 DEF InnerOne
  <2>. QED  BY <2>2 DEF Inner
<1>10. Joins(c, inputs, status, value, results, left)
  <2>1. ASSUME NEW r \in Promises, results[r] # <<>>
        PROVE  Join(r, c, inputs, status, value, results, left)
    <3>1. Join(r, closure, inputs, status, value, results, left)
      BY <2>1 DEF Inv, Joins
    <3>2. /\ r + 1 \in Promises /\ r + 2 \in Promises
          /\ value[r] = Tuple => Hit(r, 1, inputs, status, value, results) /\ Hit(r, 2, inputs, status, value, results)
      BY <3>1 DEF Join
    <3>3. c[r].st = closure[r].st
      BY <1>3, <1>6, <2>1 DEF SameBut
    <3>4. /\ c[r + 1].res = closure[r + 1].res /\ c[r + 1].ret = closure[r + 1].ret /\ c[r + 1].i = closure[r + 1].i
          /\ c[r + 2].res = closure[r + 2].res /\ c[r + 2].ret = closure[r + 2].ret /\ c[r + 2].i = closure[r + 2].i
      BY <1>6, <3>2
    <3>5. /\ Open(r, 1, c, inputs, status) <=> Open(r, 1, closure, inputs, status)
          /\ Open(r, 2, c, inputs, status) <=> Open(r, 2, closure, inputs, status)
      BY <3>4 DEF Open
    <3>. QED  BY <3>1, <3>2, <3>3, <3>4, <3>5, JoinKept
  <2>. QED  BY <2>1 DEF Joins
<1>11. Unused(c, results, inputs, status)
  <2>1. Unused(closure, results, inputs, status)
    BY UnusedNow DEF Inv
  <2>. QED  BY <1>3, <1>6, <2>1 DEF Unused, SameBut
<1>12. ClosuresKept
  <2>1. /\ results' \in [Promises -> Seq(Value)] /\ left' \in [Promises -> Nat]
        /\ todo' \in Seq(Promises) /\ running' \in Promises \cup {NoPromise}
    BY <1>2, <1>4 DEF TypeOK
  <2>. QED  BY <1>2, <1>3, <1>5, <1>6, <1>7, <1>8, <1>9, <1>10, <1>11, <2>1 DEF ClosuresKept
<1>13. Small(<<t>>) /\ ToSet(<<t>>) = {t}
  BY <1>3, SmallOnes
<1>14. Live(<<t>>)
  BY <1>3, <1>13 DEF Live, Exists
<1>15. Only(t, x) \in Values
  BY <1>3, OnlyFields
<1>16. Completes(<<t>>, Only(t, x), inputs, status, value, results')
  BY <1>2, <1>3, <1>13 DEF Completes
<1>17. loop # "stopped"
  BY <1>3
<1>. QED  BY <1>2, <1>12, <1>13, <1>14, <1>15, <1>16, <1>17, SettleInv

-----------------------------------------------------------------------------
(* Promises are made.                                                        *)

LEMMA NumberedMore ==
    ASSUME Numbered, \E k \in Nat : {p \in Promises : Exists(p)'} = 1 .. k,
           \A p \in Promises : status'[p] = "free" => status[p] = "free",
           \A p \in Promises : status'[p] = "free" /\ Blank(p) => Blank(p)'
    PROVE  Numbered'
<1>1. \A p \in Promises : ~Exists(p)' => Blank(p)'
  BY DEF Numbered, Exists
<1>. QED  BY <1>1 DEF Numbered

LEMMA HandledSame ==
    ASSUME NEW hs, NEW st, NEW st2, NEW q, Handled(hs, st, q), Same(st, st2, st),
           \A p \in Promises : st[p] = "free" => hs[p] = <<>>
    PROVE  Handled(hs, st2, q)
  BY DEF Handled, Same

LEMMA HandledMore ==
    ASSUME NEW hs, NEW st, NEW q, NEW q2, Handled(hs, st, q), \A p \in q : p \in q2
    PROVE  Handled(hs, st, q2)
  BY DEF Handled

LEMMA DispatchSame ==
    ASSUME TypeOK, Dispatch, Same(status, status', status), UNCHANGED <<loop, current>>,
           todo' # <<>> \/ running' # NoPromise => current # NoPromise
    PROVE  Dispatch'
<1>1. current # NoPromise => current \in Promises /\ Settled(current)
  BY DEF TypeOK, Dispatch
<1>2. current # NoPromise => status'[current] = status[current]
  BY <1>1 DEF Same, Settled
<1>. QED  BY <1>1, <1>2 DEF Dispatch, Settled

(* The promise n is made; no closure is.                                     *)
OneMade(n) ==
    /\ n \in Promises /\ status[n] = "free" /\ status'[n] # "free"
    /\ status' \in [Promises -> {"free", "unsettled", "resolved", "rejected"}]
    /\ value' \in [Promises -> Value]
    /\ SameBut(status, status', n) /\ SameBut(value, value', n)
    /\ \E k \in Nat : {p \in Promises : Exists(p)'} = 1 .. k

QueueMore ==
    /\ is_pending' \in [Promises -> BOOLEAN] /\ pending' \in Seq(Promises)
    /\ idle' \in BOOLEAN /\ rooted' \in BOOLEAN
    /\ Queue' /\ Watched' /\ \A p \in ToSet(pending) : p \in ToSet(pending')

LEMMA OneMadeInv ==
    ASSUME Inv, NEW n, OneMade(n), QueueMore,
           UNCHANGED <<handlers, closure, joinVars, loopVars, calls, inputs>>
    PROVE  Inv'
<1>1. UNCHANGED <<handlers, closure, results, left, loop, exited, current, todo, running, calls, inputs>>
  BY DEF joinVars, loopVars
<1>2. TypeOK /\ Numbered /\ Dispatch /\ Unused(closure, results, inputs, status)
  BY UnusedNow DEF Inv
<1>3. n \in Promises /\ status[n] = "free" /\ status'[n] # "free"
  BY DEF OneMade
<1>4. /\ Same(status, status', status) /\ Same(value, value', status) /\ Same(closure, closure, status)
      /\ Same(inputs, inputs, status) /\ Same(results, results, status) /\ Same(left, left, status)
  BY <1>3 DEF Same, SameBut, OneMade
<1>5. TypeOK'
  BY <1>1, <1>2 DEF TypeOK, OneMade, QueueMore
<1>6. Numbered'
  <2>1. \A p \in Promises : status'[p] = "free" => status[p] = "free" /\ p # n
    BY <1>3, <1>4 DEF Same
  <2>2. \A p \in Promises : p # n => value'[p] = value[p]
    BY DEF OneMade, SameBut
  <2>3. \A p \in Promises : status'[p] = "free" /\ Blank(p) => Blank(p)'
    BY <1>1, <2>1, <2>2 DEF Blank
  <2>4. \E k \in Nat : {p \in Promises : Exists(p)'} = 1 .. k
    BY DEF OneMade
  <2>. QED  BY <1>2, <2>1, <2>3, <2>4, NumberedMore
<1>7. Dispatch'
  BY <1>1, <1>2, <1>4, DispatchSame DEF Dispatch
<1>8. ASSUME NoSelfThen
      PROVE  Handled(handlers, status, ToSet(pending))' /\ (current' # NoPromise => handlers'[current'] = <<>>)
  <2>1. Handled(handlers, status, ToSet(pending)) /\ (current # NoPromise => handlers[current] = <<>>)
    BY <1>8 DEF Inv
  <2>2. \A p \in Promises : status[p] = "free" => handlers[p] = <<>>
    BY <1>2 DEF Numbered, Exists, Blank
  <2>3. Handled(handlers, status', ToSet(pending))
    BY <1>4, <2>1, <2>2, HandledSame
  <2>4. Handled(handlers, status', ToSet(pending'))
    BY <2>3, HandledMore DEF QueueMore
  <2>. QED  BY <1>1, <2>1, <2>4
<1>9. inputs \in [Promises -> Seq(Promises)] /\ Given(inputs, status)
  BY <1>2 DEF TypeOK, Inv
<1>10. Given(inputs, status')
  BY <1>4, <1>9, GivenCreated
<1>11. Joins(closure, inputs, status', value', results, left)
  <2>1. Joins(closure, inputs, status, value, results, left)
    BY DEF Inv
  <2>2. \A r \in Promises : status[r] = "free" => results[r] = <<>>
    BY <1>2 DEF Unused
  <2>3. results[n] = <<>>
    BY <1>3, <2>2
  <2>4. Made(n, closure, closure, inputs, inputs, status, status', value, value', results, results, left, left)
    BY <1>2, <1>3, <1>4, <2>2, <2>3 DEF Made
  <2>. QED  BY <1>9, <2>1, <2>4, JoinsCreated
<1>. QED  BY <1>1, <1>5, <1>6, <1>7, <1>8, <1>10, <1>11 DEF Inv, QueueMore

LEMMA NewPromiseInv ==
    ASSUME Inv, NewPromise
    PROVE  Inv'
<1>1. PICK n : n = Created + 1
  OBVIOUS
<1>2. /\ UserCode /\ Within(NewMade + 1, ThensMade, JoinsMade)
      /\ status' = [status EXCEPT ![Created + 1] = "unsettled"]
      /\ UNCHANGED <<value, is_pending, pending, idle, rooted>>
      /\ UNCHANGED <<handlers, closure, joinVars, loopVars, calls, inputs>>
      /\ UNCHANGED <<loop, exited, current>>
  BY DEF NewPromise, queueVars, loopVars
<1>3. TypeOK /\ Numbered /\ Queue /\ Watched
  BY DEF Inv
<1>4. Blanks(1)
  BY <1>2, <1>3, WithinNew
<1>5. /\ n \in Promises /\ ~Exists(n)
      /\ status' \in [Promises -> {"free", "unsettled", "resolved", "rejected"}]
      /\ status'[n] = "unsettled" /\ \A p \in Promises : p # n => status'[p] = status[p]
      /\ \E k \in Nat : {p \in Promises : Exists(p)'} = 1 .. k
  BY <1>1, <1>2, <1>3, <1>4, OneMore
<1>6. OneMade(n)
  BY <1>2, <1>3, <1>5 DEF OneMade, SameBut, Exists, TypeOK
<1>7. QueueMore
  <2>1. \A p \in Promises : Settled(p) => Settled(p)'
    BY <1>5 DEF Settled, Exists
  <2>2. ToSet(pending) \subseteq Promises
    BY <1>3, QueueSets
  <2>3. Queue' /\ Watched'
    BY <1>2, <1>3, <2>1, <2>2 DEF Queue, Watched
  <2>. QED  BY <1>2, <1>3, <2>3 DEF QueueMore, TypeOK
<1>. QED  BY <1>2, <1>6, <1>7, OneMadeInv

LEMMA JoinNoneInv ==
    ASSUME Inv, JoinNone
    PROVE  Inv'
<1>1. PICK n : n = Created + 1
  OBVIOUS
<1>2. /\ UserCode /\ MayJoin
      /\ status' = [status EXCEPT ![Created + 1] = "resolved"]
      /\ value' = [value EXCEPT ![n] = Tuple] /\ StartDispatch(<<n>>)
      /\ UNCHANGED <<handlers, closure, joinVars, loopVars, calls, inputs>>
      /\ UNCHANGED <<loop, exited, current>> /\ loop # "stopped"
  BY <1>1 DEF JoinNone, loopVars, UserCode
<1>3. TypeOK /\ Numbered /\ Queue /\ Watched
  BY DEF Inv
<1>4. Blanks(1)
  BY <1>2, <1>3, WithinNew
<1>5. /\ n \in Promises /\ ~Exists(n)
      /\ status' \in [Promises -> {"free", "unsettled", "resolved", "rejected"}]
      /\ status'[n] = "resolved" /\ \A p \in Promises : p # n => status'[p] = status[p]
      /\ \E k \in Nat : {p \in Promises : Exists(p)'} = 1 .. k
  BY <1>1, <1>2, <1>3, <1>4, OneMore
<1>6. OneMade(n)
  <2>1. value' \in [Promises -> Value] /\ SameBut(value, value', n)
    BY <1>2, <1>3, PlainValues DEF TypeOK, SameBut
  <2>. QED  BY <1>5, <2>1 DEF OneMade, SameBut, Exists
<1>7. QueueMore
  <2>1. Same(status, status', status)
    BY <1>5 DEF Same, Exists
  <2>2. Small(<<n>>) /\ ToSet(<<n>>) = {n}
    BY <1>5, SmallOnes
  <2>3. \A p \in ToSet(<<n>>) : Settled(p)'
    BY <1>5, <2>2 DEF Settled
  <2>4. /\ is_pending' \in [Promises -> BOOLEAN] /\ pending' \in Seq(Promises)
        /\ idle' \in BOOLEAN /\ rooted' \in BOOLEAN
        /\ Queue' /\ Watched'
        /\ ToSet(pending') = ToSet(pending) \cup (ToSet(<<n>>) \ {current})
    BY <1>2, <1>5, <2>1, <2>2, <2>3, AddingKeeps
  <2>. QED  BY <2>4 DEF QueueMore
<1>. QED  BY <1>2, <1>6, <1>7, OneMadeInv

-----------------------------------------------------------------------------
(* A closure is added to a promise.                                          *)

LEMMA HandledAdded ==
    ASSUME NEW hs \in Lists, NEW p \in Promises, NEW t \in Promises, NEW hs2, hs2 = Added(hs, p, t),
           NEW st, NEW q, Handled(hs, st, q), st[p] \in Final => p \in q
    PROVE  Handled(hs2, st, q)
<1>1. SameBut(hs, hs2, p)
  <2>1. Grown(hs, hs2, p, t)
    BY AddedFields
  <2>. QED  BY <2>1 DEF Grown
<1>. QED  BY <1>1 DEF SameBut, Handled, Final

(* The queue, when a closure is added to p.                                  *)
LEMMA ListenKeeps ==
    ASSUME Inv, loop # "stopped", NEW p \in Promises, StartDispatch(IF Settled(p) THEN <<p>> ELSE <<>>),
           UNCHANGED <<loop, exited, current>>,
           status' \in [Promises -> {"free", "unsettled", "resolved", "rejected"}],
           Same(status, status', status)
    PROVE  /\ QueueMore
           /\ Settled(p) /\ p # current => p \in ToSet(pending')
<1>1. CASE Settled(p)
  <2>1. Small(<<p>>) /\ ToSet(<<p>>) = {p}
    BY SmallOnes
  <2>2. Settled(p)'
    BY <1>1 DEF Settled, Same
  <2>3. \A q \in ToSet(<<p>>) : Settled(q)'
    BY <2>1, <2>2
  <2>4. StartDispatch(<<p>>)
    BY <1>1
  <2>5. /\ is_pending' \in [Promises -> BOOLEAN] /\ pending' \in Seq(Promises)
        /\ idle' \in BOOLEAN /\ rooted' \in BOOLEAN
        /\ Queue' /\ Watched'
        /\ ToSet(pending') = ToSet(pending) \cup (ToSet(<<p>>) \ {current})
    BY <2>1, <2>3, <2>4, AddingKeeps
  <2>. QED  BY <2>1, <2>5 DEF QueueMore
<1>2. CASE ~Settled(p)
  <2>1. Small(<<>>) /\ ToSet(<<>>) = {}
    BY SmallOnes
  <2>2. \A q \in ToSet(<<>>) : Settled(q)'
    BY <2>1
  <2>3. StartDispatch(<<>>)
    BY <1>2
  <2>4. /\ is_pending' \in [Promises -> BOOLEAN] /\ pending' \in Seq(Promises)
        /\ idle' \in BOOLEAN /\ rooted' \in BOOLEAN
        /\ Queue' /\ Watched'
        /\ ToSet(pending') = ToSet(pending) \cup (ToSet(<<>>) \ {current})
    BY <2>1, <2>2, <2>3, AddingKeeps
  <2>. QED  BY <1>2, <2>4 DEF QueueMore
<1>. QED  BY <1>1, <1>2

LEMMA HandlerReturnsPromiseInv ==
    ASSUME Inv, NEW q \in Promises, HandlerReturnsPromise(q)
    PROVE  Inv'
<1>1. PICK t : t = running
  OBVIOUS
<1>2. /\ t # NoPromise /\ running' = NoPromise /\ MayListen(q)
      /\ handlers' = Added(handlers, q, t)
      /\ StartDispatch(IF Settled(q) THEN <<q>> ELSE <<>>)
      /\ UNCHANGED <<status, value, closure, results, left, loop, exited, current, todo, calls, inputs>>
  BY <1>1 DEF HandlerReturnsPromise, joinVars, Added
<1>3. /\ t \in Promises /\ loop # "stopped" /\ current # NoPromise
      /\ closure[t].st = "armed" /\ closure[t].i = 0
  BY <1>1, <1>2, RunningFacts
<1>4. TypeOK /\ Numbered /\ Dispatch
  BY DEF Inv
<1>5. handlers \in Lists
  BY <1>4 DEF TypeOK, Lists
<1>6. /\ status' \in [Promises -> {"free", "unsettled", "resolved", "rejected"}]
      /\ Same(status, status', status)
  BY <1>2, <1>4 DEF TypeOK, Same
<1>7. QueueMore /\ (Settled(q) /\ q # current => q \in ToSet(pending'))
  BY <1>2, <1>3, <1>6, ListenKeeps
<1>8. PICK hs : hs = handlers'
  OBVIOUS
<1>9. hs = Added(handlers, q, t)
  BY <1>2, <1>8
<1>10. Grown(handlers, hs, q, t)
  BY <1>3, <1>5, <1>9, AddedFields
<1>11. TypeOK'
  <2>1. handlers' \in [Promises -> Seq(Promises)]
    BY <1>8, <1>10 DEF Grown, Lists
  <2>. QED  BY <1>2, <1>4, <1>7, <2>1 DEF TypeOK, QueueMore
<1>12. Exists(q)
  BY <1>2 DEF MayListen, Visible
<1>13. Numbered'
  <2>1. \A p \in Promises : p # q => handlers'[p] = handlers[p]
    BY <1>8, <1>10 DEF Grown, SameBut
  <2>2. \A p \in Promises : status[p] = "free" /\ Blank(p) => Blank(p)'
    BY <1>2, <1>12, <2>1 DEF Blank, Exists
  <2>. QED  BY <1>2, <1>4, <2>2, NumberedKept
<1>14. Dispatch'
  BY <1>2, <1>3, <1>4 DEF Dispatch, Settled
<1>15. ASSUME NoSelfThen
       PROVE  Handled(handlers, status, ToSet(pending))' /\ (current' # NoPromise => handlers'[current'] = <<>>)
  <2>1. Handled(handlers, status, ToSet(pending)) /\ handlers[current] = <<>>
    BY <1>3, <1>15 DEF Inv
  <2>2. q # current
    BY <1>2, <1>15 DEF MayListen, NoSelfThen
  <2>3. Handled(handlers, status, ToSet(pending'))
    BY <1>7, <2>1, HandledMore DEF QueueMore
  <2>4. status[q] \in Final => q \in ToSet(pending')
    BY <1>7, <2>2 DEF Settled, Final
  <2>5. Handled(hs, status, ToSet(pending'))
    BY <1>3, <1>5, <1>9, <2>3, <2>4, HandledAdded
  <2>6. current \in Promises
    BY <1>3, <1>4 DEF TypeOK
  <2>7. hs[current] = handlers[current]
    BY <1>10, <2>2, <2>6 DEF Grown, SameBut
  <2>. QED  BY <1>2, <1>8, <2>1, <2>5, <2>7
<1>16. Places(handlers', todo', running', closure')
  <2>1. Places(handlers, todo, t, closure)
    BY <1>1 DEF Inv
  <2>2. NoPromise \notin ToSet(todo) /\ \A p \in Promises : NoPromise \notin ToSet(handlers[p])
    <3>1. todo \in Seq(Promises) /\ handlers \in [Promises -> Seq(Promises)]
      BY <1>4 DEF TypeOK
    <3>2. ToSet(todo) \subseteq Promises
      BY <3>1, SeqSet
    <3>3. \A p \in Promises : ToSet(handlers[p]) \subseteq Promises
      BY <3>1, SeqSet
    <3>. QED  BY <3>2, <3>3, NoPromiseIsNone
  <2>3. Places(handlers, todo, NoPromise, closure)
    BY <2>1, <2>2 DEF Places
  <2>4. Nowhere(t, handlers, todo, NoPromise)
    BY <1>2, <2>1 DEF Places, Nowhere
  <2>5. Places(hs, todo, NoPromise, closure)
    BY <1>3, <1>5, <1>9, <2>3, <2>4, PlaceAdded
  <2>. QED  BY <1>2, <1>8, <2>5
<1>17. Inner(closure', results', inputs', handlers', todo', current')
  <2>1. Inner(closure, results, inputs, handlers, todo, current)
    BY DEF Inv
  <2>2. OldHandlers(handlers, hs, closure)
    BY <1>3, <1>5, <1>9, OldAdded
  <2>3. ASSUME NEW x \in Promises
        PROVE  InnerOne(x, closure, results, inputs, hs, todo, current)
    <3>1. InnerOne(x, closure, results, inputs, handlers, todo, current)
      BY <2>1 DEF Inner
    <3>2. closure[x].i # 0 => \A p \in Promises : x \in ToSet(hs[p]) => x \in ToSet(handlers[p])
      BY <2>2 DEF OldHandlers
    <3>. QED  BY <3>1, <3>2 DEF InnerOne
  <2>. QED  BY <1>2, <1>8, <2>3 DEF Inner
<1>. QED  BY <1>2, <1>7, <1>11, <1>13, <1>14, <1>15, <1>16, <1>17 DEF Inv, QueueMore

(* A closure for a promise that is made is nowhere yet, and the others are   *)
(* where they were.                                                          *)
LEMMA PlacesMade ==
    ASSUME Inv, NEW cl2, Same(closure, cl2, status), NEW n \in Promises, status[n] = "free"
    PROVE  Places(handlers, todo, running, cl2) /\ Nowhere(n, handlers, todo, running)
<1>1. Places(handlers, todo, running, closure) /\ Unused(closure, results, inputs, status)
  BY UnusedNow DEF Inv
<1>2. \A t \in Promises : closure[t].st = "armed" => cl2[t].st = "armed" /\ cl2[t].i = closure[t].i
  BY <1>1 DEF Unused, NoClosure, Same
<1>3. /\ handlers \in [Promises -> Seq(Promises)] /\ todo \in Seq(Promises) /\ running \in Promises \cup {NoPromise}
  BY DEF Inv, TypeOK
<1>4. Places(handlers, todo, running, cl2)
  BY <1>1, <1>2, <1>3, PlacesClosure
<1>5. closure[n].st # "armed"
  BY <1>1 DEF Unused, NoClosure
<1>. QED  BY <1>1, <1>4, <1>5, UnarmedNowhere

(* New closures have not been called.                                        *)
LEMMA FreshMade ==
    ASSUME Inv, NEW cl2, Same(closure, cl2, status),
           \A p \in Promises : status[p] = "free" => (cl2[p].res = "user" \/ cl2[p].rej = "user" => cl2[p].i = 0)
    PROVE  Fresh(cl2, calls)
<1>1. Fresh(closure, calls)
  BY DEF Inv
<1>2. \A p \in Promises : status[p] = "free" => calls[p] = 0
  BY DEF Inv, Numbered, Exists, Blank
<1>. QED  BY <1>1, <1>2 DEF Fresh, Same

LEMMA ThenInv ==
    ASSUME Inv, NEW p \in Promises, NEW res \in {"none", "user"}, NEW rej \in {"none", "user"}, Then(p, res, rej)
    PROVE  Inv'
<1>1. PICK n : n = Created + 1
  OBVIOUS
<1>2. /\ UserCode /\ MayListen(p) /\ Within(NewMade, ThensMade + 1, JoinsMade)
      /\ status' = [status EXCEPT ![Created + 1] = "unsettled"]
      /\ closure' = [closure EXCEPT ![n] = UserClosure(res, rej)]
      /\ handlers' = Added(handlers, p, n)
      /\ StartDispatch(IF Settled(p) THEN <<p>> ELSE <<>>)
      /\ UNCHANGED <<value, results, left, loop, exited, current, todo, running, calls, inputs>>
      /\ loop # "stopped"
  BY <1>1 DEF Then, joinVars, loopVars, Added, UserCode
<1>3. TypeOK /\ Numbered /\ Dispatch /\ Unused(closure, results, inputs, status)
  BY UnusedNow DEF Inv
<1>4. Blanks(1)
  BY <1>2, <1>3, WithinThen
<1>5. /\ n \in Promises /\ ~Exists(n)
      /\ status' \in [Promises -> {"free", "unsettled", "resolved", "rejected"}]
      /\ status'[n] = "unsettled" /\ \A x \in Promises : x # n => status'[x] = status[x]
      /\ \E k \in Nat : {x \in Promises : Exists(x)'} = 1 .. k
  BY <1>1, <1>2, <1>3, <1>4, OneMore
<1>6. status[n] = "free" /\ Same(status, status', status)
  BY <1>5 DEF Exists, Same
<1>7. Exists(p) /\ p # n
  BY <1>2, <1>5 DEF MayListen, Visible
<1>8. PICK c : c = closure'
  OBVIOUS
<1>9. /\ c \in [Promises -> Closure] /\ SameBut(closure, c, n) /\ c[n] = UserClosure(res, rej)
  <2>1. UserClosure(res, rej) \in Closure
    BY DEF UserClosure, Closure
  <2>. QED  BY <1>2, <1>3, <1>5, <1>8, <2>1 DEF TypeOK, SameBut
<1>10. c[n].st = "armed" /\ c[n].i = 0 /\ c[n].res \in {"none", "user"}
  BY <1>9 DEF UserClosure
<1>11. Same(closure, c, status)
  BY <1>6, <1>9 DEF Same, SameBut
<1>12. PICK hs : hs = handlers'
  OBVIOUS
<1>13. handlers \in Lists /\ hs = Added(handlers, p, n)
  BY <1>2, <1>3, <1>12 DEF TypeOK, Lists
<1>14. Grown(handlers, hs, p, n)
  BY <1>5, <1>13, AddedFields
<1>15. QueueMore /\ (Settled(p) /\ p # current => p \in ToSet(pending'))
  BY <1>2, <1>5, <1>6, ListenKeeps
<1>16. TypeOK'
  <2>1. handlers' \in [Promises -> Seq(Promises)]
    BY <1>12, <1>14 DEF Grown, Lists
  <2>. QED  BY <1>2, <1>3, <1>5, <1>8, <1>9, <1>15, <2>1 DEF TypeOK, QueueMore
<1>17. Numbered'
  <2>1. \A x \in Promises : status'[x] = "free" => status[x] = "free" /\ x # n /\ x # p
    BY <1>5, <1>6, <1>7 DEF Same, Exists
  <2>2. \A x \in Promises : x # p => handlers'[x] = handlers[x]
    BY <1>12, <1>14 DEF Grown, SameBut
  <2>3. \A x \in Promises : x # n => closure'[x] = closure[x]
    BY <1>8, <1>9 DEF SameBut
  <2>4. \A x \in Promises : status'[x] = "free" /\ Blank(x) => Blank(x)'
    BY <1>2, <2>1, <2>2, <2>3 DEF Blank
  <2>. QED  BY <1>3, <1>5, <2>1, <2>4, NumberedMore
<1>18. Dispatch'
  BY <1>2, <1>3, <1>6, DispatchSame DEF Dispatch
<1>19. ASSUME NoSelfThen
       PROVE  Handled(handlers, status, ToSet(pending))' /\ (current' # NoPromise => handlers'[current'] = <<>>)
  <2>1. Handled(handlers, status, ToSet(pending)) /\ (current # NoPromise => handlers[current] = <<>>)
    BY <1>19 DEF Inv
  <2>2. p # current
    BY <1>2, <1>19 DEF MayListen, NoSelfThen
  <2>3. Handled(handlers, status, ToSet(pending'))
    BY <1>15, <2>1, HandledMore DEF QueueMore
  <2>4. status[p] \in Final => p \in ToSet(pending')
    BY <1>15, <2>2 DEF Settled, Final
  <2>5. Handled(hs, status, ToSet(pending'))
    BY <1>5, <1>13, <2>3, <2>4, HandledAdded
  <2>6. \A x \in Promises : status[x] = "free" => hs[x] = <<>>
    <3>1. \A x \in Promises : status[x] = "free" => handlers[x] = <<>> /\ x # p
      BY <1>3, <1>7 DEF Numbered, Exists, Blank
    <3>. QED  BY <1>14, <3>1 DEF Grown, SameBut
  <2>7. Handled(hs, status', ToSet(pending'))
    BY <1>6, <2>5, <2>6, HandledSame
  <2>8. current # NoPromise => hs[current] = handlers[current]
    <3>1. current # NoPromise => current \in Promises
      BY <1>3 DEF TypeOK
    <3>. QED  BY <1>14, <2>2, <3>1 DEF Grown, SameBut
  <2>. QED  BY <1>2, <1>12, <2>1, <2>7, <2>8
<1>20. Places(handlers', todo', running', closure')
  <2>1. Places(handlers, todo, running, c) /\ Nowhere(n, handlers, todo, running)
    BY <1>5, <1>6, <1>11, PlacesMade
  <2>2. Places(hs, todo, running, c)
    BY <1>5, <1>10, <1>13, <2>1, PlaceAdded
  <2>. QED  BY <1>2, <1>8, <1>12, <2>2
<1>21. Fresh(closure', calls')
  <2>1. \A x \in Promises : status[x] = "free" => (c[x].res = "user" \/ c[x].rej = "user" => c[x].i = 0)
    BY <1>3, <1>9, <1>10 DEF Unused, NoClosure, SameBut
  <2>2. Fresh(c, calls)
    BY <1>11, <2>1, FreshMade
  <2>. QED  BY <1>2, <1>8, <2>2
<1>22. Inner(closure', results', inputs', handlers', todo', current')
  <2>1. Inner(closure, results, inputs, handlers, todo, current)
    BY DEF Inv
  <2>2. OldHandlers(handlers, hs, closure)
    <3>1. closure[n].i = 0
      BY <1>3, <1>5, <1>6 DEF Unused, NoClosure
    <3>. QED  BY <1>5, <1>13, <3>1, OldAdded
  <2>3. ASSUME NEW x \in Promises
        PROVE  InnerOne(x, c, results, inputs, hs, todo, current)
    <3>1. CASE status[x] # "free"
      <4>1. closure \in [Promises -> Closure] /\ Same(inputs, inputs, status) /\ Same(results, results, status)
        BY <1>3 DEF TypeOK, Same
      <4>. QED  BY <1>3, <1>11, <2>1, <2>2, <3>1, <4>1, InnerCreated
    <3>2. CASE status[x] = "free"
      <4>1. c[x].i = 0 /\ c[x].res \notin {"join", "any"}
        BY <1>3, <1>9, <1>10, <3>2 DEF Unused, NoClosure, SameBut
      <4>. QED  BY <4>1 DEF InnerOne
    <3>. QED  BY <3>1, <3>2
  <2>. QED  BY <1>2, <1>8, <1>12, <2>3 DEF Inner
<1>23. inputs \in [Promises -> Seq(Promises)] /\ Given(inputs, status)
  BY <1>3 DEF TypeOK, Inv
<1>24. Given(inputs, status')
  BY <1>6, <1>23, GivenCreated
<1>25. Joins(closure', inputs', status', value', results', left')
  <2>1. Joins(closure, inputs, status, value, results, left)
    BY DEF Inv
  <2>2. \A r \in Promises : status[r] = "free" => results[r] = <<>>
    BY <1>3 DEF Unused
  <2>3. results[n] = <<>>
    BY <1>5, <1>6, <2>2
  <2>4. /\ Same(value, value, status) /\ Same(inputs, inputs, status) /\ Same(results, results, status)
        /\ Same(left, left, status)
    BY DEF Same
  <2>5. Joins(c, inputs, status', value, results, left)
    <3>1. /\ n \in Promises /\ status[n] = "free" /\ Unused(closure, results, inputs, status)
          /\ Same(status, status', status)
      BY <1>3, <1>5, <1>6
    <3>2. \A r \in Promises : status[r] = "free" /\ r # n => results[r] = <<>>
      BY <2>2
    <3>3. results[n] # <<>> => Join(n, c, inputs, status', value, results, left)
      BY <2>3
    <3>4. Made(n, closure, c, inputs, inputs, status, status', value, value, results, results, left, left)
      BY <1>11, <2>4, <3>1, <3>2, <3>3 DEF Made
    <3>. QED  BY <1>23, <2>1, <3>4, JoinsCreated
  <2>. QED  BY <1>2, <1>8, <2>5
<1>. QED  BY <1>2, <1>15, <1>16, <1>17, <1>18, <1>19, <1>20, <1>21, <1>22, <1>24, <1>25 DEF Inv, QueueMore

-----------------------------------------------------------------------------
(* join_promises and any_promise: the promise r, and the closures t and u.   *)

BothMade(p, q, res, r, t, u) ==
    /\ r \in Promises /\ t \in Promises /\ u \in Promises /\ r # t /\ r # u /\ t # u
    /\ t = r + 1 /\ u = r + 2
    /\ status[r] = "free" /\ status[t] = "free" /\ status[u] = "free"
    /\ status' \in [Promises -> {"free", "unsettled", "resolved", "rejected"}]
    /\ status'[r] = "unsettled" /\ status'[t] = "unsettled" /\ status'[u] = "unsettled"
    /\ \A x \in Promises : x \notin {r, t, u} => status'[x] = status[x]
    /\ \E k \in Nat : {x \in Promises : Exists(x)'} = 1 .. k
    /\ status[p] # "free" /\ status[q] # "free"
    /\ closure' \in [Promises -> Closure]
    /\ closure'[t] = InnerClosure(res, r, 1) /\ closure'[u] = InnerClosure(res, r, 2)
    /\ \A x \in Promises : x \notin {t, u} => closure'[x] = closure[x]
    /\ inputs' \in [Promises -> Seq(Promises)] /\ inputs'[r] = <<p, q>> /\ SameBut(inputs, inputs', r)
    /\ handlers' = Added(Added(handlers, p, t), q, u)
    /\ UNCHANGED <<value, loop, exited, current, todo, running, calls>> /\ loop # "stopped"
    /\ MayListen(p) /\ MayListen(q)

LEMMA ThenBothMakes ==
    ASSUME Inv, NEW p \in Promises, NEW q \in Promises, NEW res \in {"join", "any"}, ThenBoth(p, q, res),
           NEW r, r = Created + 1, NEW t, t = Created + 2, NEW u, u = Created + 3
    PROVE  BothMade(p, q, res, r, t, u)
<1>1. /\ UserCode /\ Within(NewMade, ThensMade, JoinsMade + 1) /\ MayListen(p) /\ MayListen(q)
      /\ status' = [status EXCEPT ![Created + 1] = "unsettled", ![Created + 2] = "unsettled",
                                  ![Created + 3] = "unsettled"]
      /\ closure' = [closure EXCEPT ![t] = InnerClosure(res, r, 1), ![u] = InnerClosure(res, r, 2)]
      /\ handlers' = [[handlers EXCEPT ![p] = Append(@, t)] EXCEPT ![q] = Append(@, u)]
      /\ inputs' = [inputs EXCEPT ![r] = <<p, q>>]
      /\ UNCHANGED <<value, loopVars, calls>>
  BY DEF ThenBoth
<1>2. TypeOK /\ Numbered
  BY DEF Inv
<1>3. Blanks(3)
  BY <1>1, <1>2, WithinJoin
<1>4. /\ \A i \in 1 .. 3 : /\ Created + i \in Promises /\ ~Exists(Created + i)
                           /\ status'[Created + i] = "unsettled"
      /\ Created \in Nat
      /\ status' \in [Promises -> {"free", "unsettled", "resolved", "rejected"}]
      /\ \A x \in Promises : x \notin {Created + 1, Created + 2, Created + 3} => status'[x] = status[x]
      /\ \E k \in Nat : {x \in Promises : Exists(x)'} = 1 .. k
  BY <1>1, <1>2, <1>3, ThreeMore
<1>5. 1 \in 1 .. 3 /\ 2 \in 1 .. 3 /\ 3 \in 1 .. 3
  OBVIOUS
<1>6. /\ r \in Promises /\ t \in Promises /\ u \in Promises
      /\ status[r] = "free" /\ status[t] = "free" /\ status[u] = "free"
      /\ status'[r] = "unsettled" /\ status'[t] = "unsettled" /\ status'[u] = "unsettled"
      /\ \A x \in Promises : x \notin {r, t, u} => status'[x] = status[x]
  BY <1>4, <1>5 DEF Exists
<1>7. r # t /\ r # u /\ t # u /\ t = r + 1 /\ u = r + 2
  <2>1. Created \in Nat
    BY <1>4
  <2>. QED  BY <2>1
<1>8. /\ closure' \in [Promises -> Closure]
      /\ closure'[t] = InnerClosure(res, r, 1) /\ closure'[u] = InnerClosure(res, r, 2)
      /\ \A x \in Promises : x \notin {t, u} => closure'[x] = closure[x]
  <2>1. InnerClosure(res, r, 1) \in Closure /\ InnerClosure(res, r, 2) \in Closure
    BY <1>6 DEF InnerClosure, Closure
  <2>2. closure \in [Promises -> Closure]
    BY <1>2 DEF TypeOK
  <2>. QED  BY <1>1, <1>6, <1>7, <2>1, <2>2
<1>9. inputs' \in [Promises -> Seq(Promises)] /\ inputs'[r] = <<p, q>> /\ SameBut(inputs, inputs', r)
  <2>1. inputs \in [Promises -> Seq(Promises)]
    BY <1>2 DEF TypeOK
  <2>. QED  BY <1>1, <1>6, <2>1 DEF SameBut
<1>10. handlers' = Added(Added(handlers, p, t), q, u)
  <2>1. handlers \in [Promises -> Seq(Promises)]
    BY <1>2 DEF TypeOK
  <2>2. PICK h1 : h1 = [handlers EXCEPT ![p] = Append(handlers[p], t)]
    OBVIOUS
  <2>3. h1 = Added(handlers, p, t)
    BY <2>2 DEF Added
  <2>4. handlers' = [h1 EXCEPT ![q] = Append(h1[q], u)]
    BY <1>1, <2>1, <2>2
  <2>. QED  BY <2>3, <2>4 DEF Added
<1>11. status[p] # "free" /\ status[q] # "free"
  BY <1>1 DEF MayListen, Visible, Exists
<1>12. UNCHANGED <<value, loop, exited, current, todo, running, calls>> /\ loop # "stopped"
  BY <1>1 DEF loopVars, UserCode
<1>. QED  BY <1>1, <1>4, <1>6, <1>7, <1>8, <1>9, <1>10, <1>11, <1>12 DEF BothMade

LEMMA BothSame ==
    ASSUME NEW p, NEW q, NEW res, NEW r, NEW t, NEW u, BothMade(p, q, res, r, t, u)
    PROVE  Same(status, status', status) /\ Same(closure, closure', status) /\ Same(inputs, inputs', status)
  BY DEF BothMade, Same, SameBut

LEMMA BothQueue ==
    ASSUME Inv, NEW p \in Promises, NEW q \in Promises, NEW res, NEW r, NEW t, NEW u,
           BothMade(p, q, res, r, t, u),
           StartDispatch(Kept(IF p = q THEN <<p>> ELSE <<p, q>>, AllSettled))
    PROVE  /\ QueueMore
           /\ Settled(p) /\ p # current => p \in ToSet(pending')
           /\ Settled(q) /\ q # current => q \in ToSet(pending')
<1>1. PICK both : both = IF p = q THEN <<p>> ELSE <<p, q>>
  OBVIOUS
<1>2. Small(both) /\ ToSet(both) = {p, q}
  <2>1. CASE p = q
    <3>1. both = <<p>> /\ {p, q} = {p}
      BY <1>1, <2>1
    <3>2. Small(<<p>>) /\ ToSet(<<p>>) = {p}
      BY SmallOnes
    <3>. QED  BY <3>1, <3>2
  <2>2. CASE p # q
    <3>1. both = <<p, q>>
      BY <1>1, <2>2
    <3>2. Small(<<p, q>>) /\ ToSet(<<p, q>>) = {p, q}
      BY <2>2, SmallOnes
    <3>. QED  BY <3>1, <3>2
  <2>. QED  BY <2>1, <2>2
<1>3. PICK ps : ps = Kept(both, AllSettled)
  OBVIOUS
<1>4. Small(ps) /\ ToSet(ps) = ToSet(both) \cap AllSettled
  BY <1>2, <1>3, KeptSet
<1>5. StartDispatch(ps)
  BY <1>1, <1>3
<1>6. /\ UNCHANGED <<loop, exited, current>> /\ loop # "stopped"
      /\ status' \in [Promises -> {"free", "unsettled", "resolved", "rejected"}]
  BY DEF BothMade
<1>7. Same(status, status', status)
  BY BothSame
<1>8. \A x \in ToSet(ps) : Settled(x)'
  <2>1. \A x \in AllSettled : x \in Promises /\ Settled(x)
    BY DEF AllSettled
  <2>2. \A x \in AllSettled : Settled(x)'
    BY <1>7, <2>1 DEF Same, Settled
  <2>. QED  BY <1>4, <2>2
<1>9. /\ is_pending' \in [Promises -> BOOLEAN] /\ pending' \in Seq(Promises)
      /\ idle' \in BOOLEAN /\ rooted' \in BOOLEAN
      /\ Queue' /\ Watched'
      /\ ToSet(pending') = ToSet(pending) \cup (ToSet(ps) \ {current})
  BY <1>4, <1>5, <1>6, <1>7, <1>8, AddingKeeps
<1>10. QueueMore
  BY <1>9 DEF QueueMore
<1>11. \A x \in {p, q} : Settled(x) /\ x # current => x \in ToSet(pending')
  <2>1. \A x \in {p, q} : Settled(x) => x \in ToSet(ps)
    BY <1>2, <1>4 DEF AllSettled
  <2>. QED  BY <1>9, <2>1
<1>. QED  BY <1>10, <1>11

(* The closures t and u are with p and q.                                    *)
BothAdded(hs, p, q, t, u) ==
    /\ hs \in [Promises -> Seq(Promises)]
    /\ \A x \in Promises :
         /\ x \notin {p, q} => hs[x] = handlers[x]
         /\ \A y \in ToSet(hs[x]) : y \in ToSet(handlers[x]) \/ (y = t /\ x = p) \/ (y = u /\ x = q)

LEMMA BothHandlers ==
    ASSUME Inv, NEW p \in Promises, NEW q \in Promises, NEW res, NEW r, NEW t, NEW u,
           BothMade(p, q, res, r, t, u)
    PROVE  BothAdded(handlers', p, q, t, u)
<1>1. handlers \in Lists /\ t \in Promises /\ u \in Promises
  BY DEF Inv, TypeOK, Lists, BothMade
<1>2. PICK h1 : h1 = Added(handlers, p, t)
  OBVIOUS
<1>3. Grown(handlers, h1, p, t)
  BY <1>1, <1>2, AddedFields
<1>4. h1 \in Lists
  BY <1>3 DEF Grown
<1>5. PICK h2 : h2 = Added(h1, q, u)
  OBVIOUS
<1>6. Grown(h1, h2, q, u)
  BY <1>1, <1>4, <1>5, AddedFields
<1>7. h2 = handlers'
  BY <1>2, <1>5 DEF BothMade
<1>8. h2 \in [Promises -> Seq(Promises)]
  BY <1>6 DEF Grown, Lists
<1>9. \A x \in Promises : x \notin {p, q} => h2[x] = handlers[x]
  BY <1>3, <1>6 DEF Grown, SameBut
<1>10. ASSUME NEW x \in Promises, NEW y \in ToSet(h2[x])
       PROVE  y \in ToSet(handlers[x]) \/ (y = t /\ x = p) \/ (y = u /\ x = q)
  <2>1. y \in ToSet(h1[x]) \/ (y = u /\ x = q)
    BY <1>6, <1>10 DEF Grown, SameBut
  <2>2. y \in ToSet(h1[x]) => y \in ToSet(handlers[x]) \/ (y = t /\ x = p)
    BY <1>3 DEF Grown, SameBut
  <2>. QED  BY <2>1, <2>2
<1>. QED  BY <1>7, <1>8, <1>9, <1>10 DEF BothAdded

LEMMA BothPlaces ==
    ASSUME Inv, NEW p \in Promises, NEW q \in Promises, NEW res, NEW r, NEW t, NEW u,
           BothMade(p, q, res, r, t, u)
    PROVE  Places(handlers', todo', running', closure')
<1>1. handlers \in Lists /\ t \in Promises /\ u \in Promises /\ t # u /\ status[t] = "free" /\ status[u] = "free"
  BY DEF Inv, TypeOK, Lists, BothMade
<1>2. PICK c : c = closure'
  OBVIOUS
<1>3. Same(closure, c, status)
  BY <1>2, BothSame
<1>4. c[t].st = "armed" /\ c[u].st = "armed"
  BY <1>2 DEF BothMade, InnerClosure
<1>5. Places(handlers, todo, running, c) /\ Nowhere(t, handlers, todo, running)
  BY <1>1, <1>3, PlacesMade
<1>6. Nowhere(u, handlers, todo, running)
  BY <1>1, <1>3, PlacesMade
<1>7. PICK h1 : h1 = Added(handlers, p, t)
  OBVIOUS
<1>8. Places(h1, todo, running, c)
  BY <1>1, <1>4, <1>5, <1>7, PlaceAdded
<1>9. Nowhere(u, h1, todo, running)
  BY <1>1, <1>6, <1>7, NowhereAdded
<1>10. h1 \in Lists
  <2>1. Grown(handlers, h1, p, t)
    BY <1>1, <1>7, AddedFields
  <2>. QED  BY <2>1 DEF Grown
<1>11. PICK h2 : h2 = Added(h1, q, u)
  OBVIOUS
<1>12. Places(h2, todo, running, c)
  BY <1>1, <1>4, <1>8, <1>9, <1>10, <1>11, PlaceAdded
<1>13. h2 = handlers' /\ todo' = todo /\ running' = running
  BY <1>7, <1>11 DEF BothMade
<1>. QED  BY <1>2, <1>12, <1>13

LEMMA BothHandled ==
    ASSUME Inv, NoSelfThen, NEW p \in Promises, NEW q \in Promises, NEW res, NEW r, NEW t, NEW u,
           BothMade(p, q, res, r, t, u), QueueMore,
           Settled(p) /\ p # current => p \in ToSet(pending'),
           Settled(q) /\ q # current => q \in ToSet(pending')
    PROVE  Handled(handlers', status', ToSet(pending')) /\ (current' # NoPromise => handlers'[current'] = <<>>)
<1>1. Handled(handlers, status, ToSet(pending)) /\ (current # NoPromise => handlers[current] = <<>>)
  BY DEF Inv
<1>2. p # current /\ q # current /\ current' = current
  BY DEF BothMade, MayListen, NoSelfThen
<1>3. BothAdded(handlers', p, q, t, u)
  BY BothHandlers
<1>4. \A x \in Promises : x \notin {p, q} => handlers'[x] = handlers[x]
  BY <1>3 DEF BothAdded
<1>5. current # NoPromise => handlers'[current] = handlers[current]
  <2>1. current # NoPromise => current \in Promises
    BY DEF Inv, TypeOK
  <2>. QED  BY <1>2, <1>4, <2>1
<1>6. ASSUME NEW x \in Promises, status'[x] \in {"resolved", "rejected"}, handlers'[x] # <<>>
      PROVE  x \in ToSet(pending')
  <2>1. status'[x] = status[x]
    BY <1>6 DEF BothMade
  <2>2. CASE x \in {p, q}
    BY <1>2, <1>6, <2>1, <2>2 DEF Settled
  <2>3. CASE x \notin {p, q}
    <3>1. x \in ToSet(pending)
      BY <1>1, <1>4, <1>6, <2>1, <2>3 DEF Handled
    <3>. QED  BY <3>1 DEF QueueMore
  <2>. QED  BY <2>2, <2>3
<1>. QED  BY <1>1, <1>2, <1>5, <1>6 DEF Handled

LEMMA BothInner ==
    ASSUME Inv, NEW p \in Promises, NEW q \in Promises, NEW res, NEW r, NEW t, NEW u,
           BothMade(p, q, res, r, t, u), NEW rs2, Same(results, rs2, status),
           res = "join" => rs2[r] # <<>>, res = "any" => rs2[r] = <<>>
    PROVE  Inner(closure', rs2, inputs', handlers', todo', current')
<1>1. PICK c : c = closure'
  OBVIOUS
<1>2. PICK hs : hs = handlers'
  OBVIOUS
<1>3. PICK in : in = inputs'
  OBVIOUS
<1>4. /\ r \in Promises /\ t \in Promises /\ u \in Promises /\ t # u /\ r # t /\ r # u
      /\ status[r] = "free" /\ status[t] = "free" /\ status[u] = "free" /\ t = r + 1 /\ u = r + 2
      /\ c[t] = InnerClosure(res, r, 1) /\ c[u] = InnerClosure(res, r, 2)
      /\ \A x \in Promises : x \notin {t, u} => c[x] = closure[x]
      /\ in[r] = <<p, q>> /\ todo' = todo /\ current' = current
  BY <1>1, <1>3 DEF BothMade
<1>5. /\ c[t].ret = r /\ c[t].i = 1 /\ c[t].res = res /\ c[u].ret = r /\ c[u].i = 2 /\ c[u].res = res
  BY <1>4 DEF InnerClosure
<1>6. Same(closure, c, status) /\ Same(inputs, in, status)
  BY <1>1, <1>3, BothSame
<1>7. Unused(closure, results, inputs, status) /\ closure \in [Promises -> Closure]
  BY UnusedNow DEF Inv, TypeOK
<1>8. Inner(closure, results, inputs, handlers, todo, current)
  BY DEF Inv
<1>9. BothAdded(hs, p, q, t, u)
  BY <1>2, BothHandlers
<1>10. closure[t].i = 0 /\ closure[u].i = 0
  BY <1>4, <1>7 DEF Unused, NoClosure
<1>11. OldHandlers(handlers, hs, closure)
  BY <1>9, <1>10 DEF BothAdded, OldHandlers
<1>12. Nowhere(t, handlers, todo, running) /\ Nowhere(u, handlers, todo, running)
  BY <1>4, <1>6, PlacesMade
<1>13. \A x \in Promises : /\ t \in ToSet(hs[x]) => x = p
                           /\ u \in ToSet(hs[x]) => x = q
  BY <1>4, <1>9, <1>12 DEF BothAdded, Nowhere
<1>14. Pair(r, in) /\ in[r][1] = p /\ in[r][2] = q
  BY <1>4 DEF Pair
<1>15. InnerOne(t, c, rs2, in, hs, todo, current)
  BY <1>4, <1>5, <1>12, <1>13, <1>14 DEF InnerOne, Nowhere
<1>16. InnerOne(u, c, rs2, in, hs, todo, current)
  BY <1>4, <1>5, <1>12, <1>13, <1>14 DEF InnerOne, Nowhere
<1>17. ASSUME NEW x \in Promises
       PROVE  InnerOne(x, c, rs2, in, hs, todo, current)
  <2>1. CASE status[x] # "free"
    BY <1>6, <1>7, <1>8, <1>11, <2>1, InnerCreated
  <2>2. CASE status[x] = "free" /\ x \notin {t, u}
    <3>1. c[x].i = 0 /\ c[x].res = "none"
      BY <1>4, <1>7, <2>2 DEF Unused, NoClosure
    <3>. QED  BY <3>1 DEF InnerOne
  <2>. QED  BY <1>15, <1>16, <2>1, <2>2
<1>18. Inner(c, rs2, in, hs, todo, current)
  BY <1>17 DEF Inner
<1>. QED  BY <1>1, <1>2, <1>3, <1>4, <1>18

LEMMA BothGiven ==
    ASSUME Inv, NEW p \in Promises, NEW q \in Promises, NEW res, NEW r, NEW t, NEW u,
           BothMade(p, q, res, r, t, u)
    PROVE  Given(inputs', status')
<1>1. PICK st2 : st2 = status'
  OBVIOUS
<1>2. PICK in : in = inputs'
  OBVIOUS
<1>3. /\ r \in Promises /\ in[r] = <<p, q>> /\ SameBut(inputs, in, r)
      /\ status[p] # "free" /\ status[q] # "free"
  BY <1>2 DEF BothMade
<1>4. Same(status, st2, status)
  BY <1>1, BothSame
<1>5. inputs \in [Promises -> Seq(Promises)] /\ Given(inputs, status)
  BY DEF Inv, TypeOK
<1>6. Given(inputs, st2)
  BY <1>4, <1>5, GivenCreated
<1>7. ToSet(in[r]) = {p, q}
  BY <1>3 DEF ToSet
<1>8. st2[p] # "free" /\ st2[q] # "free"
  BY <1>3, <1>4 DEF Same
<1>9. Given(in, st2)
  BY <1>3, <1>6, <1>7, <1>8 DEF Given, SameBut
<1>. QED  BY <1>1, <1>2, <1>9

LEMMA BothJoins ==
    ASSUME Inv, NEW p \in Promises, NEW q \in Promises, NEW res, NEW r, NEW t, NEW u,
           BothMade(p, q, res, r, t, u), NEW rs2, NEW le2, SameBut(results, rs2, r), SameBut(left, le2, r),
           rs2[r] # <<>> => res = "join" /\ Len(rs2[r]) = 2 /\ le2[r] = 2
    PROVE  Joins(closure', inputs', status', value', rs2, le2)
<1>1. PICK c : c = closure'
  OBVIOUS
<1>2. PICK in : in = inputs'
  OBVIOUS
<1>3. PICK st2 : st2 = status'
  OBVIOUS
<1>4. /\ r \in Promises /\ t \in Promises /\ u \in Promises /\ t # u /\ r # t /\ r # u
      /\ status[r] = "free" /\ t = r + 1 /\ u = r + 2
      /\ c[t] = InnerClosure(res, r, 1) /\ c[u] = InnerClosure(res, r, 2)
      /\ \A x \in Promises : x \notin {t, u} => c[x] = closure[x]
      /\ in[r] = <<p, q>> /\ value' = value
  BY <1>1, <1>2 DEF BothMade
<1>5. Same(closure, c, status) /\ Same(inputs, in, status) /\ Same(status, st2, status)
  BY <1>1, <1>2, <1>3, BothSame
<1>6. Unused(closure, results, inputs, status)
  BY UnusedNow DEF Inv
<1>7. ASSUME rs2[r] # <<>>
      PROVE  Join(r, c, in, st2, value, rs2, le2)
  <2>1. /\ c[r + 1].ret = r /\ c[r + 1].i = 1 /\ c[r + 1].res = "join"
        /\ c[r + 2].ret = r /\ c[r + 2].i = 2 /\ c[r + 2].res = "join"
        /\ r + 1 \in Promises /\ r + 2 \in Promises
    BY <1>4, <1>7 DEF InnerClosure
  <2>2. c[r].st = "none"
    BY <1>4, <1>6 DEF Unused, NoClosure
  <2>3. Open(r, 1, c, in, st2) /\ Open(r, 2, c, in, st2)
    BY <2>1 DEF Open
  <2>4. One(Open(r, 1, c, in, st2)) = 1 /\ One(Open(r, 2, c, in, st2)) = 1
    BY <2>3 DEF One
  <2>5. le2[r] = One(Open(r, 1, c, in, st2)) + One(Open(r, 2, c, in, st2))
    BY <1>7, <2>4
  <2>6. value[r] # Tuple
    <3>1. value[r] = NoVal
      BY <1>4 DEF Inv, Numbered, Exists, Blank
    <3>. QED  BY <3>1, PlainValues
  <2>7. Pair(r, in) /\ Len(rs2[r]) = 2
    BY <1>4, <1>7 DEF Pair
  <2>. QED  BY <2>1, <2>2, <2>3, <2>5, <2>6, <2>7 DEF Join
<1>8. \A x \in Promises : status[x] = "free" /\ x # r => rs2[x] = <<>>
  BY <1>6 DEF Unused, SameBut
<1>9. Same(results, rs2, status) /\ Same(left, le2, status) /\ Same(value, value, status)
  BY <1>4 DEF Same, SameBut
<1>10. Made(r, closure, c, inputs, in, status, st2, value, value, results, rs2, left, le2)
  BY <1>4, <1>5, <1>6, <1>7, <1>8, <1>9 DEF Made
<1>11. /\ Joins(closure, inputs, status, value, results, left) /\ Given(inputs, status)
       /\ inputs \in [Promises -> Seq(Promises)]
  BY DEF Inv, TypeOK
<1>12. Joins(c, in, st2, value, rs2, le2)
  BY <1>10, <1>11, JoinsCreated
<1>. QED  BY <1>1, <1>2, <1>3, <1>4, <1>12

LEMMA BothInv ==
    ASSUME Inv, NEW p \in Promises, NEW q \in Promises, NEW res \in {"join", "any"}, NEW r, NEW t, NEW u,
           BothMade(p, q, res, r, t, u),
           StartDispatch(Kept(IF p = q THEN <<p>> ELSE <<p, q>>, AllSettled)),
           results' \in [Promises -> Seq(Value)], left' \in [Promises -> Nat],
           SameBut(results, results', r), SameBut(left, left', r),
           res = "join" => results'[r] # <<>> /\ Len(results'[r]) = 2 /\ left'[r] = 2,
           res = "any" => results'[r] = <<>>
    PROVE  Inv'
<1>1. TypeOK /\ Numbered /\ Dispatch /\ Unused(closure, results, inputs, status)
  BY UnusedNow DEF Inv
<1>2. /\ QueueMore
      /\ Settled(p) /\ p # current => p \in ToSet(pending')
      /\ Settled(q) /\ q # current => q \in ToSet(pending')
  BY BothQueue
<1>3. BothAdded(handlers', p, q, t, u)
  BY BothHandlers
<1>4. UNCHANGED <<value, loop, exited, current, todo, running, calls>>
  BY DEF BothMade
<1>5. TypeOK'
  BY <1>1, <1>2, <1>3, <1>4 DEF TypeOK, QueueMore, BothMade, BothAdded
<1>6. Same(status, status', status) /\ Same(closure, closure', status)
  BY BothSame
<1>7. Numbered'
  <2>1. \A x \in Promises : status'[x] = "free" => status[x] = "free" /\ x \notin {r, t, u, p, q}
    BY <1>6 DEF BothMade, Same
  <2>2. \A x \in Promises : x \notin {r, t, u, p, q} =>
           /\ handlers'[x] = handlers[x] /\ closure'[x] = closure[x]
           /\ results'[x] = results[x] /\ inputs'[x] = inputs[x]
    BY <1>3 DEF BothAdded, BothMade, SameBut
  <2>3. \A x \in Promises : status'[x] = "free" /\ Blank(x) => Blank(x)'
    BY <1>4, <2>1, <2>2 DEF Blank
  <2>4. \E k \in Nat : {x \in Promises : Exists(x)'} = 1 .. k
    BY DEF BothMade
  <2>. QED  BY <1>1, <2>1, <2>3, <2>4, NumberedMore
<1>8. Dispatch'
  BY <1>1, <1>4, <1>6, DispatchSame DEF Dispatch
<1>9. NoSelfThen => Handled(handlers', status', ToSet(pending')) /\ (current' # NoPromise => handlers'[current'] = <<>>)
  BY <1>2, BothHandled
<1>10. Places(handlers', todo', running', closure')
  BY BothPlaces
<1>11. Fresh(closure', calls')
  <2>1. \A x \in Promises : status[x] = "free" =>
           (closure'[x].res = "user" \/ closure'[x].rej = "user" => closure'[x].i = 0)
    <3>1. /\ closure'[t] = InnerClosure(res, r, 1) /\ closure'[u] = InnerClosure(res, r, 2)
          /\ \A x \in Promises : x \notin {t, u} => closure'[x] = closure[x]
      BY DEF BothMade
    <3>2. /\ closure'[t].res # "user" /\ closure'[t].rej # "user"
          /\ closure'[u].res # "user" /\ closure'[u].rej # "user"
      BY <3>1 DEF InnerClosure
    <3>3. ASSUME NEW x \in Promises, status[x] = "free", x \notin {t, u}
          PROVE  closure'[x].i = 0
      <4>1. closure'[x] = closure[x]
        BY <3>1, <3>3
      <4>2. closure[x] = NoClosure
        BY <1>1, <3>3 DEF Unused
      <4>3. NoClosure.i = 0
        BY DEF NoClosure
      <4>. QED  BY <4>1, <4>2, <4>3
    <3>. QED  BY <3>2, <3>3
  <2>2. Fresh(closure', calls)
    BY <1>6, <2>1, FreshMade
  <2>. QED  BY <1>4, <2>2
<1>12. Inner(closure', results', inputs', handlers', todo', current')
  <2>1. Same(results, results', status)
    BY DEF Same, SameBut, BothMade
  <2>. QED  BY <2>1, BothInner
<1>13. Given(inputs', status')
  BY BothGiven
<1>14. Joins(closure', inputs', status', value', results', left')
  BY BothJoins
<1>. QED  BY <1>2, <1>5, <1>7, <1>8, <1>9, <1>10, <1>11, <1>12, <1>13, <1>14 DEF Inv, QueueMore

LEMMA JoinPromisesInv ==
    ASSUME Inv, NEW p \in Promises, NEW q \in Promises, JoinPromises(p, q)
    PROVE  Inv'
<1>1. ThenBoth(p, q, "join") /\ JoinOf(Created + 1, 2)
  BY DEF JoinPromises
<1>2. PICK r : r = Created + 1
  OBVIOUS
<1>3. PICK t : t = Created + 2
  OBVIOUS
<1>4. PICK u : u = Created + 3
  OBVIOUS
<1>5. BothMade(p, q, "join", r, t, u)
  BY <1>1, <1>2, <1>3, <1>4, ThenBothMakes
<1>6. StartDispatch(Kept(IF p = q THEN <<p>> ELSE <<p, q>>, AllSettled))
  BY <1>1 DEF ThenBoth
<1>7. r \in Promises
  BY <1>5 DEF BothMade
<1>8. results \in [Promises -> Seq(Value)] /\ left \in [Promises -> Nat]
  BY DEF Inv, TypeOK
<1>9. PICK two : two = <<NoVal, NoVal>>
  OBVIOUS
<1>10. results' = [results EXCEPT ![r] = two] /\ left' = [left EXCEPT ![r] = 2]
  BY <1>1, <1>2, <1>9 DEF JoinOf
<1>11. two \in Seq(Value) /\ Len(two) = 2 /\ two # <<>>
  BY <1>9, PlainValues
<1>12. /\ results' \in [Promises -> Seq(Value)] /\ left' \in [Promises -> Nat]
       /\ SameBut(results, results', r) /\ SameBut(left, left', r) /\ results'[r] = two /\ left'[r] = 2
  BY <1>7, <1>8, <1>10, <1>11 DEF SameBut
<1>. QED  BY <1>5, <1>6, <1>11, <1>12, BothInv

LEMMA AnyPromiseInv ==
    ASSUME Inv, NEW p \in Promises, NEW q \in Promises, AnyPromise(p, q)
    PROVE  Inv'
<1>1. ThenBoth(p, q, "any") /\ UNCHANGED <<results, left>>
  BY DEF AnyPromise, joinVars
<1>2. PICK r : r = Created + 1
  OBVIOUS
<1>3. PICK t : t = Created + 2
  OBVIOUS
<1>4. PICK u : u = Created + 3
  OBVIOUS
<1>5. BothMade(p, q, "any", r, t, u)
  BY <1>1, <1>2, <1>3, <1>4, ThenBothMakes
<1>6. StartDispatch(Kept(IF p = q THEN <<p>> ELSE <<p, q>>, AllSettled))
  BY <1>1 DEF ThenBoth
<1>7. r \in Promises /\ status[r] = "free"
  BY <1>5 DEF BothMade
<1>8. /\ results' \in [Promises -> Seq(Value)] /\ left' \in [Promises -> Nat]
      /\ SameBut(results, results', r) /\ SameBut(left, left', r)
  BY <1>1 DEF Inv, TypeOK, SameBut
<1>9. results'[r] = <<>>
  <2>1. Unused(closure, results, inputs, status)
    BY UnusedNow DEF Inv
  <2>. QED  BY <1>1, <1>7, <2>1 DEF Unused
<1>. QED  BY <1>5, <1>6, <1>8, <1>9, BothInv

-----------------------------------------------------------------------------
(* The theorems.                                                             *)

LEMMA InitInv ==
    ASSUME Init
    PROVE  Inv
<1>1. ToSet(<<>>) = {} /\ Distinct(<<>>)
  BY SmallOnes DEF Small
<1>2. TypeOK
  <2>1. NoClosure \in Closure
    BY DEF NoClosure, Closure
  <2>2. NoVal \in Value
    BY PlainValues
  <2>3. closure \in [Promises -> Closure] /\ value \in [Promises -> Value]
    BY <2>1, <2>2 DEF Init
  <2>4. /\ handlers \in [Promises -> Seq(Promises)] /\ inputs \in [Promises -> Seq(Promises)]
        /\ pending \in Seq(Promises) /\ todo \in Seq(Promises)
    BY DEF Init
  <2>5. results \in [Promises -> Seq(Value)]
    BY DEF Init
  <2>6. /\ status \in [Promises -> {"free", "unsettled", "resolved", "rejected"}]
        /\ is_pending \in [Promises -> BOOLEAN]
    BY DEF Init
  <2>7. left \in [Promises -> Nat] /\ calls \in [Promises -> Nat]
    BY DEF Init
  <2>8. /\ idle \in BOOLEAN /\ rooted \in BOOLEAN /\ exited \in BOOLEAN
        /\ loop \in {"wait", "idle", "stopped"}
        /\ current \in Promises \cup {NoPromise} /\ running \in Promises \cup {NoPromise}
    BY DEF Init
  <2>. QED  BY <2>3, <2>4, <2>5, <2>6, <2>7, <2>8 DEF TypeOK
<1>3. Numbered
  <2>1. {p \in Promises : Exists(p)} = 1 .. 0
    BY DEF Init, Exists
  <2>2. \A p \in Promises : Blank(p)
    BY DEF Init, Blank
  <2>. QED  BY <2>1, <2>2 DEF Numbered
<1>4. Queue
  BY <1>1, NoPromiseIsNone DEF Init, Queue
<1>5. Dispatch /\ Watched
  BY DEF Init, Dispatch, Watched
<1>6. Handled(handlers, status, ToSet(pending)) /\ (current # NoPromise => handlers[current] = <<>>)
  BY DEF Init, Handled
<1>7. Places(handlers, todo, running, closure)
  BY <1>1 DEF Init, Places
<1>8. Fresh(closure, calls)
  BY DEF Init, Fresh, NoClosure
<1>9. Inner(closure, results, inputs, handlers, todo, current)
  <2>1. \A t \in Promises : closure[t].i = 0 /\ closure[t].res = "none"
    BY DEF Init, NoClosure
  <2>. QED  BY <2>1 DEF Inner, InnerOne
<1>10. Given(inputs, status)
  BY <1>1 DEF Init, Given
<1>11. Joins(closure, inputs, status, value, results, left)
  BY DEF Init, Joins
<1>. QED  BY <1>2, <1>3, <1>4, <1>5, <1>6, <1>7, <1>8, <1>9, <1>10, <1>11 DEF Inv

LEMMA StepInv ==
    ASSUME Inv, [Next]_vars
    PROVE  Inv'
<1>1. CASE UNCHANGED vars
  BY <1>1, StutterInv
<1>2. CASE NewPromise
  BY <1>2, NewPromiseInv
<1>3. CASE JoinNone
  BY <1>3, JoinNoneInv
<1>4. CASE Exit
  BY <1>4, ExitInv
<1>5. ASSUME NEW p \in Promises, Reject(p)
      PROVE  Inv'
  BY <1>5, RejectInv
<1>6. ASSUME NEW p \in Promises, NEW v \in Val, Resolve(p, v)
      PROVE  Inv'
  BY <1>6, ResolveInv
<1>7. ASSUME NEW p \in Promises, NEW res \in {"none", "user"}, NEW rej \in {"none", "user"}, Then(p, res, rej)
      PROVE  Inv'
  BY <1>7, ThenInv
<1>8. ASSUME NEW p \in Promises, NEW q \in Promises, JoinPromises(p, q)
      PROVE  Inv'
  BY <1>8, JoinPromisesInv
<1>9. ASSUME NEW p \in Promises, NEW q \in Promises, AnyPromise(p, q)
      PROVE  Inv'
  BY <1>9, AnyPromiseInv
<1>10. CASE User
  BY <1>2, <1>3, <1>4, <1>5, <1>6, <1>7, <1>8, <1>9, <1>10 DEF User
<1>11. CASE IdleBegins
  BY <1>11, IdleBeginsInv
<1>12. CASE PopPending
  BY <1>12, PopPendingInv
<1>13. CASE PassOn
  BY <1>13, PassOnInv
<1>14. CASE CallHandler
  BY <1>14, CallHandlerInv
<1>15. CASE HandlerFails
  BY <1>15, HandlerFailsInv
<1>16. CASE JoinHandler
  BY <1>16, JoinHandlerInv
<1>17. CASE AnyHandler
  BY <1>17, AnyHandlerInv
<1>18. CASE DispatchEnds
  BY <1>18, DispatchEndsInv
<1>19. CASE IdleEnds
  BY <1>19, IdleEndsInv
<1>20. ASSUME NEW v \in Val, HandlerReturns("resolved", v)
       PROVE  Inv'
  <2>1. v \in Value /\ v # Tuple /\ "resolved" \in Final
    BY PlainValues DEF Final
  <2>. QED  BY <1>20, <2>1, HandlerReturnsInv
<1>21. CASE HandlerReturns("rejected", NoVal)
  <2>1. NoVal \in Value /\ NoVal # Tuple /\ "rejected" \in Final
    BY PlainValues DEF Final
  <2>. QED  BY <1>21, <2>1, HandlerReturnsInv
<1>22. ASSUME NEW q \in Promises, HandlerReturnsPromise(q)
       PROVE  Inv'
  BY <1>22, HandlerReturnsPromiseInv
<1>23. CASE System
  BY <1>11, <1>12, <1>13, <1>14, <1>15, <1>16, <1>17, <1>18, <1>19, <1>20, <1>21, <1>22, <1>23 DEF System
<1>24. CASE LoopEnds
  BY <1>24, LoopEndsInv
<1>. QED  BY <1>1, <1>10, <1>23, <1>24 DEF Next

(* The queue, the closures and the joins are consistent in every reachable   *)
(* state: what di_promise_start_dispatch, di_promise_handler_closure and     *)
(* di_promise_join_handler rely on.                                          *)
THEOREM Invariant == Spec => []Inv
<1>1. Init => Inv
  BY InitInv
<1>2. Inv /\ [Next]_vars => Inv'
  BY StepInv
<1>. QED  BY <1>1, <1>2, PTL DEF Spec

(* The variables keep their types.                                           *)
THEOREM TypesKept == Spec => []TypeOK
<1>1. Inv => TypeOK
  BY DEF Inv
<1>. QED  BY <1>1, Invariant, PTL

(* No handler of a settled promise is forgotten: its promise is in the       *)
(* queue, and the idle watcher and the root wait for the queue, unless a     *)
(* handler may be registered on the promise that is being dispatched         *)
(* (di_promise_dispatch clears is_pending after the handlers have run).      *)
THEOREM HandlersAreQueued ==
    ASSUME NoSelfThen
    PROVE  Spec => []HandlersQueued
<1>1. Inv => HandlersQueued
  <2>. SUFFICES ASSUME Inv  PROVE HandlersQueued
    OBVIOUS
  <2>1. Handled(handlers, status, ToSet(pending))
    BY DEF Inv
  <2>2. \A p \in Promises : Settled(p) /\ handlers[p] # <<>> => p \in ToSet(pending)
    BY <2>1 DEF Handled, Settled
  <2>3. Watched
    BY DEF Inv
  <2>. QED  BY <2>2, <2>3 DEF HandlersQueued, Watched
<1>. QED  BY <1>1, Invariant, PTL

(* A user handler is called at most once, and a closure waits in one place,  *)
(* with its promise still to settle, so that the assertion of                *)
(* di_promise_handler_closure holds.                                         *)
THEOREM CalledAtMostOnce == Spec => []CalledOnce
<1>1. ASSUME Inv, NEW t \in Promises
      PROVE  /\ calls[t] <= 1
             /\ Cardinality(Waiting(t)) + (IF t \in ToSet(todo) THEN 1 ELSE 0) <= 1
             /\ Waiting(t) # {} \/ t \in ToSet(todo) => closure[t].st = "armed"
  <2>1. Places(handlers, todo, running, closure) /\ Fresh(closure, calls)
    BY <1>1 DEF Inv
  <2>2. calls[t] <= 1
    BY <2>1 DEF Fresh
  <2>3. Waiting(t) # {} \/ t \in ToSet(todo) => closure[t].st = "armed"
    BY <2>1 DEF Places, Waiting
  <2>4. CASE Waiting(t) = {}
    <3>1. Cardinality(Waiting(t)) = 0
      BY <2>4, FS_EmptySet
    <3>. QED  BY <2>2, <2>3, <3>1
  <2>5. CASE Waiting(t) # {}
    <3>1. PICK p \in Promises : t \in ToSet(handlers[p])
      BY <2>5 DEF Waiting
    <3>2. t \notin ToSet(todo)
      BY <2>1, <3>1 DEF Places
    <3>3. Waiting(t) = {p}
      BY <2>1, <3>1 DEF Places, Waiting
    <3>4. Cardinality(Waiting(t)) = 1
      BY <3>3, FS_Singleton
    <3>. QED  BY <2>2, <2>3, <3>2, <3>4
  <2>. QED  BY <2>4, <2>5
<1>2. Inv => CalledOnce
  BY <1>1 DEF CalledOnce
<1>. QED  BY <1>2, Invariant, PTL

(* join_promises resolves with the results of the promises it was given, in  *)
(* their order, each of them resolved (di_promise_join_handler).             *)
THEOREM JoinsAreExact == Spec => []JoinExact
<1>1. ASSUME Inv, NEW r \in Promises, value[r] = Tuple, results[r] # <<>>, NEW i \in DOMAIN inputs[r]
      PROVE  status[inputs[r][i]] = "resolved" /\ results[r][i] = value[inputs[r][i]]
  <2>1. Join(r, closure, inputs, status, value, results, left)
    BY <1>1 DEF Inv, Joins
  <2>2. /\ Pair(r, inputs) /\ Hit(r, 1, inputs, status, value, results)
        /\ Hit(r, 2, inputs, status, value, results)
    BY <1>1, <2>1 DEF Join
  <2>3. inputs \in [Promises -> Seq(Promises)]
    BY <1>1 DEF Inv, TypeOK
  <2>4. DOMAIN inputs[r] = {1, 2}
    BY <2>2, <2>3, PairTyped
  <2>. QED  BY <1>1, <2>2, <2>4 DEF Hit
<1>2. Inv => JoinExact
  BY <1>1 DEF JoinExact
<1>. QED  BY <1>2, Invariant, PTL
=============================================================================
