---------------------------- MODULE SignalProofs ----------------------------
(***************************************************************************)
(* Proofs about Signal, for any handlers, any number of signal objects and *)
(* emissions, removals and finalizations nested to any depth.              *)
(***************************************************************************)
EXTENDS Signal, FiniteSetTheorems, TLAPS

-----------------------------------------------------------------------------
(* The inductive invariant.                                                  *)

In(h, list) == \E i \in DOMAIN list : list[i] = h
Distinct(list) == \A i, j \in DOMAIN list : list[i] = list[j] => i = j
Count(s, st) == Cardinality(Removing(s, st))

(* A signal object has no handler twice, and counts those it has, those it   *)
(* was given twice and those on their way out.                               *)
Listed(hs, n, tw, st) ==
    \A s \in Sig : Distinct(hs[s]) /\ n[s] = Len(hs[s]) + tw[s] + Count(s, st)

(* A `once' handler has one handle.  While a signal object has the handler   *)
(* user code has that handle, and the handler has not been called.           *)
OnceListed(hs, hd, r) ==
    /\ \A l, m \in hd : l.h = m.h /\ l.h \in Once => l = m
    /\ \A h \in Once, s \in Sig : In(h, hs[s]) => [sig |-> s, h |-> h] \in hd /\ r[h] = 0

(* A signal object that is not alive has no handlers.                        *)
DeadEmpty(hs, n, tw, sig, st) ==
    \A s \in Sig : ~AliveIn(s, sig, st) => hs[s] = <<>> /\ n[s] = 0 /\ tw[s] = 0

(* The signal of a living source counts a handler, and a dead source has no  *)
(* signal.                                                                   *)
Used(src, sig, n) ==
    /\ src = "live" /\ sig # NoSig => n[sig] > 0
    /\ src = "dead" => sig = NoSig

Shaped(st) == \A i \in DOMAIN st : st[i].op = "remove" => st[i].sig \in Sig

Inv ==
    /\ TypeOK
    /\ Listed(handlers, nhandlers, twice, stack)
    /\ OnceListed(handlers, handles, runs)
    /\ DeadEmpty(handlers, nhandlers, twice, signal, stack)
    /\ Used(source, signal, nhandlers)
    /\ Shaped(stack)

-----------------------------------------------------------------------------
(* Lists of handlers.                                                        *)

LEMMA InToSet ==
    ASSUME NEW list, NEW h
    PROVE  h \in ToSet(list) <=> In(h, list)
  BY DEF ToSet, In

LEMMA AppendFacts ==
    ASSUME NEW list \in Seq(Handler), Distinct(list), NEW h \in Handler, ~In(h, list)
    PROVE  /\ Append(list, h) \in Seq(Handler)
           /\ Len(Append(list, h)) = Len(list) + 1
           /\ Distinct(Append(list, h))
           /\ \A x : In(x, Append(list, h)) <=> In(x, list) \/ x = h
<1>. DEFINE t == Append(list, h)
<1>1. /\ t \in Seq(Handler) /\ Len(t) = Len(list) + 1 /\ DOMAIN t = 1 .. Len(list) + 1
      /\ DOMAIN list = 1 .. Len(list) /\ Len(list) \in Nat
      /\ \A i \in 1 .. Len(list) : t[i] = list[i]
      /\ t[Len(list) + 1] = h
  OBVIOUS
<1>. HIDE DEF t
<1>2. Distinct(t)
  BY <1>1 DEF Distinct, In
<1>3. ASSUME NEW x PROVE In(x, t) <=> In(x, list) \/ x = h
  BY <1>1 DEF In
<1>. QED
  BY <1>1, <1>2, <1>3 DEF t

LEMMA ConcatFacts ==
    ASSUME NEW a \in Seq(Handler), NEW b \in Seq(Handler)
    PROVE  /\ a \o b \in Seq(Handler) /\ Len(a \o b) = Len(a) + Len(b)
           /\ \A j \in 1 .. Len(a) + Len(b) :
                (a \o b)[j] = IF j <= Len(a) THEN a[j] ELSE b[j - Len(a)]
  OBVIOUS

LEMMA WithoutFacts ==
    ASSUME NEW list \in Seq(Handler), Distinct(list), NEW h, In(h, list)
    PROVE  /\ Without(list, h) \in Seq(Handler)
           /\ Len(list) >= 1
           /\ Len(Without(list, h)) = Len(list) - 1
           /\ Distinct(Without(list, h))
           /\ \A x : In(x, Without(list, h)) <=> In(x, list) /\ x # h
<1>. DEFINE i == CHOOSE i \in DOMAIN list : list[i] = h
            a == SubSeq(list, 1, i - 1)
            b == SubSeq(list, i + 1, Len(list))
            t == Without(list, h)
<1>1. i \in 1 .. Len(list) /\ list[i] = h
  BY DEF In
<1>2. t = a \o b
  BY DEF Without, RemoveAt
<1>. HIDE DEF i, t
<1>3. /\ a \in Seq(Handler) /\ Len(a) = i - 1
      /\ \A j \in 1 .. i - 1 : a[j] = list[j]
  BY <1>1
<1>4. /\ b \in Seq(Handler) /\ Len(b) = Len(list) - i
      /\ \A j \in 1 .. Len(list) - i : b[j] = list[i + j]
  BY <1>1
<1>. HIDE DEF a, b
<1>5. /\ t \in Seq(Handler) /\ Len(t) = Len(a) + Len(b)
      /\ \A j \in 1 .. Len(a) + Len(b) : t[j] = IF j <= Len(a) THEN a[j] ELSE b[j - Len(a)]
  BY <1>2, <1>3, <1>4, ConcatFacts
<1>6. /\ Len(t) = Len(list) - 1 /\ DOMAIN t = 1 .. Len(list) - 1
      /\ \A j \in 1 .. Len(list) - 1 : t[j] = IF j < i THEN list[j] ELSE list[j + 1]
  <2>1. Len(t) = Len(list) - 1 /\ DOMAIN t = 1 .. Len(list) - 1
    BY <1>1, <1>3, <1>4, <1>5
  <2>2. ASSUME NEW j \in 1 .. Len(list) - 1 PROVE t[j] = IF j < i THEN list[j] ELSE list[j + 1]
    <3>1. CASE j < i
      <4>1. j \in 1 .. i - 1 /\ j \in 1 .. Len(a) + Len(b) /\ j <= Len(a)
        BY <1>1, <1>3, <1>4, <3>1
      <4>. QED
        BY <1>3, <1>5, <3>1, <4>1
    <3>2. CASE ~(j < i)
      <4>1. /\ j \in 1 .. Len(a) + Len(b) /\ ~(j <= Len(a)) /\ j - Len(a) \in 1 .. Len(list) - i
            /\ i + (j - Len(a)) = j + 1
        BY <1>1, <1>3, <1>4, <3>2
      <4>. QED
        BY <1>4, <1>5, <3>2, <4>1
    <3>. QED
      BY <3>1, <3>2
  <2>. QED
    BY <2>1, <2>2
<1>7. DOMAIN list = 1 .. Len(list) /\ Len(list) \in Nat
  OBVIOUS
<1>8. Distinct(t)
  <2>. SUFFICES ASSUME NEW j \in DOMAIN t, NEW k \in DOMAIN t, t[j] = t[k]
                PROVE  j = k
    BY DEF Distinct
  <2>. DEFINE up(n) == IF n < i THEN n ELSE n + 1
  <2>1. /\ up(j) \in DOMAIN list /\ up(k) \in DOMAIN list
        /\ t[j] = list[up(j)] /\ t[k] = list[up(k)]
    BY <1>1, <1>6, <1>7
  <2>2. up(j) = up(k)
    <3>. HIDE DEF up
    <3>. QED BY <2>1 DEF Distinct
  <2>. QED
    BY <1>1, <1>6, <1>7, <2>2
<1>9. ASSUME NEW x, In(x, t) PROVE In(x, list) /\ x # h
  <2>1. PICK j \in 1 .. Len(list) - 1 : t[j] = x
    BY <1>6, <1>9 DEF In
  <2>2. CASE j < i
    BY <1>1, <1>6, <1>7, <2>1, <2>2 DEF Distinct, In
  <2>3. CASE ~(j < i)
    <3>1. x = list[j + 1] /\ j + 1 \in 1 .. Len(list) /\ j + 1 # i
      BY <1>1, <1>6, <1>7, <2>1, <2>3
    <3>. QED
      BY <1>1, <1>7, <3>1 DEF Distinct, In
  <2>. QED
    BY <2>2, <2>3
<1>10. ASSUME NEW x, In(x, list), x # h PROVE In(x, t)
  <2>1. PICK j \in 1 .. Len(list) : list[j] = x
    BY <1>7, <1>10 DEF In
  <2>2. j # i
    BY <1>1, <1>10, <2>1
  <2>3. CASE j < i
    <3>1. j \in 1 .. Len(list) - 1 /\ t[j] = list[j]
      BY <1>1, <1>6, <2>1, <2>3
    <3>. QED
      BY <1>6, <2>1, <3>1 DEF In
  <2>4. CASE j > i
    <3>1. j - 1 \in 1 .. Len(list) - 1 /\ t[j - 1] = list[j]
      BY <1>1, <1>6, <2>1, <2>4
    <3>. QED
      BY <1>6, <2>1, <3>1 DEF In
  <2>. QED
    BY <1>1, <2>1, <2>2, <2>3, <2>4
<1>. QED
  BY <1>1, <1>5, <1>6, <1>7, <1>8, <1>9, <1>10 DEF t

-----------------------------------------------------------------------------
(* The stack: the signal objects it keeps alive, and the removals on it.     *)

LEMMA CountNat ==
    ASSUME NEW s \in Seq(Frame), NEW x
    PROVE  IsFiniteSet(Removing(x, s)) /\ Count(x, s) \in Nat
<1>1. Removing(x, s) \subseteq 1 .. Len(s) /\ IsFiniteSet(1 .. Len(s))
  BY FS_Interval DEF Removing
<1>. QED
  BY <1>1, FS_Subset, FS_CardinalityType DEF Count

(* t keeps the same signal objects alive as s and removes the same handlers. *)
SameWork(s, t) ==
    /\ t \in Seq(Frame)
    /\ \A x, sig : AliveIn(x, sig, t) <=> AliveIn(x, sig, s)
    /\ \A x : Count(x, t) = Count(x, s)
    /\ Shaped(s) => Shaped(t)

(* t differs from s in the handlers and operations left to the top frame.    *)
LEMMA EditedSame ==
    ASSUME NEW s \in Seq(Frame), NEW t \in Seq(Frame), Len(t) = Len(s),
           \A i \in 1 .. Len(s) : t[i].op = s[i].op /\ t[i].sig = s[i].sig
    PROVE  SameWork(s, t)
<1>1. DOMAIN t = 1 .. Len(s) /\ DOMAIN s = 1 .. Len(s)
  OBVIOUS
<1>2. \A x : Removing(x, t) = Removing(x, s)
  BY <1>1 DEF Removing
<1>3. \A x, sig : AliveIn(x, sig, t) <=> AliveIn(x, sig, s)
  BY <1>1 DEF AliveIn
<1>. QED
  BY <1>1, <1>2, <1>3 DEF SameWork, Count, Shaped

LEMMA AfterOpSame ==
    ASSUME stack \in Seq(Frame), UserCode
    PROVE  SameWork(stack, AfterOp)
<1>1. CASE stack = <<>>
  BY <1>1, EditedSame DEF AfterOp
<1>2. CASE stack # <<>>
  <2>. DEFINE n == Len(stack)
              f == [stack[n] EXCEPT !.left = @ - 1]
  <2>1. n \in Nat /\ n > 0 /\ stack[n] \in Frame
    BY <1>2
  <2>2. stack[n].left > 0
    BY <1>2 DEF UserCode, Running, Top, Last
  <2>3. f \in Frame /\ f.op = stack[n].op /\ f.sig = stack[n].sig
    <3>1. stack[n].left - 1 \in 0 .. MaxOps
      BY <2>1, <2>2, SignalAssumption DEF Frame
    <3>. QED
      BY <2>1, <3>1 DEF Frame
  <2>4. AfterOp = [stack EXCEPT ![n] = f]
    BY <1>2 DEF AfterOp
  <2>. HIDE DEF f
  <2>5. /\ AfterOp \in Seq(Frame) /\ Len(AfterOp) = Len(stack)
        /\ \A i \in 1 .. Len(stack) : AfterOp[i].op = stack[i].op /\ AfterOp[i].sig = stack[i].sig
    BY <2>1, <2>3, <2>4
  <2>. QED
    BY <2>5, EditedSame
<1>. QED
  BY <1>1, <1>2

LEMMA PushFrame ==
    ASSUME NEW s \in Seq(Frame), NEW f \in Frame
    PROVE  /\ Append(s, f) \in Seq(Frame)
           /\ \A x, sig : AliveIn(x, sig, Append(s, f)) <=>
                AliveIn(x, sig, s) \/ (f.op \in {"emit", "remove"} /\ f.sig = x)
           /\ \A x : Count(x, Append(s, f)) =
                Count(x, s) + IF f.op = "remove" /\ f.sig = x THEN 1 ELSE 0
           /\ Shaped(Append(s, f)) <=> Shaped(s) /\ (f.op = "remove" => f.sig \in Sig)
<1>. DEFINE t == Append(s, f)
<1>1. /\ t \in Seq(Frame) /\ DOMAIN t = 1 .. Len(s) + 1 /\ DOMAIN s = 1 .. Len(s)
      /\ Len(s) \in Nat
      /\ \A i \in 1 .. Len(s) : t[i] = s[i]
      /\ t[Len(s) + 1] = f
  OBVIOUS
<1>. HIDE DEF t
<1>2. ASSUME NEW x, NEW sig
      PROVE  AliveIn(x, sig, t) <=>
               AliveIn(x, sig, s) \/ (f.op \in {"emit", "remove"} /\ f.sig = x)
  BY <1>1 DEF AliveIn
<1>3. ASSUME NEW x
      PROVE  Count(x, t) = Count(x, s) + IF f.op = "remove" /\ f.sig = x THEN 1 ELSE 0
  <2>1. IsFiniteSet(Removing(x, s)) /\ Count(x, s) \in Nat
    BY CountNat
  <2>2. CASE f.op = "remove" /\ f.sig = x
    <3>1. Removing(x, t) = Removing(x, s) \cup {Len(s) + 1} /\ Len(s) + 1 \notin Removing(x, s)
      BY <1>1, <2>2 DEF Removing
    <3>. QED
      BY <2>1, <2>2, <3>1, FS_AddElement DEF Count
  <2>3. CASE ~(f.op = "remove" /\ f.sig = x)
    <3>1. Removing(x, t) = Removing(x, s)
      BY <1>1, <2>3 DEF Removing
    <3>. QED
      BY <2>1, <2>3, <3>1 DEF Count
  <2>. QED
    BY <2>2, <2>3
<1>4. Shaped(t) <=> Shaped(s) /\ (f.op = "remove" => f.sig \in Sig)
  BY <1>1 DEF Shaped
<1>. QED
  BY <1>1, <1>2, <1>3, <1>4 DEF t

(* A frame that is neither an emission nor a removal.                        *)
LEMMA PushCode ==
    ASSUME NEW s \in Seq(Frame), NEW f \in Frame, f.op \notin {"emit", "remove"}
    PROVE  SameWork(s, Append(s, f))
<1>1. \A x : Count(x, s) \in Nat
  BY CountNat
<1>. QED
  BY <1>1, PushFrame DEF SameWork

LEMMA SameTrans ==
    ASSUME NEW r, NEW s, NEW t, SameWork(r, s), SameWork(s, t)
    PROVE  SameWork(r, t)
  BY DEF SameWork

LEMMA PopFrame ==
    ASSUME stack \in Seq(Frame), stack # <<>>
    PROVE  /\ Front(stack) \in Seq(Frame) /\ Top \in Frame
           /\ \A x, sig : AliveIn(x, sig, stack) <=>
                AliveIn(x, sig, Front(stack)) \/ (Top.op \in {"emit", "remove"} /\ Top.sig = x)
           /\ \A x : Count(x, stack) =
                Count(x, Front(stack)) + IF Top.op = "remove" /\ Top.sig = x THEN 1 ELSE 0
           /\ Shaped(stack) <=> Shaped(Front(stack)) /\ (Top.op = "remove" => Top.sig \in Sig)
<1>. DEFINE n == Len(stack)
            s == Front(stack)
<1>1. n \in Nat /\ n > 0 /\ stack[n] \in Frame /\ Top = stack[n]
  BY DEF Top, Last
<1>2. s \in Seq(Frame) /\ stack = Append(s, stack[n])
  BY <1>1 DEF Front
<1>. HIDE DEF n, s
<1>3. PICK f \in Frame : f = Top /\ stack = Append(s, f)
  BY <1>1, <1>2
<1>4. /\ \A x, sig : AliveIn(x, sig, Append(s, f)) <=>
           AliveIn(x, sig, s) \/ (f.op \in {"emit", "remove"} /\ f.sig = x)
      /\ \A x : Count(x, Append(s, f)) =
           Count(x, s) + IF f.op = "remove" /\ f.sig = x THEN 1 ELSE 0
      /\ Shaped(Append(s, f)) <=> Shaped(s) /\ (f.op = "remove" => f.sig \in Sig)
  BY <1>2, PushFrame
<1>. QED
  BY <1>2, <1>3, <1>4 DEF s

(* What SetSignals makes of the signal objects.                              *)
LEMMA SettledInv ==
    ASSUME NEW hs \in [Sig -> Seq(Handler)], NEW n \in [Sig -> Nat], NEW tw \in [Sig -> Nat],
           SetSignals(hs, n, tw), Listed(hs, n, tw, stack'), OnceListed(hs, handles', runs'),
           Used(source', signal', n), Shaped(stack'),
           source' \in {"live", "dying", "dead"}, dtor' \in BOOLEAN, signal' \in Sig \cup {NoSig},
           handles' \subseteq Handle, stack' \in Seq(Frame), runs' \in [Once -> Nat]
    PROVE  Inv'
<1>1. \A s \in Sig : AliveIn(s, signal', stack') =>
        handlers'[s] = hs[s] /\ nhandlers'[s] = n[s] /\ twice'[s] = tw[s]
  BY DEF SetSignals
<1>2. \A s \in Sig : ~AliveIn(s, signal', stack') =>
        handlers'[s] = <<>> /\ nhandlers'[s] = 0 /\ twice'[s] = 0
  BY DEF SetSignals
<1>3. /\ handlers' \in [Sig -> Seq(Handler)] /\ nhandlers' \in [Sig -> Nat]
      /\ twice' \in [Sig -> Nat]
  <2>1. <<>> \in Seq(Handler) /\ 0 \in Nat
    OBVIOUS
  <2>2. /\ handlers' = [s \in Sig |-> handlers'[s]] /\ nhandlers' = [s \in Sig |-> nhandlers'[s]]
        /\ twice' = [s \in Sig |-> twice'[s]]
    BY DEF SetSignals
  <2>3. \A s \in Sig : handlers'[s] \in Seq(Handler) /\ nhandlers'[s] \in Nat /\ twice'[s] \in Nat
    BY <1>1, <1>2, <2>1
  <2>. QED
    BY <2>2, <2>3
<1>4. TypeOK'
  BY <1>3 DEF TypeOK
<1>5. Distinct(<<>>) /\ Len(<<>>) = 0 /\ \A h : ~In(h, <<>>)
  BY DEF Distinct, In
<1>6. \A s \in Sig : ~AliveIn(s, signal', stack') => Count(s, stack') = 0
  <2>1. \A s \in Sig : ~AliveIn(s, signal', stack') => Removing(s, stack') = {}
    BY DEF AliveIn, Removing
  <2>. QED
    BY <2>1, FS_EmptySet DEF Count
<1>7. Listed(handlers', nhandlers', twice', stack')
  BY <1>1, <1>2, <1>5, <1>6 DEF Listed
<1>8. \A s \in Sig : \A h : In(h, handlers'[s]) => In(h, hs[s])
  BY <1>1, <1>2, <1>5
<1>9. OnceListed(handlers', handles', runs')
  BY <1>8 DEF OnceListed
<1>10. DeadEmpty(handlers', nhandlers', twice', signal', stack')
  BY <1>2 DEF DeadEmpty
<1>11. Used(source', signal', nhandlers')
  <2>1. signal' \in Sig => AliveIn(signal', signal', stack')
    BY DEF AliveIn
  <2>. QED
    BY <1>1, <2>1 DEF Used
<1>. QED
  BY <1>4, <1>7, <1>9, <1>10, <1>11 DEF Inv, Listed, OnceListed, DeadEmpty, Used, Shaped

-----------------------------------------------------------------------------
(* Every step keeps the invariant.                                           *)

LEMMA InitInv == Init => Inv
<1>. SUFFICES ASSUME Init PROVE Inv
  OBVIOUS
<1>. USE DEF Init
<1>1. TypeOK
  BY DEF TypeOK
<1>2. Distinct(<<>>) /\ Len(<<>>) = 0 /\ \A h : ~In(h, <<>>)
  BY DEF Distinct, In
<1>3. \A s \in Sig : Count(s, stack) = 0
  <2>1. \A s \in Sig : Removing(s, stack) = {}
    BY DEF Removing
  <2>. QED
    BY <2>1, FS_EmptySet DEF Count
<1>4. Listed(handlers, nhandlers, twice, stack) /\ OnceListed(handlers, handles, runs)
  BY <1>2, <1>3 DEF Listed, OnceListed
<1>5. /\ DeadEmpty(handlers, nhandlers, twice, signal, stack) /\ Used(source, signal, nhandlers)
      /\ Shaped(stack)
  BY DEF DeadEmpty, Used, Shaped
<1>. QED
  BY <1>1, <1>4, <1>5 DEF Inv

(* A step that leaves the signal objects alone and those alive that are.     *)
LEMMA SameSignalsInv ==
    ASSUME Inv, UNCHANGED <<sigVars, runs>>,
           source' \in {"live", "dying", "dead"}, dtor' \in BOOLEAN,
           Used(source', signal, nhandlers),
           handles' \subseteq handles, stack' \in Seq(Frame), Shaped(stack'),
           \A s \in Sig : Alive(s) => AliveIn(s, signal, stack'),
           \A s \in Sig : Count(s, stack') = Count(s, stack),
           \A h \in Once, s \in Sig : In(h, handlers[s]) /\ [sig |-> s, h |-> h] \in handles
                => [sig |-> s, h |-> h] \in handles'
    PROVE  Inv'
<1>. USE DEF Inv, sigVars
<1>1. TypeOK'
  BY DEF TypeOK
<1>2. Listed(handlers', nhandlers', twice', stack')
  BY DEF Listed
<1>3. OnceListed(handlers', handles', runs')
  BY DEF OnceListed
<1>4. DeadEmpty(handlers', nhandlers', twice', signal', stack')
  BY DEF DeadEmpty, Alive
<1>. QED
  BY <1>1, <1>2, <1>3, <1>4 DEF Listed, OnceListed, DeadEmpty, Used, Shaped

(* A step that leaves the handlers alone, except those of signal objects     *)
(* that die.                                                                 *)
LEMMA SameHandlersInv ==
    ASSUME Inv, SetSignals(handlers, nhandlers, twice), UNCHANGED <<handles, runs>>,
           source' \in {"live", "dying", "dead"}, dtor' \in BOOLEAN,
           signal' \in Sig \cup {NoSig}, Used(source', signal', nhandlers),
           stack' \in Seq(Frame), Shaped(stack'),
           \A s \in Sig : Count(s, stack') = Count(s, stack)
    PROVE  Inv'
<1>1. OnceListed(handlers, handles', runs') /\ Listed(handlers, nhandlers, twice, stack')
  BY DEF Inv, OnceListed, Listed
<1>. QED
  BY <1>1, SettledInv DEF Inv, TypeOK

(* RemoveHandler(l, s), in a step that may also drop l or call its handler.  *)
LEMMA RemoveHandlerInv ==
    ASSUME Inv, NEW l \in handles, NEW s, SameWork(stack, s), RemoveHandler(l, s),
           handles' \subseteq handles, \A m \in handles : m # l => m \in handles',
           runs' \in [Once -> Nat], \A h \in Once : h # l.h => runs'[h] = runs[h],
           UNCHANGED <<source, dtor>>
    PROVE  Inv'
<1>. USE DEF Inv
<1>1. /\ l.sig \in Sig /\ l.h \in Handler /\ l = [sig |-> l.sig, h |-> l.h]
      /\ UNCHANGED <<signal, nhandlers, twice>>
      /\ signal \in Sig \cup {NoSig} /\ source \in {"live", "dying", "dead"} /\ dtor \in BOOLEAN
      /\ handles' \subseteq Handle /\ stack \in Seq(Frame) /\ s \in Seq(Frame)
      /\ handlers \in [Sig -> Seq(Handler)] /\ nhandlers \in [Sig -> Nat] /\ twice \in [Sig -> Nat]
  BY DEF TypeOK, Handle, RemoveHandler, SameWork
<1>2. ASSUME NEW hs \in [Sig -> Seq(Handler)],
             \A x \in Sig : \A h : In(h, hs[x]) => In(h, handlers[x]),
             Alive(l.sig) => ~In(l.h, hs[l.sig])
      PROVE  OnceListed(hs, handles', runs')
  <2>1. ASSUME NEW h \in Once, NEW x \in Sig, In(h, hs[x])
        PROVE  [sig |-> x, h |-> h] \in handles' /\ runs'[h] = 0
    <3>1. In(h, handlers[x]) /\ [sig |-> x, h |-> h] \in handles /\ runs[h] = 0
      BY <1>2, <2>1 DEF OnceListed
    <3>2. Alive(x)
      BY <3>1 DEF DeadEmpty, In, Alive
    <3>3. h # l.h
      <4>1. h = l.h => x = l.sig
        BY <1>1, <3>1 DEF OnceListed
      <4>. QED
        BY <1>2, <2>1, <3>2, <4>1
    <3>. QED
      BY <1>1, <3>1, <3>3
  <2>. QED
    BY <2>1 DEF OnceListed
<1>3. CASE Alive(l.sig) /\ In(l.h, handlers[l.sig])
  <2>. DEFINE list == handlers[l.sig]
              f == RemoveFrame(l.sig)
              g == HandlerFrame("free", l.h)
              st == Append(s, f)
  <2>1. handlers' = [handlers EXCEPT ![l.sig] = Without(list, l.h)]
    BY <1>1, <1>3, InToSet DEF RemoveHandler
  <2>2. stack' = st \/ stack' = Append(st, g)
    BY <1>3, InToSet DEF RemoveHandler
  <2>3. /\ f \in Frame /\ f.op = "remove" /\ f.sig = l.sig
        /\ g \in Frame /\ g.op \notin {"emit", "remove"}
    <3>1. <<>> \in Seq(Handler) /\ <<l.h>> \in Seq(Handler) /\ 0 \in 0 .. MaxOps /\ MaxOps \in 0 .. MaxOps
      BY <1>1, SignalAssumption
    <3>. QED
      BY <1>1, <3>1 DEF RemoveFrame, HandlerFrame, Frame, CodeOp
  <2>. HIDE DEF f, g
  <2>4. /\ st \in Seq(Frame) /\ Shaped(st)
        /\ \A x, sig : AliveIn(x, sig, st) <=> AliveIn(x, sig, stack) \/ x = l.sig
        /\ \A x : Count(x, st) = Count(x, stack) + IF x = l.sig THEN 1 ELSE 0
    <3>1. /\ st \in Seq(Frame)
          /\ \A x, sig : AliveIn(x, sig, st) <=>
               AliveIn(x, sig, s) \/ (f.op \in {"emit", "remove"} /\ f.sig = x)
          /\ \A x : Count(x, st) = Count(x, s) + IF f.op = "remove" /\ f.sig = x THEN 1 ELSE 0
          /\ Shaped(st) <=> Shaped(s) /\ (f.op = "remove" => f.sig \in Sig)
      BY <1>1, <2>3, PushFrame
    <3>. QED
      BY <1>1, <2>3, <3>1 DEF SameWork
  <2>. HIDE DEF st
  <2>5. /\ stack' \in Seq(Frame) /\ Shaped(stack')
        /\ \A x, sig : AliveIn(x, sig, stack') <=> AliveIn(x, sig, stack) \/ x = l.sig
        /\ \A x : Count(x, stack') = Count(x, stack) + IF x = l.sig THEN 1 ELSE 0
    <3>1. SameWork(st, Append(st, g))
      BY <2>3, <2>4, PushCode
    <3>. QED
      BY <2>2, <2>4, <3>1 DEF SameWork
  <2>6. list \in Seq(Handler) /\ Distinct(list)
    BY <1>1 DEF Listed
  <2>7. /\ Without(list, l.h) \in Seq(Handler) /\ Len(list) >= 1
        /\ Len(Without(list, l.h)) = Len(list) - 1 /\ Distinct(Without(list, l.h))
        /\ \A x : In(x, Without(list, l.h)) <=> In(x, list) /\ x # l.h
    BY <1>3, <2>6, WithoutFacts
  <2>8. /\ handlers' \in [Sig -> Seq(Handler)] /\ handlers'[l.sig] = Without(list, l.h)
        /\ \A x \in Sig : x # l.sig => handlers'[x] = handlers[x]
    BY <1>1, <2>1, <2>7
  <2>9. TypeOK'
    BY <1>1, <2>5, <2>8 DEF TypeOK
  <2>10. Listed(handlers', nhandlers', twice', stack')
    <3>1. ASSUME NEW x \in Sig
          PROVE  /\ Distinct(handlers'[x])
                 /\ nhandlers[x] = Len(handlers'[x]) + twice[x] + Count(x, stack')
      <4>1. /\ Distinct(handlers[x]) /\ nhandlers[x] = Len(handlers[x]) + twice[x] + Count(x, stack)
            /\ Count(x, stack) \in Nat /\ Len(handlers[x]) \in Nat /\ twice[x] \in Nat
        BY <1>1, CountNat DEF Listed
      <4>2. Count(x, stack') = Count(x, stack) + IF x = l.sig THEN 1 ELSE 0
        BY <2>5
      <4>3. CASE x = l.sig
        <5>1. /\ Len(handlers'[x]) = Len(handlers[x]) - 1 /\ Distinct(handlers'[x])
              /\ Count(x, stack') = Count(x, stack) + 1
          BY <2>7, <2>8, <4>2, <4>3
        <5>. QED
          BY <4>1, <5>1
      <4>4. CASE x # l.sig
        BY <2>8, <4>1, <4>2, <4>4
      <4>. QED
        BY <4>3, <4>4
    <3>. QED
      BY <1>1, <3>1 DEF Listed
  <2>11. OnceListed(handlers', handles', runs')
    BY <1>2, <2>7, <2>8
  <2>12. DeadEmpty(handlers', nhandlers', twice', signal', stack')
    BY <1>1, <2>5, <2>8 DEF DeadEmpty
  <2>13. Used(source', signal', nhandlers')
    BY <1>1
  <2>. QED
    BY <2>5, <2>9, <2>10, <2>11, <2>12, <2>13 DEF Listed, OnceListed, DeadEmpty, Used, Shaped
<1>4. CASE ~(Alive(l.sig) /\ In(l.h, handlers[l.sig]))
  <2>1. stack' = s /\ UNCHANGED handlers
    BY <1>4, InToSet DEF RemoveHandler
  <2>2. OnceListed(handlers', handles', runs')
    BY <1>1, <1>2, <1>4, <2>1
  <2>3. TypeOK'
    BY <1>1, <2>1 DEF TypeOK
  <2>4. /\ Listed(handlers', nhandlers', twice', stack') /\ Shaped(stack')
        /\ DeadEmpty(handlers', nhandlers', twice', signal', stack')
    BY <1>1, <2>1 DEF Listed, DeadEmpty, SameWork
  <2>. QED
    BY <1>1, <2>2, <2>3, <2>4 DEF Listed, OnceListed, DeadEmpty, Used, Shaped
<1>. QED
  BY <1>3, <1>4

LEMMA ListenInv ==
    ASSUME Inv, NEW h \in Handler, Listen(h)
    PROVE  Inv'
<1>. USE DEF Inv
<1>. DEFINE t == signal'
            had == In(h, handlers[t])
            hs == IF had THEN handlers ELSE [handlers EXCEPT ![t] = Append(@, h)]
            n == [nhandlers EXCEPT ![t] = @ + 1]
            tw == IF had THEN [twice EXCEPT ![t] = @ + 1] ELSE twice
            hd == handles \cup {[sig |-> t, h |-> h]}
<1>1. /\ UserCode /\ stack' = AfterOp /\ handles' = hd /\ UNCHANGED <<source, dtor>>
      /\ runs' = IF h \in Once THEN [runs EXCEPT ![h] = 0] ELSE runs
      /\ source = "live"
  BY DEF Listen
<1>2. SetSignals(hs, n, tw)
  BY InToSet DEF Listen, AddHandler
<1>3. /\ handlers \in [Sig -> Seq(Handler)] /\ nhandlers \in [Sig -> Nat] /\ twice \in [Sig -> Nat]
      /\ runs \in [Once -> Nat] /\ handles \subseteq Handle /\ stack \in Seq(Frame)
  BY DEF TypeOK
<1>4. t \in Sig
  BY DEF Listen, TypeOK
<1>5. had => h \notin Once
  <2>1. CASE signal # NoSig
    BY <2>1, InToSet DEF Listen, Listening
  <2>2. CASE signal = NoSig
    <3>1. ~Alive(t)
      BY <1>4, <2>2 DEF Listen
    <3>. QED
      BY <1>4, <3>1 DEF DeadEmpty, In, Alive
  <2>. QED
    BY <2>1, <2>2
<1>6. SameWork(stack, AfterOp)
  BY <1>1, <1>3, AfterOpSame
<1>. DEFINE c == Count(t, stack)
<1>7. /\ hs[t] \in Seq(Handler) /\ Distinct(hs[t]) /\ n[t] = Len(hs[t]) + tw[t] + c
      /\ n[t] > 0 /\ n[t] \in Nat /\ tw[t] \in Nat
      /\ \A x : In(x, hs[t]) <=> In(x, handlers[t]) \/ x = h
  <2>1. /\ handlers[t] \in Seq(Handler) /\ Distinct(handlers[t])
        /\ nhandlers[t] \in Nat /\ Len(handlers[t]) \in Nat /\ twice[t] \in Nat /\ c \in Nat
        /\ nhandlers[t] = Len(handlers[t]) + twice[t] + c
    BY <1>3, <1>4, CountNat DEF Listed
  <2>. HIDE DEF c
  <2>2. n[t] = nhandlers[t] + 1
    BY <1>3, <1>4
  <2>3. CASE had
    <3>1. hs[t] = handlers[t] /\ tw[t] = twice[t] + 1
      BY <1>3, <1>4, <2>3
    <3>. QED
      BY <2>1, <2>2, <2>3, <3>1
  <2>4. CASE ~had
    <3>1. hs[t] = Append(handlers[t], h) /\ tw[t] = twice[t]
      BY <1>3, <1>4, <2>4
    <3>2. /\ hs[t] \in Seq(Handler) /\ Len(hs[t]) = Len(handlers[t]) + 1 /\ Distinct(hs[t])
          /\ \A x : In(x, hs[t]) <=> In(x, handlers[t]) \/ x = h
      BY <2>1, <2>4, <3>1, AppendFacts
    <3>. QED
      BY <2>1, <2>2, <3>1, <3>2
  <2>. QED
    BY <2>3, <2>4
<1>8. \A s \in Sig : s # t => hs[s] = handlers[s] /\ n[s] = nhandlers[s] /\ tw[s] = twice[s]
  BY <1>3, <1>4
<1>9. hs \in [Sig -> Seq(Handler)] /\ n \in [Sig -> Nat] /\ tw \in [Sig -> Nat]
  <2>1. had \/ hs = [handlers EXCEPT ![t] = hs[t]]
    BY <1>3, <1>4
  <2>2. n \in [Sig -> Nat] /\ tw \in [Sig -> Nat]
    BY <1>3, <1>4
  <2>. QED
    BY <1>3, <1>7, <2>1, <2>2
<1>10. [sig |-> t, h |-> h] \in Handle /\ hd \subseteq Handle
  BY <1>3, <1>4 DEF Handle
<1>. HIDE DEF hs, n, hd, tw, had, t, c
<1>11. Listed(hs, n, tw, stack')
  <2>1. \A x : Count(x, stack') = Count(x, stack)
    BY <1>1, <1>6 DEF SameWork
  <2>. QED
    BY <1>7, <1>8, <2>1 DEF Listed, c
<1>12. OnceListed(hs, hd, runs')
  <2>1. \A l, m \in hd : l.h = m.h /\ l.h \in Once => l = m
    <3>1. h \in Once => \A l \in handles : l.h # h
      BY DEF Listen
    <3>. QED
      BY <3>1 DEF hd, OnceListed
  <2>2. ASSUME NEW x \in Once, NEW s \in Sig, In(x, hs[s])
        PROVE  [sig |-> s, h |-> x] \in hd /\ runs'[x] = 0
    <3>1. CASE x = h
      <4>1. runs'[x] = 0
        BY <1>1, <1>3, <2>2, <3>1
      <4>2. s = t
        <5>1. SUFFICES ASSUME s # t PROVE FALSE
          OBVIOUS
        <5>2. In(h, handlers[s])
          BY <1>8, <2>2, <3>1, <5>1
        <5>3. [sig |-> s, h |-> h] \in handles
          BY <2>2, <3>1, <5>2 DEF OnceListed
        <5>. QED
          BY <2>2, <3>1, <5>3 DEF Listen
      <4>. QED
        BY <3>1, <4>1, <4>2 DEF hd
    <3>2. CASE x # h
      <4>1. In(x, handlers[s])
        BY <1>7, <1>8, <2>2, <3>2
      <4>2. [sig |-> s, h |-> x] \in handles /\ runs[x] = 0
        BY <2>2, <4>1 DEF OnceListed
      <4>. QED
        BY <1>1, <1>3, <3>2, <4>2 DEF hd
    <3>. QED
      BY <3>1, <3>2
  <2>. QED
    BY <2>1, <2>2 DEF OnceListed
<1>13. stack' \in Seq(Frame) /\ Shaped(stack')
  BY <1>1, <1>6 DEF SameWork
<1>14. /\ source' \in {"live", "dying", "dead"} /\ runs' \in [Once -> Nat] /\ dtor' \in BOOLEAN
       /\ signal' \in Sig \cup {NoSig}
  BY <1>1, <1>3, <1>4 DEF TypeOK, t
<1>15. Used(source', signal', n)
  BY <1>1, <1>7 DEF Used, t
<1>. QED
  BY <1>1, <1>2, <1>9, <1>10, <1>11, <1>12, <1>13, <1>14, <1>15, SettledInv

LEMMA HandleInv ==
    ASSUME Inv, NEW l \in handles,
           Stop(l) \/ DropHandle(l, TRUE) \/ DropHandle(l, FALSE)
    PROVE  Inv'
<1>. USE DEF Inv
<1>1. UserCode /\ UNCHANGED <<source, dtor, runs>>
  BY DEF Stop, DropHandle
<1>2. SameWork(stack, AfterOp)
  BY <1>1, AfterOpSame DEF TypeOK
<1>3. CASE Stop(l)
  BY <1>1, <1>2, <1>3, RemoveHandlerInv DEF Stop, TypeOK
<1>4. CASE DropHandle(l, TRUE)
  <2>1. RemoveHandler(l, AfterOp) /\ handles' = handles \ {l}
    BY <1>4 DEF DropHandle
  <2>. QED
    BY <1>1, <1>2, <2>1, RemoveHandlerInv DEF TypeOK
<1>5. CASE DropHandle(l, FALSE)
  <2>1. /\ UNCHANGED sigVars /\ handles' = handles \ {l} /\ stack' = AfterOp
        /\ l.h \in Once => \A s \in Sig : ~In(l.h, handlers[s])
    BY <1>5, InToSet DEF DropHandle
  <2>2. \A h \in Once, s \in Sig : In(h, handlers[s]) /\ [sig |-> s, h |-> h] \in handles
          => [sig |-> s, h |-> h] \in handles'
    BY <2>1
  <2>3. /\ source' \in {"live", "dying", "dead"} /\ dtor' \in BOOLEAN
        /\ Used(source', signal, nhandlers)
    BY <1>1 DEF TypeOK
  <2>. QED
    BY <1>1, <1>2, <2>1, <2>2, <2>3, SameSignalsInv DEF Alive, SameWork
<1>. QED
  BY <1>3, <1>4, <1>5

LEMMA CodeFrameType ==
    ASSUME TypeOK
    PROVE  /\ \A op \in {"dtor", "fin"} :
                DtorFrame(op) \in Frame /\ DtorFrame(op).op \notin {"emit", "remove"}
           /\ \A h \in Handler :
                HandlerFrame("call", h) \in Frame /\ HandlerFrame("call", h).op \notin {"emit", "remove"}
<1>1. <<>> \in Seq(Handler) /\ MaxOps \in 0 .. MaxOps /\ 0 \in 0 .. MaxOps
  BY SignalAssumption
<1>2. \A h \in Handler : <<h>> \in Seq(Handler)
  OBVIOUS
<1>. QED
  BY <1>1, <1>2 DEF DtorFrame, HandlerFrame, Frame, CodeOp

LEMMA UserInv ==
    ASSUME Inv, DeleteSignal \/ Emit \/ DropSource \/ FinalizeSource \/ NewSource
    PROVE  Inv'
<1>. USE DEF Inv
<1>1. CASE DeleteSignal
  <2>1. SameWork(stack, AfterOp) /\ stack' = AfterOp
    BY <1>1, AfterOpSame DEF DeleteSignal, TypeOK
  <2>2. /\ SetSignals(handlers, nhandlers, twice) /\ signal' = NoSig
        /\ UNCHANGED <<source, dtor, handles, runs>>
    BY <1>1 DEF DeleteSignal
  <2>3. Used(source', signal', nhandlers)
    BY <2>2 DEF Used
  <2>. QED
    BY <2>1, <2>2, <2>3, SameHandlersInv DEF SameWork, TypeOK
<1>2. CASE Emit \/ DropSource \/ FinalizeSource
  <2>1. /\ UserCode /\ UNCHANGED <<sigVars, handles, runs>>
        /\ source' \in {"live", "dying", "dead"} /\ dtor' \in BOOLEAN
        /\ source' = source \/ source' = "dying"
    BY <1>2 DEF Emit, DropSource, FinalizeSource, TypeOK
  <2>2. PICK f \in Frame : f.op # "remove" /\ stack' = Append(AfterOp, f)
    <3>1. CASE Emit
      <4>1. signal \in Sig /\ handlers[signal] \in Seq(Handler) /\ 0 \in 0 .. MaxOps
        BY <3>1, SignalAssumption DEF Emit, TypeOK
      <4>2. EmitFrame(signal) \in Frame /\ EmitFrame(signal).op # "remove"
        BY <4>1 DEF EmitFrame, Frame
      <4>. QED
        BY <3>1, <4>2 DEF Emit
    <3>2. CASE DropSource \/ FinalizeSource
      BY <3>2, CodeFrameType DEF DropSource, FinalizeSource
    <3>. QED
      BY <1>2, <3>1, <3>2
  <2>3. SameWork(stack, AfterOp)
    BY <2>1, AfterOpSame DEF TypeOK
  <2>4. /\ AfterOp \in Seq(Frame) /\ Shaped(AfterOp)
        /\ \A s, sig : AliveIn(s, sig, AfterOp) <=> AliveIn(s, sig, stack)
        /\ \A s : Count(s, AfterOp) = Count(s, stack)
    BY <2>3 DEF SameWork
  <2>5. /\ stack' \in Seq(Frame) /\ Shaped(stack')
        /\ \A s, sig : AliveIn(s, sig, AfterOp) => AliveIn(s, sig, stack')
        /\ \A s : Count(s, stack') = Count(s, AfterOp)
    <3>1. \A s : Count(s, AfterOp) \in Nat
      BY <2>4, CountNat
    <3>. QED
      BY <2>2, <2>4, <3>1, PushFrame
  <2>6. Used(source', signal, nhandlers)
    BY <2>1 DEF Used
  <2>. QED
    BY <2>1, <2>4, <2>5, <2>6, SameSignalsInv DEF Alive
<1>3. CASE NewSource
  <2>1. /\ UNCHANGED <<sigVars, handles, runs, stack>> /\ source = "dead"
        /\ source' = "live" /\ dtor' = TRUE
    BY <1>3 DEF NewSource
  <2>2. Used(source', signal, nhandlers)
    BY <2>1 DEF Used
  <2>. QED
    BY <2>1, <2>2, SameSignalsInv DEF TypeOK, Alive
<1>. QED
  BY <1>1, <1>2, <1>3

LEMMA CallHandlerInv ==
    ASSUME Inv, CallHandler
    PROVE  Inv'
<1>. USE DEF Inv
<1>. DEFINE n == Len(stack)
            h == Head(Top.todo)
            f == [stack[n] EXCEPT !.todo = Tail(@)]
            st == [stack EXCEPT ![n] = f]
<1>1. /\ stack \in Seq(Frame) /\ n \in Nat /\ n > 0 /\ stack[n] \in Frame /\ Top = stack[n]
      /\ stack[n].todo # <<>>
  BY DEF CallHandler, Running, TypeOK, Top, Last
<1>2. Tail(stack[n].todo) \in Seq(Handler) /\ h \in Handler
  <2>1. stack[n].todo \in Seq(Handler)
    BY <1>1 DEF Frame
  <2>. QED
    BY <1>1, <2>1
<1>3. f \in Frame /\ f.op = stack[n].op /\ f.sig = stack[n].sig
  BY <1>1, <1>2 DEF Frame
<1>4. Calls(h) = Append(st, HandlerFrame("call", h))
  BY DEF Calls
<1>. HIDE DEF f
<1>5. SameWork(stack, st)
  <2>1. /\ st \in Seq(Frame) /\ Len(st) = Len(stack)
        /\ \A i \in 1 .. Len(stack) : st[i].op = stack[i].op /\ st[i].sig = stack[i].sig
    BY <1>1, <1>3
  <2>. QED
    BY <1>1, <2>1, EditedSame
<1>. HIDE DEF st
<1>6. SameWork(stack, Calls(h))
  <2>1. st \in Seq(Frame)
    BY <1>5 DEF SameWork
  <2>2. HandlerFrame("call", h) \in Frame /\ HandlerFrame("call", h).op \notin {"emit", "remove"}
    BY <1>2, CodeFrameType
  <2>3. SameWork(st, Append(st, HandlerFrame("call", h)))
    BY <2>1, <2>2, PushCode
  <2>. QED
    BY <1>4, <1>5, <2>3, SameTrans
<1>7. UNCHANGED <<source, dtor, handles>>
  BY DEF CallHandler
<1>8. CASE h \notin Once
  <2>1. UNCHANGED <<sigVars, runs>> /\ stack' = Calls(h)
    BY <1>8 DEF CallHandler
  <2>. QED
    BY <1>6, <1>7, <2>1, SameSignalsInv DEF TypeOK, Alive, SameWork
<1>9. CASE h \in Once
  <2>1. PICK l \in handles : l.h = h /\ RemoveHandler(l, Calls(h))
    BY <1>9 DEF CallHandler
  <2>2. runs' = [runs EXCEPT ![h] = @ + 1] /\ runs \in [Once -> Nat]
    BY <1>9 DEF CallHandler, TypeOK
  <2>3. runs' \in [Once -> Nat] /\ \A x \in Once : x # l.h => runs'[x] = runs[x]
    BY <1>9, <2>1, <2>2
  <2>. QED
    BY <1>6, <1>7, <2>1, <2>3, RemoveHandlerInv
<1>. QED
  BY <1>8, <1>9

(* The end of di_signal_remove_handler finds its handler counted.            *)
LEMMA RemovedFacts ==
    ASSUME Inv, HandlerRemoved
    PROVE  /\ Top.sig \in Sig /\ stack' = Front(stack) /\ stack' \in Seq(Frame) /\ Shaped(stack')
           /\ nhandlers[Top.sig] > 0
           /\ nhandlers[Top.sig] - 1 >= Len(handlers[Top.sig])
           /\ \A x : Count(x, stack) = Count(x, stack') + IF x = Top.sig THEN 1 ELSE 0
           /\ \A x : Count(x, stack') \in Nat
<1>. USE DEF Inv
<1>1. stack \in Seq(Frame) /\ stack # <<>> /\ stack' = Front(stack) /\ Top.op = "remove"
  BY DEF HandlerRemoved, Running, TypeOK
<1>2. /\ stack' \in Seq(Frame) /\ Shaped(stack') /\ Top.sig \in Sig
      /\ \A x : Count(x, stack) = Count(x, stack') + IF x = Top.sig THEN 1 ELSE 0
  BY <1>1, PopFrame
<1>3. \A x : Count(x, stack') \in Nat
  BY <1>2, CountNat
<1>4. /\ nhandlers[Top.sig] = Len(handlers[Top.sig]) + twice[Top.sig] + Count(Top.sig, stack)
      /\ Len(handlers[Top.sig]) \in Nat /\ twice[Top.sig] \in Nat
  BY <1>2 DEF Listed, TypeOK
<1>5. Count(Top.sig, stack) = Count(Top.sig, stack') + 1 /\ Count(Top.sig, stack') \in Nat
  BY <1>2, <1>3
<1>. QED
  BY <1>1, <1>2, <1>3, <1>4, <1>5

LEMMA HandlerRemovedInv ==
    ASSUME Inv, HandlerRemoved
    PROVE  Inv'
<1>. USE DEF Inv
<1>1. PICK s \in Sig : s = Top.sig
  BY RemovedFacts
<1>. DEFINE n == [nhandlers EXCEPT ![s] = @ - 1]
<1>2. /\ signal' = IF nhandlers[s] = 1 /\ source = "live" THEN NoSig ELSE signal
      /\ SetSignals(handlers, n, twice) /\ UNCHANGED <<source, dtor, handles, runs>>
  BY <1>1 DEF HandlerRemoved
<1>3. /\ handlers \in [Sig -> Seq(Handler)] /\ nhandlers \in [Sig -> Nat] /\ twice \in [Sig -> Nat]
  BY DEF TypeOK
<1>4. /\ nhandlers[s] > 0 /\ stack' \in Seq(Frame) /\ Shaped(stack')
      /\ \A x : Count(x, stack) = Count(x, stack') + IF x = s THEN 1 ELSE 0
      /\ \A x : Count(x, stack') \in Nat
  BY <1>1, RemovedFacts
<1>5. /\ n \in [Sig -> Nat] /\ n[s] = nhandlers[s] - 1
      /\ \A x \in Sig : x # s => n[x] = nhandlers[x]
  BY <1>3, <1>4
<1>. HIDE DEF n
<1>6. Listed(handlers, n, twice, stack')
  <2>1. ASSUME NEW x \in Sig
        PROVE  n[x] = Len(handlers[x]) + twice[x] + Count(x, stack')
    <3>1. /\ nhandlers[x] = Len(handlers[x]) + twice[x] + Count(x, stack)
          /\ Len(handlers[x]) \in Nat /\ twice[x] \in Nat
          /\ Count(x, stack) = Count(x, stack') + IF x = s THEN 1 ELSE 0
          /\ Count(x, stack') \in Nat
      BY <1>3, <1>4 DEF Listed
    <3>. HIDE DEF Inv
    <3>2. CASE x = s
      <4>1. n[x] = nhandlers[x] - 1 /\ Count(x, stack) = Count(x, stack') + 1
        BY <1>5, <3>1, <3>2
      <4>. QED
        BY <3>1, <4>1
    <3>3. CASE x # s
      <4>1. n[x] = nhandlers[x] /\ Count(x, stack) = Count(x, stack')
        BY <1>5, <3>1, <3>3
      <4>. QED
        BY <3>1, <4>1
    <3>. QED
      BY <3>2, <3>3
  <2>. QED
    BY <2>1 DEF Listed
<1>7. OnceListed(handlers, handles', runs')
  BY <1>2 DEF OnceListed
<1>8. Used(source', signal', n)
  <2>1. CASE signal' = NoSig
    BY <2>1 DEF Used
  <2>2. CASE signal' # NoSig
    <3>1. signal' = signal /\ signal \in Sig /\ ~(nhandlers[s] = 1 /\ source = "live")
      BY <1>2, <2>2 DEF TypeOK
    <3>2. ASSUME source = "live" PROVE n[signal] > 0
      <4>1. nhandlers[signal] > 0 /\ nhandlers[signal] \in Nat /\ nhandlers[s] # 1
        BY <1>3, <2>2, <3>1, <3>2 DEF Used
      <4>2. CASE signal = s
        BY <1>5, <4>1, <4>2
      <4>3. CASE signal # s
        BY <1>5, <3>1, <4>1, <4>3
      <4>. QED
        BY <4>2, <4>3
    <3>. QED
      BY <1>2, <3>1, <3>2 DEF Used
  <2>. QED
    BY <2>1, <2>2
<1>9. /\ signal' \in Sig \cup {NoSig} /\ source' \in {"live", "dying", "dead"} /\ dtor' \in BOOLEAN
      /\ handles' \subseteq Handle /\ runs' \in [Once -> Nat]
  BY <1>2 DEF TypeOK
<1>. QED
  BY <1>2, <1>3, <1>4, <1>5, <1>6, <1>7, <1>8, <1>9, SettledInv

LEMMA ReturnInv ==
    ASSUME Inv, HandlerReturns \/ EmitEnds \/ SourceFinalized
    PROVE  Inv'
<1>. USE DEF Inv
<1>1. /\ stack \in Seq(Frame) /\ stack # <<>> /\ stack' = Front(stack) /\ Top.op # "remove"
  BY DEF HandlerReturns, EmitEnds, SourceFinalized, Running, TypeOK
<1>2. /\ stack' \in Seq(Frame) /\ Shaped(stack')
      /\ \A s, sig : AliveIn(s, sig, stack) <=>
           AliveIn(s, sig, stack') \/ (Top.op \in {"emit", "remove"} /\ Top.sig = s)
      /\ \A s : Count(s, stack') = Count(s, stack)
  <2>1. /\ Front(stack) \in Seq(Frame)
        /\ \A x, sig : AliveIn(x, sig, stack) <=>
             AliveIn(x, sig, Front(stack)) \/ (Top.op \in {"emit", "remove"} /\ Top.sig = x)
        /\ \A x : Count(x, stack) =
             Count(x, Front(stack)) + IF Top.op = "remove" /\ Top.sig = x THEN 1 ELSE 0
        /\ Shaped(Front(stack))
    BY <1>1, PopFrame
  <2>2. \A x : Count(x, Front(stack)) \in Nat
    BY <2>1, CountNat
  <2>. QED
    BY <1>1, <2>1, <2>2
<1>3. CASE HandlerReturns
  <2>1. Top.op \notin {"emit", "remove"} /\ UNCHANGED <<source, dtor, sigVars, handles, runs>>
    BY <1>3 DEF HandlerReturns, Running
  <2>. QED
    BY <1>2, <2>1, SameSignalsInv DEF TypeOK, Alive
<1>4. CASE EmitEnds
  <2>1. /\ SetSignals(handlers, nhandlers, twice) /\ UNCHANGED <<source, dtor, signal, handles, runs>>
    BY <1>4 DEF EmitEnds
  <2>. QED
    BY <1>2, <2>1, SameHandlersInv DEF TypeOK
<1>5. CASE SourceFinalized
  <2>1. /\ SetSignals(handlers, nhandlers, twice) /\ signal' = NoSig
        /\ UNCHANGED <<dtor, handles, runs>> /\ source' \in {"dead", source}
    BY <1>5 DEF SourceFinalized
  <2>2. Used(source', signal', nhandlers)
    BY <2>1 DEF Used
  <2>. QED
    BY <1>2, <2>1, <2>2, SameHandlersInv DEF TypeOK
<1>. QED
  BY <1>3, <1>4, <1>5

LEMMA StepInv ==
    ASSUME Inv, [Next]_vars
    PROVE  Inv'
<1>1. CASE Next
  BY <1>1, ListenInv, HandleInv, UserInv, CallHandlerInv, HandlerRemovedInv, ReturnInv
  DEF Next, User, System
<1>2. CASE UNCHANGED vars
  BY <1>2, SameSignalsInv DEF Inv, vars, TypeOK, Alive
<1>. QED
  BY <1>1, <1>2

-----------------------------------------------------------------------------
(* Theorems.                                                                 *)

(* What the operations of signals and listen handles keep true together.     *)
THEOREM Invariant == Spec => []Inv
<1>1. Init => Inv
  BY InitInv
<1>2. Inv /\ [Next]_vars => Inv'
  BY StepInv
<1>. QED
  BY <1>1, <1>2, PTL DEF Spec

(* The variables keep their types.                                           *)
THEOREM TypesKept == Spec => []TypeOK
<1>1. Inv => TypeOK
  BY DEF Inv
<1>. QED
  BY <1>1, Invariant, PTL

(* nhandlers is never behind the handlers that di_signal_dispatch copies     *)
(* into the array it sizes by it, and ahead of them by no more than those    *)
(* that were added twice and those whose removal has not ended.              *)
THEOREM HandlersAreCounted == Spec => []HandlersCounted
<1>1. Inv => HandlersCounted
  BY DEF Inv, Listed, HandlersCounted, Count
<1>. QED
  BY <1>1, Invariant, PTL

(* A signal object goes with its last handler (di_signal_remove_handler),    *)
(* whatever destructors of handlers do before it is counted out.             *)
THEOREM SignalsAreListened == Spec => []SignalListened
<1>1. ASSUME Inv, source = "live", signal # NoSig, twice[signal] = 0, Removing(signal, stack) = {}
      PROVE  handlers[signal] # <<>>
  <2>1. signal \in Sig /\ nhandlers[signal] > 0
    BY <1>1 DEF Inv, TypeOK, Used
  <2>2. Count(signal, stack) = 0
    BY <1>1, FS_EmptySet DEF Count
  <2>3. nhandlers[signal] = Len(handlers[signal]) + twice[signal] + Count(signal, stack)
    BY <1>1, <2>1 DEF Inv, Listed
  <2>. QED
    BY <1>1, <2>1, <2>2, <2>3 DEF Inv, TypeOK
<1>2. Inv => SignalListened
  BY <1>1 DEF SignalListened
<1>. QED
  BY <1>2, Invariant, PTL

(* The callback of `once' does not listen any more once it has been called,  *)
(* whatever it and other handlers do (call_lua_signal_handler_once).         *)
THEOREM OnceIsStopped == Spec => []OnceStopped
<1>1. ASSUME Inv, NEW h \in Once, runs[h] > 0
      PROVE  h \notin Listening
  <2>1. \A s \in Sig : ~In(h, handlers[s])
    <3>1. runs[h] # 0
      BY <1>1
    <3>. QED
      BY <1>1, <3>1 DEF Inv, OnceListed
  <2>. QED
    BY <1>1, <2>1, InToSet DEF Listening, Inv, TypeOK
<1>2. Inv => OnceStopped
  BY <1>1 DEF OnceStopped
<1>. QED
  BY <1>2, Invariant, PTL

LEMMA StopExact ==
    ASSUME Inv, NEW l \in Handle, Stop(l), l.sig = signal
    PROVE  Listening' = Listening \ {l.h}
<1>. USE DEF Inv
<1>1. /\ l.sig \in Sig /\ signal \in Sig /\ signal # NoSig /\ Alive(l.sig)
      /\ RemoveHandler(l, AfterOp) /\ signal' = signal
  BY SignalAssumption DEF Handle, Stop, Alive, AliveIn, RemoveHandler
<1>. DEFINE list == handlers[signal]
<1>2. list \in Seq(Handler) /\ Distinct(list) /\ handlers \in [Sig -> Seq(Handler)]
  BY <1>1 DEF TypeOK, Listed
<1>3. CASE In(l.h, list)
  <2>1. handlers'[signal] = Without(list, l.h)
    BY <1>1, <1>2, <1>3, InToSet DEF RemoveHandler
  <2>2. \A x : In(x, Without(list, l.h)) <=> In(x, list) /\ x # l.h
    BY <1>2, <1>3, WithoutFacts
  <2>3. ToSet(handlers'[signal]) = ToSet(list) \ {l.h}
    BY <2>1, <2>2, InToSet
  <2>. QED
    BY <1>1, <2>3 DEF Listening
<1>4. CASE ~In(l.h, list)
  <2>1. handlers' = handlers /\ l.h \notin ToSet(list)
    BY <1>1, <1>4, InToSet DEF RemoveHandler
  <2>. QED
    BY <1>1, <2>1 DEF Listening
<1>. QED
  BY <1>3, <1>4

LEMMA RemovedStopsNobody ==
    ASSUME Inv, HandlerRemoved, Top.sig = signal
    PROVE  Listening' = Listening
<1>1. /\ signal \in Sig /\ signal # NoSig
      /\ nhandlers[signal] - 1 >= Len(handlers[signal])
      /\ signal' = IF nhandlers[signal] = 1 /\ source = "live" THEN NoSig ELSE signal
      /\ SetSignals(handlers, [nhandlers EXCEPT ![Top.sig] = @ - 1], twice)
      /\ handlers[signal] \in Seq(Handler)
  BY RemovedFacts, SignalAssumption DEF HandlerRemoved, Inv, TypeOK
<1>2. CASE signal' = NoSig
  <2>1. Len(handlers[signal]) <= 0
    BY <1>1, <1>2
  <2>2. ToSet(handlers[signal]) = {}
    BY <1>1, <2>1 DEF ToSet
  <2>. QED
    BY <1>1, <1>2, <2>2 DEF Listening
<1>3. CASE signal' = signal
  <2>1. handlers'[signal] = handlers[signal]
    BY <1>1, <1>3 DEF SetSignals, AliveIn
  <2>. QED
    BY <1>1, <1>3, <2>1 DEF Listening
<1>. QED
  BY <1>1, <1>2, <1>3

(* Stopping a listener of the signal stops that one and no other, also when  *)
(* handlers listen twice, from inside any emission, during destruction, and  *)
(* when the destructor of the handler uses the signal meanwhile.             *)
THEOREM StoppingIsExact == Spec => StopIsExact
<1>1. Inv => [/\ \A l \in Handle :
                   Stop(l) /\ l.sig = signal => Listening' = Listening \ {l.h}
              /\ HandlerRemoved /\ Top.sig = signal => Listening' = Listening]_vars
  BY StopExact, RemovedStopsNobody
<1>. QED
  BY <1>1, Invariant, PTL DEF StopIsExact
=============================================================================
