--------------------------- MODULE ObjectGCProofs ---------------------------
(***************************************************************************)
(* Proofs about the heap of ObjectGC, for any number of objects, members   *)
(* and references: first that the counts, the lists and the stack are      *)
(* right (IInv), then, from `The collector' on, that the collector is      *)
(* (CInv).                                                                 *)
(***************************************************************************)
EXTENDS ObjectGC, FiniteSetTheorems, SequenceTheorems, WellFoundedInduction, TLAPS

-----------------------------------------------------------------------------
(* The stack.                                                                *)

(* t is s with another k in the top frame.                                   *)
Edited(s, t) ==
    /\ t \in Seq(Frame)
    /\ Len(t) = Len(s)
    /\ DOMAIN t = DOMAIN s
    /\ \A i \in DOMAIN s : /\ t[i].op = s[i].op
                           /\ t[i].o = s[i].o
                           /\ t[i].st = s[i].st
                           /\ i # Len(s) => t[i].k = s[i].k

LEMMA TopEdit ==
    ASSUME NEW s \in Seq(Frame), Len(s) > 0, NEW n \in Nat,
           NEW t, t = [s EXCEPT ![Len(s)].k = n]
    PROVE  Edited(s, t) /\ t[Len(s)].k = n
<1>1. s[Len(s)] \in Frame
  OBVIOUS
<1>2. [s[Len(s)] EXCEPT !.k = n] \in Frame
  BY <1>1 DEF Frame
<1>3. t = [s EXCEPT ![Len(s)] = [s[Len(s)] EXCEPT !.k = n]]
  OBVIOUS
<1>4. t \in Seq(Frame) /\ Len(t) = Len(s)
  BY <1>2, <1>3, ExceptSeq
<1>5. \A i \in DOMAIN s : t[i] = IF i = Len(s) THEN [s[Len(s)] EXCEPT !.k = n] ELSE s[i]
  BY <1>3
<1>6. \A i \in DOMAIN s : s[i] \in Frame
  OBVIOUS
<1>. QED
  BY <1>4, <1>5, <1>6 DEF Frame, Edited

(* The frames that hold a reference to an object, and how many there are.    *)
LEMMA HoldersFinite ==
    ASSUME NEW s \in Seq(Frame), NEW o
    PROVE  /\ IsFiniteSet(HoldersIn(s, o))
           /\ Cardinality(HoldersIn(s, o)) \in Nat
<1>1. IsFiniteSet(1 .. Len(s))
  BY FS_Interval
<1>2. HoldersIn(s, o) \subseteq 1 .. Len(s)
  BY DEF HoldersIn
<1>. QED
  BY <1>1, <1>2, FS_Subset, FS_CardinalityType

LEMMA HoldersEdit ==
    ASSUME NEW s, NEW t, Edited(s, t), NEW o
    PROVE  HoldersIn(t, o) = HoldersIn(s, o)
  BY DEF HoldersIn, Holds, Edited

LEMMA HoldersPush ==
    ASSUME NEW s \in Seq(Frame), NEW f \in Frame, NEW o
    PROVE  Cardinality(HoldersIn(Append(s, f), o)) =
             Cardinality(HoldersIn(s, o)) + (IF f.o = o /\ Holds(f) THEN 1 ELSE 0)
<1>. DEFINE t == Append(s, f)
<1>1. /\ DOMAIN t = 1 .. Len(s) + 1
      /\ \A i \in 1 .. Len(s) : t[i] = s[i]
      /\ t[Len(s) + 1] = f
  OBVIOUS
<1>2. CASE f.o = o /\ Holds(f)
  <2>1. HoldersIn(t, o) = HoldersIn(s, o) \cup {Len(s) + 1}
    BY <1>1, <1>2 DEF HoldersIn
  <2>2. Len(s) + 1 \notin HoldersIn(s, o)
    BY DEF HoldersIn
  <2>. QED
    BY <1>2, <2>1, <2>2, HoldersFinite, FS_AddElement
<1>3. CASE ~(f.o = o /\ Holds(f))
  <2>1. HoldersIn(t, o) = HoldersIn(s, o)
    BY <1>1, <1>3 DEF HoldersIn
  <2>. QED
    BY <1>3, <2>1, HoldersFinite
<1>. QED
  BY <1>2, <1>3

LEMMA PopSeq ==
    ASSUME NEW F, NEW s \in Seq(F), NEW n \in Nat, n = Len(s) - 1
    PROVE  /\ SubSeq(s, 1, n) \in Seq(F)
           /\ Len(SubSeq(s, 1, n)) = n
           /\ \A i \in 1 .. n : SubSeq(s, 1, n)[i] = s[i]
           /\ s = Append(SubSeq(s, 1, n), s[Len(s)])
<1>1. SubSeq(s, 1, n) \in Seq(F)
  OBVIOUS
<1>2. Len(SubSeq(s, 1, n)) = n
  OBVIOUS
<1>3. \A i \in 1 .. n : SubSeq(s, 1, n)[i] = s[i]
  OBVIOUS
<1>4. s = Append(SubSeq(s, 1, n), s[Len(s)])
  OBVIOUS
<1>. QED
  BY <1>1, <1>2, <1>3, <1>4

LEMMA PopPush ==
    ASSUME NEW s \in Seq(Frame), Len(s) > 0
    PROVE  /\ Pop(s) \in Seq(Frame)
           /\ Len(Pop(s)) = Len(s) - 1
           /\ s[Len(s)] \in Frame
           /\ \A i \in 1 .. Len(s) - 1 : Pop(s)[i] = s[i]
           /\ s = Append(Pop(s), s[Len(s)])
<1>1. Len(s) - 1 \in Nat /\ s[Len(s)] \in Frame
  OBVIOUS
<1>. QED
  BY <1>1, PopSeq DEF Pop

LEMMA HoldersPop ==
    ASSUME NEW s \in Seq(Frame), Len(s) > 0, NEW o
    PROVE  Cardinality(HoldersIn(s, o)) = Cardinality(HoldersIn(Pop(s), o))
             + (IF s[Len(s)].o = o /\ Holds(s[Len(s)]) THEN 1 ELSE 0)
<1>1. Pop(s) \in Seq(Frame) /\ s[Len(s)] \in Frame /\ s = Append(Pop(s), s[Len(s)])
  BY PopPush
<1>2. Cardinality(HoldersIn(Append(Pop(s), s[Len(s)]), o)) =
        Cardinality(HoldersIn(Pop(s), o))
          + (IF s[Len(s)].o = o /\ Holds(s[Len(s)]) THEN 1 ELSE 0)
  BY <1>1, HoldersPush
<1>. QED
  BY <1>1, <1>2

-----------------------------------------------------------------------------
(* The members.                                                              *)

LEMMA EdgesFinite ==
    ASSUME NEW m, NEW o
    PROVE  /\ IsFiniteSet(EdgesTo(m, o))
           /\ Cardinality(EdgesTo(m, o)) \in Nat
<1>1. IsFiniteSet(Slot)
  BY HeapAssumption, FS_Interval DEF Slot
<1>2. IsFiniteSet(Obj \X Slot)
  BY <1>1, HeapAssumption, FS_Product
<1>3. EdgesTo(m, o) \subseteq Obj \X Slot
  BY DEF EdgesTo
<1>. QED
  BY <1>2, <1>3, FS_Subset, FS_CardinalityType

Write(m, p, k, v) == [m EXCEPT ![p][k] = v]
Count(m, o) == Cardinality(EdgesTo(m, o))
Table == [Obj -> [Slot -> Obj \cup {NoObj}]]

LEMMA CountNat ==
    ASSUME NEW m, NEW o
    PROVE  Count(m, o) \in Nat
  BY EdgesFinite DEF Count

(* Writing one slot moves one reference from the old object to the new one.  *)
LEMMA EdgesWrite ==
    ASSUME NEW m \in Table, NEW p \in Obj, NEW k \in Slot,
           NEW v \in Obj \cup {NoObj}, NEW o \in Obj
    PROVE  /\ Write(m, p, k, v) \in Table
           /\ Count(Write(m, p, k, v), o) = Count(m, o)
                + (IF v = o THEN 1 ELSE 0) - (IF m[p][k] = o THEN 1 ELSE 0)
<1>. DEFINE n == [m EXCEPT ![p][k] = v]
<1>1. n \in Table
  BY DEF Table
<1>2. /\ n[p][k] = v
      /\ \A e \in Obj \X Slot : e # <<p, k>> => n[e[1]][e[2]] = m[e[1]][e[2]]
  BY DEF Table
<1>3. <<p, k>> \in Obj \X Slot
  OBVIOUS
<1>. DEFINE A == EdgesTo(m, o) \ {<<p, k>>}
<1>4. IsFiniteSet(A) /\ <<p, k>> \notin A /\ Cardinality(A) \in Nat
  BY EdgesFinite, FS_Subset, FS_CardinalityType
<1>5. EdgesTo(m, o) = IF m[p][k] = o THEN A \cup {<<p, k>>} ELSE A
  BY <1>3 DEF EdgesTo
<1>6. EdgesTo(n, o) = IF v = o THEN A \cup {<<p, k>>} ELSE A
  BY <1>2, <1>3 DEF EdgesTo
<1>. HIDE DEF A, n
<1>7. Cardinality(A \cup {<<p, k>>}) = Cardinality(A) + 1
  BY <1>4, FS_AddElement
<1>8. Cardinality(EdgesTo(m, o)) = Cardinality(A) + (IF m[p][k] = o THEN 1 ELSE 0)
  BY <1>4, <1>5, <1>7
<1>9. Cardinality(EdgesTo(n, o)) = Cardinality(A) + (IF v = o THEN 1 ELSE 0)
  BY <1>4, <1>6, <1>7
<1>. DEFINE cm == Cardinality(EdgesTo(m, o))
            cn == Cardinality(EdgesTo(n, o))
            ca == Cardinality(A)
            dv == IF v = o THEN 1 ELSE 0
            dm == IF m[p][k] = o THEN 1 ELSE 0
<1>10. ca \in Nat /\ cm = ca + dm /\ cn = ca + dv /\ dv \in Nat /\ dm \in Nat
  BY <1>4, <1>8, <1>9
<1>11. cn = cm + dv - dm
  <2>. HIDE DEF cm, cn, ca, dv, dm
  <2>. QED
    BY <1>10
<1>. QED
  BY <1>1, <1>11 DEF n, Write, Count

LEMMA EdgesClear ==
    ASSUME NEW m \in Table, NEW p \in Obj, NEW k \in Slot, NEW o \in Obj, m[p][k] = o
    PROVE  /\ Write(m, p, k, NoObj) \in Table
           /\ \A x \in Obj : Count(Write(m, p, k, NoObj), x) =
                IF x = o THEN Count(m, x) - 1 ELSE Count(m, x)
<1>1. ASSUME NEW x \in Obj
      PROVE  /\ Write(m, p, k, NoObj) \in Table
             /\ Count(Write(m, p, k, NoObj), x) = Count(m, x)
                  + (IF NoObj = x THEN 1 ELSE 0) - (IF m[p][k] = x THEN 1 ELSE 0)
  BY EdgesWrite
<1>2. \A x \in Obj : Count(m, x) \in Nat /\ NoObj # x
  BY CountNat, HeapAssumption
<1>. QED
  BY <1>1, <1>2

LEMMA EdgesFill ==
    ASSUME NEW m \in Table, NEW p \in Obj, NEW k \in Slot, NEW o \in Obj,
           m[p][k] = NoObj
    PROVE  /\ Write(m, p, k, o) \in Table
           /\ \A x \in Obj : Count(Write(m, p, k, o), x) =
                IF x = o THEN Count(m, x) + 1 ELSE Count(m, x)
<1>1. ASSUME NEW x \in Obj
      PROVE  /\ Write(m, p, k, o) \in Table
             /\ Count(Write(m, p, k, o), x) = Count(m, x)
                  + (IF o = x THEN 1 ELSE 0) - (IF m[p][k] = x THEN 1 ELSE 0)
  BY EdgesWrite
<1>2. \A x \in Obj : Count(m, x) \in Nat /\ NoObj # x
  BY CountNat, HeapAssumption
<1>. QED
  BY <1>1, <1>2

(* Replacing an object in a slot is clearing the slot and filling it.        *)
LEMMA EdgesReplace ==
    ASSUME NEW m \in Table, NEW p \in Obj, NEW k \in Slot, NEW o \in Obj,
           m[p][k] = o, NEW n \in Obj
    PROVE  /\ Write(m, p, k, n) \in Table
           /\ \A x \in Obj : Count(Write(m, p, k, n), x) =
                IF n = o THEN Count(m, x)
                ELSE IF x = o THEN Count(m, x) - 1
                ELSE IF x = n THEN Count(m, x) + 1 ELSE Count(m, x)
<1>. DEFINE q == Write(m, p, k, NoObj)
<1>1. /\ q \in Table
      /\ \A x \in Obj : Count(q, x) = IF x = o THEN Count(m, x) - 1 ELSE Count(m, x)
  BY EdgesClear
<1>2. q[p][k] = NoObj /\ Write(q, p, k, n) = Write(m, p, k, n)
  BY DEF Write, Table
<1>. HIDE DEF q
<1>3. /\ Write(q, p, k, n) \in Table
      /\ \A x \in Obj : Count(Write(q, p, k, n), x) =
           IF x = n THEN Count(q, x) + 1 ELSE Count(q, x)
  BY <1>1, <1>2, EdgesFill
<1>4. \A x \in Obj : Count(m, x) \in Nat
  BY CountNat
<1>. QED
  BY <1>1, <1>2, <1>3, <1>4

-----------------------------------------------------------------------------
(* The intrusive lists.                                                      *)

LEMMA WithoutType ==
    ASSUME NEW list \in Seq(Obj), NEW o
    PROVE  Without(list, o) \in Seq(Obj)
<1>1. CASE InList(list, o)
  <2>. DEFINE i == Position(list, o)
  <2>1. i \in 1 .. Len(list)
    BY <1>1 DEF InList, Position
  <2>. HIDE DEF i
  <2>2. SubSeq(list, 1, i - 1) \in Seq(Obj)
    BY <2>1
  <2>3. SubSeq(list, i + 1, Len(list)) \in Seq(Obj)
    BY <2>1
  <2>4. SubSeq(list, 1, i - 1) \o SubSeq(list, i + 1, Len(list)) \in Seq(Obj)
    BY <2>2, <2>3
  <2>. QED
    BY <1>1, <2>4 DEF Without, i
<1>. QED
  BY <1>1 DEF Without

LEMMA PrependType ==
    ASSUME NEW list \in Seq(Obj), NEW o \in Obj
    PROVE  <<o>> \o list \in Seq(Obj)
<1>1. <<o>> \in Seq(Obj)
  OBVIOUS
<1>. QED
  BY <1>1

-----------------------------------------------------------------------------
(* Stacks outside marking and scanning: StackSound for a stack, states and   *)
(* members that need not be the current ones.                                *)

Shape(s, sta, mem) ==
    \A i \in DOMAIN s :
        /\ s[i].op \in {"collect", "fin", "dtor", "set", "value"}
        /\ Destroys(s[i]) =>
             /\ sta[s[i].o] = "dying"
             /\ \A k \in Slot : k < s[i].k => mem[s[i].o][k] = NoObj
             /\ \A j \in DOMAIN s : Destroys(s[j]) /\ s[j].o = s[i].o => j = i
        /\ Linked(s, mem, i)

LEMMA ShapeOfStack ==
    ASSUME TypeOK, StackSound, gc \in {"idle", "collect"}
    PROVE  Shape(stack, state, members)
<1>1. stack \in Seq(Frame)
  BY DEF TypeOK
<1>2. \A i \in DOMAIN stack : stack[i] \in Frame
  BY <1>1
<1>3. \A i \in DOMAIN stack :
        stack[i].op \in {"mark", "scan", "collect", "fin", "dtor", "set", "value"}
  BY <1>2 DEF Frame
<1>. QED
  BY <1>3 DEF StackSound, Shape

LEMMA ShapeEdit ==
    ASSUME NEW s \in Seq(Frame), NEW t, NEW sta, NEW mem, Shape(s, sta, mem), Edited(s, t),
           s[Len(s)].op # "set",
           Destroys(s[Len(s)]) =>
               \A k \in Slot : k < t[Len(s)].k => mem[s[Len(s)].o][k] = NoObj
    PROVE  Shape(t, sta, mem)
<1>1. \A i \in DOMAIN s : Destroys(t[i]) <=> Destroys(s[i])
  BY DEF Destroys, Edited
<1>2. DOMAIN s = 1 .. Len(s) /\ Len(s) \in Nat /\ DOMAIN t = DOMAIN s
  BY DEF Edited
<1>. SUFFICES ASSUME NEW i \in DOMAIN t
              PROVE  /\ t[i].op \in {"collect", "fin", "dtor", "set", "value"}
                     /\ Destroys(t[i]) =>
                          /\ sta[t[i].o] = "dying"
                          /\ \A k \in Slot : k < t[i].k => mem[t[i].o][k] = NoObj
                          /\ \A j \in DOMAIN t :
                               Destroys(t[j]) /\ t[j].o = t[i].o => j = i
                     /\ Linked(t, mem, i)
  BY DEF Shape
<1>3. /\ t[i].op = s[i].op /\ t[i].o = s[i].o
      /\ i # Len(s) => t[i].k = s[i].k
      /\ i > 1 => i - 1 \in DOMAIN s /\ i - 1 # Len(s)
  BY <1>2 DEF Edited
<1>4. /\ s[i].op \in {"collect", "fin", "dtor", "set", "value"}
      /\ Destroys(s[i]) =>
           /\ sta[s[i].o] = "dying"
           /\ \A k \in Slot : k < s[i].k => mem[s[i].o][k] = NoObj
           /\ \A j \in DOMAIN s : Destroys(s[j]) /\ s[j].o = s[i].o => j = i
      /\ Linked(s, mem, i)
  BY <1>2 DEF Shape
<1>5. Destroys(t[i]) =>
        /\ sta[t[i].o] = "dying"
        /\ \A k \in Slot : k < t[i].k => mem[t[i].o][k] = NoObj
        /\ \A j \in DOMAIN t : Destroys(t[j]) /\ t[j].o = t[i].o => j = i
  <2>1. \A j \in DOMAIN t : t[j].o = s[j].o /\ (Destroys(t[j]) <=> Destroys(s[j]))
    BY <1>1, <1>2 DEF Edited
  <2>. QED
    BY <1>2, <1>3, <1>4, <2>1
<1>6. Linked(t, mem, i)
  <2>1. ASSUME i > 1
        PROVE  t[i - 1].op = s[i - 1].op /\ t[i - 1].o = s[i - 1].o /\ t[i - 1].k = s[i - 1].k
    BY <1>3, <2>1 DEF Edited
  <2>2. \A j \in DOMAIN s : s[j].op = "set" => t[j].k = s[j].k
    BY DEF Edited
  <2>3. \A j \in DOMAIN s : t[j].op = s[j].op /\ t[j].o = s[j].o
    BY DEF Edited
  <2>. QED
    BY <1>2, <1>3, <1>4, <2>1, <2>2, <2>3 DEF Linked
<1>. QED
  BY <1>3, <1>4, <1>5, <1>6

LEMMA ShapePush ==
    ASSUME NEW s \in Seq(Frame), NEW f \in Frame, NEW sta, NEW mem,
           Shape(s, sta, mem), f.op \in {"collect", "fin", "dtor", "set", "value"},
           ~Destroys(f), Linked(Append(s, f), mem, Len(s) + 1)
    PROVE  Shape(Append(s, f), sta, mem)
<1>. DEFINE t == Append(s, f)
<1>1. /\ DOMAIN t = 1 .. Len(s) + 1
      /\ \A i \in 1 .. Len(s) : t[i] = s[i]
      /\ t[Len(s) + 1] = f
      /\ DOMAIN s = 1 .. Len(s)
      /\ Len(s) \in Nat
  OBVIOUS
<1>2. Linked(t, mem, Len(s) + 1)
  OBVIOUS
<1>. HIDE DEF t
<1>3. ASSUME NEW i \in DOMAIN s
      PROVE  Linked(t, mem, i)
  <2>1. Linked(s, mem, i) /\ t[i] = s[i] /\ i \in DOMAIN t /\ i # Len(s) + 1
    BY <1>1 DEF Shape
  <2>2. i > 1 => t[i - 1] = s[i - 1]
    BY <1>1
  <2>3. ASSUME s[i].op = "set", NEW j \in DOMAIN t,
               t[j].op = "set", t[j].o = s[i].o, t[j].k = s[i].k
        PROVE  j = i
    <3>1. CASE j \in DOMAIN s
      <4>1. s[j].op = "set" /\ s[j].o = s[i].o /\ s[j].k = s[i].k
        BY <1>1, <2>3, <3>1
      <4>. QED
        BY <2>1, <2>3, <3>1, <4>1 DEF Linked
    <3>2. CASE j = Len(s) + 1
      BY <1>2, <2>1, <2>3, <3>2 DEF Linked
    <3>. QED
      BY <1>1, <3>1, <3>2
  <2>. QED
    BY <2>1, <2>2, <2>3 DEF Linked
<1>4. Shape(t, sta, mem)
  BY <1>1, <1>2, <1>3 DEF Shape
<1>. QED
  BY <1>4 DEF t

(* A live object starts to be destroyed.                                     *)
LEMMA ShapeDestroy ==
    ASSUME NEW s \in Seq(Frame), NEW o \in Obj,
           NEW sta \in [Obj -> {"free", "live", "dying", "zombie"}], NEW mem,
           Shape(s, sta, mem), sta[o] = "live"
    PROVE  Shape(Append(s, [op |-> "fin", o |-> o, k |-> 0, st |-> 0]),
                 [sta EXCEPT ![o] = "dying"], mem)
<1>. DEFINE f == [op |-> "fin", o |-> o, k |-> 0, st |-> 0]
            t == Append(s, f)
            sta2 == [sta EXCEPT ![o] = "dying"]
<1>1. /\ DOMAIN t = 1 .. Len(s) + 1
      /\ \A i \in 1 .. Len(s) : t[i] = s[i]
      /\ t[Len(s) + 1] = f
      /\ DOMAIN s = 1 .. Len(s)
      /\ Len(s) \in Nat
  OBVIOUS
<1>2. f.op = "fin" /\ f.o = o /\ f.k = 0 /\ f.st = 0
  OBVIOUS
<1>3. \A k \in Slot : ~(k < 0)
  BY HeapAssumption DEF Slot
<1>4. \A i \in DOMAIN s : Destroys(s[i]) => s[i].o # o
  BY DEF Shape
<1>5. sta2[o] = "dying" /\ \A x : x # o => sta2[x] = sta[x]
  OBVIOUS
<1>. HIDE DEF t, f, sta2
<1>6. \A i \in DOMAIN t : Linked(t, mem, i)
  <2>1. ASSUME NEW i \in DOMAIN s
        PROVE  Linked(t, mem, i)
    <3>1. Linked(s, mem, i) /\ t[i] = s[i] /\ (i > 1 => t[i - 1] = s[i - 1])
      BY <1>1 DEF Shape
    <3>. QED
      BY <1>1, <1>2, <3>1 DEF Linked
  <2>2. Linked(t, mem, Len(s) + 1)
    BY <1>1, <1>2 DEF Linked
  <2>. QED
    BY <1>1, <2>1, <2>2
<1>7. \A i \in DOMAIN s :
        /\ s[i].op \in {"collect", "fin", "dtor", "set", "value"}
        /\ Destroys(s[i]) =>
             /\ sta[s[i].o] = "dying"
             /\ \A k \in Slot : k < s[i].k => mem[s[i].o][k] = NoObj
             /\ \A j \in DOMAIN s : Destroys(s[j]) /\ s[j].o = s[i].o => j = i
  BY DEF Shape
<1>8. ASSUME NEW i \in DOMAIN t
      PROVE  /\ t[i].op \in {"collect", "fin", "dtor", "set", "value"}
             /\ Destroys(t[i]) =>
                  /\ sta2[t[i].o] = "dying"
                  /\ \A k \in Slot : k < t[i].k => mem[t[i].o][k] = NoObj
                  /\ \A j \in DOMAIN t : Destroys(t[j]) /\ t[j].o = t[i].o => j = i
  BY <1>1, <1>2, <1>3, <1>4, <1>5, <1>7 DEF Destroys
<1>9. Shape(t, sta2, mem)
  BY <1>6, <1>8 DEF Shape
<1>. QED
  BY <1>9 DEF t, f, sta2

LEMMA ShapePop ==
    ASSUME NEW s \in Seq(Frame), Len(s) > 0, NEW sta, NEW mem, Shape(s, sta, mem)
    PROVE  Shape(Pop(s), sta, mem)
<1>. DEFINE t == Pop(s)
<1>1. /\ DOMAIN t = 1 .. Len(s) - 1
      /\ \A i \in 1 .. Len(s) - 1 : t[i] = s[i]
      /\ 1 .. Len(s) - 1 \subseteq DOMAIN s
      /\ Len(s) \in Nat
  BY PopPush
<1>. HIDE DEF t
<1>2. ASSUME NEW i \in DOMAIN t
      PROVE  Linked(t, mem, i)
  <2>1. Linked(s, mem, i) /\ t[i] = s[i] /\ (i > 1 => t[i - 1] = s[i - 1])
    BY <1>1 DEF Shape
  <2>. QED
    BY <1>1, <2>1 DEF Linked
<1>3. Shape(t, sta, mem)
  BY <1>1, <1>2 DEF Shape
<1>. QED
  BY <1>3 DEF t

LEMMA ShapeHeap ==
    ASSUME NEW s, NEW sta, NEW mem, NEW sta2, NEW mem2, Shape(s, sta, mem),
           \A i \in DOMAIN s :
               /\ Destroys(s[i]) =>
                    /\ sta2[s[i].o] = "dying"
                    /\ \A k \in Slot : k < s[i].k => mem2[s[i].o][k] = NoObj
               /\ s[i].op = "set" => mem2[s[i].o][s[i].k] = NoObj
    PROVE  Shape(s, sta2, mem2)
<1>1. \A i \in DOMAIN s : Linked(s, mem2, i)
  BY DEF Shape, Linked
<1>. QED
  BY <1>1 DEF Shape

-----------------------------------------------------------------------------
(* The inductive invariant.                                                  *)

HeapInv ==
    /\ TypeOK
    /\ RefCountExact
    /\ WeakCountExact
    /\ DestroyedHoldsNothing
    /\ StackSound

(* Whoever owns a reference keeps the object alive.                          *)
LEMMA Owned ==
    ASSUME TypeOK, RefCountExact, NEW o \in Obj
    PROVE  /\ Held(o) \in Nat /\ Cardinality(InEdges(o)) \in Nat
           /\ ext[o] > 0 => ref_count[o] > 0 /\ state[o] = "live"
           /\ \A p \in Obj, k \in Slot :
                members[p][k] = o => ref_count[o] > 0 /\ state[o] = "live"
           /\ \A i \in DOMAIN stack :
                stack[i].o = o /\ Holds(stack[i]) => ref_count[o] > 0 /\ state[o] = "live"
<1>1. /\ ref_count[o] = ext[o] + Held(o) + Cardinality(InEdges(o))
      /\ state[o] = "live" <=> ref_count[o] > 0
  BY DEF RefCountExact
<1>2. /\ IsFiniteSet(HoldersIn(stack, o)) /\ Held(o) \in Nat
      /\ IsFiniteSet(InEdges(o)) /\ Cardinality(InEdges(o)) \in Nat
      /\ ext[o] \in Nat
  BY HoldersFinite, EdgesFinite DEF Held, InEdges, TypeOK
<1>3. ASSUME NEW p \in Obj, NEW k \in Slot, members[p][k] = o
      PROVE  Cardinality(InEdges(o)) > 0
  <2>1. <<p, k>> \in InEdges(o)
    BY <1>3 DEF InEdges, EdgesTo
  <2>. QED
    BY <2>1, <1>2, FS_EmptySet
<1>4. ASSUME NEW i \in DOMAIN stack, stack[i].o = o, Holds(stack[i])
      PROVE  Held(o) > 0
  <2>1. i \in HoldersIn(stack, o)
    BY <1>4 DEF HoldersIn
  <2>. QED
    BY <2>1, <1>2, FS_EmptySet DEF Held
<1>. QED
  BY <1>1, <1>2, <1>3, <1>4

(* An operation of user code leaves the frames as they are.                  *)
LEMMA UserOp ==
    ASSUME TypeOK, StackSound, UserCode
    PROVE  /\ gc \in {"idle", "collect"}
           /\ AfterOp \in Seq(Frame)
           /\ \A x : HoldersIn(AfterOp, x) = HoldersIn(stack, x)
           /\ Shape(AfterOp, state, members)
           /\ DOMAIN AfterOp = DOMAIN stack
           /\ \A i \in DOMAIN stack :
                /\ AfterOp[i].op = stack[i].op /\ AfterOp[i].o = stack[i].o
                /\ AfterOp[i].st = stack[i].st
                /\ stack[i].op # "dtor" => AfterOp[i].k = stack[i].k
<1>0. stack \in Seq(Frame)
  BY DEF TypeOK
<1>1. CASE stack = <<>>
  <2>1. gc = "idle" /\ AfterOp = stack
    BY <1>1 DEF UserCode, Running, AfterOp
  <2>. QED
    BY <1>0, <2>1, ShapeOfStack
<1>2. CASE stack # <<>>
  <2>1. Len(stack) > 0 /\ stack[Len(stack)].op = "dtor" /\ stack[Len(stack)].k > 0
    BY <1>0, <1>2 DEF UserCode, Running, Top
  <2>2. gc \in {"idle", "collect"} /\ stack[Len(stack)] \in Frame /\ Len(stack) \in DOMAIN stack
    BY <1>0, <2>1 DEF StackSound
  <2>. DEFINE n == stack[Len(stack)].k - 1
  <2>3. n \in Nat
    BY <2>1, <2>2 DEF Frame
  <2>4. AfterOp = [stack EXCEPT ![Len(stack)].k = n]
    BY <1>2 DEF AfterOp
  <2>. HIDE DEF n
  <2>5. Edited(stack, AfterOp)
    BY <1>0, <2>1, <2>3, <2>4, TopEdit
  <2>6. ~Destroys(stack[Len(stack)])
    BY <2>1 DEF Destroys
  <2>7. Shape(AfterOp, state, members)
    BY <1>0, <2>1, <2>2, <2>5, <2>6, ShapeOfStack, ShapeEdit
  <2>8. \A x : HoldersIn(AfterOp, x) = HoldersIn(stack, x)
    BY <2>5, HoldersEdit
  <2>. QED
    BY <2>1, <2>2, <2>5, <2>7, <2>8 DEF Edited
<1>. QED
  BY <1>1, <1>2

(* What di_unref_object does to the stack, the lists and the object.         *)
LEMMA UnrefStep ==
    ASSUME TypeOK, RefCountExact, NEW o \in Obj, NEW s \in Seq(Frame),
           ref_count[o] > 0, gc \in {"idle", "collect"}, gc' = gc,
           Shape(s, state, members'), AfterUnref(o, s)
    PROVE  /\ stack' \in Seq(Frame)
           /\ unreferred_objects' \in Seq(Obj) /\ isolated_roots' \in Seq(Obj)
           /\ \A x : Cardinality(HoldersIn(stack', x)) = Cardinality(HoldersIn(s, x))
           /\ state' = [state EXCEPT ![o] = IF ref_count[o] = 1 THEN "dying" ELSE @]
           /\ state[o] = "live"
           /\ StackSound'
<1>1. state[o] = "live"
  BY DEF RefCountExact
<1>2. /\ unreferred_objects \in Seq(Obj) /\ isolated_roots \in Seq(Obj)
      /\ state \in [Obj -> {"free", "live", "dying", "zombie"}]
  BY DEF TypeOK
<1>3. CASE ref_count[o] = 1
  <2>. DEFINE f == [op |-> "fin", o |-> o, k |-> 0, st |-> 0]
  <2>1. f \in Frame /\ ~Holds(f)
    BY DEF Frame, Holds
  <2>2. stack' = Append(s, f) /\ state' = [state EXCEPT ![o] = "dying"]
    BY <1>3 DEF AfterUnref
  <2>3. /\ unreferred_objects' = Without(unreferred_objects, o)
        /\ isolated_roots' = Without(isolated_roots, o)
    BY <1>3 DEF AfterUnref
  <2>4. unreferred_objects' \in Seq(Obj) /\ isolated_roots' \in Seq(Obj)
    BY <1>2, <2>3, WithoutType
  <2>5. Shape(stack', state', members')
    BY <1>1, <1>2, <2>2, ShapeDestroy
  <2>6. StackSound'
    BY <2>5 DEF StackSound, Shape
  <2>7. \A x : Cardinality(HoldersIn(stack', x)) = Cardinality(HoldersIn(s, x))
    BY <2>1, <2>2, HoldersPush, HoldersFinite
  <2>8. stack' \in Seq(Frame)
    BY <2>1, <2>2
  <2>. QED
    BY <1>1, <1>3, <2>2, <2>4, <2>6, <2>7, <2>8
<1>4. CASE ref_count[o] # 1
  <2>1. stack' = s /\ state' = state /\ isolated_roots' = isolated_roots
    BY <1>4 DEF AfterUnref
  <2>2. unreferred_objects' \in Seq(Obj)
    BY <1>2, <1>4, PrependType DEF AfterUnref
  <2>3. StackSound'
    BY <2>1 DEF StackSound, Shape
  <2>4. state' = [state EXCEPT ![o] = state[o]]
    BY <1>2, <2>1
  <2>. QED
    BY <1>1, <1>2, <1>4, <2>1, <2>2, <2>3, <2>4
<1>. QED
  BY <1>3, <1>4

(* A heap operation of user code that destroys nothing.                      *)
LEMMA UserStep ==
    ASSUME TypeOK, StackSound, UserCode, stack' = AfterOp, gc' = gc, members' = members,
           \A o \in Obj : state[o] = "dying" => state'[o] = "dying"
    PROVE  /\ stack' \in Seq(Frame)
           /\ \A x : Held(x)' = Held(x)
           /\ StackSound'
<1>1. /\ gc \in {"idle", "collect"}
      /\ AfterOp \in Seq(Frame)
      /\ \A x : HoldersIn(AfterOp, x) = HoldersIn(stack, x)
      /\ Shape(AfterOp, state, members)
  BY UserOp
<1>2. \A i \in DOMAIN AfterOp : AfterOp[i] \in Frame
  BY <1>1
<1>3. \A i \in DOMAIN AfterOp : AfterOp[i].o \in Obj
  BY <1>2 DEF Frame
<1>4. \A i \in DOMAIN AfterOp :
        /\ Destroys(AfterOp[i]) =>
             /\ state'[AfterOp[i].o] = "dying"
             /\ \A k \in Slot : k < AfterOp[i].k => members[AfterOp[i].o][k] = NoObj
        /\ AfterOp[i].op = "set" => members[AfterOp[i].o][AfterOp[i].k] = NoObj
  BY <1>1, <1>3 DEF Shape, Linked
<1>5. Shape(AfterOp, state', members')
  BY <1>1, <1>4, ShapeHeap
<1>6. StackSound'
  BY <1>1, <1>5 DEF StackSound, Shape
<1>. QED
  BY <1>1, <1>6 DEF Held

(* The counts of an object that keeps its references.                        *)
LEMMA NewObjectInv ==
    ASSUME HeapInv, NEW o \in Obj, NEW d \in Dtors, NewObject(o, d)
    PROVE  HeapInv'
<1>. USE DEF HeapInv
<1>1. /\ UserCode /\ state[o] = "free"
      /\ state' = [state EXCEPT ![o] = "live"]
      /\ ref_count' = [ref_count EXCEPT ![o] = 1]
      /\ weak_ref_count' = [weak_ref_count EXCEPT ![o] = 1]
      /\ dtor' = [dtor EXCEPT ![o] = d]
      /\ ext' = [ext EXCEPT ![o] = 1]
      /\ stack' = AfterOp
      /\ UNCHANGED <<members, mark, ref_count_scan, unreferred_objects,
                     isolated_roots, weak, gc, cursor>>
  BY DEF NewObject, scanVars, listVars, gcVars
<1>2. /\ stack' \in Seq(Frame)
      /\ \A x : Held(x)' = Held(x)
      /\ StackSound'
  <2>1. \A x \in Obj : state[x] = "dying" => state'[x] = "dying"
    BY <1>1 DEF TypeOK
  <2>. QED
    BY <1>1, <2>1, UserStep
<1>3. TypeOK'
  BY <1>1, <1>2, HeapAssumption DEF TypeOK
<1>4. RefCountExact'
  <2>1. \A x \in Obj : InEdges(x)' = InEdges(x)
    BY <1>1 DEF InEdges
  <2>2. ext[o] = 0 /\ Held(o) = 0 /\ Cardinality(InEdges(o)) = 0
    BY <1>1, Owned DEF RefCountExact, TypeOK
  <2>. QED
    BY <1>1, <1>2, <2>1, <2>2 DEF RefCountExact, TypeOK
<1>5. WeakCountExact'
  <2>1. weak[o] = 0
    <3>1. weak[o] \in Nat
      BY DEF TypeOK
    <3>2. /\ weak_ref_count[o] = 0
          /\ weak_ref_count[o] = weak[o] + IF state[o] \in {"live", "dying"} THEN 1 ELSE 0
      BY <1>1 DEF WeakCountExact
    <3>. QED
      BY <1>1, <3>1, <3>2
  <2>2. ASSUME NEW x \in Obj, x # o
        PROVE  /\ weak_ref_count'[x] = weak_ref_count[x] /\ weak'[x] = weak[x]
               /\ state'[x] = state[x]
    BY <1>1, <2>2 DEF TypeOK
  <2>3. weak_ref_count'[o] = 1 /\ weak'[o] = 0 /\ state'[o] = "live"
    BY <1>1, <2>1 DEF TypeOK
  <2>. QED
    BY <2>2, <2>3 DEF WeakCountExact
<1>6. DestroyedHoldsNothing'
  BY <1>1 DEF DestroyedHoldsNothing, TypeOK
<1>. QED
  BY <1>2, <1>3, <1>4, <1>5, <1>6

(* One more reference for user code: RefObject, GetMember, UpgradeWeakRef.   *)
LEMMA TakeRefInv ==
    ASSUME HeapInv, UserCode, NEW o \in Obj, state[o] = "live",
           ref_count' = [ref_count EXCEPT ![o] = @ + 1],
           ext' = [ext EXCEPT ![o] = @ + 1],
           stack' = AfterOp,
           UNCHANGED <<state, weak_ref_count, members, dtor, scanVars, listVars,
                       weak, gcVars>>
    PROVE  HeapInv'
<1>. USE DEF HeapInv
<1>1. UNCHANGED <<state, weak_ref_count, members, dtor, mark, ref_count_scan,
                  unreferred_objects, isolated_roots, weak, gc, cursor>>
  BY DEF scanVars, listVars, gcVars
<1>2. /\ stack' \in Seq(Frame)
      /\ \A x : Held(x)' = Held(x)
      /\ StackSound'
  BY <1>1, UserStep
<1>3. TypeOK'
  <2>1. ref_count' \in [Obj -> Nat] /\ ext' \in [Obj -> Nat]
    BY DEF TypeOK
  <2>. QED
    BY <1>1, <1>2, <2>1 DEF TypeOK
<1>4. RefCountExact'
  <2>1. \A x \in Obj : InEdges(x)' = InEdges(x)
    BY <1>1 DEF InEdges
  <2>2. ASSUME NEW x \in Obj
        PROVE  /\ ref_count'[x] = ext'[x] + Held(x)' + Cardinality(InEdges(x)')
               /\ state'[x] = "live" <=> ref_count'[x] > 0
    <3>1. /\ ref_count[x] = ext[x] + Held(x) + Cardinality(InEdges(x))
          /\ state[x] = "live" <=> ref_count[x] > 0
          /\ ext[x] \in Nat /\ Held(x) \in Nat /\ Cardinality(InEdges(x)) \in Nat
      BY Owned DEF RefCountExact, TypeOK
    <3>2. /\ ref_count'[x] = IF x = o THEN ref_count[x] + 1 ELSE ref_count[x]
          /\ ext'[x] = IF x = o THEN ext[x] + 1 ELSE ext[x]
          /\ state' = state
      BY <1>1 DEF TypeOK
    <3>. QED
      BY <1>2, <2>1, <3>1, <3>2
  <2>. QED
    BY <2>2 DEF RefCountExact
<1>5. WeakCountExact'
  BY <1>1 DEF WeakCountExact
<1>6. DestroyedHoldsNothing'
  BY <1>1 DEF DestroyedHoldsNothing
<1>. QED
  BY <1>2, <1>3, <1>4, <1>5, <1>6

LEMMA RefObjectInv ==
    ASSUME HeapInv, NEW o \in Obj, RefObject(o)
    PROVE  HeapInv'
  BY TakeRefInv DEF RefObject

LEMMA GetMemberInv ==
    ASSUME HeapInv, ~Reenters, NEW p \in Obj, NEW k \in Slot, GetMember(p, k)
    PROVE  HeapInv'
<1>1. Named(p, k) = members[p][k] /\ members[p][k] # NoObj
  BY DEF GetMember, Named
<1>2. members[p][k] \in Obj
  BY <1>1 DEF HeapInv, TypeOK
<1>3. state[members[p][k]] = "live"
  BY <1>2, Owned DEF HeapInv
<1>4. /\ UserCode
      /\ ref_count' = [ref_count EXCEPT ![members[p][k]] = @ + 1]
      /\ ext' = [ext EXCEPT ![members[p][k]] = @ + 1]
      /\ stack' = AfterOp
      /\ UNCHANGED <<state, weak_ref_count, members, dtor, scanVars, listVars, weak, gcVars>>
  BY <1>1 DEF GetMember
<1>. QED
  BY <1>2, <1>3, <1>4, TakeRefInv

LEMMA UpgradeWeakRefInv ==
    ASSUME HeapInv, NEW o \in Obj, UpgradeWeakRef(o)
    PROVE  HeapInv'
  BY TakeRefInv DEF UpgradeWeakRef, Upgradable

(* A step that takes or moves references, and destroys nothing.              *)
LEMMA QuietInv ==
    ASSUME HeapInv, TypeOK', StackSound',
           UNCHANGED <<state, weak_ref_count, weak>>,
           \A x \in Obj :
               /\ ref_count'[x] = ext'[x] + Held(x)' + Cardinality(InEdges(x)')
               /\ ref_count'[x] > 0 <=> ref_count[x] > 0
               /\ state[x] \in {"free", "zombie"} => members'[x] = members[x]
    PROVE  HeapInv'
<1>1. RefCountExact'
  BY DEF HeapInv, RefCountExact
<1>2. WeakCountExact'
  BY DEF HeapInv, WeakCountExact
<1>3. DestroyedHoldsNothing'
  BY DEF HeapInv, DestroyedHoldsNothing
<1>. QED
  BY <1>1, <1>2, <1>3 DEF HeapInv

(* A step that drops a reference to o, after which its code goes on with     *)
(* the stack s.                                                              *)
LEMMA UnrefInv ==
    ASSUME HeapInv, NEW o \in Obj, NEW s \in Seq(Frame), ref_count[o] > 0,
           gc \in {"idle", "collect"}, Shape(s, state, members'), AfterUnref(o, s),
           members' \in [Obj -> [Slot -> Obj \cup {NoObj}]],
           ext' \in [Obj -> Nat], ref_count' \in [Obj -> Nat],
           UNCHANGED <<weak_ref_count, dtor, mark, ref_count_scan, weak, gc, cursor>>,
           \A x \in Obj :
               /\ ref_count'[x] = ext'[x] + Cardinality(HoldersIn(s, x))
                                          + Cardinality(EdgesTo(members', x))
               /\ x # o => (ref_count'[x] > 0 <=> ref_count[x] > 0)
               /\ state[x] \in {"free", "zombie"} =>
                    \A k \in Slot : members[x][k] = NoObj => members'[x][k] = NoObj,
           ref_count'[o] > 0 <=> ref_count[o] # 1
    PROVE  HeapInv'
<1>1. /\ stack' \in Seq(Frame)
      /\ unreferred_objects' \in Seq(Obj) /\ isolated_roots' \in Seq(Obj)
      /\ \A x : Cardinality(HoldersIn(stack', x)) = Cardinality(HoldersIn(s, x))
      /\ state' = [state EXCEPT ![o] = IF ref_count[o] = 1 THEN "dying" ELSE @]
      /\ state[o] = "live"
      /\ StackSound'
  BY UnrefStep DEF HeapInv
<1>2. state \in [Obj -> {"free", "live", "dying", "zombie"}]
  BY DEF HeapInv, TypeOK
<1>3. /\ state'[o] = IF ref_count[o] = 1 THEN "dying" ELSE "live"
      /\ \A x \in Obj : x # o => state'[x] = state[x]
  BY <1>1, <1>2
<1>4. TypeOK'
  BY <1>1, <1>2 DEF HeapInv, TypeOK
<1>5. RefCountExact'
  BY <1>1, <1>3 DEF HeapInv, RefCountExact, Held, InEdges
<1>6. WeakCountExact'
  BY <1>1, <1>3 DEF HeapInv, WeakCountExact
<1>7. DestroyedHoldsNothing'
  BY <1>3 DEF HeapInv, DestroyedHoldsNothing
<1>. QED
  BY <1>1, <1>4, <1>5, <1>6, <1>7 DEF HeapInv

LEMMA DropRefInv ==
    ASSUME HeapInv, NEW o \in Obj, DropRef(o)
    PROVE  HeapInv'
<1>. USE DEF HeapInv
<1>1. /\ UserCode /\ ext[o] > 0
      /\ ref_count' = [ref_count EXCEPT ![o] = @ - 1]
      /\ ext' = [ext EXCEPT ![o] = @ - 1]
      /\ AfterUnref(o, AfterOp)
      /\ UNCHANGED <<weak_ref_count, members, dtor, mark, ref_count_scan, weak, gc, cursor>>
  BY DEF DropRef, UnrefObject, scanVars, gcVars
<1>2. /\ gc \in {"idle", "collect"} /\ AfterOp \in Seq(Frame)
      /\ Shape(AfterOp, state, members')
      /\ \A x : HoldersIn(AfterOp, x) = HoldersIn(stack, x)
  BY <1>1, UserOp
<1>3. ref_count[o] > 0 /\ ref_count[o] \in Nat /\ ext[o] \in Nat
  BY <1>1, Owned DEF TypeOK
<1>4. ext' \in [Obj -> Nat] /\ ref_count' \in [Obj -> Nat]
  BY <1>1, <1>3 DEF TypeOK
<1>5. ASSUME NEW x \in Obj
      PROVE  /\ ref_count'[x] = ext'[x] + Cardinality(HoldersIn(AfterOp, x))
                                         + Cardinality(EdgesTo(members', x))
             /\ x # o => ref_count'[x] = ref_count[x]
  <2>1. /\ ref_count[x] = ext[x] + Held(x) + Cardinality(InEdges(x))
        /\ ext[x] \in Nat /\ Held(x) \in Nat /\ Cardinality(InEdges(x)) \in Nat
    BY Owned DEF RefCountExact, TypeOK
  <2>2. /\ Held(x) = Cardinality(HoldersIn(AfterOp, x))
        /\ InEdges(x) = EdgesTo(members', x)
    BY <1>1, <1>2 DEF Held, InEdges
  <2>3. /\ ref_count'[x] = IF x = o THEN ref_count[x] - 1 ELSE ref_count[x]
        /\ ext'[x] = IF x = o THEN ext[x] - 1 ELSE ext[x]
    BY <1>1 DEF TypeOK
  <2>. QED
    BY <2>1, <2>2, <2>3
<1>6. ref_count'[o] > 0 <=> ref_count[o] # 1
  BY <1>1, <1>3 DEF TypeOK
<1>7. members' \in [Obj -> [Slot -> Obj \cup {NoObj}]]
  BY <1>1 DEF TypeOK
<1>. QED
  BY <1>1, <1>2, <1>3, <1>4, <1>5, <1>6, <1>7, UnrefInv

(* Writing a slot of a live object, or clearing one, disturbs no stack.      *)
LEMMA ShapeWrite ==
    ASSUME NEW s \in Seq(Frame), Shape(s, state, members), members \in Table,
           NEW p \in Obj, NEW k \in Slot, NEW v,
           v = NoObj \/ \A i \in DOMAIN s : s[i].o = p =>
               /\ Destroys(s[i]) => ~(k < s[i].k)
               /\ ~(s[i].op = "set" /\ s[i].k = k)
    PROVE  Shape(s, state, Write(members, p, k, v))
<1>. DEFINE mem == Write(members, p, k, v)
<1>1. \A i \in DOMAIN s : s[i] \in Frame
  OBVIOUS
<1>2. \A i \in DOMAIN s : s[i].o \in Obj
  BY <1>1 DEF Frame
<1>3. \A i \in DOMAIN s :
        /\ Destroys(s[i]) =>
             /\ state[s[i].o] = "dying"
             /\ \A j \in Slot : j < s[i].k => members[s[i].o][j] = NoObj
        /\ s[i].op = "set" => s[i].k \in Slot /\ members[s[i].o][s[i].k] = NoObj
  BY DEF Shape, Linked
<1>4. \A o \in Obj, j \in Slot :
        members[o][j] = NoObj => mem[o][j] = NoObj \/ (o = p /\ j = k /\ v # NoObj)
  BY DEF Write, Table
<1>. HIDE DEF mem
<1>5. \A i \in DOMAIN s :
        /\ Destroys(s[i]) =>
             /\ state[s[i].o] = "dying"
             /\ \A j \in Slot : j < s[i].k => mem[s[i].o][j] = NoObj
        /\ s[i].op = "set" => mem[s[i].o][s[i].k] = NoObj
  <2>. SUFFICES ASSUME NEW i \in DOMAIN s
                PROVE  /\ Destroys(s[i]) =>
                            /\ state[s[i].o] = "dying"
                            /\ \A j \in Slot : j < s[i].k => mem[s[i].o][j] = NoObj
                       /\ s[i].op = "set" => mem[s[i].o][s[i].k] = NoObj
    OBVIOUS
  <2>1. ASSUME Destroys(s[i])
        PROVE  /\ state[s[i].o] = "dying"
               /\ \A j \in Slot : j < s[i].k => mem[s[i].o][j] = NoObj
    BY <1>2, <1>3, <1>4, <2>1
  <2>2. ASSUME s[i].op = "set"
        PROVE  mem[s[i].o][s[i].k] = NoObj
    BY <1>2, <1>3, <1>4, <2>2
  <2>. QED
    BY <2>1, <2>2
<1>6. Shape(s, state, mem)
  BY <1>5, ShapeHeap
<1>. QED
  BY <1>6 DEF mem

LEMMA DeleteMemberInv ==
    ASSUME HeapInv, NEW p \in Obj, NEW k \in Slot, DeleteMember(p, k)
    PROVE  HeapInv'
<1>. USE DEF HeapInv
<1>0. members \in Table
  BY DEF TypeOK, Table
<1>. DEFINE o == members[p][k]
<1>1. /\ UserCode /\ o # NoObj
      /\ ref_count' = [ref_count EXCEPT ![o] = @ - 1]
      /\ members' = Write(members, p, k, NoObj)
      /\ AfterUnref(o, AfterOp)
      /\ UNCHANGED <<weak_ref_count, ext, dtor, mark, ref_count_scan, weak, gc, cursor>>
  BY DEF DeleteMember, UnrefObject, scanVars, ownVars, gcVars, Write
<1>2. o \in Obj /\ members[p][k] = o
  BY <1>0, <1>1 DEF Table
<1>3. /\ gc \in {"idle", "collect"} /\ AfterOp \in Seq(Frame)
      /\ Shape(AfterOp, state, members)
      /\ \A x : HoldersIn(AfterOp, x) = HoldersIn(stack, x)
  BY <1>1, UserOp
<1>. HIDE DEF o
<1>4. ref_count[o] > 0 /\ ref_count[o] \in Nat
  BY <1>2, Owned DEF TypeOK
<1>5. /\ members' \in Table
      /\ \A x \in Obj : Count(members', x) =
           IF x = o THEN Count(members, x) - 1 ELSE Count(members, x)
  BY <1>0, <1>1, <1>2, EdgesClear
<1>6. Shape(AfterOp, state, members')
  BY <1>0, <1>1, <1>3, ShapeWrite
<1>7. ASSUME NEW x \in Obj
      PROVE  /\ ref_count'[x] = ext'[x] + Cardinality(HoldersIn(AfterOp, x))
                                         + Cardinality(EdgesTo(members', x))
             /\ x # o => ref_count'[x] = ref_count[x]
  <2>1. /\ ref_count[x] = ext[x] + Held(x) + Count(members, x)
        /\ ext[x] \in Nat /\ Held(x) \in Nat /\ Count(members, x) \in Nat
    BY Owned DEF RefCountExact, TypeOK, InEdges, Count
  <2>2. Held(x) = Cardinality(HoldersIn(AfterOp, x))
    BY <1>3 DEF Held
  <2>3. /\ ref_count'[x] = IF x = o THEN ref_count[x] - 1 ELSE ref_count[x]
        /\ ext'[x] = ext[x]
    BY <1>1 DEF TypeOK
  <2>4. ref_count'[x] = ext'[x] + Held(x) + Count(members', x)
    BY <1>5, <2>1, <2>3
  <2>. QED
    BY <2>2, <2>3, <2>4 DEF Count
<1>8. ref_count' \in [Obj -> Nat] /\ ext' \in [Obj -> Nat]
  BY <1>1, <1>2, <1>4 DEF TypeOK
<1>9. ref_count'[o] > 0 <=> ref_count[o] # 1
  BY <1>1, <1>2, <1>4 DEF TypeOK
<1>10. \A x \in Obj, j \in Slot : members[x][j] = NoObj => members'[x][j] = NoObj
  BY <1>0, <1>1 DEF Write, Table
<1>. QED
  BY <1>1, <1>2, <1>3, <1>4, <1>5, <1>6, <1>7, <1>8, <1>9, <1>10, UnrefInv DEF Table

LEMMA SetMemberInv ==
    ASSUME HeapInv, NEW p \in Obj, NEW k \in Slot, NEW n \in Obj, SetMember(p, k, n)
    PROVE  HeapInv'
<1>. USE DEF HeapInv
<1>0. members \in Table
  BY DEF TypeOK, Table
<1>. DEFINE o == members[p][k]
            f == [op |-> "value", o |-> n, k |-> 0, st |-> 0]
            g == [op |-> "set", o |-> p, k |-> k, st |-> 0]
            t == Append(AfterOp, f)
            s == Append(t, g)
<1>1. /\ UserCode /\ o # NoObj /\ ext[n] > 0
      /\ ext[p] > IF p = n THEN 1 ELSE 0
      /\ ext' = [[ext EXCEPT ![n] = @ - 1] EXCEPT ![p] = @ - 1]
      /\ ref_count' = [ref_count EXCEPT ![o] = @ - 1]
      /\ members' = Write(members, p, k, NoObj)
      /\ AfterUnref(o, s)
      /\ UNCHANGED <<weak_ref_count, dtor, mark, ref_count_scan, weak, gc, cursor>>
  BY DEF SetMember, SetFrames, UnrefObject, scanVars, gcVars, Write
<1>2. o \in Obj /\ members[p][k] = o
  BY <1>0, <1>1 DEF Table
<1>3. /\ f \in Frame /\ Holds(f) /\ ~Destroys(f) /\ f.o = n
      /\ f.op = "value"
      /\ g \in Frame /\ Holds(g) /\ ~Destroys(g) /\ g.o = p /\ g.k = k
      /\ g.op = "set"
  BY HeapAssumption DEF Frame, Holds, Destroys, Slot
<1>. HIDE DEF o, f, g
<1>4. /\ gc \in {"idle", "collect"} /\ AfterOp \in Seq(Frame)
      /\ Shape(AfterOp, state, members)
      /\ \A x : HoldersIn(AfterOp, x) = HoldersIn(stack, x)
  BY <1>1, UserOp
<1>5. /\ members' \in Table
      /\ \A x \in Obj : Count(members', x) =
           IF x = o THEN Count(members, x) - 1 ELSE Count(members, x)
  BY <1>0, <1>1, <1>2, EdgesClear
<1>6. t \in Seq(Frame) /\ Shape(t, state, members')
  <2>1. Shape(AfterOp, state, members')
    BY <1>0, <1>1, <1>4, ShapeWrite
  <2>2. Linked(t, members', Len(AfterOp) + 1)
    BY <1>3, <1>4 DEF Linked
  <2>. QED
    BY <1>3, <1>4, <2>1, <2>2, ShapePush
<1>7. s \in Seq(Frame) /\ Shape(s, state, members')
  <2>1. /\ Len(t) = Len(AfterOp) + 1 /\ Len(t) \in Nat /\ Len(t) >= 1
        /\ t[Len(t)] = f /\ DOMAIN t = 1 .. Len(t)
        /\ \A i \in DOMAIN AfterOp : t[i] = AfterOp[i]
        /\ DOMAIN AfterOp = 1 .. Len(AfterOp)
    BY <1>3, <1>4
  <2>2. ASSUME NEW i \in DOMAIN t, t[i].op = "set", t[i].o = p, t[i].k = k
        PROVE  FALSE
    <3>1. i \in DOMAIN AfterOp
      BY <1>3, <2>1, <2>2
    <3>2. AfterOp[i].op = "set" /\ AfterOp[i].o = p /\ AfterOp[i].k = k
      BY <2>1, <2>2, <3>1
    <3>3. members[p][k] = NoObj
      BY <1>4, <3>1, <3>2 DEF Shape, Linked
    <3>. QED
      BY <1>1, <1>2, <3>3
  <2>3. members'[p][k] = NoObj
    BY <1>0, <1>1 DEF Write, Table
  <2>. HIDE DEF t
  <2>4. /\ s[Len(t) + 1] = g /\ s[Len(t)] = f /\ DOMAIN s = 1 .. Len(t) + 1
        /\ \A i \in DOMAIN t : s[i] = t[i]
    BY <1>3, <1>6, <2>1
  <2>. HIDE DEF s
  <2>5. Linked(s, members', Len(t) + 1)
    <3>1. ASSUME NEW j \in DOMAIN s, s[j].op = "set", s[j].o = p, s[j].k = k
          PROVE  j = Len(t) + 1
      <4>1. CASE j \in DOMAIN t
        BY <2>2, <2>4, <3>1, <4>1
      <4>. QED
        BY <2>1, <2>4, <4>1
    <3>2. Len(t) + 1 > 1 /\ (Len(t) + 1) - 1 = Len(t)
      BY <2>1
    <3>3. s[(Len(t) + 1) - 1].op = "value"
      BY <1>3, <2>4, <3>2
    <3>4. k \in Slot
      OBVIOUS
    <3>. QED
      BY <1>3, <2>3, <2>4, <3>1, <3>2, <3>3, <3>4 DEF Linked
  <2>. QED
    BY <1>3, <1>6, <2>5, ShapePush DEF s
<1>8. ASSUME NEW x \in Obj
      PROVE  Cardinality(HoldersIn(s, x)) =
               Held(x) + (IF x = n THEN 1 ELSE 0) + (IF x = p THEN 1 ELSE 0)
  <2>1. Cardinality(HoldersIn(t, x)) = Held(x) + (IF x = n THEN 1 ELSE 0)
    BY <1>3, <1>4, HoldersPush DEF Held
  <2>. HIDE DEF t
  <2>2. Cardinality(HoldersIn(s, x)) =
          Cardinality(HoldersIn(t, x)) + (IF x = p THEN 1 ELSE 0)
    BY <1>3, <1>6, HoldersPush
  <2>. QED
    BY <2>1, <2>2
<1>. HIDE DEF s, t
<1>9. ref_count[o] > 0 /\ ref_count[o] \in Nat
  BY <1>2, Owned DEF TypeOK
<1>10. /\ ext' \in [Obj -> Nat]
       /\ \A x \in Obj : ext'[x] =
            ext[x] - (IF x = n THEN 1 ELSE 0) - (IF x = p THEN 1 ELSE 0)
  <2>1. ext \in [Obj -> Nat]
    BY DEF TypeOK
  <2>2. CASE p = n
    <3>1. ext' = [ext EXCEPT ![p] = (ext[p] - 1) - 1]
      BY <1>1, <2>1, <2>2
    <3>2. (ext[p] - 1) - 1 \in Nat /\ ext[p] \in Nat
      BY <1>1, <2>1, <2>2
    <3>. QED
      BY <2>1, <2>2, <3>1, <3>2
  <2>3. CASE p # n
    BY <1>1, <2>1, <2>3
  <2>. QED
    BY <2>2, <2>3
<1>11. ASSUME NEW x \in Obj
       PROVE  /\ ref_count'[x] = ext'[x] + Cardinality(HoldersIn(s, x))
                                          + Cardinality(EdgesTo(members', x))
              /\ x # o => ref_count'[x] = ref_count[x]
  <2>1. /\ ref_count[x] = ext[x] + Held(x) + Count(members, x)
        /\ ext[x] \in Nat /\ Held(x) \in Nat /\ Count(members, x) \in Nat
    BY Owned DEF RefCountExact, TypeOK, InEdges, Count
  <2>2. ref_count'[x] = IF x = o THEN ref_count[x] - 1 ELSE ref_count[x]
    BY <1>1 DEF TypeOK
  <2>3. ref_count'[x] = ext'[x] + Cardinality(HoldersIn(s, x)) + Count(members', x)
    BY <1>5, <1>8, <1>10, <2>1, <2>2
  <2>. QED
    BY <2>2, <2>3 DEF Count
<1>12. ref_count' \in [Obj -> Nat] /\ (ref_count'[o] > 0 <=> ref_count[o] # 1)
  <2>1. ref_count \in [Obj -> Nat] /\ ref_count' = [ref_count EXCEPT ![o] = @ - 1]
    BY <1>1 DEF TypeOK
  <2>. QED
    BY <1>2, <1>9, <2>1
<1>13. \A x \in Obj, j \in Slot : members[x][j] = NoObj => members'[x][j] = NoObj
  BY <1>0, <1>1 DEF Write, Table
<1>14. /\ AfterUnref(o, s) /\ gc \in {"idle", "collect"} /\ ref_count[o] > 0
       /\ UNCHANGED <<weak_ref_count, dtor, mark, ref_count_scan, weak, gc, cursor>>
       /\ members' \in [Obj -> [Slot -> Obj \cup {NoObj}]]
  BY <1>1, <1>4, <1>5, <1>9 DEF Table
<1>. QED
  BY <1>2, <1>7, <1>10, <1>11, <1>12, <1>13, <1>14, UnrefInv

(* A step that leaves the counts, their owners and the members alone.        *)
LEMMA SameHeapInv ==
    ASSUME HeapInv, TypeOK', StackSound',
           UNCHANGED <<state, ref_count, weak_ref_count, members, ext, weak>>,
           \A x \in Obj : Held(x)' = Held(x)
    PROVE  HeapInv'
<1>1. \A x \in Obj : InEdges(x)' = InEdges(x)
  BY DEF InEdges
<1>2. \A x \in Obj : ref_count'[x] = ext'[x] + Held(x)' + Cardinality(InEdges(x)')
  BY <1>1 DEF HeapInv, RefCountExact
<1>. QED
  BY <1>2, QuietInv

LEMMA RefUnrefType ==
    ASSUME TypeOK, NEW o \in Obj, RefUnref(o)
    PROVE  unreferred_objects' \in Seq(Obj)
  BY PrependType DEF TypeOK, RefUnref

(* What user code works on is live, or it is the destructor's own object:    *)
(* then nobody has passed a slot of it.                                      *)
LEMMA ReachesFacts ==
    ASSUME HeapInv, NEW p \in Obj, Reaches(p)
    PROVE  /\ state[p] \in {"live", "dying"}
           /\ \A i \in DOMAIN stack : Destroys(stack[i]) /\ stack[i].o = p => stack[i].k = 0
           /\ state[p] = "dying" =>
                \E i \in DOMAIN stack : Destroys(stack[i]) /\ stack[i].o = p
           /\ ext[p] = 0 => \E i \in DOMAIN stack : stack[i].op = "fin" /\ stack[i].o = p
<1>. USE DEF HeapInv
<1>1. \A i \in DOMAIN stack : Destroys(stack[i]) => state[stack[i].o] = "dying"
  BY DEF StackSound
<1>2. CASE ext[p] > 0
  <2>1. state[p] = "live"
    BY <1>2, Owned
  <2>. QED
    BY <1>1, <1>2, <2>1
<1>3. CASE Given(p)
  <2>1. stack \in Seq(Frame) /\ Len(stack) \in DOMAIN stack /\ Top = stack[Len(stack)]
    BY <1>3 DEF Given, Running, Top, TypeOK
  <2>2. Linked(stack, members, Len(stack)) /\ stack[Len(stack)].op = "dtor"
    BY <1>3, <2>1 DEF StackSound, Given, Running, Top
  <2>. DEFINE n == Len(stack) - 1
  <2>3. /\ n \in DOMAIN stack
        /\ stack[n].op = "fin" /\ stack[n].o = p /\ stack[n].k = 0
    BY <1>3, <2>1, <2>2 DEF Linked, Given
  <2>. HIDE DEF n
  <2>4. CASE Destroys(stack[n])
    <3>1. state[p] = "dying"
      BY <1>1, <2>3, <2>4
    <3>2. \A i \in DOMAIN stack : Destroys(stack[i]) /\ stack[i].o = p => i = n
      BY <2>3, <2>4 DEF StackSound
    <3>. QED
      BY <2>3, <2>4, <3>1, <3>2
  <2>5. CASE ~Destroys(stack[n])
    <3>1. Holds(stack[n])
      BY <2>3, <2>5 DEF Destroys, Holds
    <3>2. state[p] = "live"
      BY <2>3, <3>1, Owned
    <3>. QED
      BY <1>1, <2>3, <3>2
  <2>. QED
    BY <2>4, <2>5
<1>. QED
  BY <1>2, <1>3 DEF Reaches

(* A member gets its own reference, or takes the caller's.                   *)
LEMMA FillInv ==
    ASSUME HeapInv, UserCode, NEW p \in Obj, NEW k \in Slot, NEW o \in Obj,
           Reaches(p), ext[o] > 0, Unused(p, k),
           members' = Write(members, p, k, o),
           ref_count' \in [Obj -> Nat], ext' \in [Obj -> Nat],
           ref_count'[o] > 0, ref_count'[o] - ext'[o] = ref_count[o] - ext[o] + 1,
           \A x \in Obj : x # o => ref_count'[x] = ref_count[x] /\ ext'[x] = ext[x],
           stack' = AfterOp,
           UNCHANGED <<state, weak_ref_count, dtor, scanVars, listVars, weak, gcVars>>
    PROVE  HeapInv'
<1>. USE DEF HeapInv
<1>0. members \in Table
  BY DEF TypeOK, Table
<1>1. UNCHANGED <<state, weak_ref_count, dtor, mark, ref_count_scan,
                  unreferred_objects, isolated_roots, weak, gc, cursor>>
  BY DEF scanVars, listVars, gcVars
<1>2. /\ state[p] \in {"live", "dying"} /\ ref_count[o] > 0 /\ ref_count[o] \in Nat
      /\ ext[o] \in Nat /\ members[p][k] = NoObj
  <2>1. state[p] \in {"live", "dying"}
    BY ReachesFacts
  <2>2. ref_count[o] > 0 /\ ref_count[o] \in Nat /\ ext[o] \in Nat
    BY Owned DEF TypeOK
  <2>. QED
    BY <2>1, <2>2 DEF Unused
<1>3. \A x \in Obj : x # p => members'[x] = members[x]
  BY <1>0 DEF Write, Table
<1>4. /\ stack' \in Seq(Frame)
      /\ \A x : Held(x)' = Held(x)
      /\ StackSound'
  <2>1. /\ gc \in {"idle", "collect"} /\ AfterOp \in Seq(Frame)
        /\ Shape(AfterOp, state, members)
        /\ \A x : HoldersIn(AfterOp, x) = HoldersIn(stack, x)
        /\ DOMAIN AfterOp = DOMAIN stack
        /\ \A i \in DOMAIN stack :
             /\ AfterOp[i].op = stack[i].op /\ AfterOp[i].o = stack[i].o
             /\ AfterOp[i].st = stack[i].st
             /\ stack[i].op # "dtor" => AfterOp[i].k = stack[i].k
    BY UserOp
  <2>2. ASSUME NEW i \in DOMAIN AfterOp, AfterOp[i].o = p
        PROVE  /\ Destroys(AfterOp[i]) => ~(k < AfterOp[i].k)
               /\ ~(AfterOp[i].op = "set" /\ AfterOp[i].k = k)
    <3>0. \A j \in DOMAIN stack : Destroys(stack[j]) /\ stack[j].o = p => stack[j].k = 0
      BY ReachesFacts
    <3>1. Destroys(AfterOp[i]) => AfterOp[i].k = 0
      BY <2>1, <2>2, <3>0 DEF Destroys
    <3>2. ~(AfterOp[i].op = "set" /\ AfterOp[i].k = k)
      BY <2>1, <2>2 DEF Unused, Stale, Setting
    <3>3. ~(k < 0)
      BY HeapAssumption DEF Slot
    <3>. QED
      BY <3>1, <3>2, <3>3
  <2>3. Shape(AfterOp, state, members')
    BY <1>0, <2>1, <2>2, ShapeWrite
  <2>. QED
    BY <1>1, <2>1, <2>3 DEF StackSound, Shape, Held
<1>5. /\ members' \in Table
      /\ \A x \in Obj : Count(members', x) =
           IF x = o THEN Count(members, x) + 1 ELSE Count(members, x)
  BY <1>0, <1>2, EdgesFill
<1>6. TypeOK'
  <2>2. members' \in [Obj -> [Slot -> Obj \cup {NoObj}]]
    BY <1>5 DEF Table
  <2>. QED
    BY <1>1, <1>4, <2>2 DEF TypeOK
<1>7. ASSUME NEW x \in Obj
      PROVE  /\ ref_count'[x] = ext'[x] + Held(x)' + Cardinality(InEdges(x)')
             /\ ref_count'[x] > 0 <=> ref_count[x] > 0
  <2>1. /\ ref_count[x] = ext[x] + Held(x) + Count(members, x)
        /\ ext[x] \in Nat /\ Held(x) \in Nat /\ Count(members, x) \in Nat
    BY Owned DEF RefCountExact, TypeOK, InEdges, Count
  <2>2. ref_count'[x] \in Nat /\ ext'[x] \in Nat
    OBVIOUS
  <2>3. ref_count'[x] = ext'[x] + Held(x) + Count(members', x)
    <3>1. CASE x = o
      BY <1>5, <2>1, <2>2, <3>1
    <3>2. CASE x # o
      BY <1>5, <2>1, <3>2
    <3>. QED
      BY <3>1, <3>2
  <2>4. ref_count'[x] > 0 <=> ref_count[x] > 0
    BY <1>2
  <2>. QED
    BY <1>4, <2>3, <2>4 DEF InEdges, Count
<1>8. \A x \in Obj : state[x] \in {"free", "zombie"} => members'[x] = members[x]
  BY <1>2, <1>3
<1>. QED
  BY <1>1, <1>4, <1>6, <1>7, <1>8, QuietInv

LEMMA AddMemberInv ==
    ASSUME HeapInv, NEW p \in Obj, NEW k \in Slot, NEW o \in Obj, AddMember(p, k, o)
    PROVE  HeapInv'
<1>0. Appends(p, k) => Unused(p, k)
  BY HeapAssumption DEF Appends, Slot
<1>1. CASE Appends(p, k) /\ members' = Write(members, p, k, o)
  <2>0. Unused(p, k)
    BY <1>0, <1>1
  <2>1. /\ UserCode /\ Reaches(p) /\ ext[o] > 0
        /\ members' = Write(members, p, k, o)
        /\ ref_count' = [ref_count EXCEPT ![o] = @ + 1]
        /\ stack' = AfterOp
        /\ UNCHANGED <<state, weak_ref_count, dtor, scanVars, listVars, ext, weak, gcVars>>
    BY <1>1, <2>0 DEF AddMember, listVars, ownVars, Write
  <2>2. /\ ref_count' \in [Obj -> Nat] /\ ext' \in [Obj -> Nat]
        /\ ref_count'[o] > 0 /\ ref_count'[o] - ext'[o] = ref_count[o] - ext[o] + 1
        /\ \A x \in Obj : x # o => ref_count'[x] = ref_count[x] /\ ext'[x] = ext[x]
    <3>1. /\ ref_count \in [Obj -> Nat] /\ ext \in [Obj -> Nat]
          /\ ref_count[o] \in Nat /\ ext[o] \in Nat
      BY DEF HeapInv, TypeOK
    <3>2. /\ ref_count'[o] = ref_count[o] + 1 /\ ext'[o] = ext[o]
          /\ \A x \in Obj : x # o => ref_count'[x] = ref_count[x] /\ ext'[x] = ext[x]
      BY <2>1, <3>1
    <3>3. ref_count' \in [Obj -> Nat] /\ ext' \in [Obj -> Nat]
      BY <2>1, <3>1
    <3>. QED
      BY <3>1, <3>2, <3>3
  <2>. QED
    BY <2>0, <2>1, <2>2, FillInv
<1>2. CASE ~Unused(p, k)
  <2>1. /\ UserCode /\ RefUnref(o) /\ stack' = AfterOp
        /\ UNCHANGED <<state, ref_count, weak_ref_count, members, dtor, mark,
                       ref_count_scan, isolated_roots, ext, weak, gc, cursor>>
    BY <1>0, <1>2 DEF AddMember, scanVars, ownVars, gcVars
  <2>2. stack' \in Seq(Frame) /\ StackSound' /\ \A x : Held(x)' = Held(x)
    BY <2>1, UserStep DEF HeapInv
  <2>3. TypeOK'
    BY <2>1, <2>2, RefUnrefType DEF HeapInv, TypeOK
  <2>. QED
    BY <2>1, <2>2, <2>3, SameHeapInv
<1>. QED
  BY <1>1, <1>2 DEF AddMember, Write

LEMMA MoveMemberInv ==
    ASSUME HeapInv, NEW p \in Obj, NEW k \in Slot, NEW o \in Obj, MoveMember(p, k, o)
    PROVE  HeapInv'
<1>0. Appends(p, k) => Unused(p, k)
  BY HeapAssumption DEF Appends, Slot
<1>1. /\ UserCode /\ Reaches(p) /\ ext[o] > 0
      /\ ext' = [ext EXCEPT ![o] = @ - 1]
      /\ UNCHANGED <<weak_ref_count, dtor, scanVars, weak, gcVars>>
  BY DEF MoveMember, Reaches, HeapInv, TypeOK
<1>2. CASE Appends(p, k) /\ members' = Write(members, p, k, o)
  <2>0. Unused(p, k)
    BY <1>0, <1>2
  <2>1. /\ members' = Write(members, p, k, o)
        /\ stack' = AfterOp
        /\ UNCHANGED <<ref_count, state, listVars>>
    BY <1>2, <2>0 DEF MoveMember, Write
  <2>2. /\ ref_count' \in [Obj -> Nat] /\ ext' \in [Obj -> Nat]
        /\ ref_count'[o] > 0 /\ ref_count'[o] - ext'[o] = ref_count[o] - ext[o] + 1
        /\ \A x \in Obj : x # o => ref_count'[x] = ref_count[x] /\ ext'[x] = ext[x]
    <3>1. /\ ref_count \in [Obj -> Nat] /\ ext \in [Obj -> Nat]
          /\ ref_count[o] \in Nat /\ ext[o] \in Nat
      BY DEF HeapInv, TypeOK
    <3>2. /\ ref_count'[o] = ref_count[o] /\ ext'[o] = ext[o] - 1
          /\ \A x \in Obj : x # o => ref_count'[x] = ref_count[x] /\ ext'[x] = ext[x]
      BY <1>1, <2>1, <3>1
    <3>3. ref_count' \in [Obj -> Nat] /\ ext' \in [Obj -> Nat]
      BY <1>1, <2>1, <3>1
    <3>4. ref_count[o] > 0
      BY <1>1, Owned DEF HeapInv
    <3>. QED
      BY <3>1, <3>2, <3>3, <3>4
  <2>. QED
    BY <1>1, <2>0, <2>1, <2>2, FillInv
<1>3. CASE ~Unused(p, k)
  <2>1. UnrefObject(o, AfterOp) /\ UNCHANGED members
    BY <1>0, <1>3 DEF MoveMember
  <2>2. DropRef(o)
    BY <1>1, <2>1 DEF DropRef
  <2>. QED
    BY <2>2, DropRefInv
<1>. QED
  BY <1>2, <1>3 DEF MoveMember, Write

LEMMA DtorUsesMemberInv ==
    ASSUME HeapInv, NEW k \in Slot, DtorUsesMember(k)
    PROVE  HeapInv'
<1>. DEFINE o == members[Top.o][k]
<1>1. /\ UserCode /\ RefUnref(o) /\ o # NoObj /\ stack' = AfterOp /\ Running("dtor")
      /\ UNCHANGED <<state, ref_count, weak_ref_count, members, dtor, mark,
                     ref_count_scan, isolated_roots, ext, weak, gc, cursor>>
  BY DEF DtorUsesMember, UserCode, objVars, scanVars, ownVars, gcVars
<1>2. stack' \in Seq(Frame) /\ StackSound' /\ \A x : Held(x)' = Held(x)
  BY <1>1, UserStep DEF HeapInv
<1>3. Top \in Frame
  BY <1>1 DEF HeapInv, TypeOK, Running, Top
<1>4. o \in Obj
  BY <1>1, <1>3 DEF HeapInv, TypeOK, Frame
<1>. HIDE DEF o
<1>5. TypeOK'
  BY <1>1, <1>2, <1>4, RefUnrefType DEF HeapInv, TypeOK
<1>. QED
  BY <1>1, <1>2, <1>5, SameHeapInv

LEMMA WeaklyRefInv ==
    ASSUME HeapInv, NEW o \in Obj, WeaklyRef(o)
    PROVE  HeapInv'
<1>. USE DEF HeapInv
<1>1. /\ UserCode /\ ext[o] > 0
      /\ weak' = [weak EXCEPT ![o] = @ + 1]
      /\ weak_ref_count' = [weak_ref_count EXCEPT ![o] = @ + 1]
      /\ stack' = AfterOp
      /\ UNCHANGED <<state, ref_count, members, dtor, mark, ref_count_scan,
                     unreferred_objects, isolated_roots, ext, gc, cursor>>
  BY DEF WeaklyRef, scanVars, listVars, gcVars
<1>2. stack' \in Seq(Frame) /\ StackSound' /\ \A x : Held(x)' = Held(x)
  BY <1>1, UserStep
<1>3. state[o] = "live"
  BY <1>1, Owned
<1>4. TypeOK'
  BY <1>1, <1>2 DEF TypeOK
<1>5. RefCountExact'
  <2>1. \A x \in Obj : InEdges(x)' = InEdges(x)
    BY <1>1 DEF InEdges
  <2>. QED
    BY <1>1, <1>2, <2>1 DEF RefCountExact
<1>6. WeakCountExact'
  <2>1. ASSUME NEW x \in Obj
        PROVE  /\ weak_ref_count'[x] =
                    weak'[x] + IF state'[x] \in {"live", "dying"} THEN 1 ELSE 0
               /\ state'[x] = "free" <=> weak_ref_count'[x] = 0
    <3>1. /\ weak_ref_count[x] =
               weak[x] + IF state[x] \in {"live", "dying"} THEN 1 ELSE 0
          /\ state[x] = "free" <=> weak_ref_count[x] = 0
          /\ weak[x] \in Nat /\ weak_ref_count[x] \in Nat
      BY DEF WeakCountExact, TypeOK
    <3>2. /\ weak'[x] = IF x = o THEN weak[x] + 1 ELSE weak[x]
          /\ weak_ref_count'[x] = IF x = o THEN weak_ref_count[x] + 1 ELSE weak_ref_count[x]
          /\ state' = state
      BY <1>1 DEF TypeOK
    <3>. QED
      BY <1>3, <3>1, <3>2
  <2>. QED
    BY <2>1 DEF WeakCountExact
<1>7. DestroyedHoldsNothing'
  BY <1>1 DEF DestroyedHoldsNothing
<1>. QED
  BY <1>2, <1>4, <1>5, <1>6, <1>7

(* What di_decrement_weak_ref_count does to an object without references:    *)
(* w weak references are left of those user code owns.                       *)
LEMMA WeakStep ==
    ASSUME HeapInv, NEW o \in Obj, ref_count[o] = 0, DecrementWeak(o, "zombie"),
           weak' \in [Obj -> Nat], \A x \in Obj : x # o => weak'[x] = weak[x],
           weak_ref_count[o] = weak'[o] + 1,
           state[o] = "dying" => \A k \in Slot : members[o][k] = NoObj,
           UNCHANGED <<ref_count, members, dtor, unreferred_objects,
                       isolated_roots, ext, gc, cursor>>,
           stack' \in Seq(Frame), \A x \in Obj : Held(x)' = Held(x), StackSound'
    PROVE  HeapInv'
<1>. USE DEF HeapInv
<1>1. weak'[o] \in Nat /\ state[o] # "live" /\ state[o] \in {"free", "dying", "zombie"}
  BY DEF RefCountExact, TypeOK
<1>2. /\ weak_ref_count' = [weak_ref_count EXCEPT ![o] = @ - 1]
      /\ state' = [state EXCEPT ![o] = IF weak_ref_count[o] = 1 THEN "free" ELSE "zombie"]
      /\ mark' = [mark EXCEPT ![o] = IF weak_ref_count[o] = 1 THEN 0 ELSE @]
      /\ ref_count_scan' =
           [ref_count_scan EXCEPT ![o] = IF weak_ref_count[o] = 1 THEN 0 ELSE @]
  BY DEF DecrementWeak
<1>3. /\ weak_ref_count'[o] = weak'[o]
      /\ state'[o] = IF weak'[o] = 0 THEN "free" ELSE "zombie"
      /\ \A x \in Obj : x # o =>
           weak_ref_count'[x] = weak_ref_count[x] /\ state'[x] = state[x]
  BY <1>1, <1>2 DEF TypeOK
<1>4. /\ weak_ref_count' \in [Obj -> Nat]
      /\ state' \in [Obj -> {"free", "live", "dying", "zombie"}]
      /\ mark' \in [Obj -> 0 .. 3]
      /\ ref_count_scan' \in [Obj -> Nat]
  BY <1>1, <1>2 DEF TypeOK
<1>5. TypeOK'
  BY <1>4 DEF TypeOK
<1>6. RefCountExact'
  <2>1. \A x \in Obj : InEdges(x)' = InEdges(x)
    BY DEF InEdges
  <2>. QED
    BY <1>1, <1>3, <2>1 DEF RefCountExact
<1>7. WeakCountExact'
  BY <1>1, <1>3 DEF WeakCountExact
<1>8. DestroyedHoldsNothing'
  <2>1. \A k \in Slot : members[o][k] = NoObj
    BY <1>1 DEF DestroyedHoldsNothing
  <2>. QED
    BY <1>3, <2>1 DEF DestroyedHoldsNothing
<1>. QED
  BY <1>5, <1>6, <1>7, <1>8

LEMMA DropWeakRefInv ==
    ASSUME HeapInv, NEW o \in Obj, DropWeakRef(o)
    PROVE  HeapInv'
<1>. USE DEF HeapInv
<1>1. /\ UserCode /\ weak[o] > 0
      /\ weak' = [weak EXCEPT ![o] = @ - 1]
      /\ DecrementWeak(o, state[o])
      /\ stack' = AfterOp
      /\ UNCHANGED <<ref_count, members, dtor, unreferred_objects,
                     isolated_roots, ext, gc, cursor>>
  BY DEF DropWeakRef, listVars, gcVars
<1>2. /\ weak[o] \in Nat /\ weak' \in [Obj -> Nat] /\ weak'[o] = weak[o] - 1
      /\ \A x \in Obj : x # o => weak'[x] = weak[x]
  BY <1>1 DEF TypeOK
<1>3. /\ weak_ref_count[o] = weak[o] + IF state[o] \in {"live", "dying"} THEN 1 ELSE 0
      /\ state[o] = "free" <=> weak_ref_count[o] = 0
      /\ weak_ref_count[o] \in Nat
      /\ state[o] \in {"free", "live", "dying", "zombie"}
  BY DEF WeakCountExact, TypeOK
<1>4. CASE state[o] \in {"live", "dying"}
  <2>1. weak_ref_count[o] # 1
    BY <1>1, <1>2, <1>3, <1>4
  <2>2. /\ weak_ref_count' = [weak_ref_count EXCEPT ![o] = @ - 1]
        /\ state' = state /\ mark' = mark /\ ref_count_scan' = ref_count_scan
    BY <1>1, <2>1 DEF DecrementWeak, TypeOK
  <2>3. stack' \in Seq(Frame) /\ StackSound' /\ \A x : Held(x)' = Held(x)
    BY <1>1, <2>2, UserStep
  <2>4. /\ weak_ref_count' \in [Obj -> Nat]
        /\ weak_ref_count'[o] = weak_ref_count[o] - 1
        /\ \A x \in Obj : x # o => weak_ref_count'[x] = weak_ref_count[x]
    BY <1>1, <1>2, <1>3, <2>2 DEF TypeOK
  <2>5. TypeOK'
    BY <1>1, <1>2, <2>2, <2>3, <2>4 DEF TypeOK
  <2>6. RefCountExact'
    <3>1. \A x \in Obj : InEdges(x)' = InEdges(x)
      BY <1>1 DEF InEdges
    <3>. QED
      BY <1>1, <2>2, <2>3, <3>1 DEF RefCountExact
  <2>7. WeakCountExact'
    BY <1>1, <1>2, <1>3, <1>4, <2>2, <2>4 DEF WeakCountExact
  <2>8. DestroyedHoldsNothing'
    BY <1>1, <2>2 DEF DestroyedHoldsNothing
  <2>. QED
    BY <2>3, <2>5, <2>6, <2>7, <2>8
<1>5. CASE state[o] \notin {"live", "dying"}
  <2>1. state[o] = "zombie" /\ weak_ref_count[o] = weak'[o] + 1 /\ ref_count[o] = 0
    BY <1>1, <1>2, <1>3, <1>5 DEF RefCountExact, TypeOK
  <2>2. DecrementWeak(o, "zombie")
    BY <1>1, <2>1
  <2>3. \A x \in Obj : state[x] = "dying" => state'[x] = "dying"
    BY <1>1, <2>1 DEF DecrementWeak, TypeOK
  <2>4. stack' \in Seq(Frame) /\ StackSound' /\ \A x : Held(x)' = Held(x)
    BY <1>1, <2>3, UserStep
  <2>. QED
    BY <1>1, <1>2, <2>1, <2>2, <2>4, WeakStep
<1>. QED
  BY <1>4, <1>5

-----------------------------------------------------------------------------
(* Finalization.                                                             *)

LEMMA TopFacts ==
    ASSUME TypeOK, StackSound, NEW op, Running(op)
    PROVE  /\ stack \in Seq(Frame) /\ Len(stack) > 0 /\ Len(stack) \in DOMAIN stack
           /\ Top = stack[Len(stack)] /\ Top \in Frame /\ Top.op = op
           /\ Top.o \in Obj /\ Top.k \in Nat /\ Top.st \in {0, 1, 2}
           /\ op \in {"collect", "fin", "dtor", "set"} =>
                gc \in {"idle", "collect"} /\ Shape(stack, state, members)
<1>1. stack \in Seq(Frame) /\ Len(stack) > 0 /\ Top = stack[Len(stack)] /\ Top.op = op
  BY DEF TypeOK, Running, Top
<1>2. Len(stack) \in DOMAIN stack /\ Top \in Frame
  BY <1>1
<1>3. Top.o \in Obj /\ Top.k \in Nat /\ Top.st \in {0, 1, 2}
  BY <1>2 DEF Frame
<1>4. op \in {"collect", "fin", "dtor", "set"} => gc \in {"idle", "collect"}
  BY <1>1, <1>2 DEF StackSound
<1>. QED
  BY <1>1, <1>2, <1>3, <1>4, ShapeOfStack

(* The top frame goes on to its next slot, leaving an empty one behind.      *)
LEMMA NextSlotStep ==
    ASSUME NEW s \in Seq(Frame), Len(s) > 0
    PROVE  /\ NextSlot(s) \in Seq(Frame)
           /\ Edited(s, NextSlot(s))
           /\ NextSlot(s)[Len(s)].k = s[Len(s)].k + 1
           /\ \A x : HoldersIn(NextSlot(s), x) = HoldersIn(s, x)
<1>. DEFINE n == s[Len(s)].k + 1
<1>1. s[Len(s)] \in Frame
  OBVIOUS
<1>2. n \in Nat
  BY <1>1 DEF Frame
<1>3. NextSlot(s) = [s EXCEPT ![Len(s)].k = n]
  BY DEF NextSlot
<1>. HIDE DEF n
<1>4. Edited(s, NextSlot(s)) /\ NextSlot(s)[Len(s)].k = n
  BY <1>2, <1>3, TopEdit
<1>5. \A x : HoldersIn(NextSlot(s), x) = HoldersIn(s, x)
  BY <1>4, HoldersEdit
<1>. QED
  BY <1>4, <1>5 DEF Edited, n

LEMMA MoveStep ==
    ASSUME NEW s \in Seq(Frame), Len(s) > 0, NEW n \in Nat
    PROVE  /\ [s EXCEPT ![Len(s)].k = n] \in Seq(Frame)
           /\ Edited(s, [s EXCEPT ![Len(s)].k = n])
           /\ [s EXCEPT ![Len(s)].k = n][Len(s)].k = n
           /\ \A x : HoldersIn([s EXCEPT ![Len(s)].k = n], x) = HoldersIn(s, x)
<1>. DEFINE t == [s EXCEPT ![Len(s)].k = n]
<1>1. t = [s EXCEPT ![Len(s)].k = n]
  OBVIOUS
<1>. HIDE DEF t
<1>2. Edited(s, t) /\ t[Len(s)].k = n
  BY <1>1, TopEdit
<1>3. \A x : HoldersIn(t, x) = HoldersIn(s, x)
  BY <1>2, HoldersEdit
<1>4. t \in Seq(Frame)
  BY <1>2 DEF Edited
<1>. QED
  BY <1>2, <1>3, <1>4 DEF t

LEMMA LeastMember ==
    ASSUME NEW T \in SUBSET Nat, T # {}
    PROVE  \E x \in T : \A y \in T : ~(y < x)
<1>1. PICK x \in T : \A y \in T : ~(<<y, x>> \in OpToRel(<, Nat))
  BY NatLessThanWellFounded, WFMin, Zenon
<1>. QED
  BY <1>1 DEF OpToRel

(* The member after slot k, 0 for the first one.                             *)
LEMMA NextMemberFacts ==
    ASSUME NEW p \in Obj, NEW k \in 0 .. MaxMembers, NEW n, n = NextMember(p, k)
    PROVE  /\ n \in k + 1 .. MaxMembers + 1 /\ n \in Nat
           /\ n \in Slot => members[p][n] # NoObj
           /\ \A j \in Slot : k < j /\ j < n => members[p][j] = NoObj
<1>0. MaxMembers \in Nat /\ k \in Nat /\ k <= MaxMembers
  BY HeapAssumption
<1>. DEFINE T == {j \in k + 1 .. MaxMembers + 1 : j \in Slot => members[p][j] # NoObj}
<1>1. T \subseteq Nat /\ MaxMembers + 1 \in T
  BY <1>0 DEF Slot
<1>. HIDE DEF T
<1>2. \E x \in T : \A y \in T : ~(y < x)
  BY <1>1, LeastMember
<1>3. PICK x \in T : \A y \in T : ~(y < x)
  BY <1>2
<1>4. x \in k + 1 .. MaxMembers + 1 /\ (x \in Slot => members[p][x] # NoObj)
  BY DEF T
<1>5. ASSUME NEW j \in k + 1 .. x - 1
      PROVE  members[p][j] = NoObj
  <2>1. j \in k + 1 .. MaxMembers + 1 /\ j < x /\ j \in Slot
    BY <1>0, <1>4 DEF Slot
  <2>. QED
    BY <1>3, <2>1 DEF T
<1>6. \E y \in k + 1 .. MaxMembers + 1 :
        /\ y \in Slot => members[p][y] # NoObj
        /\ \A j \in k + 1 .. y - 1 : members[p][j] = NoObj
  BY <1>4, <1>5
<1>7. /\ n \in k + 1 .. MaxMembers + 1
      /\ n \in Slot => members[p][n] # NoObj
      /\ \A j \in k + 1 .. n - 1 : members[p][j] = NoObj
  BY <1>6 DEF NextMember
<1>. QED
  BY <1>0, <1>7 DEF Slot

LEMMA FinalizeInv ==
    ASSUME HeapInv, NEW o \in Obj, Finalize(o)
    PROVE  HeapInv'
<1>. USE DEF HeapInv
<1>. DEFINE f == [op |-> "fin", o |-> o, k |-> 0, st |-> 2]
<1>1. /\ UserCode /\ ext[o] > 0
      /\ ext' = [ext EXCEPT ![o] = @ - 1]
      /\ stack' = Append(AfterOp, f)
      /\ UNCHANGED <<state, ref_count, weak_ref_count, members, dtor, mark, ref_count_scan,
                     unreferred_objects, isolated_roots, weak, gc, cursor>>
  BY DEF Finalize, objVars, scanVars, listVars, gcVars
<1>2. f \in Frame /\ Holds(f) /\ ~Destroys(f) /\ f.op = "fin" /\ f.o = o
  BY DEF Frame, Holds, Destroys
<1>. HIDE DEF f
<1>3. /\ gc \in {"idle", "collect"} /\ AfterOp \in Seq(Frame)
      /\ Shape(AfterOp, state, members)
      /\ \A x : HoldersIn(AfterOp, x) = HoldersIn(stack, x)
  BY <1>1, UserOp
<1>4. stack' \in Seq(Frame) /\ Shape(stack', state', members')
  <2>1. Linked(Append(AfterOp, f), members, Len(AfterOp) + 1)
    BY <1>2, <1>3 DEF Linked
  <2>. QED
    BY <1>1, <1>2, <1>3, <2>1, ShapePush
<1>5. StackSound'
  BY <1>1, <1>3, <1>4 DEF StackSound, Shape
<1>6. TypeOK'
  BY <1>1, <1>4 DEF TypeOK
<1>7. ASSUME NEW x \in Obj
      PROVE  ref_count'[x] = ext'[x] + Held(x)' + Cardinality(InEdges(x)')
  <2>1. /\ ref_count[x] = ext[x] + Held(x) + Cardinality(InEdges(x))
        /\ ext[x] \in Nat /\ Held(x) \in Nat /\ Cardinality(InEdges(x)) \in Nat
    BY Owned DEF RefCountExact, TypeOK
  <2>2. Held(x)' = Held(x) + IF x = o THEN 1 ELSE 0
    BY <1>1, <1>2, <1>3, HoldersPush DEF Held
  <2>3. ext'[x] = IF x = o THEN ext[x] - 1 ELSE ext[x]
    BY <1>1 DEF TypeOK
  <2>4. ref_count'[x] = ref_count[x] /\ InEdges(x)' = InEdges(x)
    BY <1>1 DEF InEdges
  <2>. QED
    BY <2>1, <2>2, <2>3, <2>4
<1>. QED
  BY <1>1, <1>5, <1>6, <1>7, QuietInv

(* A step of finalization that leaves the heap alone.                        *)
LEMMA FrameStep ==
    ASSUME HeapInv, gc \in {"idle", "collect"}, gc' = gc,
           stack' \in Seq(Frame), Shape(stack', state, members),
           dtor' \in [Obj -> BOOLEAN],
           UNCHANGED <<state, ref_count, weak_ref_count, members, scanVars,
                       listVars, ownVars, cursor>>,
           \A x \in Obj : Cardinality(HoldersIn(stack', x)) = Cardinality(HoldersIn(stack, x))
    PROVE  HeapInv'
<1>1. UNCHANGED <<state, ref_count, weak_ref_count, members, mark, ref_count_scan,
                  unreferred_objects, isolated_roots, ext, weak, gc, cursor>>
  BY DEF scanVars, listVars, ownVars
<1>2. StackSound'
  BY <1>1 DEF StackSound, Shape
<1>3. TypeOK'
  BY <1>1 DEF HeapInv, TypeOK
<1>4. \A x \in Obj : Held(x)' = Held(x)
  BY DEF Held
<1>. QED
  BY <1>1, <1>2, <1>3, <1>4, SameHeapInv

LEMMA CallDtorInv ==
    ASSUME HeapInv, CallDtor
    PROVE  HeapInv'
<1>. DEFINE f == [op |-> "dtor", o |-> Top.o, k |-> MaxDtorOps, st |-> 0]
            n == NextMember(Top.o, 0)
            s == [stack EXCEPT ![Len(stack)].k = n]
<1>1. /\ Running("fin") /\ Top.k = 0
      /\ dtor' = [dtor EXCEPT ![Top.o] = FALSE]
      /\ stack' = IF dtor[Top.o] THEN Append(stack, f) ELSE s
      /\ UNCHANGED <<state, ref_count, weak_ref_count, members, scanVars,
                     listVars, ownVars, gc, cursor>>
  BY DEF CallDtor, MoveTo, gcVars
<1>2. /\ stack \in Seq(Frame) /\ Len(stack) > 0 /\ Len(stack) \in Nat /\ Len(stack) \in DOMAIN stack
      /\ Top = stack[Len(stack)] /\ Top.o \in Obj /\ Top.op = "fin"
      /\ gc \in {"idle", "collect"} /\ Shape(stack, state, members)
  BY <1>1, TopFacts DEF HeapInv
<1>3. f \in Frame /\ ~Holds(f) /\ ~Destroys(f) /\ f.op = "dtor" /\ f.o = Top.o
  BY <1>2, HeapAssumption DEF Frame, Holds, Destroys
<1>4. n \in Nat /\ \A j \in Slot : j < n => members[Top.o][j] = NoObj
  <2>1. 0 \in 0 .. MaxMembers /\ \A j \in Slot : 0 < j
    BY HeapAssumption DEF Slot
  <2>. QED
    BY <1>2, <2>1, NextMemberFacts
<1>5. /\ s \in Seq(Frame) /\ Edited(stack, s) /\ s[Len(stack)].k = n
      /\ \A x : HoldersIn(s, x) = HoldersIn(stack, x)
  <2>. HIDE DEF n
  <2>. QED
    BY <1>2, <1>4, MoveStep
<1>6. Shape(s, state, members)
  <2>. HIDE DEF s, n
  <2>. QED
    BY <1>2, <1>4, <1>5, ShapeEdit
<1>. HIDE DEF f, s
<1>7. /\ Append(stack, f) \in Seq(Frame)
      /\ Shape(Append(stack, f), state, members)
  <2>1. Linked(Append(stack, f), members, Len(stack) + 1)
    <3>1. /\ Append(stack, f)[Len(stack) + 1] = f
          /\ Append(stack, f)[Len(stack)] = stack[Len(stack)]
          /\ (Len(stack) + 1) - 1 = Len(stack) /\ Len(stack) + 1 > 1
      BY <1>2, <1>3
    <3>. QED
      BY <1>1, <1>2, <1>3, <3>1, HeapAssumption DEF Linked
  <2>. QED
    BY <1>2, <1>3, <2>1, ShapePush
<1>8. stack' \in Seq(Frame) /\ Shape(stack', state, members)
  BY <1>1, <1>5, <1>6, <1>7
<1>9. \A x \in Obj : Cardinality(HoldersIn(stack', x)) = Cardinality(HoldersIn(stack, x))
  <2>1. ASSUME NEW x \in Obj
        PROVE  Cardinality(HoldersIn(Append(stack, f), x)) = Cardinality(HoldersIn(stack, x))
    BY <1>2, <1>3, HoldersPush, HoldersFinite
  <2>. QED
    BY <1>1, <1>5, <2>1
<1>10. dtor' \in [Obj -> BOOLEAN]
  BY <1>1 DEF HeapInv, TypeOK
<1>. QED
  BY <1>1, <1>2, <1>8, <1>9, <1>10, FrameStep

LEMMA DtorReturnsInv ==
    ASSUME HeapInv, DtorReturns
    PROVE  HeapInv'
<1>1. /\ Running("dtor") /\ stack' = Pop(stack)
      /\ UNCHANGED <<state, ref_count, weak_ref_count, members, dtor, scanVars,
                     listVars, ownVars, gc, cursor>>
  BY DEF DtorReturns, objVars, gcVars
<1>2. /\ stack \in Seq(Frame) /\ Len(stack) > 0
      /\ Top = stack[Len(stack)] /\ Top.op = "dtor"
      /\ gc \in {"idle", "collect"} /\ Shape(stack, state, members)
  BY <1>1, TopFacts DEF HeapInv
<1>3. stack' \in Seq(Frame) /\ Shape(stack', state, members)
  BY <1>1, <1>2, PopPush, ShapePop
<1>4. ~Holds(stack[Len(stack)])
  BY <1>2 DEF Holds
<1>5. \A x \in Obj : Cardinality(HoldersIn(stack', x)) = Cardinality(HoldersIn(stack, x))
  BY <1>1, <1>2, <1>3, <1>4, HoldersPop, HoldersFinite
<1>6. dtor' \in [Obj -> BOOLEAN]
  BY <1>1 DEF HeapInv, TypeOK
<1>. QED
  BY <1>1, <1>2, <1>3, <1>5, <1>6, FrameStep

LEMMA FreeMemberInv ==
    ASSUME HeapInv, FreeMember
    PROVE  HeapInv'
<1>. DEFINE p == Top.o
            k == Top.k
            o == members[p][k]
            n == NextMember(p, k)
            s == [stack EXCEPT ![Len(stack)].k = n]
<1>1. /\ Running("fin") /\ Top.k \in Slot /\ o # NoObj
      /\ members' = Write(members, p, k, NoObj)
      /\ ref_count' = [ref_count EXCEPT ![o] = @ - 1]
      /\ AfterUnref(o, s)
      /\ UNCHANGED <<weak_ref_count, ext, dtor, mark, ref_count_scan, weak, gc, cursor>>
  BY DEF FreeMember, MoveTo, UnrefObject, scanVars, ownVars, gcVars, Write, Member
<1>2. /\ stack \in Seq(Frame) /\ Len(stack) > 0 /\ Len(stack) \in DOMAIN stack
      /\ Top = stack[Len(stack)] /\ Top.op = "fin"
      /\ gc \in {"idle", "collect"} /\ Shape(stack, state, members)
      /\ members \in Table /\ p \in Obj /\ k \in Slot
  BY <1>1, TopFacts DEF HeapInv, TypeOK, Table
<1>3. o \in Obj /\ members[p][k] = o
  BY <1>1, <1>2 DEF Table
<1>4. /\ n \in Nat /\ k < n
      /\ \A j \in Slot : k < j /\ j < n => members[p][j] = NoObj
  <2>1. k \in 0 .. MaxMembers
    BY <1>2, HeapAssumption DEF Slot
  <2>2. n \in k + 1 .. MaxMembers + 1
    BY <1>2, <2>1, NextMemberFacts
  <2>3. n \in Nat /\ \A j \in Slot : k < j /\ j < n => members[p][j] = NoObj
    BY <1>2, <2>1, NextMemberFacts
  <2>. QED
    BY <2>1, <2>2, <2>3, HeapAssumption
<1>5. /\ s \in Seq(Frame) /\ Edited(stack, s) /\ s[Len(stack)].k = n
      /\ \A x : HoldersIn(s, x) = HoldersIn(stack, x)
  <2>. HIDE DEF n
  <2>. QED
    BY <1>2, <1>4, MoveStep
<1>. HIDE DEF o, n, s
<1>6. Shape(s, state, members')
  <2>1. Shape(stack, state, members')
    BY <1>1, <1>2, ShapeWrite
  <2>2. \A j \in Slot : j \in Int /\ (members[p][j] = NoObj \/ j = k => members'[p][j] = NoObj)
    <3>. HIDE DEF p, k
    <3>1. \A j \in Slot : j \in Int
      BY HeapAssumption DEF Slot
    <3>2. ASSUME NEW j \in Slot, members[p][j] = NoObj \/ j = k
          PROVE  members'[p][j] = NoObj
      BY <1>1, <1>2, <3>2 DEF Write, Table
    <3>. QED
      BY <3>1, <3>2
  <2>3. Destroys(Top) => \A j \in Slot : j < n => members'[p][j] = NoObj
    <3>1. Destroys(Top) => \A j \in Slot : j < k => members[p][j] = NoObj
      BY <1>2 DEF Shape
    <3>. QED
      BY <1>2, <1>4, <2>2, <3>1
  <2>. QED
    BY <1>2, <1>5, <2>1, <2>3, ShapeEdit
<1>. HIDE DEF p, k
<1>7. ref_count[o] > 0 /\ ref_count[o] \in Nat
  BY <1>2, <1>3, Owned DEF HeapInv, TypeOK
<1>8. /\ members' \in Table
      /\ \A x \in Obj : Count(members', x) =
           IF x = o THEN Count(members, x) - 1 ELSE Count(members, x)
  BY <1>1, <1>2, <1>3, EdgesClear
<1>9. ASSUME NEW x \in Obj
      PROVE  /\ ref_count'[x] = ext'[x] + Cardinality(HoldersIn(s, x))
                                         + Cardinality(EdgesTo(members', x))
             /\ x # o => ref_count'[x] = ref_count[x]
  <2>1. /\ ref_count[x] = ext[x] + Held(x) + Count(members, x)
        /\ ext[x] \in Nat /\ Held(x) \in Nat /\ Count(members, x) \in Nat
    BY Owned DEF HeapInv, RefCountExact, TypeOK, InEdges, Count
  <2>2. Held(x) = Cardinality(HoldersIn(s, x))
    BY <1>5 DEF Held
  <2>3. /\ ref_count'[x] = IF x = o THEN ref_count[x] - 1 ELSE ref_count[x]
        /\ ext'[x] = ext[x]
    BY <1>1 DEF HeapInv, TypeOK
  <2>4. ref_count'[x] = ext'[x] + Held(x) + Count(members', x)
    BY <1>8, <2>1, <2>3
  <2>. QED
    BY <2>2, <2>3, <2>4 DEF Count
<1>10. /\ ref_count' \in [Obj -> Nat] /\ ext' \in [Obj -> Nat]
       /\ ref_count'[o] > 0 <=> ref_count[o] # 1
  <2>1. /\ ref_count \in [Obj -> Nat] /\ ref_count' = [ref_count EXCEPT ![o] = @ - 1]
        /\ ext' \in [Obj -> Nat]
    BY <1>1 DEF HeapInv, TypeOK
  <2>. QED
    BY <1>3, <1>7, <2>1
<1>11. \A x \in Obj, j \in Slot : members[x][j] = NoObj => members'[x][j] = NoObj
  BY <1>1, <1>2 DEF Write, Table
<1>12. /\ AfterUnref(o, s) /\ ref_count[o] > 0 /\ s \in Seq(Frame)
       /\ UNCHANGED <<weak_ref_count, dtor, mark, ref_count_scan, weak, gc, cursor>>
       /\ members' \in [Obj -> [Slot -> Obj \cup {NoObj}]]
       /\ gc \in {"idle", "collect"}
  BY <1>1, <1>2, <1>5, <1>7, <1>8 DEF Table
<1>. QED
  BY <1>3, <1>6, <1>9, <1>10, <1>11, <1>12, UnrefInv

(* The frame that destroys an object is the only one that does.              *)
LEMMA ShapePopDestroyed ==
    ASSUME NEW s \in Seq(Frame), Len(s) > 0, NEW sta, NEW mem, NEW sta2,
           Shape(s, sta, mem), Destroys(s[Len(s)]),
           \A x \in Obj : x # s[Len(s)].o => sta2[x] = sta[x]
    PROVE  Shape(Pop(s), sta2, mem)
<1>. DEFINE t == Pop(s)
<1>1. /\ t \in Seq(Frame)
      /\ DOMAIN t = 1 .. Len(s) - 1
      /\ \A i \in 1 .. Len(s) - 1 : t[i] = s[i]
      /\ 1 .. Len(s) - 1 \subseteq DOMAIN s
      /\ Len(s) \in DOMAIN s /\ Len(s) \notin 1 .. Len(s) - 1
  BY PopPush
<1>2. Shape(t, sta, mem)
  BY ShapePop
<1>. HIDE DEF t
<1>3. \A i \in DOMAIN t : t[i] \in Frame
  BY <1>1
<1>4. \A i \in DOMAIN t : t[i].o \in Obj
  BY <1>3 DEF Frame
<1>5. \A i \in DOMAIN t : Destroys(t[i]) => t[i].o # s[Len(s)].o /\ sta[t[i].o] = "dying"
  BY <1>1, <1>2 DEF Shape
<1>6. \A i \in DOMAIN t :
        /\ Destroys(t[i]) =>
             /\ sta2[t[i].o] = "dying"
             /\ \A k \in Slot : k < t[i].k => mem[t[i].o][k] = NoObj
        /\ t[i].op = "set" => mem[t[i].o][t[i].k] = NoObj
  BY <1>2, <1>4, <1>5 DEF Shape, Linked
<1>7. Shape(t, sta2, mem)
  BY <1>2, <1>6, ShapeHeap
<1>. QED
  BY <1>7 DEF t

LEMMA DestroyedInv ==
    ASSUME HeapInv, Destroyed
    PROVE  HeapInv'
<1>. DEFINE o == Top.o
<1>1. /\ Running("fin") /\ Top.k > MaxMembers /\ Top.st = 0
      /\ DecrementWeak(o, "zombie") /\ stack' = Pop(stack)
      /\ UNCHANGED <<ref_count, members, dtor, unreferred_objects, isolated_roots,
                     ext, weak, gc, cursor>>
  BY DEF Destroyed, listVars, ownVars, gcVars
<1>2. /\ stack \in Seq(Frame) /\ Len(stack) > 0 /\ Len(stack) \in DOMAIN stack
      /\ Top = stack[Len(stack)] /\ o \in Obj /\ Top.op = "fin" /\ Top.k \in Nat
      /\ gc \in {"idle", "collect"} /\ Shape(stack, state, members)
  BY <1>1, TopFacts DEF HeapInv
<1>3. Destroys(Top) /\ ~Holds(Top)
  BY <1>1, <1>2 DEF Destroys, Holds
<1>4. state[o] = "dying"
  BY <1>2, <1>3 DEF Shape
<1>5. \A k \in Slot : members[o][k] = NoObj
  <2>1. \A k \in Slot : k < Top.k
    BY <1>1, <1>2, HeapAssumption DEF Slot
  <2>. QED
    BY <1>2, <1>3, <2>1 DEF Shape
<1>6. ref_count[o] = 0 /\ weak_ref_count[o] = weak[o] + 1
  <2>1. o \in Obj
    BY <1>2
  <2>. HIDE DEF o
  <2>2. ref_count[o] \in Nat /\ ~(ref_count[o] > 0)
    BY <1>4, <2>1 DEF HeapInv, RefCountExact, TypeOK
  <2>3. weak_ref_count[o] = weak[o] + 1
    BY <1>4, <2>1 DEF HeapInv, WeakCountExact
  <2>. QED
    BY <2>2, <2>3
<1>7. stack' \in Seq(Frame) /\ \A x \in Obj : Held(x)' = Held(x)
  BY <1>1, <1>2, <1>3, PopPush, HoldersPop, HoldersFinite DEF Held
<1>8. StackSound'
  <2>1. \A x \in Obj : x # o => state'[x] = state[x]
    BY <1>1 DEF DecrementWeak, HeapInv, TypeOK
  <2>2. Shape(stack', state', members)
    BY <1>1, <1>2, <1>3, <2>1, ShapePopDestroyed
  <2>. QED
    BY <1>1, <1>2, <2>2 DEF StackSound, Shape
<1>9. weak' \in [Obj -> Nat] /\ weak'[o] = weak[o] /\ \A x \in Obj : weak'[x] = weak[x]
  BY <1>1 DEF HeapInv, TypeOK
<1>. HIDE DEF o
<1>. QED
  BY <1>1, <1>2, <1>5, <1>6, <1>7, <1>8, <1>9, WeakStep

LEMMA CollectedInv ==
    ASSUME HeapInv, Collected
    PROVE  HeapInv'
<1>. DEFINE o == Top.o
            s == Pop(stack)
<1>1. /\ Running("fin") /\ Top.st = 1
      /\ ref_count' = [ref_count EXCEPT ![o] = @ - 1]
      /\ AfterUnref(o, s)
      /\ UNCHANGED <<weak_ref_count, members, dtor, mark, ref_count_scan, ext, weak,
                     gc, cursor>>
  BY DEF Collected, UnrefObject, scanVars, gcVars
<1>2. /\ stack \in Seq(Frame) /\ Len(stack) > 0 /\ Len(stack) \in DOMAIN stack
      /\ Top = stack[Len(stack)] /\ o \in Obj /\ Top.op = "fin"
      /\ gc \in {"idle", "collect"} /\ Shape(stack, state, members)
  BY <1>1, TopFacts DEF HeapInv
<1>3. Holds(Top)
  BY <1>1, <1>2 DEF Holds
<1>4. ref_count[o] > 0 /\ ref_count[o] \in Nat
  BY <1>2, <1>3, Owned DEF HeapInv, TypeOK
<1>5. s \in Seq(Frame) /\ Shape(s, state, members)
  BY <1>2, PopPush, ShapePop
<1>6. ASSUME NEW x \in Obj
      PROVE  Held(x) = Cardinality(HoldersIn(s, x)) + IF x = o THEN 1 ELSE 0
  BY <1>2, <1>3, HoldersPop DEF Held
<1>. HIDE DEF o, s
<1>7. ASSUME NEW x \in Obj
      PROVE  /\ ref_count'[x] = ext'[x] + Cardinality(HoldersIn(s, x))
                                         + Cardinality(EdgesTo(members', x))
             /\ x # o => ref_count'[x] = ref_count[x]
  <2>1. /\ ref_count[x] = ext[x] + Held(x) + Cardinality(InEdges(x))
        /\ ext[x] \in Nat /\ Cardinality(InEdges(x)) \in Nat
        /\ Cardinality(HoldersIn(s, x)) \in Nat
    BY <1>5, Owned, HoldersFinite DEF HeapInv, RefCountExact, TypeOK
  <2>2. InEdges(x) = EdgesTo(members', x) /\ ext' = ext
    BY <1>1 DEF InEdges
  <2>3. ref_count'[x] = IF x = o THEN ref_count[x] - 1 ELSE ref_count[x]
    BY <1>1 DEF HeapInv, TypeOK
  <2>4. Held(x) = Cardinality(HoldersIn(s, x)) + IF x = o THEN 1 ELSE 0
    BY <1>6
  <2>. QED
    BY <2>1, <2>2, <2>3, <2>4
<1>8. ref_count' \in [Obj -> Nat] /\ ext' \in [Obj -> Nat]
  BY <1>1, <1>2, <1>4 DEF HeapInv, TypeOK
<1>9. ref_count'[o] > 0 <=> ref_count[o] # 1
  BY <1>1, <1>2, <1>4 DEF HeapInv, TypeOK
<1>10. /\ AfterUnref(o, s) /\ gc \in {"idle", "collect"} /\ o \in Obj
       /\ UNCHANGED <<weak_ref_count, dtor, mark, ref_count_scan, weak, gc, cursor>>
       /\ members' = members
       /\ members' \in [Obj -> [Slot -> Obj \cup {NoObj}]]
       /\ Shape(s, state, members')
  BY <1>1, <1>2, <1>5 DEF HeapInv, TypeOK
<1>. QED
  BY <1>4, <1>5, <1>7, <1>8, <1>9, <1>10, UnrefInv

LEMMA FinalizedInv ==
    ASSUME HeapInv, Finalized
    PROVE  HeapInv'
<1>. DEFINE o == Top.o
<1>1. /\ Running("fin") /\ Top.st = 2
      /\ ext' = [ext EXCEPT ![o] = @ + 1]
      /\ stack' = Pop(stack)
      /\ UNCHANGED <<state, ref_count, weak_ref_count, members, dtor, mark, ref_count_scan,
                     unreferred_objects, isolated_roots, weak, gc, cursor>>
  BY DEF Finalized, objVars, scanVars, listVars, gcVars
<1>2. /\ stack \in Seq(Frame) /\ Len(stack) > 0 /\ Len(stack) \in DOMAIN stack
      /\ Top = stack[Len(stack)] /\ o \in Obj /\ Top.op = "fin"
      /\ gc \in {"idle", "collect"} /\ Shape(stack, state, members)
  BY <1>1, TopFacts DEF HeapInv
<1>3. Holds(Top)
  BY <1>1, <1>2 DEF Holds
<1>4. stack' \in Seq(Frame) /\ Shape(stack', state', members')
  BY <1>1, <1>2, PopPush, ShapePop
<1>5. StackSound'
  BY <1>1, <1>2, <1>4 DEF StackSound, Shape
<1>6. TypeOK'
  <2>. HIDE DEF o
  <2>0. ext \in [Obj -> Nat] /\ o \in Obj
    BY <1>2 DEF HeapInv, TypeOK
  <2>1. ext' \in [Obj -> Nat]
    BY <1>1, <2>0
  <2>. QED
    BY <1>1, <1>4, <2>1 DEF HeapInv, TypeOK
<1>7. ASSUME NEW x \in Obj
      PROVE  ref_count'[x] = ext'[x] + Held(x)' + Cardinality(InEdges(x)')
  <2>1. /\ ref_count[x] = ext[x] + Held(x) + Cardinality(InEdges(x))
        /\ ext[x] \in Nat /\ Cardinality(InEdges(x)) \in Nat
    BY Owned DEF HeapInv, RefCountExact, TypeOK
  <2>2. Held(x) = Held(x)' + IF x = o THEN 1 ELSE 0
    BY <1>1, <1>2, <1>3, HoldersPop DEF Held
  <2>3. ext'[x] = IF x = o THEN ext[x] + 1 ELSE ext[x]
    BY <1>1 DEF HeapInv, TypeOK
  <2>4. ref_count'[x] = ref_count[x] /\ InEdges(x)' = InEdges(x)
    BY <1>1 DEF InEdges
  <2>5. Held(x)' \in Nat
    BY <1>4, HoldersFinite DEF Held
  <2>. QED
    BY <2>1, <2>2, <2>3, <2>4, <2>5
<1>. QED
  BY <1>1, <1>5, <1>6, <1>7, QuietInv

(* di_setx stores the new value: its slot is empty, and no other di_setx is  *)
(* at work on it.                                                            *)
LEMMA StoreMemberInv ==
    ASSUME HeapInv, StoreMember
    PROVE  HeapInv'
<1>. DEFINE p == Top.o
            k == Top.k
            n == Len(stack) - 1
            o == stack[n].o
            t == Pop(stack)
            s == Pop(t)
<1>1. /\ Running("set")
      /\ members' = Write(members, p, k, o)
      /\ ref_count' = [ref_count EXCEPT ![o] = @ + 1]
      /\ ext' = [[ext EXCEPT ![o] = @ + 1] EXCEPT ![p] = @ + 1]
      /\ stack' = s
      /\ UNCHANGED <<state, weak_ref_count, dtor, mark, ref_count_scan,
                     unreferred_objects, isolated_roots, weak, gc, cursor>>
  BY DEF StoreMember, scanVars, listVars, gcVars, Write
<1>2. /\ stack \in Seq(Frame) /\ Len(stack) > 0 /\ Len(stack) \in DOMAIN stack
      /\ Top = stack[Len(stack)] /\ Top.op = "set" /\ p \in Obj
      /\ gc \in {"idle", "collect"} /\ Shape(stack, state, members)
      /\ members \in Table
  BY <1>1, TopFacts DEF HeapInv, TypeOK, Table
<1>3. /\ Len(stack) > 1 /\ n \in DOMAIN stack /\ stack[n].op = "value"
      /\ k \in Slot /\ members[p][k] = NoObj
      /\ \A j \in DOMAIN stack :
           stack[j].op = "set" /\ stack[j].o = p /\ stack[j].k = k => j = Len(stack)
  <2>1. Linked(stack, members, Len(stack))
    BY <1>2 DEF Shape
  <2>. QED
    BY <1>2, <2>1 DEF Linked
<1>4. /\ stack[n] \in Frame /\ o \in Obj
  <2>1. stack[n] \in Frame
    BY <1>2, <1>3
  <2>. QED
    BY <2>1 DEF Frame
<1>5. /\ t \in Seq(Frame) /\ Len(t) = n /\ Len(t) > 0 /\ t[Len(t)] = stack[n]
      /\ DOMAIN t = 1 .. n /\ \A i \in DOMAIN t : t[i] = stack[i] /\ i \in DOMAIN stack
      /\ Shape(t, state, members)
  <2>1. t \in Seq(Frame) /\ Len(t) = n /\ \A i \in 1 .. n : t[i] = stack[i]
    BY <1>2, PopPush
  <2>2. Shape(t, state, members)
    BY <1>2, ShapePop
  <2>. HIDE DEF t
  <2>3. n \in Nat /\ n > 0 /\ n \in 1 .. n /\ Len(stack) = n + 1
    BY <1>2, <1>3
  <2>4. DOMAIN t = 1 .. n /\ DOMAIN stack = 1 .. (n + 1)
    BY <1>2, <2>1, <2>3
  <2>. HIDE DEF n
  <2>5. t[n] = stack[n] /\ \A i \in DOMAIN t : t[i] = stack[i] /\ i \in DOMAIN stack
    BY <2>1, <2>3, <2>4
  <2>. QED
    BY <2>1, <2>2, <2>3, <2>4, <2>5
<1>6. Holds(Top) /\ Holds(stack[n])
  BY <1>2, <1>3 DEF Holds
<1>7. state[p] = "live" /\ ref_count[o] > 0
  BY <1>2, <1>3, <1>4, <1>6, Owned DEF HeapInv
<1>8. ASSUME NEW x \in Obj
      PROVE  Held(x) = Cardinality(HoldersIn(t, x)) + IF x = p THEN 1 ELSE 0
  BY <1>2, <1>6, HoldersPop DEF Held
<1>. HIDE DEF t
<1>9. /\ s \in Seq(Frame) /\ \A i \in DOMAIN s : s[i] = t[i] /\ i \in DOMAIN t
      /\ Shape(s, state, members)
  BY <1>5, PopPush, ShapePop
<1>10. ASSUME NEW x \in Obj
       PROVE  Cardinality(HoldersIn(t, x)) =
                Cardinality(HoldersIn(s, x)) + IF x = o THEN 1 ELSE 0
  BY <1>5, <1>6, HoldersPop
<1>11. \A i \in DOMAIN s : s[i] = stack[i] /\ i \in DOMAIN stack /\ i # Len(stack)
  BY <1>2, <1>5, <1>9
<1>. HIDE DEF s, o, n
<1>12. StackSound'
  <2>1. ASSUME NEW i \in DOMAIN s, s[i].o = p
        PROVE  /\ Destroys(s[i]) => ~(k < s[i].k)
               /\ ~(s[i].op = "set" /\ s[i].k = k)
    <3>1. ~Destroys(s[i])
      BY <1>7, <1>9, <2>1 DEF Shape
    <3>2. ~(s[i].op = "set" /\ s[i].k = k)
      BY <1>3, <1>11, <2>1
    <3>. QED
      BY <3>1, <3>2
  <2>. HIDE DEF p, k
  <2>2. Shape(s, state, members')
    BY <1>1, <1>2, <1>3, <1>9, <2>1, ShapeWrite
  <2>. QED
    BY <1>1, <1>2, <2>2 DEF StackSound, Shape
<1>. HIDE DEF p, k
<1>13. /\ members' \in Table
       /\ \A x \in Obj : Count(members', x) =
            IF x = o THEN Count(members, x) + 1 ELSE Count(members, x)
  BY <1>1, <1>2, <1>3, <1>4, EdgesFill
<1>14. /\ ext' \in [Obj -> Nat]
       /\ \A x \in Obj : ext'[x] =
            ext[x] + (IF x = o THEN 1 ELSE 0) + (IF x = p THEN 1 ELSE 0)
  <2>1. ext \in [Obj -> Nat]
    BY DEF HeapInv, TypeOK
  <2>2. CASE p = o
    <3>1. ext' = [ext EXCEPT ![p] = (ext[p] + 1) + 1]
      BY <1>1, <1>2, <2>1, <2>2
    <3>. QED
      BY <1>2, <2>1, <2>2, <3>1
  <2>3. CASE p # o
    BY <1>1, <1>2, <1>4, <2>1, <2>3
  <2>. QED
    BY <2>2, <2>3
<1>15. ref_count' \in [Obj -> Nat]
  BY <1>1, <1>4 DEF HeapInv, TypeOK
<1>16. TypeOK'
  BY <1>1, <1>9, <1>13, <1>14, <1>15 DEF HeapInv, TypeOK, Table
<1>17. ASSUME NEW x \in Obj
       PROVE  /\ ref_count'[x] = ext'[x] + Held(x)' + Cardinality(InEdges(x)')
              /\ ref_count'[x] > 0 <=> ref_count[x] > 0
              /\ state[x] \in {"free", "zombie"} => members'[x] = members[x]
  <2>1. /\ ref_count[x] = ext[x] + Held(x) + Count(members, x)
        /\ ext[x] \in Nat /\ Held(x) \in Nat /\ Count(members, x) \in Nat
    BY Owned DEF HeapInv, RefCountExact, TypeOK, InEdges, Count
  <2>2. Held(x)' = Cardinality(HoldersIn(s, x)) /\ Cardinality(HoldersIn(s, x)) \in Nat
    BY <1>1, <1>9, HoldersFinite DEF Held
  <2>3. ref_count'[x] = IF x = o THEN ref_count[x] + 1 ELSE ref_count[x]
    BY <1>1, <1>4 DEF HeapInv, TypeOK
  <2>4. ref_count'[x] = ext'[x] + Held(x)' + Count(members', x)
    BY <1>8, <1>10, <1>13, <1>14, <2>1, <2>2, <2>3
  <2>5. ref_count'[x] > 0 <=> ref_count[x] > 0
    BY <1>7, <2>1, <2>3
  <2>6. state[x] \in {"free", "zombie"} => members'[x] = members[x]
    BY <1>1, <1>2, <1>7 DEF Write, Table
  <2>. QED
    BY <2>4, <2>5, <2>6 DEF InEdges, Count
<1>. QED
  BY <1>1, <1>12, <1>16, <1>17, QuietInv

-----------------------------------------------------------------------------
(* The collector.                                                            *)

(* While the collector marks or scans, nothing else is on the stack, and no  *)
(* frame holds a reference.                                                  *)
Marking(s, rcs) ==
    \A i \in DOMAIN s :
        /\ s[i].op = "mark"
        /\ s[i].st = 1 => i = 1 /\ rcs[s[i].o] > 0

Scanning(s) == \A i \in DOMAIN s : s[i].op = "scan"

LEMMA CollectorStack ==
    ASSUME TypeOK, StackSound
    PROVE  /\ gc = "mark" => Marking(stack, ref_count_scan)
           /\ gc = "scan" => Scanning(stack)
<1>1. \A i \in DOMAIN stack : stack[i] \in Frame
  BY DEF TypeOK
<1>2. \A i \in DOMAIN stack :
        stack[i].op \in {"mark", "scan", "collect", "fin", "dtor", "set", "value"}
  BY <1>1 DEF Frame
<1>. QED
  BY <1>2 DEF StackSound, Marking, Scanning

LEMMA NoHolders ==
    ASSUME NEW s, NEW x, Scanning(s) \/ \E rcs : Marking(s, rcs)
    PROVE  HoldersIn(s, x) = {}
  BY DEF HoldersIn, Holds, Marking, Scanning

(* A step of marking or scanning touches no reference.                       *)
LEMMA CollectorStep ==
    ASSUME HeapInv, gc \in {"mark", "scan"},
           \/ gc' = "mark" /\ Marking(stack', ref_count_scan')
           \/ gc' = "scan" /\ Scanning(stack'),
           UNCHANGED <<objVars, ownVars>>,
           mark' \in [Obj -> 0 .. 3], ref_count_scan' \in [Obj -> Nat],
           unreferred_objects' \in Seq(Obj), isolated_roots' \in Seq(Obj),
           cursor' \in Nat, stack' \in Seq(Frame)
    PROVE  HeapInv'
<1>1. UNCHANGED <<state, ref_count, weak_ref_count, members, dtor, ext, weak>>
  BY DEF objVars, ownVars
<1>2. StackSound'
  BY DEF StackSound, Marking, Scanning, Destroys, Linked
<1>3. TypeOK'
  BY <1>1 DEF HeapInv, TypeOK, Phase
<1>4. \A x \in Obj : Held(x)' = Held(x)
  <2>1. \A x : HoldersIn(stack, x) = {}
    BY CollectorStack, NoHolders DEF HeapInv
  <2>2. \A x : HoldersIn(stack', x) = {}
    BY NoHolders
  <2>. QED
    BY <2>1, <2>2 DEF Held
<1>. QED
  BY <1>1, <1>2, <1>3, <1>4, SameHeapInv

LEMMA StartCollectInv ==
    ASSUME HeapInv, StartCollect
    PROVE  HeapInv'
<1>1. /\ stack = <<>> /\ gc' = "mark"
      /\ UNCHANGED <<state, ref_count, weak_ref_count, members, dtor, mark, ref_count_scan,
                     unreferred_objects, isolated_roots, ext, weak, cursor, stack>>
  BY DEF StartCollect, objVars, scanVars, listVars, ownVars
<1>2. TypeOK' /\ StackSound' /\ \A x \in Obj : Held(x)' = Held(x)
  BY <1>1 DEF HeapInv, TypeOK, Phase, StackSound, Held
<1>. QED
  BY <1>1, <1>2, SameHeapInv

LEMMA MarkVisitStep ==
    ASSUME TypeOK, NEW o \in Obj, NEW s \in Seq(Frame), NEW isRoot \in {0, 1},
           Marking(s, ref_count_scan), isRoot = 1 => s = <<>>, MarkVisit(o, s, isRoot)
    PROVE  /\ Marking(stack', ref_count_scan')
           /\ mark' \in [Obj -> 0 .. 3] /\ ref_count_scan' \in [Obj -> Nat]
           /\ unreferred_objects' \in Seq(Obj) /\ isolated_roots' \in Seq(Obj)
           /\ stack' \in Seq(Frame)
<1>. DEFINE f == [op |-> "mark", o |-> o, k |-> 1, st |-> isRoot]
<1>1. f \in Frame /\ f.op = "mark" /\ f.o = o /\ f.st = isRoot
  BY DEF Frame
<1>2. /\ mark' = [mark EXCEPT ![o] = 1]
      /\ ref_count_scan' = [ref_count_scan EXCEPT ![o] = @ + 1]
      /\ stack' = IF mark[o] = 1 THEN s ELSE Append(s, f)
      /\ unreferred_objects' = Without(unreferred_objects, o)
      /\ isolated_roots' = Without(isolated_roots, o)
  BY DEF MarkVisit
<1>. HIDE DEF f
<1>3. mark' \in [Obj -> 0 .. 3] /\ ref_count_scan' \in [Obj -> Nat]
  BY <1>2 DEF TypeOK
<1>4. unreferred_objects' \in Seq(Obj) /\ isolated_roots' \in Seq(Obj)
  BY <1>2, WithoutType DEF TypeOK
<1>5. stack' \in Seq(Frame)
  BY <1>1, <1>2
<1>6. \A i \in DOMAIN s : s[i] \in Frame
  OBVIOUS
<1>7. \A i \in DOMAIN s : s[i].o \in Obj
  BY <1>6 DEF Frame
<1>8. ref_count_scan'[o] > 0 /\ \A x \in Obj : ref_count_scan[x] > 0 => ref_count_scan'[x] > 0
  BY <1>2 DEF TypeOK
<1>9. Marking(s, ref_count_scan')
  BY <1>7, <1>8 DEF Marking
<1>10. Marking(Append(s, f), ref_count_scan')
  <2>. DEFINE t == Append(s, f)
  <2>1. /\ DOMAIN t = 1 .. Len(s) + 1
        /\ \A i \in 1 .. Len(s) : t[i] = s[i]
        /\ t[Len(s) + 1] = f
        /\ DOMAIN s = 1 .. Len(s) /\ Len(s) \in Nat
        /\ s = <<>> => Len(s) = 0
    OBVIOUS
  <2>. HIDE DEF t
  <2>2. Marking(t, ref_count_scan')
    BY <1>1, <1>8, <1>9, <2>1 DEF Marking
  <2>. QED
    BY <2>2 DEF t
<1>. QED
  BY <1>2, <1>3, <1>4, <1>5, <1>9, <1>10

LEMMA MarkRootInv ==
    ASSUME HeapInv, MarkRoot
    PROVE  HeapInv'
<1>1. /\ gc = "mark" /\ stack = <<>> /\ unreferred_objects # <<>>
      /\ MarkVisit(Head(unreferred_objects), stack, 1)
      /\ UNCHANGED <<objVars, ownVars, gc, cursor>>
  BY DEF MarkRoot, gcVars
<1>2. Head(unreferred_objects) \in Obj /\ stack \in Seq(Frame) /\ cursor \in Nat
  BY <1>1 DEF HeapInv, TypeOK
<1>3. Marking(stack, ref_count_scan)
  BY <1>1, CollectorStack DEF HeapInv
<1>4. /\ Marking(stack', ref_count_scan')
      /\ mark' \in [Obj -> 0 .. 3] /\ ref_count_scan' \in [Obj -> Nat]
      /\ unreferred_objects' \in Seq(Obj) /\ isolated_roots' \in Seq(Obj)
      /\ stack' \in Seq(Frame)
  BY <1>1, <1>2, <1>3, MarkVisitStep DEF HeapInv
<1>. QED
  BY <1>1, <1>2, <1>4, CollectorStep

(* Going on to the next slot.                                                *)
LEMMA CollectorNext ==
    ASSUME NEW s \in Seq(Frame), Len(s) > 0
    PROVE  /\ \A rcs : Marking(s, rcs) => Marking(NextSlot(s), rcs)
           /\ Scanning(s) => Scanning(NextSlot(s))
           /\ NextSlot(s) \in Seq(Frame)
<1>1. Edited(s, NextSlot(s)) /\ NextSlot(s) \in Seq(Frame)
  BY NextSlotStep
<1>. QED
  BY <1>1 DEF Edited, Marking, Scanning

LEMMA MarkMemberInv ==
    ASSUME HeapInv, MarkMember
    PROVE  HeapInv'
<1>. DEFINE s == NextSlot(stack)
<1>1. /\ Running("mark") /\ Top.k \in Slot
      /\ UNCHANGED <<objVars, ownVars, gc, cursor>>
  BY DEF MarkMember, gcVars
<1>2. /\ stack \in Seq(Frame) /\ Len(stack) > 0 /\ Len(stack) \in DOMAIN stack
      /\ Top = stack[Len(stack)] /\ Top.o \in Obj /\ Top.op = "mark"
  BY <1>1, TopFacts DEF HeapInv
<1>3. gc = "mark"
  BY <1>2 DEF HeapInv, StackSound
<1>4. Marking(stack, ref_count_scan)
  BY <1>3, CollectorStack DEF HeapInv
<1>5. s \in Seq(Frame) /\ Marking(s, ref_count_scan)
  BY <1>2, <1>4, CollectorNext
<1>6. cursor \in Nat /\ Member \in Obj \cup {NoObj}
  BY <1>1, <1>2 DEF HeapInv, TypeOK, Member
<1>. HIDE DEF s
<1>7. CASE Member = NoObj
  <2>1. stack' = s /\ UNCHANGED <<mark, ref_count_scan, unreferred_objects, isolated_roots>>
    BY <1>7 DEF MarkMember, s, scanVars, listVars
  <2>2. /\ mark' \in [Obj -> 0 .. 3] /\ ref_count_scan' \in [Obj -> Nat]
        /\ unreferred_objects' \in Seq(Obj) /\ isolated_roots' \in Seq(Obj)
    BY <2>1 DEF HeapInv, TypeOK
  <2>. QED
    BY <1>1, <1>3, <1>5, <1>6, <2>1, <2>2, CollectorStep
<1>8. CASE Member # NoObj
  <2>1. Member \in Obj /\ MarkVisit(Member, s, 0)
    BY <1>6, <1>8 DEF MarkMember, s
  <2>2. /\ Marking(stack', ref_count_scan')
        /\ mark' \in [Obj -> 0 .. 3] /\ ref_count_scan' \in [Obj -> Nat]
        /\ unreferred_objects' \in Seq(Obj) /\ isolated_roots' \in Seq(Obj)
        /\ stack' \in Seq(Frame)
    BY <1>5, <2>1, MarkVisitStep DEF HeapInv
  <2>. QED
    BY <1>1, <1>3, <1>6, <2>2, CollectorStep
<1>. QED
  BY <1>7, <1>8

LEMMA CollectorPop ==
    ASSUME NEW s \in Seq(Frame), Len(s) > 0
    PROVE  /\ \A rcs : Marking(s, rcs) => Marking(Pop(s), rcs)
           /\ Scanning(s) => Scanning(Pop(s))
           /\ Pop(s) \in Seq(Frame)
           /\ Len(s) = 1 => DOMAIN Pop(s) = {}
<1>1. /\ Pop(s) \in Seq(Frame) /\ Len(Pop(s)) = Len(s) - 1
      /\ DOMAIN Pop(s) = 1 .. Len(s) - 1
      /\ \A i \in 1 .. Len(s) - 1 : Pop(s)[i] = s[i]
      /\ 1 .. Len(s) - 1 \subseteq DOMAIN s
  BY PopPush
<1>2. Len(s) = 1 => 1 .. Len(s) - 1 = {}
  OBVIOUS
<1>. QED
  BY <1>1, <1>2 DEF Marking, Scanning

LEMMA MarkEndInv ==
    ASSUME HeapInv, MarkEnd
    PROVE  HeapInv'
<1>. DEFINE o == Top.o
<1>1. /\ Running("mark") /\ stack' = Pop(stack)
      /\ UNCHANGED <<objVars, ownVars, mark, unreferred_objects, gc, cursor>>
  BY DEF MarkEnd, gcVars
<1>2. /\ stack \in Seq(Frame) /\ Len(stack) > 0 /\ Len(stack) \in DOMAIN stack
      /\ Top = stack[Len(stack)] /\ o \in Obj /\ Top.op = "mark"
  BY <1>1, TopFacts DEF HeapInv
<1>3. gc = "mark"
  BY <1>2 DEF HeapInv, StackSound
<1>4. Marking(stack, ref_count_scan)
  BY <1>3, CollectorStack DEF HeapInv
<1>5. /\ cursor \in Nat /\ mark \in [Obj -> 0 .. 3] /\ ref_count_scan \in [Obj -> Nat]
      /\ unreferred_objects \in Seq(Obj) /\ isolated_roots \in Seq(Obj)
  BY DEF HeapInv, TypeOK
<1>6. CASE Top.st = 0
  <2>1. UNCHANGED <<ref_count_scan, isolated_roots>>
    BY <1>6 DEF MarkEnd
  <2>2. stack' \in Seq(Frame) /\ Marking(stack', ref_count_scan')
    BY <1>1, <1>2, <1>4, <2>1, CollectorPop
  <2>. QED
    BY <1>1, <1>3, <1>5, <2>1, <2>2, CollectorStep
<1>7. CASE Top.st = 1
  <2>1. /\ ref_count_scan' = [ref_count_scan EXCEPT ![o] = @ - 1]
        /\ isolated_roots' = <<o>> \o isolated_roots
    BY <1>7 DEF MarkEnd
  <2>2. Len(stack) = 1 /\ ref_count_scan[o] > 0
    BY <1>2, <1>4, <1>7 DEF Marking
  <2>3. stack' \in Seq(Frame) /\ Marking(stack', ref_count_scan')
    BY <1>1, <1>2, <2>2, CollectorPop DEF Marking
  <2>. HIDE DEF o
  <2>4. ref_count_scan' \in [Obj -> Nat]
    BY <1>2, <1>5, <2>1, <2>2
  <2>5. isolated_roots' \in Seq(Obj)
    BY <1>2, <1>5, <2>1, PrependType
  <2>. QED
    BY <1>1, <1>3, <1>5, <2>3, <2>4, <2>5, CollectorStep
<1>. QED
  BY <1>6, <1>7 DEF MarkEnd

LEMMA StartScanInv ==
    ASSUME HeapInv, StartScan
    PROVE  HeapInv'
<1>1. /\ gc = "mark" /\ stack = <<>> /\ gc' = "scan" /\ cursor' = 1
      /\ UNCHANGED <<objVars, mark, ref_count_scan, unreferred_objects, isolated_roots,
                     ownVars, stack>>
  BY DEF StartScan, scanVars, listVars
<1>2. Scanning(stack')
  BY <1>1 DEF Scanning
<1>3. /\ mark' \in [Obj -> 0 .. 3] /\ ref_count_scan' \in [Obj -> Nat]
      /\ unreferred_objects' \in Seq(Obj) /\ isolated_roots' \in Seq(Obj)
      /\ cursor' \in Nat /\ stack' \in Seq(Frame)
  BY <1>1 DEF HeapInv, TypeOK
<1>. QED
  BY <1>1, <1>2, <1>3, CollectorStep

LEMMA ScanVisitStep ==
    ASSUME TypeOK, NEW o \in Obj, NEW s \in Seq(Frame), NEW revive,
           Scanning(s), ScanVisit(o, revive, s)
    PROVE  /\ Scanning(stack') /\ stack' \in Seq(Frame)
           /\ mark' \in [Obj -> 0 .. 3] /\ ref_count_scan' \in [Obj -> Nat]
<1>1. ASSUME NEW st \in {0, 1}
      PROVE  /\ Append(s, [op |-> "scan", o |-> o, k |-> 1, st |-> st]) \in Seq(Frame)
             /\ Scanning(Append(s, [op |-> "scan", o |-> o, k |-> 1, st |-> st]))
  <2>. DEFINE f == [op |-> "scan", o |-> o, k |-> 1, st |-> st]
              t == Append(s, f)
  <2>1. f \in Frame /\ f.op = "scan"
    BY DEF Frame
  <2>. HIDE DEF f
  <2>2. /\ t \in Seq(Frame)
        /\ DOMAIN t = 1 .. Len(s) + 1
        /\ \A i \in 1 .. Len(s) : t[i] = s[i]
        /\ t[Len(s) + 1] = f
        /\ DOMAIN s = 1 .. Len(s) /\ Len(s) \in Nat
    BY <2>1
  <2>. HIDE DEF t
  <2>3. Scanning(t)
    BY <2>1, <2>2 DEF Scanning
  <2>. QED
    BY <2>2, <2>3 DEF t, f
<1>2. CASE revive = 1 \/ ref_count_scan[o] # ref_count[o]
  <2>1. /\ mark' = [mark EXCEPT ![o] = 0]
        /\ ref_count_scan' = [ref_count_scan EXCEPT ![o] = IF mark[o] = 0 THEN @ ELSE 0]
        /\ stack' = IF mark[o] = 0 THEN s
                    ELSE Append(s, [op |-> "scan", o |-> o, k |-> 1, st |-> 1])
    BY <1>2 DEF ScanVisit
  <2>2. mark' \in [Obj -> 0 .. 3] /\ ref_count_scan' \in [Obj -> Nat]
    BY <2>1 DEF TypeOK
  <2>. QED
    BY <1>1, <2>1, <2>2
<1>3. CASE ~(revive = 1 \/ ref_count_scan[o] # ref_count[o])
  <2>1. /\ mark' = [mark EXCEPT ![o] = IF @ = 0 THEN 0 ELSE 2]
        /\ ref_count_scan' = ref_count_scan
        /\ stack' = IF mark[o] \in {0, 2} THEN s
                    ELSE Append(s, [op |-> "scan", o |-> o, k |-> 1, st |-> 0])
    BY <1>3 DEF ScanVisit
  <2>2. mark' \in [Obj -> 0 .. 3] /\ ref_count_scan' \in [Obj -> Nat]
    BY <2>1 DEF TypeOK
  <2>. QED
    BY <1>1, <2>1, <2>2
<1>. QED
  BY <1>2, <1>3

LEMMA ScanRootInv ==
    ASSUME HeapInv, ScanRoot
    PROVE  HeapInv'
<1>1. /\ gc = "scan" /\ cursor \in DOMAIN isolated_roots /\ cursor' = cursor + 1
      /\ ScanVisit(isolated_roots[cursor], 0, stack)
      /\ UNCHANGED <<objVars, ownVars, unreferred_objects, isolated_roots, gc>>
  BY DEF ScanRoot, listVars
<1>2. /\ isolated_roots[cursor] \in Obj /\ stack \in Seq(Frame) /\ cursor' \in Nat
      /\ unreferred_objects' \in Seq(Obj) /\ isolated_roots' \in Seq(Obj)
  BY <1>1 DEF HeapInv, TypeOK
<1>3. Scanning(stack)
  BY <1>1, CollectorStack DEF HeapInv
<1>4. /\ Scanning(stack') /\ stack' \in Seq(Frame)
      /\ mark' \in [Obj -> 0 .. 3] /\ ref_count_scan' \in [Obj -> Nat]
  BY <1>1, <1>2, <1>3, ScanVisitStep DEF HeapInv
<1>. QED
  BY <1>1, <1>2, <1>4, CollectorStep

LEMMA ScanMemberInv ==
    ASSUME HeapInv, ScanMember
    PROVE  HeapInv'
<1>. DEFINE s == NextSlot(stack)
<1>1. /\ Running("scan") /\ Top.k \in Slot
      /\ UNCHANGED <<objVars, ownVars, unreferred_objects, isolated_roots, gc, cursor>>
  BY DEF ScanMember, gcVars, listVars
<1>2. /\ stack \in Seq(Frame) /\ Len(stack) > 0 /\ Len(stack) \in DOMAIN stack
      /\ Top = stack[Len(stack)] /\ Top.o \in Obj /\ Top.op = "scan"
  BY <1>1, TopFacts DEF HeapInv
<1>3. gc = "scan"
  BY <1>2 DEF HeapInv, StackSound
<1>4. Scanning(stack)
  BY <1>3, CollectorStack DEF HeapInv
<1>5. s \in Seq(Frame) /\ Scanning(s)
  BY <1>2, <1>4, CollectorNext
<1>6. /\ cursor' \in Nat /\ Member \in Obj \cup {NoObj}
      /\ unreferred_objects' \in Seq(Obj) /\ isolated_roots' \in Seq(Obj)
  BY <1>1, <1>2 DEF HeapInv, TypeOK, Member
<1>. HIDE DEF s
<1>7. CASE Member = NoObj
  <2>1. stack' = s /\ UNCHANGED <<mark, ref_count_scan>>
    BY <1>7 DEF ScanMember, s, scanVars
  <2>2. mark' \in [Obj -> 0 .. 3] /\ ref_count_scan' \in [Obj -> Nat]
    BY <2>1 DEF HeapInv, TypeOK
  <2>. QED
    BY <1>1, <1>3, <1>5, <1>6, <2>1, <2>2, CollectorStep
<1>8. CASE Member # NoObj
  <2>1. Member \in Obj /\ ScanVisit(Member, Top.st, s)
    BY <1>6, <1>8 DEF ScanMember, s
  <2>2. /\ Scanning(stack') /\ stack' \in Seq(Frame)
        /\ mark' \in [Obj -> 0 .. 3] /\ ref_count_scan' \in [Obj -> Nat]
    BY <1>5, <2>1, ScanVisitStep DEF HeapInv
  <2>. QED
    BY <1>1, <1>3, <1>6, <2>2, CollectorStep
<1>. QED
  BY <1>7, <1>8

LEMMA ScanEndInv ==
    ASSUME HeapInv, ScanEnd
    PROVE  HeapInv'
<1>1. /\ Running("scan") /\ stack' = Pop(stack)
      /\ UNCHANGED <<objVars, ownVars, mark, ref_count_scan, unreferred_objects,
                     isolated_roots, gc, cursor>>
  BY DEF ScanEnd, gcVars, listVars, scanVars
<1>2. /\ stack \in Seq(Frame) /\ Len(stack) > 0 /\ Len(stack) \in DOMAIN stack
      /\ Top = stack[Len(stack)] /\ Top.op = "scan"
  BY <1>1, TopFacts DEF HeapInv
<1>3. gc = "scan"
  BY <1>2 DEF HeapInv, StackSound
<1>4. Scanning(stack') /\ stack' \in Seq(Frame)
  BY <1>1, <1>2, <1>3, CollectorStack, CollectorPop DEF HeapInv
<1>5. /\ mark' \in [Obj -> 0 .. 3] /\ ref_count_scan' \in [Obj -> Nat]
      /\ unreferred_objects' \in Seq(Obj) /\ isolated_roots' \in Seq(Obj)
      /\ cursor' \in Nat
  BY <1>1 DEF HeapInv, TypeOK
<1>. QED
  BY <1>1, <1>3, <1>4, <1>5, CollectorStep

LEMMA DropRevivedInv ==
    ASSUME HeapInv, DropRevived
    PROVE  HeapInv'
<1>1. /\ gc = "scan" /\ stack' = stack
      /\ UNCHANGED <<objVars, ownVars, mark, ref_count_scan, unreferred_objects,
                     gc, cursor>>
  BY DEF DropRevived, gcVars, scanVars
<1>2. PICK i \in DOMAIN isolated_roots :
        isolated_roots' = Without(isolated_roots, isolated_roots[i])
  BY DEF DropRevived
<1>3. isolated_roots' \in Seq(Obj)
  BY <1>2, WithoutType DEF HeapInv, TypeOK
<1>4. Scanning(stack')
  BY <1>1, CollectorStack DEF HeapInv
<1>5. /\ mark' \in [Obj -> 0 .. 3] /\ ref_count_scan' \in [Obj -> Nat]
      /\ unreferred_objects' \in Seq(Obj) /\ cursor' \in Nat /\ stack' \in Seq(Frame)
  BY <1>1 DEF HeapInv, TypeOK
<1>. QED
  BY <1>1, <1>3, <1>4, <1>5, CollectorStep

(* From one phase to the next with nothing running.                          *)
LEMMA PhaseStep ==
    ASSUME HeapInv, stack = <<>>, gc' \in Phase, cursor' \in Nat,
           UNCHANGED <<objVars, scanVars, listVars, ownVars, stack>>
    PROVE  HeapInv'
<1>1. UNCHANGED <<state, ref_count, weak_ref_count, members, dtor, mark, ref_count_scan,
                  unreferred_objects, isolated_roots, ext, weak, stack>>
  BY DEF objVars, scanVars, listVars, ownVars
<1>2. TypeOK' /\ StackSound' /\ \A x \in Obj : Held(x)' = Held(x)
  BY <1>1 DEF HeapInv, TypeOK, StackSound, Held
<1>. QED
  BY <1>1, <1>2, SameHeapInv

LEMMA StartFinalizeInv ==
    ASSUME HeapInv, StartFinalize
    PROVE  HeapInv'
  BY PhaseStep DEF StartFinalize, Phase

LEMMA EndCollectInv ==
    ASSUME HeapInv, EndCollect
    PROVE  HeapInv'
  BY PhaseStep DEF EndCollect, Phase, HeapInv, TypeOK

(* The collector takes a reference to what it is about to finalize.          *)
LEMMA CollectVisitInv ==
    ASSUME HeapInv, NEW o \in Obj, ref_count[o] > 0, NEW s \in Seq(Frame),
           gc \in {"idle", "collect"}, Shape(s, state, members),
           \A x : HoldersIn(s, x) = HoldersIn(stack, x), CollectVisit(o, s),
           UNCHANGED <<state, weak_ref_count, members, dtor, ref_count_scan,
                       listVars, ext, weak, gcVars>>
    PROVE  HeapInv'
<1>. DEFINE f == [op |-> "collect", o |-> o, k |-> NextMember(o, 0), st |-> 0]
<1>1. UNCHANGED <<state, weak_ref_count, members, dtor, ref_count_scan,
                  unreferred_objects, isolated_roots, ext, weak, gc, cursor>>
  BY DEF listVars, gcVars
<1>2. f \in Frame /\ Holds(f) /\ ~Destroys(f) /\ f.op = "collect" /\ f.o = o
  <2>1. 0 \in 0 .. MaxMembers
    BY HeapAssumption
  <2>2. NextMember(o, 0) \in Nat
    BY <2>1, NextMemberFacts
  <2>. QED
    BY <2>2 DEF Frame, Holds, Destroys
<1>3. CASE mark[o] \in {0, 3}
  <2>1. stack' = s /\ UNCHANGED <<mark, ref_count>>
    BY <1>3 DEF CollectVisit
  <2>2. StackSound'
    BY <1>1, <2>1 DEF StackSound, Shape
  <2>3. TypeOK' /\ \A x \in Obj : Held(x)' = Held(x)
    BY <1>1, <2>1 DEF HeapInv, TypeOK, Held
  <2>. QED
    BY <1>1, <2>1, <2>2, <2>3, SameHeapInv
<1>4. CASE mark[o] \notin {0, 3}
  <2>1. /\ ref_count' = [ref_count EXCEPT ![o] = @ + 1]
        /\ mark' = [mark EXCEPT ![o] = 3]
        /\ stack' = Append(s, f)
    BY <1>4 DEF CollectVisit
  <2>. HIDE DEF f
  <2>2. stack' \in Seq(Frame) /\ Shape(stack', state, members)
    <3>1. Linked(Append(s, f), members, Len(s) + 1)
      BY <1>2 DEF Linked
    <3>. QED
      BY <1>2, <2>1, <3>1, ShapePush
  <2>3. StackSound'
    BY <1>1, <2>2 DEF StackSound, Shape
  <2>4. mark' \in [Obj -> 0 .. 3] /\ ref_count' \in [Obj -> Nat]
    BY <2>1 DEF HeapInv, TypeOK
  <2>5. TypeOK'
    BY <1>1, <2>2, <2>4 DEF HeapInv, TypeOK
  <2>6. ASSUME NEW x \in Obj
        PROVE  /\ ref_count'[x] = ext'[x] + Held(x)' + Cardinality(InEdges(x)')
               /\ ref_count'[x] > 0 <=> ref_count[x] > 0
    <3>1. /\ ref_count[x] = ext[x] + Held(x) + Cardinality(InEdges(x))
          /\ ext[x] \in Nat /\ Held(x) \in Nat /\ Cardinality(InEdges(x)) \in Nat
      BY Owned DEF HeapInv, RefCountExact, TypeOK
    <3>2. Held(x)' = Held(x) + IF x = o THEN 1 ELSE 0
      BY <1>2, <2>1, HoldersPush DEF Held
    <3>3. ref_count'[x] = IF x = o THEN ref_count[x] + 1 ELSE ref_count[x]
      BY <2>1 DEF HeapInv, TypeOK
    <3>4. ext' = ext /\ InEdges(x)' = InEdges(x)
      BY <1>1 DEF InEdges
    <3>. QED
      BY <3>1, <3>2, <3>3, <3>4
  <2>. QED
    BY <1>1, <2>3, <2>5, <2>6, QuietInv
<1>. QED
  BY <1>3, <1>4

LEMMA CollectMemberInv ==
    ASSUME HeapInv, CollectMember
    PROVE  HeapInv'
<1>. DEFINE n == NextMember(Top.o, Top.k)
            s == [stack EXCEPT ![Len(stack)].k = n]
<1>1. /\ Running("collect") /\ Top.k \in Slot /\ Member # NoObj
      /\ CollectVisit(Member, s)
      /\ UNCHANGED <<state, weak_ref_count, members, dtor, ref_count_scan,
                     listVars, ext, weak, gcVars>>
  BY DEF CollectMember, MoveTo
<1>2. /\ stack \in Seq(Frame) /\ Len(stack) > 0
      /\ Top = stack[Len(stack)] /\ Top.o \in Obj /\ Top.op = "collect"
      /\ gc \in {"idle", "collect"} /\ Shape(stack, state, members)
  BY <1>1, TopFacts DEF HeapInv
<1>3. n \in Nat
  <2>1. Top.k \in 0 .. MaxMembers
    BY <1>1, HeapAssumption DEF Slot
  <2>. QED
    BY <1>2, <2>1, NextMemberFacts
<1>. HIDE DEF n
<1>4. s \in Seq(Frame) /\ Edited(stack, s) /\ \A x : HoldersIn(s, x) = HoldersIn(stack, x)
  BY <1>2, <1>3, MoveStep
<1>. HIDE DEF s
<1>5. Shape(s, state, members)
  <2>1. ~Destroys(stack[Len(stack)])
    BY <1>2 DEF Destroys
  <2>. QED
    BY <1>2, <1>4, <2>1, ShapeEdit
<1>6. Member \in Obj
  BY <1>1, <1>2 DEF HeapInv, TypeOK, Member
<1>7. ref_count[Member] > 0
  BY <1>1, <1>2, <1>6, Owned DEF HeapInv, Member
<1>. QED
  BY <1>1, <1>2, <1>4, <1>5, <1>6, <1>7, CollectVisitInv

LEMMA CollectPostInv ==
    ASSUME HeapInv, CollectPost
    PROVE  HeapInv'
<1>. DEFINE f == [op |-> "fin", o |-> Top.o, k |-> 0, st |-> 1]
            s == Pop(stack)
<1>1. /\ Running("collect") /\ stack' = Append(s, f)
      /\ UNCHANGED <<state, ref_count, weak_ref_count, members, dtor, scanVars,
                     listVars, ownVars, gc, cursor>>
  BY DEF CollectPost, objVars, gcVars
<1>2. /\ stack \in Seq(Frame) /\ Len(stack) > 0
      /\ Top = stack[Len(stack)] /\ Top.o \in Obj /\ Top.op = "collect"
      /\ gc \in {"idle", "collect"} /\ Shape(stack, state, members)
  BY <1>1, TopFacts DEF HeapInv
<1>3. /\ f \in Frame /\ Holds(f) /\ ~Destroys(f) /\ f.op = "fin"
      /\ f.o = stack[Len(stack)].o /\ Holds(stack[Len(stack)])
  BY <1>2 DEF Frame, Holds, Destroys
<1>4. s \in Seq(Frame) /\ Shape(s, state, members)
  BY <1>2, PopPush, ShapePop
<1>5. ASSUME NEW x \in Obj
      PROVE  Cardinality(HoldersIn(stack, x)) = Cardinality(HoldersIn(s, x))
               + (IF stack[Len(stack)].o = x /\ Holds(stack[Len(stack)]) THEN 1 ELSE 0)
  BY <1>2, HoldersPop
<1>. HIDE DEF f, s
<1>6. stack' \in Seq(Frame) /\ Shape(stack', state, members)
  <2>1. Linked(Append(s, f), members, Len(s) + 1)
    BY <1>3, <1>4 DEF Linked
  <2>. QED
    BY <1>1, <1>3, <1>4, <2>1, ShapePush
<1>7. ASSUME NEW x \in Obj
      PROVE  Cardinality(HoldersIn(stack', x)) = Cardinality(HoldersIn(s, x))
               + (IF f.o = x /\ Holds(f) THEN 1 ELSE 0)
  BY <1>1, <1>3, <1>4, HoldersPush
<1>8. \A x \in Obj : Cardinality(HoldersIn(stack', x)) = Cardinality(HoldersIn(stack, x))
  BY <1>3, <1>5, <1>7
<1>9. dtor' \in [Obj -> BOOLEAN]
  BY <1>1 DEF HeapInv, TypeOK
<1>. QED
  BY <1>1, <1>2, <1>6, <1>8, <1>9, FrameStep

-----------------------------------------------------------------------------
(* The lists, the second half of the invariant: their members are distinct   *)
(* and live, and so is the root a running traversal will put back.           *)

Distinct(list) == \A i, j \in DOMAIN list : list[i] = list[j] => i = j

ListsInv ==
    /\ Distinct(unreferred_objects)
    /\ Distinct(isolated_roots)
    /\ \A o \in Obj : ~(InList(unreferred_objects, o) /\ InList(isolated_roots, o))
    /\ \A o \in Obj : Listed(o) => state[o] = "live"
    /\ gc = "mark" => \A i \in DOMAIN stack : stack[i].st = 1 =>
         ~Listed(stack[i].o) /\ state[stack[i].o] = "live"

LEMMA CollectRootInv ==
    ASSUME HeapInv, ListsInv, CollectRoot
    PROVE  HeapInv'
<1>. DEFINE o == Head(isolated_roots)
<1>1. /\ gc = "collect" /\ stack = <<>> /\ isolated_roots # <<>>
      /\ CollectVisit(o, stack)
      /\ UNCHANGED <<state, weak_ref_count, members, dtor, ref_count_scan,
                     listVars, ext, weak, gcVars>>
  BY DEF CollectRoot
<1>2. stack \in Seq(Frame) /\ isolated_roots \in Seq(Obj)
  BY DEF HeapInv, TypeOK
<1>3. o \in Obj /\ 1 \in DOMAIN isolated_roots /\ isolated_roots[1] = o
  BY <1>1, <1>2
<1>. HIDE DEF o
<1>4. state[o] = "live"
  BY <1>3 DEF ListsInv, Listed, InList
<1>5. ref_count[o] > 0
  BY <1>3, <1>4 DEF HeapInv, RefCountExact
<1>6. Shape(stack, state, members)
  BY <1>1, ShapeOfStack DEF HeapInv
<1>. QED
  BY <1>1, <1>2, <1>3, <1>5, <1>6, CollectVisitInv

LEMMA WithoutFacts ==
    ASSUME NEW list \in Seq(Obj), Distinct(list), NEW o
    PROVE  /\ Distinct(Without(list, o))
           /\ \A x : InList(Without(list, o), x) <=> InList(list, x) /\ x # o
<1>1. CASE InList(list, o)
  <2>. DEFINE i == Position(list, o)
              t == Without(list, o)
  <2>1. i \in 1 .. Len(list) /\ list[i] = o
    BY <1>1 DEF InList, Position
  <2>2. t = SubSeq(list, 1, i - 1) \o SubSeq(list, i + 1, Len(list))
    BY <1>1 DEF Without
  <2>. HIDE DEF i, t
  <2>3. /\ SubSeq(list, 1, i - 1) \in Seq(Obj) /\ Len(SubSeq(list, 1, i - 1)) = i - 1
        /\ \A j \in 1 .. i - 1 : SubSeq(list, 1, i - 1)[j] = list[j]
    BY <2>1
  <2>4. /\ SubSeq(list, i + 1, Len(list)) \in Seq(Obj)
        /\ Len(SubSeq(list, i + 1, Len(list))) = Len(list) - i
        /\ \A j \in 1 .. Len(list) - i : SubSeq(list, i + 1, Len(list))[j] = list[i + j]
    BY <2>1
  <2>5. /\ Len(t) = Len(list) - 1 /\ DOMAIN t = 1 .. Len(list) - 1
        /\ \A j \in 1 .. Len(list) - 1 : t[j] = IF j < i THEN list[j] ELSE list[j + 1]
    <3>. DEFINE a == SubSeq(list, 1, i - 1)
                b == SubSeq(list, i + 1, Len(list))
    <3>1. /\ a \in Seq(Obj) /\ b \in Seq(Obj) /\ t = a \o b
          /\ Len(a) = i - 1 /\ Len(b) = Len(list) - i
      BY <2>2, <2>3, <2>4
    <3>2. /\ \A j \in 1 .. i - 1 : a[j] = list[j]
          /\ \A j \in 1 .. Len(list) - i : b[j] = list[i + j]
      BY <2>3, <2>4
    <3>. HIDE DEF a, b
    <3>3. /\ Len(t) = Len(a) + Len(b) /\ DOMAIN t = 1 .. Len(a) + Len(b)
          /\ \A j \in 1 .. Len(a) + Len(b) :
                t[j] = IF j <= Len(a) THEN a[j] ELSE b[j - Len(a)]
      BY <3>1
    <3>. QED
      BY <2>1, <3>1, <3>2, <3>3
  <2>6. DOMAIN list = 1 .. Len(list) /\ Len(list) \in Nat
    OBVIOUS
  <2>7. Distinct(t)
    <3>. SUFFICES ASSUME NEW j \in DOMAIN t, NEW k \in DOMAIN t, t[j] = t[k]
                  PROVE  j = k
      BY DEF Distinct
    <3>. DEFINE up(n) == IF n < i THEN n ELSE n + 1
    <3>1. /\ up(j) \in DOMAIN list /\ up(k) \in DOMAIN list
          /\ t[j] = list[up(j)] /\ t[k] = list[up(k)]
      BY <2>1, <2>5, <2>6
    <3>2. up(j) = up(k)
      <4>. HIDE DEF up
      <4>. QED BY <3>1 DEF Distinct
    <3>. QED
      BY <2>1, <2>5, <2>6, <3>2
  <2>8. ASSUME NEW x
        PROVE  InList(t, x) <=> InList(list, x) /\ x # o
    <3>1. ASSUME InList(t, x)
          PROVE  InList(list, x) /\ x # o
      BY <2>1, <2>5, <2>6, <3>1 DEF InList, Distinct
    <3>2. ASSUME InList(list, x), x # o
          PROVE  InList(t, x)
      <4>1. PICK j \in 1 .. Len(list) : list[j] = x
        BY <2>6, <3>2 DEF InList
      <4>2. CASE j < i
        BY <2>1, <2>5, <4>1, <4>2 DEF InList
      <4>3. CASE j > i
        <5>1. j - 1 \in 1 .. Len(list) - 1 /\ ~(j - 1 < i) /\ (j - 1) + 1 = j
          BY <2>1, <4>3
        <5>. QED
          BY <2>5, <4>1, <5>1 DEF InList
      <4>. QED
        BY <2>1, <3>2, <4>1, <4>2, <4>3
    <3>. QED
      BY <3>1, <3>2
  <2>. QED
    BY <2>7, <2>8 DEF t
<1>2. CASE ~InList(list, o)
  BY <1>2 DEF Without
<1>. QED
  BY <1>1, <1>2

LEMMA PrependFacts ==
    ASSUME NEW list \in Seq(Obj), Distinct(list), NEW o \in Obj, ~InList(list, o)
    PROVE  /\ Distinct(<<o>> \o list)
           /\ \A x : InList(<<o>> \o list, x) <=> InList(list, x) \/ x = o
<1>. DEFINE t == <<o>> \o list
<1>1. /\ DOMAIN t = 1 .. Len(list) + 1
      /\ t[1] = o
      /\ \A j \in 2 .. Len(list) + 1 : t[j] = list[j - 1]
      /\ DOMAIN list = 1 .. Len(list) /\ Len(list) \in Nat
  OBVIOUS
<1>. HIDE DEF t
<1>2. \A j \in 1 .. Len(list) : j + 1 \in 2 .. Len(list) + 1 /\ t[j + 1] = list[j]
  BY <1>1
<1>3. Distinct(t)
  <2>1. \A j \in 2 .. Len(list) + 1 : j - 1 \in DOMAIN list /\ t[j] = list[j - 1] /\ t[j] # o
    BY <1>1 DEF InList
  <2>2. \A j \in 1 .. Len(list) + 1 : j = 1 \/ j \in 2 .. Len(list) + 1
    BY <1>1
  <2>3. \A i, j \in 2 .. Len(list) + 1 : t[i] = t[j] => i - 1 = j - 1
    BY <2>1 DEF Distinct
  <2>4. \A i, j \in 2 .. Len(list) + 1 : t[i] = t[j] => i = j
    BY <1>1, <2>3
  <2>. QED
    BY <1>1, <2>1, <2>2, <2>4 DEF Distinct
<1>4. ASSUME NEW x
      PROVE  InList(t, x) <=> InList(list, x) \/ x = o
  <2>1. InList(t, x) => InList(list, x) \/ x = o
    BY <1>1 DEF InList
  <2>2. InList(list, x) => InList(t, x)
    BY <1>1, <1>2 DEF InList
  <2>3. x = o => InList(t, x)
    BY <1>1 DEF InList
  <2>. QED
    BY <2>1, <2>2, <2>3
<1>. QED
  BY <1>3, <1>4 DEF t

(* Steps outside marking that leave the lists alone.                         *)
LEMMA KeepLists ==
    ASSUME HeapInv, ListsInv, gc' # "mark", UNCHANGED listVars,
           \A x \in Obj : state[x] = "live" => state'[x] = "live"
    PROVE  ListsInv'
<1>1. UNCHANGED <<unreferred_objects, isolated_roots>>
  BY DEF listVars
<1>2. \A x : Listed(x)' <=> Listed(x)
  BY <1>1 DEF Listed, InList
<1>. QED
  BY <1>1, <1>2 DEF ListsInv, InList, Distinct

(* di_unref_object lists an object that lives on, and unlists one that dies. *)
LEMMA UnrefLists ==
    ASSUME HeapInv, ListsInv, gc' # "mark", NEW o \in Obj, NEW s,
           ref_count[o] > 0, AfterUnref(o, s)
    PROVE  ListsInv'
<1>. DEFINE u == unreferred_objects
            r == isolated_roots
<1>1. /\ u \in Seq(Obj) /\ r \in Seq(Obj) /\ state[o] = "live"
      /\ state \in [Obj -> {"free", "live", "dying", "zombie"}]
  BY DEF HeapInv, TypeOK, RefCountExact
<1>2. /\ Distinct(u) /\ Distinct(r)
      /\ \A x \in Obj : ~(InList(u, x) /\ InList(r, x))
      /\ \A x \in Obj : InList(u, x) \/ InList(r, x) => state[x] = "live"
  BY DEF ListsInv, Listed
<1>3. CASE ref_count[o] = 1
  <2>1. /\ u' = Without(u, o) /\ r' = Without(r, o)
        /\ state' = [state EXCEPT ![o] = "dying"]
    BY <1>3 DEF AfterUnref
  <2>2. /\ Distinct(u') /\ Distinct(r')
        /\ \A x : InList(u', x) <=> InList(u, x) /\ x # o
        /\ \A x : InList(r', x) <=> InList(r, x) /\ x # o
    BY <1>1, <1>2, <2>1, WithoutFacts
  <2>3. \A x \in Obj : x # o => state'[x] = state[x]
    BY <1>1, <2>1
  <2>. QED
    BY <1>2, <2>2, <2>3 DEF ListsInv, Listed
<1>4. CASE ref_count[o] # 1
  <2>1. r' = r /\ state' = state
    BY <1>4 DEF AfterUnref
  <2>2. CASE mark[o] = 0 /\ ~Listed(o)
    <3>1. u' = <<o>> \o u /\ ~InList(u, o) /\ ~InList(r, o)
      BY <1>4, <2>2 DEF AfterUnref, Listed
    <3>2. Distinct(u') /\ \A x : InList(u', x) <=> InList(u, x) \/ x = o
      BY <1>1, <1>2, <3>1, PrependFacts
    <3>. QED
      BY <1>1, <1>2, <2>1, <3>1, <3>2 DEF ListsInv, Listed
  <2>3. CASE ~(mark[o] = 0 /\ ~Listed(o))
    <3>1. u' = u
      BY <1>4, <2>3 DEF AfterUnref
    <3>. QED
      BY <1>2, <2>1, <3>1 DEF ListsInv, Listed
  <2>. QED
    BY <2>2, <2>3
<1>. QED
  BY <1>3, <1>4

LEMMA RefUnrefLists ==
    ASSUME HeapInv, ListsInv, gc' # "mark", NEW o \in Obj, state[o] = "live",
           RefUnref(o), UNCHANGED <<isolated_roots, state>>
    PROVE  ListsInv'
<1>. DEFINE u == unreferred_objects
            r == isolated_roots
<1>1. u \in Seq(Obj) /\ r \in Seq(Obj)
  BY DEF HeapInv, TypeOK
<1>2. /\ Distinct(u) /\ Distinct(r)
      /\ \A x \in Obj : ~(InList(u, x) /\ InList(r, x))
      /\ \A x \in Obj : InList(u, x) \/ InList(r, x) => state[x] = "live"
  BY DEF ListsInv, Listed
<1>3. CASE mark[o] = 0 /\ ~Listed(o)
  <2>1. u' = <<o>> \o u /\ ~InList(u, o) /\ ~InList(r, o)
    BY <1>3 DEF RefUnref, Listed
  <2>2. Distinct(u') /\ \A x : InList(u', x) <=> InList(u, x) \/ x = o
    BY <1>1, <1>2, <2>1, PrependFacts
  <2>. QED
    BY <1>1, <1>2, <2>1, <2>2 DEF ListsInv, Listed
<1>4. CASE ~(mark[o] = 0 /\ ~Listed(o))
  <2>1. u' = u
    BY <1>4 DEF RefUnref
  <2>. QED
    BY <1>2, <2>1 DEF ListsInv, Listed
<1>. QED
  BY <1>3, <1>4

LEMMA MarkVisitLists ==
    ASSUME HeapInv, ListsInv, gc = "mark", NEW o \in Obj, state[o] = "live",
           NEW s \in Seq(Frame), s = stack \/ Edited(stack, s),
           NEW isRoot \in {0, 1}, MarkVisit(o, s, isRoot), state' = state
    PROVE  ListsInv'
<1>. DEFINE u == unreferred_objects
            r == isolated_roots
            f == [op |-> "mark", o |-> o, k |-> 1, st |-> isRoot]
<1>1. u \in Seq(Obj) /\ r \in Seq(Obj) /\ stack \in Seq(Frame)
  BY DEF HeapInv, TypeOK
<1>2. /\ Distinct(u) /\ Distinct(r)
      /\ \A x \in Obj : ~(InList(u, x) /\ InList(r, x))
      /\ \A x \in Obj : InList(u, x) \/ InList(r, x) => state[x] = "live"
  BY DEF ListsInv, Listed
<1>3. /\ u' = Without(u, o) /\ r' = Without(r, o)
      /\ stack' = s \/ stack' = Append(s, f)
  BY DEF MarkVisit
<1>4. /\ Distinct(u') /\ Distinct(r')
      /\ \A x : InList(u', x) <=> InList(u, x) /\ x # o
      /\ \A x : InList(r', x) <=> InList(r, x) /\ x # o
  BY <1>1, <1>2, <1>3, WithoutFacts
<1>5. \A i \in DOMAIN s : s[i].st = 1 =>
         ~Listed(s[i].o) /\ state[s[i].o] = "live"
  BY DEF ListsInv, Edited
<1>6. f.st = isRoot /\ f.o = o
  OBVIOUS
<1>7. /\ \A i \in DOMAIN Append(s, f) : i \in DOMAIN s \/ i = Len(s) + 1
      /\ \A i \in DOMAIN s : Append(s, f)[i] = s[i]
      /\ Append(s, f)[Len(s) + 1] = f
  OBVIOUS
<1>. HIDE DEF f
<1>8. ~Listed(o)' /\ \A x : Listed(x)' => Listed(x)
  BY <1>4 DEF Listed
<1>9. \A i \in DOMAIN stack' : stack'[i].st = 1 =>
         ~InList(u', stack'[i].o) /\ ~InList(r', stack'[i].o) /\ state[stack'[i].o] = "live"
  <2>1. CASE stack' = s
    BY <1>4, <1>5, <2>1 DEF Listed
  <2>2. CASE stack' = Append(s, f)
    BY <1>4, <1>5, <1>6, <1>7, <2>2 DEF Listed
  <2>. QED
    BY <1>3, <2>1, <2>2
<1>. HIDE DEF u, r
<1>. QED
  BY <1>2, <1>4, <1>9 DEF ListsInv, Listed, u, r

LEMMA MarkRootLists ==
    ASSUME HeapInv, ListsInv, MarkRoot
    PROVE  ListsInv'
<1>. DEFINE o == Head(unreferred_objects)
<1>1. /\ gc = "mark" /\ unreferred_objects # <<>> /\ MarkVisit(o, stack, 1)
      /\ state' = state
  BY DEF MarkRoot, objVars
<1>2. stack \in Seq(Frame) /\ unreferred_objects \in Seq(Obj)
  BY DEF HeapInv, TypeOK
<1>3. o \in Obj /\ 1 \in DOMAIN unreferred_objects /\ unreferred_objects[1] = o
  BY <1>1, <1>2
<1>. HIDE DEF o
<1>4. state[o] = "live"
  BY <1>3 DEF ListsInv, Listed, InList
<1>. QED
  BY <1>1, <1>2, <1>3, <1>4, MarkVisitLists

LEMMA MarkMemberLists ==
    ASSUME HeapInv, ListsInv, MarkMember
    PROVE  ListsInv'
<1>. DEFINE s == NextSlot(stack)
<1>1. Running("mark") /\ Top.k \in Slot /\ state' = state /\ gc' = gc
  BY DEF MarkMember, gcVars, objVars
<1>2. /\ stack \in Seq(Frame) /\ Len(stack) > 0 /\ Len(stack) \in DOMAIN stack
      /\ Top = stack[Len(stack)] /\ Top.o \in Obj /\ Top.op = "mark"
  BY <1>1, TopFacts DEF HeapInv
<1>3. gc = "mark"
  BY <1>2 DEF HeapInv, StackSound
<1>4. s \in Seq(Frame) /\ Edited(stack, s)
  BY <1>2, NextSlotStep
<1>5. Member \in Obj \cup {NoObj}
  BY <1>1, <1>2 DEF HeapInv, TypeOK, Member
<1>. HIDE DEF s
<1>6. CASE Member = NoObj
  <2>1. stack' = s /\ UNCHANGED <<unreferred_objects, isolated_roots>>
    BY <1>6 DEF MarkMember, s, listVars
  <2>. QED
    BY <1>1, <1>4, <2>1 DEF ListsInv, Listed, InList, Distinct, Edited
<1>7. CASE Member # NoObj
  <2>1. Member \in Obj /\ MarkVisit(Member, s, 0)
    BY <1>5, <1>7 DEF MarkMember, s
  <2>2. state[Member] = "live"
    BY <1>1, <1>2, <2>1, Owned DEF HeapInv, Member
  <2>. QED
    BY <1>1, <1>3, <1>4, <2>1, <2>2, MarkVisitLists
<1>. QED
  BY <1>6, <1>7

LEMMA MarkEndLists ==
    ASSUME HeapInv, ListsInv, MarkEnd
    PROVE  ListsInv'
<1>. DEFINE o == Top.o
            r == isolated_roots
<1>1. /\ Running("mark") /\ stack' = Pop(stack)
      /\ UNCHANGED <<state, unreferred_objects, gc>>
  BY DEF MarkEnd, gcVars, objVars
<1>2. /\ stack \in Seq(Frame) /\ Len(stack) > 0 /\ Len(stack) \in DOMAIN stack
      /\ Top = stack[Len(stack)] /\ o \in Obj /\ Top.op = "mark"
  BY <1>1, TopFacts DEF HeapInv
<1>3. gc = "mark"
  BY <1>2 DEF HeapInv, StackSound
<1>4. /\ DOMAIN Pop(stack) = 1 .. Len(stack) - 1
      /\ \A i \in 1 .. Len(stack) - 1 : Pop(stack)[i] = stack[i]
      /\ 1 .. Len(stack) - 1 \subseteq DOMAIN stack
  BY <1>2, PopPush
<1>5. CASE Top.st = 0
  <2>1. isolated_roots' = isolated_roots
    BY <1>5 DEF MarkEnd
  <2>. QED
    BY <1>1, <1>4, <2>1 DEF ListsInv, Listed, InList, Distinct
<1>6. CASE Top.st = 1
  <2>1. r' = <<o>> \o r /\ r \in Seq(Obj)
    BY <1>6 DEF MarkEnd, HeapInv, TypeOK
  <2>2. Len(stack) = 1
    BY <1>2, <1>6 DEF HeapInv, StackSound
  <2>3. DOMAIN stack' = {}
    BY <1>1, <1>4, <2>2
  <2>4. ~Listed(o) /\ state[o] = "live"
    BY <1>2, <1>3, <1>6 DEF ListsInv
  <2>5. Distinct(r') /\ \A x : InList(r', x) <=> InList(r, x) \/ x = o
    BY <1>2, <2>1, <2>4, PrependFacts DEF ListsInv, Listed
  <2>. HIDE DEF o
  <2>6. /\ \A x \in Obj : ~(InList(unreferred_objects, x) /\ InList(r', x))
        /\ \A x \in Obj : InList(unreferred_objects, x) \/ InList(r', x) => state[x] = "live"
    BY <2>4, <2>5 DEF ListsInv, Listed
  <2>. HIDE DEF r
  <2>. QED
    BY <1>1, <2>3, <2>5, <2>6 DEF ListsInv, Listed, r
<1>. QED
  BY <1>5, <1>6 DEF MarkEnd

LEMMA DropRevivedLists ==
    ASSUME HeapInv, ListsInv, DropRevived
    PROVE  ListsInv'
<1>. DEFINE r == isolated_roots
<1>1. gc' = "scan" /\ UNCHANGED <<state, unreferred_objects>>
  BY DEF DropRevived, gcVars, objVars
<1>2. PICK i \in DOMAIN r : r' = Without(r, r[i])
  BY DEF DropRevived
<1>3. Distinct(r') /\ \A x : InList(r', x) <=> InList(r, x) /\ x # r[i]
  BY <1>2, WithoutFacts DEF HeapInv, TypeOK, ListsInv
<1>. QED
  BY <1>1, <1>3 DEF ListsInv, Listed

(* A phase of the collector begins or ends.                                  *)
LEMMA PhaseLists ==
    ASSUME HeapInv, ListsInv, stack = <<>>, UNCHANGED <<state, listVars, stack>>
    PROVE  ListsInv'
  BY DEF ListsInv, Listed, InList, Distinct, listVars

LEMMA UserLists ==
    ASSUME HeapInv, ListsInv, User
    PROVE  ListsInv'
<1>1. ASSUME UserCode, gc' = gc
      PROVE  gc' # "mark"
  BY <1>1, UserOp DEF HeapInv
<1>2. ASSUME NEW o \in Obj, NEW d \in Dtors, NewObject(o, d)
      PROVE  ListsInv'
  BY <1>1, <1>2, KeepLists DEF NewObject, gcVars, HeapInv, TypeOK
<1>3. ASSUME NEW o \in Obj, RefObject(o) \/ WeaklyRef(o) \/ UpgradeWeakRef(o) \/ Finalize(o)
      PROVE  ListsInv'
  BY <1>1, <1>3, KeepLists
     DEF RefObject, WeaklyRef, UpgradeWeakRef, Finalize, gcVars, objVars
<1>4. ASSUME NEW o \in Obj, DropWeakRef(o)
      PROVE  ListsInv'
  <2>1. /\ UserCode /\ gc' = gc /\ UNCHANGED listVars /\ weak[o] > 0
        /\ DecrementWeak(o, state[o])
    BY <1>4 DEF DropWeakRef, gcVars
  <2>2. state[o] = "live" => weak_ref_count[o] = weak[o] + 1
    BY DEF HeapInv, WeakCountExact
  <2>3. weak[o] \in Nat
    BY DEF HeapInv, TypeOK
  <2>4. state[o] = "live" => weak_ref_count[o] # 1
    BY <2>1, <2>2, <2>3
  <2>5. \A x \in Obj : state[x] = "live" => state'[x] = "live"
    BY <2>1, <2>4 DEF DecrementWeak, HeapInv, TypeOK
  <2>. QED
    BY <1>1, <2>1, <2>5, KeepLists
<1>5. ASSUME NEW o \in Obj, DropRef(o)
      PROVE  ListsInv'
  <2>1. UserCode /\ gc' = gc /\ AfterUnref(o, AfterOp) /\ ref_count[o] > 0
    BY <1>5, Owned DEF DropRef, UnrefObject, gcVars, HeapInv
  <2>. QED
    BY <1>1, <2>1, UnrefLists
<1>6. ASSUME NEW p \in Obj, NEW k \in Slot, members[p][k] # NoObj
      PROVE  /\ members[p][k] \in Obj /\ ref_count[members[p][k]] > 0
             /\ state[members[p][k]] = "live"
  <2>1. members[p][k] \in Obj
    BY <1>6 DEF HeapInv, TypeOK
  <2>2. TypeOK /\ RefCountExact
    BY DEF HeapInv
  <2>. QED
    BY <2>1, <2>2, Owned
<1>7. ASSUME NEW p \in Obj, NEW o \in Obj, NEW k \in Slot, AddMember(p, k, o)
      PROVE  ListsInv'
  <2>1. UserCode /\ gc' = gc /\ state[o] = "live" /\ UNCHANGED <<isolated_roots, state>>
    BY <1>7, Owned DEF AddMember, gcVars, HeapInv
  <2>2. UNCHANGED unreferred_objects \/ RefUnref(o)
    BY <1>7 DEF AddMember
  <2>. QED
    BY <1>1, <2>1, <2>2, KeepLists, RefUnrefLists DEF listVars
<1>8. ASSUME NEW p \in Obj, NEW o \in Obj, NEW k \in Slot, MoveMember(p, k, o)
      PROVE  ListsInv'
  <2>1. UserCode /\ gc' = gc /\ ref_count[o] > 0
    BY <1>8, Owned DEF MoveMember, gcVars, HeapInv
  <2>2. UNCHANGED <<state, listVars>> \/ AfterUnref(o, AfterOp)
    BY <1>8 DEF MoveMember, UnrefObject
  <2>. QED
    BY <1>1, <2>1, <2>2, KeepLists, UnrefLists
<1>9. ASSUME NEW p \in Obj, NEW k \in Slot,
             DeleteMember(p, k) \/ \E o \in Obj : SetMember(p, k, o)
      PROVE  ListsInv'
  <2>1. /\ UserCode /\ gc' = gc /\ members[p][k] # NoObj
        /\ \E s : AfterUnref(members[p][k], s)
    BY <1>9 DEF DeleteMember, SetMember, UnrefObject, gcVars
  <2>. QED
    BY <1>1, <1>6, <2>1, UnrefLists
<1>10. ASSUME NEW p \in Obj, NEW k \in Slot, GetMember(p, k)
       PROVE  ListsInv'
  BY <1>1, <1>10, KeepLists DEF GetMember, gcVars
<1>11. ASSUME NEW k \in Slot, DtorUsesMember(k)
       PROVE  ListsInv'
  <2>1. /\ UserCode /\ gc' = gc /\ Running("dtor") /\ members[Top.o][k] # NoObj
        /\ RefUnref(members[Top.o][k]) /\ UNCHANGED <<isolated_roots, state>>
    BY <1>11 DEF DtorUsesMember, UserCode, gcVars, objVars
  <2>2. Top.o \in Obj
    BY <2>1, TopFacts DEF HeapInv
  <2>. QED
    BY <1>1, <1>6, <2>1, <2>2, RefUnrefLists
<1>. QED
  BY <1>2, <1>3, <1>4, <1>5, <1>7, <1>8, <1>9, <1>10, <1>11 DEF User

LEMMA SystemLists ==
    ASSUME HeapInv, ListsInv, System
    PROVE  ListsInv'
<1>1. ASSUME NEW op \in {"collect", "fin", "dtor", "set"}, Running(op)
      PROVE  gc # "mark" /\ Top.o \in Obj
  BY <1>1, TopFacts DEF HeapInv
<1>2. CASE StoreMember \/ CallDtor \/ DtorReturns \/ Finalized \/ CollectMember \/ CollectPost
  BY <1>1, <1>2, KeepLists
     DEF StoreMember, CallDtor, DtorReturns, Finalized, CollectMember, CollectPost, gcVars, objVars
<1>3. CASE FreeMember
  <2>1. /\ Running("fin") /\ Top.k \in Slot /\ gc' = gc /\ Member # NoObj
        /\ \E s : AfterUnref(Member, s)
    BY <1>3 DEF FreeMember, UnrefObject, gcVars
  <2>2. Top.o \in Obj
    BY <1>1, <2>1
  <2>3. Member \in Obj
    BY <2>1, <2>2 DEF HeapInv, TypeOK, Member
  <2>4. ref_count[Member] > 0
    BY <2>1, <2>2, <2>3, Owned DEF HeapInv, Member
  <2>. QED
    BY <1>1, <2>1, <2>3, <2>4, UnrefLists
<1>4. CASE Destroyed
  <2>1. /\ Running("fin") /\ Top.st = 0 /\ gc' = gc /\ UNCHANGED listVars
        /\ DecrementWeak(Top.o, "zombie")
    BY <1>4 DEF Destroyed, gcVars
  <2>2. /\ Top.o \in Obj /\ Top.op = "fin" /\ Len(stack) \in DOMAIN stack
        /\ Top = stack[Len(stack)] /\ Shape(stack, state, members)
    BY <2>1, TopFacts DEF HeapInv
  <2>3. state[Top.o] = "dying"
    BY <2>1, <2>2 DEF Shape, Destroys
  <2>4. \A x \in Obj : state[x] = "live" => state'[x] = "live"
    BY <2>1, <2>3 DEF DecrementWeak, HeapInv, TypeOK
  <2>. QED
    BY <1>1, <2>1, <2>4, KeepLists
<1>5. CASE Collected
  <2>1. /\ Running("fin") /\ Top.st = 1 /\ gc' = gc
        /\ AfterUnref(Top.o, Pop(stack))
    BY <1>5 DEF Collected, UnrefObject, gcVars
  <2>2. /\ Top.o \in Obj /\ Top.op = "fin" /\ Len(stack) \in DOMAIN stack
        /\ Top = stack[Len(stack)]
    BY <2>1, TopFacts DEF HeapInv
  <2>3. Holds(Top)
    BY <2>1, <2>2 DEF Holds
  <2>4. ref_count[Top.o] > 0
    BY <2>2, <2>3, Owned DEF HeapInv
  <2>. QED
    BY <1>1, <2>1, <2>2, <2>4, UnrefLists
<1>6. CASE MarkRoot \/ MarkMember \/ MarkEnd
  BY <1>6, MarkRootLists, MarkMemberLists, MarkEndLists
<1>7. CASE StartScan \/ StartFinalize \/ EndCollect
  BY <1>7, PhaseLists DEF StartScan, StartFinalize, EndCollect, objVars
<1>8. CASE ScanRoot \/ ScanMember \/ ScanEnd \/ CollectRoot
  <2>1. ASSUME Running("scan")
        PROVE  gc = "scan"
    BY <2>1, TopFacts DEF HeapInv, StackSound
  <2>. QED
    BY <1>8, <2>1, KeepLists
       DEF ScanRoot, ScanMember, ScanEnd, CollectRoot, gcVars, objVars
<1>9. CASE DropRevived
  BY <1>9, DropRevivedLists
<1>. QED
  BY <1>2, <1>3, <1>4, <1>5, <1>6, <1>7, <1>8, <1>9 DEF System

-----------------------------------------------------------------------------
(* The theorems.                                                             *)

IInv == HeapInv /\ ListsInv

LEMMA IInvInit ==
    ASSUME Init
    PROVE  IInv
<1>1. TypeOK
  BY DEF Init, TypeOK, Phase
<1>2. StackSound /\ DestroyedHoldsNothing /\ WeakCountExact /\ ListsInv
  BY DEF Init, StackSound, DestroyedHoldsNothing, WeakCountExact, ListsInv, Distinct,
         Listed, InList
<1>3. ASSUME NEW o \in Obj
      PROVE  ref_count[o] = 0 /\ ext[o] = 0 /\ Held(o) = 0 /\ Cardinality(InEdges(o)) = 0
  <2>1. HoldersIn(stack, o) = {}
    BY DEF Init, HoldersIn
  <2>2. InEdges(o) = {}
    BY HeapAssumption DEF Init, InEdges, EdgesTo
  <2>. QED
    BY <2>1, <2>2, FS_EmptySet DEF Init, Held
<1>4. RefCountExact
  BY <1>3 DEF RefCountExact, Init
<1>. QED
  BY <1>1, <1>2, <1>4 DEF IInv, HeapInv

LEMMA UserInv ==
    ASSUME HeapInv, ~Reenters, User
    PROVE  HeapInv'
  BY NewObjectInv, RefObjectInv, DropRefInv, WeaklyRefInv, UpgradeWeakRefInv,
     DropWeakRefInv, FinalizeInv, AddMemberInv, MoveMemberInv, SetMemberInv,
     DeleteMemberInv, GetMemberInv, DtorUsesMemberInv DEF User

LEMMA SystemInv ==
    ASSUME HeapInv, ListsInv, System
    PROVE  HeapInv'
  BY StoreMemberInv, CallDtorInv, DtorReturnsInv, FreeMemberInv, DestroyedInv, CollectedInv, FinalizedInv,
     MarkRootInv, MarkMemberInv, MarkEndInv, StartScanInv, ScanRootInv, ScanMemberInv,
     ScanEndInv, DropRevivedInv, StartFinalizeInv, CollectRootInv, CollectMemberInv,
     CollectPostInv, EndCollectInv DEF System

LEMMA IInvNext ==
    ASSUME IInv, ~Reenters, [Next]_vars
    PROVE  IInv'
<1>1. CASE User
  BY <1>1, UserInv, UserLists DEF IInv
<1>2. CASE StartCollect
  BY <1>2, StartCollectInv, PhaseLists DEF IInv, StartCollect, objVars
<1>3. CASE System
  BY <1>3, SystemInv, SystemLists DEF IInv
<1>4. CASE UNCHANGED vars
  <2>1. UNCHANGED <<state, ref_count, weak_ref_count, members, dtor, mark, ref_count_scan,
                    unreferred_objects, isolated_roots, ext, weak, gc, cursor, stack>>
    BY <1>4 DEF vars, objVars, scanVars, listVars, ownVars, gcVars
  <2>2. TypeOK' /\ StackSound' /\ ListsInv' /\ \A x \in Obj : Held(x)' = Held(x)
    BY <2>1 DEF IInv, HeapInv, TypeOK, StackSound, ListsInv, Listed, InList, Distinct, Held
  <2>. QED
    BY <2>1, <2>2, SameHeapInv DEF IInv
<1>. QED
  BY <1>1, <1>2, <1>3, <1>4 DEF Next

(* The invariant holds in every state the heap can reach, however many       *)
(* objects there are and whatever user code and its destructors do, if they  *)
(* stay out of a member that di_setx is replacing and delete none that a     *)
(* loop of object.c comes to next (~Reenters): there the code breaks its own *)
(* counts.  Destructors may keep any object, also one being collected.       *)
THEOREM HeapCorrect ==
    ASSUME ~Reenters
    PROVE  Spec => []IInv
<1>1. Init => IInv
  BY IInvInit
<1>2. IInv /\ [Next]_vars => IInv'
  BY IInvNext
<1>. QED
  BY <1>1, <1>2, PTL DEF Spec

(* Type correctness: in particular no count of object.c goes below zero, if  *)
(* user code does not re-enter a member operation.                           *)
THEOREM TypeCorrect ==
    ASSUME ~Reenters
    PROVE  Spec => []TypeOK
<1>1. IInv => TypeOK
  BY DEF IInv, HeapInv
<1>. QED
  BY <1>1, HeapCorrect, PTL

(* di_ref_object, di_unref_object, the member operations and the collector   *)
(* keep ref_count equal to the number of references that exist, and an       *)
(* object is destroyed exactly when there is none, if destructors stay out   *)
(* of the member that di_setx or a loop over members has in hand.            *)
THEOREM RefCountsExact ==
    ASSUME ~Reenters
    PROVE  Spec => []RefCountExact
<1>1. IInv => RefCountExact
  BY DEF IInv, HeapInv
<1>. QED
  BY <1>1, HeapCorrect, PTL

(* No weak reference dangles and no object is freed in the middle of its     *)
(* destruction: memory is given back exactly when weak_ref_count, which      *)
(* counts both, is zero.                                                     *)
THEOREM WeakCountsExact ==
    ASSUME ~Reenters
    PROVE  Spec => []WeakCountExact
<1>1. IInv => WeakCountExact
  BY DEF IInv, HeapInv
<1>. QED
  BY <1>1, HeapCorrect, PTL

(* di_finalize_object_inner lets go of every member of an object before its  *)
(* destruction ends, whatever members its destructor and those of the        *)
(* members add or delete, the saved next one excepted (~Reenters).           *)
THEOREM DestroyedHoldNothing ==
    ASSUME ~Reenters
    PROVE  Spec => []DestroyedHoldsNothing
<1>1. IInv => DestroyedHoldsNothing
  BY DEF IInv, HeapInv
<1>. QED
  BY <1>1, HeapCorrect, PTL

(* An object is destroyed by one frame, once, and the collector marks and    *)
(* scans with nothing else running.                                          *)
THEOREM StackIsSound ==
    ASSUME ~Reenters
    PROVE  Spec => []StackSound
<1>1. IInv => StackSound
  BY DEF IInv, HeapInv
<1>. QED
  BY <1>1, HeapCorrect, PTL

(* The intrusive lists hold live objects, each in one place: di_unref_object *)
(* and the collector leave no pointer to a destroyed object in them.         *)
THEOREM ListsAreSound ==
    ASSUME ~Reenters
    PROVE  Spec => []ListsSound
<1>1. IInv => ListsSound
  <2>. SUFFICES ASSUME IInv
                PROVE  ListsSound
    OBVIOUS
  <2>. DEFINE u == unreferred_objects
              r == isolated_roots
              all == u \o r
  <2>1. u \in Seq(Obj) /\ r \in Seq(Obj)
    BY DEF IInv, HeapInv, TypeOK
  <2>2. /\ Distinct(u) /\ Distinct(r)
        /\ \A o \in Obj : ~(InList(u, o) /\ InList(r, o))
        /\ \A o \in Obj : InList(u, o) \/ InList(r, o) => state[o] = "live"
    BY DEF IInv, ListsInv, Listed
  <2>. HIDE DEF u, r
  <2>3. /\ DOMAIN all = 1 .. Len(u) + Len(r)
        /\ \A i \in 1 .. Len(u) + Len(r) :
              all[i] = IF i <= Len(u) THEN u[i] ELSE r[i - Len(u)]
        /\ DOMAIN u = 1 .. Len(u) /\ DOMAIN r = 1 .. Len(r)
        /\ Len(u) \in Nat /\ Len(r) \in Nat
    BY <2>1
  <2>. HIDE DEF all
  <2>4. \A i \in DOMAIN all :
          \/ i \in DOMAIN u /\ all[i] = u[i] /\ all[i] \in Obj /\ InList(u, all[i])
          \/ /\ i - Len(u) \in DOMAIN r /\ all[i] = r[i - Len(u)]
             /\ all[i] \in Obj /\ InList(r, all[i])
    BY <2>1, <2>3 DEF InList
  <2>5. Elems(all) \subseteq Live
    BY <2>2, <2>4 DEF Elems, Live
  <2>6. \A i, j \in DOMAIN all : all[i] = all[j] => i = j
    <3>. SUFFICES ASSUME NEW i \in DOMAIN all, NEW j \in DOMAIN all, all[i] = all[j]
                  PROVE  i = j
      OBVIOUS
    <3>1. i \in Nat /\ j \in Nat
      BY <2>3
    <3>2. CASE i \in DOMAIN u /\ all[i] = u[i] /\ InList(u, all[i])
      BY <2>2, <2>4, <3>2 DEF Distinct
    <3>3. CASE i - Len(u) \in DOMAIN r /\ all[i] = r[i - Len(u)] /\ InList(r, all[i])
      <4>1. j - Len(u) \in DOMAIN r /\ all[j] = r[j - Len(u)]
        BY <2>2, <2>4, <3>3
      <4>2. i - Len(u) = j - Len(u)
        BY <2>2, <3>3, <4>1 DEF Distinct
      <4>. QED
        BY <2>3, <3>1, <4>2
    <3>. QED
      BY <2>4, <3>2, <3>3
  <2>. QED
    BY <2>5, <2>6 DEF ListsSound, all, u, r
<1>. QED
  BY <1>1, HeapCorrect, PTL

-----------------------------------------------------------------------------
(* The collector.                                                            *)

(* Every set that contains R and what its elements refer to contains x.      *)
ClosedIn(m, T) == \A p \in T, k \in Slot : m[p][k] # NoObj => m[p][k] \in T
From(m, R, x) == \A T \in SUBSET Obj : R \subseteq T /\ ClosedIn(m, T) => x \in T

(* What the program can find again: the objects user code refers to, the     *)
(* listed ones, and those a frame destroys, collects, sets or marks from.    *)
Anchors(f) ==
    f.op \in {"collect", "fin", "set", "value"} \/ (f.op = "mark" /\ f.st = 1)
Known(e, F, u, r) ==
    {o \in Obj : \/ e[o] > 0
                 \/ InList(u, o)
                 \/ InList(r, o)
                 \/ \E f \in F : Anchors(f) /\ f.o = o}

(* No live object is lost: each is reached from something known.             *)
NothingLost(sta, m, e, F, u, r) ==
    \A x \in Obj : sta[x] = "live" => From(m, Known(e, F, u, r), x)

(* An object that is being destroyed has the frame that does it.             *)
DyingFramed(sta, F) ==
    \A x \in Obj : sta[x] = "dying" => \E f \in F : Destroys(f) /\ f.o = x

(* Marks in each phase.  Only what is collected keeps a mark, and that has   *)
(* no strong reference left after the collection.                            *)
Marks(g, sta, mk, n, u, r) ==
    \A x \in Obj :
        /\ mk[x] = 0 => n[x] = 0
        /\ sta[x] = "free" => mk[x] = 0
        /\ mk[x] \in {1, 2} => sta[x] = "live"
        /\ mk[x] = 1 => g \in {"mark", "scan"}
        /\ g \in {"idle", "mark"} /\ sta[x] = "live" => mk[x] \in {0, 1}
        /\ g = "scan" /\ sta[x] = "live" => mk[x] \in {0, 1, 2}
        /\ InList(u, x) => mk[x] = 0 /\ g # "scan"
        /\ InList(r, x) => g # "idle"

(* While nothing is marked: what is scheduled is referred to only by what is *)
(* scheduled too.  The frames that collect have looked at the slots they     *)
(* have passed, and those that finalize have emptied them; afterwards the    *)
(* object refers to nothing.                                                 *)
Doomed(sta, mk, x) == sta[x] = "live" /\ mk[x] \in {2, 3}
Works(f) == f.op = "collect" \/ (f.op = "fin" /\ f.st = 1)
Bare(m, x) == \A k \in Slot : m[x][k] = NoObj

CutOff(sta, mk, m, e, F) ==
    \A x \in Obj : Doomed(sta, mk, x) =>
        /\ e[x] = 0
        /\ \A f \in F : Returns(f) => f.o # x
        /\ \A p \in Obj, k \in Slot : m[p][k] = x => mk[p] \in {2, 3}

Passed(f, mk, m) ==
    /\ mk[f.o] = 3
    /\ \A k \in Slot :
         /\ k < f.k \/ f.op = "fin" => m[f.o][k] = NoObj \/ mk[m[f.o][k]] # 2
         /\ k < f.k /\ f.op = "fin" => m[f.o][k] = NoObj

Worked(mk, m, F) ==
    /\ \A f \in F : Works(f) => Passed(f, mk, m)
    /\ \A x \in Obj : mk[x] = 3 => (\E f \in F : Works(f) /\ f.o = x) \/ Bare(m, x)

(* While marking.  The frames lead from the root to the top.  The slots that *)
(* have been looked at refer to marked objects, and are counted.  Every      *)
(* marked object is reached from an isolated root, and what has been found   *)
(* to refer to a root is reached from that root.                             *)
Pending(s, p, k) == \E i \in DOMAIN s : s[i].o = p /\ s[i].k <= k
Looked(mk, s, p, k) == mk[p] = 1 /\ ~Pending(s, p, k)
First(s, x) == s # <<>> /\ s[1].o = x
Roots(s, r) == {x \in Obj : InList(r, x) \/ First(s, x)}
Seen(mk, m, s, x) == {e \in EdgesTo(m, x) : Looked(mk, s, e[1], e[2])}

MarkFrames(mk, m, s) ==
    /\ \A i \in DOMAIN s : /\ s[i].st = 1 <=> i = 1
                           /\ mk[s[i].o] = 1
                           /\ From(m, {s[1].o}, s[i].o)
    /\ \A i, j \in DOMAIN s : s[i].o = s[j].o => i = j

MarksPassOn(mk, m, s) ==
    \A p \in Obj, k \in Slot :
        Looked(mk, s, p, k) /\ m[p][k] # NoObj => mk[m[p][k]] = 1

MarksCounted(mk, m, s, n) ==
    \A x \in Obj : mk[x] = 1 =>
        n[x] = Cardinality(Seen(mk, m, s, x)) + IF First(s, x) THEN 1 ELSE 0

MarkedRoots(mk, m, s, r) ==
    /\ \A x \in Obj : mk[x] = 1 => From(m, Roots(s, r), x)
    /\ \A x \in Obj : InList(r, x) => mk[x] = 1
    /\ \A x \in Roots(s, r), p \in Obj, k \in Slot :
         Looked(mk, s, p, k) /\ m[p][k] = x => From(m, {x}, p)

MarkStage(mk, m, s, n, r) ==
    /\ MarkFrames(mk, m, s)
    /\ MarksPassOn(mk, m, s)
    /\ MarksCounted(mk, m, s, n)
    /\ MarkedRoots(mk, m, s, r)

(* While scanning.  M are the objects that have been marked, of which the    *)
(* revived ones are unmarked again: those are reached from user code.        *)
Users(e) == {o \in Obj : e[o] > 0}
Inner(M, m, x) == {e \in EdgesTo(m, x) : e[1] \in M}
Reviving(s, p, k) == \E i \in DOMAIN s : s[i].o = p /\ s[i].st = 1 /\ s[i].k <= k
ListSet(r) == {y \in Obj : InList(r, y)}

Marked(M, mk, m, r) ==
    /\ ClosedIn(m, M)
    /\ \A x \in Obj : x \notin M => mk[x] \notin {1, 2}
    /\ \A x \in M : mk[x] # 3
    /\ \A x \in Obj : InList(r, x) => x \in M
    /\ \A x \in Obj : InList(r, x) => \A p \in M, k \in Slot : m[p][k] = x => From(m, {x}, p)

Decided(M, mk, m, s, r, c) ==
    /\ \A i \in DOMAIN s : s[i].o \in M /\ mk[s[i].o] # 1 /\ (s[i].st = 1 => mk[s[i].o] = 0)
    /\ c > 0 /\ \A i \in DOMAIN r : i < c => mk[r[i]] # 1
    /\ \/ \A x \in M : From(m, ListSet(r), x)
       \/ s = <<>> /\ c > Len(r) /\ \A x \in M : mk[x] # 1
    /\ \A p \in M, k \in Slot : mk[p] # 1 /\ m[p][k] # NoObj => mk[m[p][k]] # 1 \/ Pending(s, p, k)
    /\ \A p \in M, k \in Slot : mk[p] = 0 /\ m[p][k] # NoObj => mk[m[p][k]] = 0 \/ Reviving(s, p, k)

Counted(M, mk, m, n, rc) ==
    \A x \in M :
        /\ mk[x] # 0 => n[x] = Cardinality(Inner(M, m, x))
        /\ mk[x] = 2 => n[x] = rc[x]

InUse(M, sta, mk, m, e) ==
    \A x \in Obj : (x \in M /\ mk[x] = 0) \/ (x \notin M /\ sta[x] = "live") => From(m, Users(e), x)

ScanStage(M) ==
    /\ Marked(M, mark, members, isolated_roots)
    /\ Decided(M, mark, members, stack, isolated_roots, cursor)
    /\ Counted(M, mark, members, ref_count_scan, ref_count)
    /\ InUse(M, state, mark, members, ext)

CInv ==
    /\ NothingLost(state, members, ext, Elems(stack), unreferred_objects, isolated_roots)
    /\ DyingFramed(state, Elems(stack))
    /\ Marks(gc, state, mark, ref_count_scan, unreferred_objects, isolated_roots)
    /\ gc \in {"idle", "collect"} => /\ CutOff(state, mark, members, ext, Elems(stack))
                                     /\ Worked(mark, members, Elems(stack))
    /\ gc = "mark" => MarkStage(mark, members, stack, ref_count_scan, isolated_roots)
    /\ gc = "scan" => \E M \in SUBSET Obj : ScanStage(M)

(* Being reached: reflexive, along an edge, transitive, monotone.            *)
LEMMA FromSelf ==
    ASSUME NEW m, NEW R, NEW x \in R
    PROVE  From(m, R, x)
  BY DEF From

LEMMA FromEdge ==
    ASSUME NEW m, NEW R, NEW p \in Obj, NEW k \in Slot, From(m, R, p), m[p][k] # NoObj
    PROVE  From(m, R, m[p][k])
  BY DEF From, ClosedIn

LEMMA FromTrans ==
    ASSUME NEW m, NEW R, NEW S, \A y \in R : From(m, S, y), NEW x, From(m, R, x)
    PROVE  From(m, S, x)
  BY DEF From

LEMMA FromMono ==
    ASSUME NEW m, NEW R, NEW S, R \subseteq S, NEW x, From(m, R, x)
    PROVE  From(m, S, x)
  BY DEF From

LEMMA FromClosed ==
    ASSUME NEW m, NEW R, NEW x, From(m, R, x), NEW T \in SUBSET Obj,
           R \subseteq T, ClosedIn(m, T)
    PROVE  x \in T
  BY DEF From

(* What is reached from a union is reached from one of its parts.            *)
LEMMA FromSplit ==
    ASSUME NEW m, NEW A, NEW B, NEW x, From(m, A \cup B, x)
    PROVE  From(m, A, x) \/ From(m, B, x)
<1>. SUFFICES ASSUME ~From(m, A, x), ~From(m, B, x)
              PROVE  FALSE
  OBVIOUS
<1>1. PICK S \in SUBSET Obj : A \subseteq S /\ ClosedIn(m, S) /\ x \notin S
  BY DEF From
<1>2. PICK T \in SUBSET Obj : B \subseteq T /\ ClosedIn(m, T) /\ x \notin T
  BY DEF From
<1>3. ClosedIn(m, S \cup T)
  BY <1>1, <1>2 DEF ClosedIn
<1>4. S \cup T \in SUBSET Obj /\ A \cup B \subseteq S \cup T
  BY <1>1, <1>2
<1>5. x \in S \cup T
  BY <1>3, <1>4, FromClosed
<1>. QED
  BY <1>1, <1>2, <1>5

(* The frames of a stack.                                                    *)
LEMMA FramesPush ==
    ASSUME NEW s \in Seq(Frame), NEW f \in Frame
    PROVE  Elems(Append(s, f)) = Elems(s) \cup {f}
<1>. DEFINE t == Append(s, f)
<1>1. /\ DOMAIN t = 1 .. Len(s) + 1
      /\ \A i \in 1 .. Len(s) : t[i] = s[i]
      /\ t[Len(s) + 1] = f
      /\ DOMAIN s = 1 .. Len(s)
      /\ Len(s) \in Nat
  OBVIOUS
<1>. HIDE DEF t
<1>2. Elems(t) = Elems(s) \cup {f}
  BY <1>1 DEF Elems
<1>. QED
  BY <1>2 DEF t

LEMMA FramesPop ==
    ASSUME NEW s \in Seq(Frame), Len(s) > 0
    PROVE  Elems(s) = Elems(Pop(s)) \cup {s[Len(s)]}
<1>1. Pop(s) \in Seq(Frame) /\ s[Len(s)] \in Frame /\ s = Append(Pop(s), s[Len(s)])
  BY PopPush
<1>2. Elems(Append(Pop(s), s[Len(s)])) = Elems(Pop(s)) \cup {s[Len(s)]}
  BY <1>1, FramesPush
<1>. QED
  BY <1>1, <1>2

LEMMA SameFrame ==
    ASSUME NEW f \in Frame, NEW g \in Frame,
           f.op = g.op, f.o = g.o, f.k = g.k, f.st = g.st
    PROVE  f = g
<1>1. /\ f = [op |-> f.op, o |-> f.o, k |-> f.k, st |-> f.st]
      /\ g = [op |-> g.op, o |-> g.o, k |-> g.k, st |-> g.st]
  BY DEF Frame
<1>. QED
  BY <1>1

LEMMA FramesEdit ==
    ASSUME NEW s \in Seq(Frame), NEW t, Len(s) > 0, Edited(s, t)
    PROVE  /\ t[Len(s)] \in Elems(t) /\ s[Len(s)] \in Elems(s)
           /\ \A f \in Elems(t) : f \in Elems(s) \/ f = t[Len(s)]
           /\ \A f \in Elems(s) : f \in Elems(t) \/ f = s[Len(s)]
           /\ t[Len(s)].o = s[Len(s)].o
           /\ t[Len(s)].op = s[Len(s)].op
           /\ t[Len(s)].st = s[Len(s)].st
<1>1. /\ Len(s) \in DOMAIN s
      /\ \A i \in DOMAIN s : s[i] \in Frame
      /\ t \in Seq(Frame) /\ DOMAIN t = DOMAIN s
      /\ \A i \in DOMAIN s : t[i] \in Frame
  BY DEF Edited
<1>2. \A i \in DOMAIN s : i # Len(s) => t[i] = s[i]
  BY <1>1, SameFrame DEF Edited
<1>. QED
  BY <1>1, <1>2 DEF Elems, Edited

LEMMA FrameType ==
    ASSUME NEW s \in Seq(Frame), NEW f \in Elems(s)
    PROVE  f \in Frame /\ f.o \in Obj /\ f.k \in Nat
<1>1. f \in Frame
  BY DEF Elems
<1>. QED
  BY <1>1 DEF Frame

(* At most the references to o go away: every object is still reached when   *)
(* o is known, or when o refers to nothing and, if it lives on, another      *)
(* object refers to it.                                                      *)
ReferredTo(m, o, A, L) ==
    \E q \in Obj, j \in Slot : q # o /\ m[q][j] = o /\ (q \in A \/ q \in L)

EdgesKept(m, n, o) ==
    \A p \in Obj, k \in Slot : m[p][k] = NoObj \/ m[p][k] = o \/ n[p][k] = m[p][k]
NoMore(m, n, o, A, B, L) == Bare(m, o) /\ (o \in B => ReferredTo(n, o, A, L))
ReachedFrom(m, K, A) == \A x \in A : From(m, K, x)

LEMMA LoseOne ==
    ASSUME NEW m, NEW n, NEW K, NEW L, NEW A \in SUBSET Obj, NEW B \in SUBSET Obj,
           NEW o \in Obj,
           ReachedFrom(m, K, A),
           K \subseteq L \cup {o},
           B \subseteq A \cup L,
           EdgesKept(m, n, o),
           o \in L \/ NoMore(m, n, o, A, B, L)
    PROVE  ReachedFrom(n, L, B)
<1>. SUFFICES ASSUME NEW x \in B, NEW T \in SUBSET Obj, L \subseteq T, ClosedIn(n, T)
              PROVE  x \in T
  BY DEF From, ReachedFrom
<1>0. o # NoObj
  BY HeapAssumption
<1>1. ClosedIn(m, T \cup {o})
  BY DEF ClosedIn, Bare, EdgesKept, NoMore
<1>2. \A y \in A : y \in T \cup {o}
  <2>1. T \cup {o} \in SUBSET Obj /\ K \subseteq T \cup {o}
    OBVIOUS
  <2>. QED
    BY <1>1, <2>1, FromClosed DEF ReachedFrom
<1>3. CASE x # o
  BY <1>2, <1>3
<1>4. CASE x = o /\ o \notin L
  <2>1. PICK q \in Obj, j \in Slot : q # o /\ n[q][j] = o /\ (q \in A \/ q \in L)
    BY <1>4 DEF ReferredTo, NoMore
  <2>2. q \in T
    BY <1>2, <2>1
  <2>. QED
    BY <1>0, <1>4, <2>1, <2>2 DEF ClosedIn
<1>. QED
  BY <1>3, <1>4

(* Nothing new is lost when everything known is still reached.               *)
LEMMA LoseNothing ==
    ASSUME NEW sta, NEW m, NEW e, NEW F, NEW u, NEW r, NEW e2, NEW F2, NEW u2, NEW r2,
           NothingLost(sta, m, e, F, u, r),
           \A y \in Known(e, F, u, r) : From(m, Known(e2, F2, u2, r2), y)
    PROVE  NothingLost(sta, m, e2, F2, u2, r2)
  BY FromTrans DEF NothingLost

(* Whatever lives has an owner, and an owner can be found.                   *)
LEMMA Backed ==
    ASSUME NEW rc, NEW e \in [Obj -> Nat], NEW s \in Seq(Frame), NEW m, NEW o \in Obj,
           rc[o] = e[o] + Cardinality(HoldersIn(s, o)) + Cardinality(EdgesTo(m, o))
    PROVE  rc[o] > 0 <=> \/ e[o] > 0
                         \/ \E f \in Elems(s) : Holds(f) /\ f.o = o
                         \/ \E q \in Obj, j \in Slot : m[q][j] = o
<1>0. /\ Cardinality(HoldersIn(s, o)) \in Nat /\ Cardinality(EdgesTo(m, o)) \in Nat
      /\ HoldersIn(s, o) # {} => Cardinality(HoldersIn(s, o)) > 0
      /\ EdgesTo(m, o) # {} => Cardinality(EdgesTo(m, o)) > 0
      /\ e[o] \in Nat
  <2>1. IsFiniteSet(HoldersIn(s, o)) /\ IsFiniteSet(EdgesTo(m, o))
    BY HoldersFinite, EdgesFinite
  <2>2. ASSUME NEW S, IsFiniteSet(S), S # {}
        PROVE  Cardinality(S) \in Nat /\ Cardinality(S) # 0
    BY <2>2, FS_CardinalityType, FS_EmptySet
  <2>. QED
    BY <2>1, <2>2, HoldersFinite, EdgesFinite
<1>1. CASE HoldersIn(s, o) # {}
  <2>1. PICK i \in DOMAIN s : s[i].o = o /\ Holds(s[i])
    BY <1>1 DEF HoldersIn
  <2>. QED
    BY <1>0, <1>1, <2>1 DEF Elems
<1>2. CASE EdgesTo(m, o) # {}
  <2>1. \E q \in Obj, j \in Slot : m[q][j] = o
    BY <1>2 DEF EdgesTo
  <2>. QED
    BY <1>0, <1>2, <2>1
<1>3. CASE HoldersIn(s, o) = {} /\ EdgesTo(m, o) = {}
  <2>1. Cardinality(HoldersIn(s, o)) = 0 /\ Cardinality(EdgesTo(m, o)) = 0
    BY <1>3, FS_EmptySet
  <2>2. ~\E f \in Elems(s) : Holds(f) /\ f.o = o
    BY <1>3 DEF HoldersIn, Elems
  <2>3. ~\E q \in Obj, j \in Slot : m[q][j] = o
    <3>1. \A q \in Obj, j \in Slot : <<q, j>> \in Obj \X Slot /\ <<q, j>> \notin EdgesTo(m, o)
      BY <1>3
    <3>. QED
      BY <3>1 DEF EdgesTo
  <2>. QED
    BY <1>0, <2>1, <2>2, <2>3
<1>. QED
  BY <1>1, <1>2, <1>3

LEMMA StillReferred ==
    ASSUME NEW sta, NEW m, NEW e, NEW F, NEW u, NEW r, NEW A, NEW L, NEW o \in Obj,
           DyingFramed(sta, F), Bare(m, o), L = Known(e, F, u, r),
           \A q \in Obj : Bare(m, q) \/ sta[q] \in {"live", "dying"},
           \A q \in Obj : sta[q] = "live" => q \in A \/ q \in L,
           \/ e[o] > 0
           \/ \E f \in F : Holds(f) /\ f.o = o
           \/ \E q \in Obj, j \in Slot : m[q][j] = o
    PROVE  o \in L \/ ReferredTo(m, o, A, L)
<1>1. CASE e[o] > 0
  BY <1>1 DEF Known
<1>2. CASE \E f \in F : Holds(f) /\ f.o = o
  BY <1>2 DEF Known, Holds, Anchors
<1>3. ASSUME NEW q \in Obj, NEW j \in Slot, m[q][j] = o
      PROVE  ReferredTo(m, o, A, L)
  <2>1. q # o /\ ~Bare(m, q)
    BY <1>3, HeapAssumption DEF Bare
  <2>2. CASE sta[q] = "live"
    BY <1>3, <2>1, <2>2 DEF ReferredTo
  <2>3. CASE sta[q] = "dying"
    <3>1. PICK f \in F : Destroys(f) /\ f.o = q
      BY <2>3 DEF DyingFramed
    <3>2. q \in L
      BY <3>1 DEF Known, Destroys, Anchors
    <3>. QED
      BY <1>3, <2>1, <3>2 DEF ReferredTo
  <2>. QED
    BY <2>1, <2>2, <2>3
<1>. QED
  BY <1>1, <1>2, <1>3

-----------------------------------------------------------------------------
(* Steps of user code and of finalization.  What such a step does to marks   *)
(* and states, to the references of user code and the members, to the frames *)
(* that work for the collector, and to the lists; and that it forgets no     *)
(* object but o, about which there is nothing more to find.                  *)
StateStep ==
    \A x \in Obj :
        /\ \/ mark'[x] = mark[x]
           \/ mark'[x] = 0 /\ state[x] # "live" /\ state'[x] = "free"
        /\ (ref_count_scan'[x] = ref_count_scan[x] /\ mark'[x] = mark[x]) \/ ref_count_scan'[x] = 0
        /\ state'[x] = "free" => state[x] = "free" \/ mark'[x] = 0
        /\ state'[x] = "live" => state[x] = "live" \/ (mark[x] = 0 /\ ext'[x] > 0)
        /\ state[x] = "live" => state'[x] = "live" \/ mark[x] \notin {1, 2}

UserStays ==
    /\ \A x \in Obj : ext'[x] > 0 => ~Doomed(state, mark, x)
    /\ \A f \in Elems(stack') : Returns(f) => ~Doomed(state, mark, f.o)

(* An object that is being collected gets new members only before its        *)
(* finalization has freed any.                                               *)
Fillable(p) ==
    mark[p] \in {2, 3} =>
        /\ \E f \in Elems(stack) : Works(f) /\ f.o = p
        /\ \A f \in Elems(stack) : Works(f) /\ f.o = p => f.op = "fin" /\ f.k = 0

EdgeStep ==
    \A p \in Obj, k \in Slot :
        \/ members'[p][k] \in {members[p][k], NoObj}
        \/ members'[p][k] \in Obj /\ mark[members'[p][k]] = 0 /\ Fillable(p)

WorkStep ==
    /\ \A f \in Elems(stack') : Works(f) => f \in Elems(stack) \/ Passed(f, mark, members')
    /\ \A f \in Elems(stack) : Works(f) =>
         (\E g \in Elems(stack') : Works(g) /\ g.o = f.o) \/ Bare(members', f.o)

ListStep ==
    \A x \in Obj :
        /\ InList(unreferred_objects', x) => InList(unreferred_objects, x) \/ mark[x] = 0
        /\ InList(isolated_roots', x) => InList(isolated_roots, x)

KnownNow == Known(ext, Elems(stack), unreferred_objects, isolated_roots)

LossStep(o) ==
    /\ KnownNow \subseteq KnownNow' \cup {o}
    /\ EdgesKept(members, members', o)
    /\ o \in KnownNow' \/ (Bare(members, o) /\ Bare(members', o))

LostNow == NothingLost(state, members, ext, Elems(stack), unreferred_objects, isolated_roots)

LEMMA LossStepInv ==
    ASSUME HeapInv', CInv, NEW o \in Obj, LossStep(o), DyingFramed(state', Elems(stack')),
           \A x \in Obj : state'[x] = "live" => state[x] = "live" \/ ext'[x] > 0
    PROVE  LostNow'
<1>0. PICK A \in SUBSET Obj, B \in SUBSET Obj :
         /\ A = {x \in Obj : state[x] = "live"}
         /\ B = {x \in Obj : state'[x] = "live"}
  OBVIOUS
<1>1. PICK L : L = KnownNow'
  OBVIOUS
<1>2. L = Known(ext', Elems(stack'), unreferred_objects', isolated_roots')
  BY <1>1 DEF KnownNow
<1>3. B \subseteq A \cup L
  BY <1>0, <1>2 DEF Known
<1>4. ReachedFrom(members, KnownNow, A)
  BY <1>0 DEF ReachedFrom, NothingLost, KnownNow, CInv
<1>5. ASSUME o \notin L, o \in B
      PROVE  ReferredTo(members', o, A, L)
  <2>1. /\ ext' \in [Obj -> Nat] /\ stack' \in Seq(Frame)
        /\ ref_count'[o] = ext'[o] + Cardinality(HoldersIn(stack', o))
                             + Cardinality(EdgesTo(members', o))
        /\ ref_count'[o] > 0
    BY <1>0, <1>5 DEF HeapInv, TypeOK, RefCountExact, Held, InEdges
  <2>2. \/ ext'[o] > 0
        \/ \E f \in Elems(stack') : Holds(f) /\ f.o = o
        \/ \E q \in Obj, j \in Slot : members'[q][j] = o
    BY <2>1, Backed
  <2>3. \A q \in Obj : Bare(members', q) \/ state'[q] \in {"live", "dying"}
    BY DEF HeapInv, DestroyedHoldsNothing, Bare, TypeOK
  <2>4. Bare(members', o)
    BY <1>1, <1>5 DEF LossStep
  <2>5. \A q \in Obj : state'[q] = "live" => q \in A \/ q \in L
    BY <1>0, <1>3
  <2>. QED
    BY <1>2, <1>5, <2>2, <2>3, <2>4, <2>5, StillReferred
<1>6. ReachedFrom(members', L, B)
  <2>1. KnownNow \subseteq L \cup {o}
    BY <1>1 DEF LossStep
  <2>2. EdgesKept(members, members', o)
    BY DEF LossStep
  <2>3. o \in L \/ NoMore(members, members', o, A, B, L)
    BY <1>1, <1>5 DEF LossStep, NoMore
  <2>. QED
    BY <1>3, <1>4, <2>1, <2>2, <2>3, LoseOne
<1>. QED
  BY <1>0, <1>2, <1>6 DEF NothingLost, LostNow, ReachedFrom

LEMMA CutOffStep ==
    ASSUME HeapInv', CutOff(state, mark, members, ext, Elems(stack)),
           StateStep, UserStays, EdgeStep
    PROVE  CutOff(state', mark', members', ext', Elems(stack'))
<1>. SUFFICES ASSUME NEW x \in Obj, Doomed(state', mark', x)
              PROVE  /\ ext'[x] = 0
                     /\ \A f \in Elems(stack') : Returns(f) => f.o # x
                     /\ \A p \in Obj, k \in Slot : members'[p][k] = x => mark'[p] \in {2, 3}
  BY DEF CutOff
<1>1. Doomed(state, mark, x)
  BY DEF StateStep, Doomed
<1>2. /\ mark[x] # 0
      /\ \A p \in Obj, k \in Slot : members[p][k] = x => mark[p] \in {2, 3}
  BY <1>1 DEF CutOff, Doomed
<1>3. ext'[x] = 0
  BY <1>1 DEF UserStays, HeapInv, TypeOK
<1>4. \A f \in Elems(stack') : Returns(f) => f.o # x
  BY <1>1 DEF UserStays
<1>5. ASSUME NEW p \in Obj, NEW k \in Slot, members'[p][k] = x
      PROVE  mark'[p] \in {2, 3}
  <2>1. members'[p][k] # NoObj
    BY <1>5, HeapAssumption
  <2>2. members[p][k] = x
    BY <1>2, <1>5, <2>1 DEF EdgeStep
  <2>3. state'[p] # "free"
    BY <2>1 DEF HeapInv, DestroyedHoldsNothing
  <2>. QED
    BY <1>2, <2>2, <2>3 DEF StateStep
<1>. QED
  BY <1>3, <1>4, <1>5

LEMMA WorkedStep ==
    ASSUME HeapInv, HeapInv', Worked(mark, members, Elems(stack)),
           StateStep, EdgeStep, WorkStep
    PROVE  Worked(mark', members', Elems(stack'))
<1>0. stack \in Seq(Frame) /\ stack' \in Seq(Frame)
  BY DEF HeapInv, TypeOK
<1>1. ASSUME NEW f \in Elems(stack'), Works(f)
      PROVE  Passed(f, mark', members')
  <2>1. f.o \in Obj
    BY <1>0, FrameType
  <2>2. mark[f.o] = 3 /\ f.o \in Obj
    BY <1>1, <2>1 DEF WorkStep, Worked, Passed
  <2>3. mark'[f.o] = 3
    <3>1. PICK x \in Obj : x = f.o
      BY <2>1
    <3>2. Holds(f)
      BY <1>1 DEF Works, Holds
    <3>3. /\ ext' \in [Obj -> Nat]
          /\ ref_count'[x] = ext'[x] + Cardinality(HoldersIn(stack', x))
                               + Cardinality(EdgesTo(members', x))
          /\ ref_count'[x] > 0 => state'[x] = "live"
      BY DEF HeapInv, TypeOK, RefCountExact, Held, InEdges
    <3>4. ref_count'[x] > 0
      BY <1>0, <1>1, <3>1, <3>2, <3>3, Backed
    <3>. QED
      BY <2>2, <3>1, <3>3, <3>4 DEF StateStep
  <2>4. ASSUME NEW k \in Slot
        PROVE  /\ k < f.k \/ f.op = "fin" =>
                    members'[f.o][k] = NoObj \/ mark'[members'[f.o][k]] # 2
               /\ k < f.k /\ f.op = "fin" => members'[f.o][k] = NoObj
    <3>1. \/ members'[f.o][k] \in {members[f.o][k], NoObj}
          \/ /\ members'[f.o][k] \in Obj /\ mark[members'[f.o][k]] = 0
             /\ f \in Elems(stack) => f.k = 0
      BY <1>1, <2>2 DEF EdgeStep, Fillable
    <3>2. (f \in Elems(stack) /\ Passed(f, mark, members)) \/ Passed(f, mark, members')
      BY <1>1 DEF WorkStep, Worked
    <3>5. ~(k < 0)
      BY HeapAssumption DEF Slot
    <3>3. \A y \in Obj : mark[y] # 2 => mark'[y] # 2
      BY DEF StateStep
    <3>4. members'[f.o][k] \in Obj \cup {NoObj}
      BY <2>1 DEF HeapInv, TypeOK
    <3>. QED
      BY <3>1, <3>2, <3>3, <3>4, <3>5 DEF Passed
  <2>. QED
    BY <2>3, <2>4 DEF Passed
<1>2. ASSUME NEW x \in Obj, mark'[x] = 3
      PROVE  (\E f \in Elems(stack') : Works(f) /\ f.o = x) \/ Bare(members', x)
  <2>1. mark[x] = 3
    BY <1>2 DEF StateStep
  <2>2. CASE Bare(members, x) /\ ~\E f \in Elems(stack) : Works(f) /\ f.o = x
    BY <2>1, <2>2 DEF Bare, EdgeStep, Fillable
  <2>3. ASSUME NEW f \in Elems(stack), Works(f), f.o = x
        PROVE  (\E g \in Elems(stack') : Works(g) /\ g.o = x) \/ Bare(members', x)
    BY <2>3 DEF WorkStep
  <2>. QED
    BY <2>1, <2>2, <2>3 DEF Worked
<1>. QED
  BY <1>1, <1>2 DEF Worked

LEMMA HeapStepInv ==
    ASSUME HeapInv, HeapInv', ListsInv', CInv, gc \in {"idle", "collect"}, gc' = gc,
           StateStep, UserStays, EdgeStep, WorkStep, ListStep,
           DyingFramed(state', Elems(stack')), LostNow'
    PROVE  CInv'
<1>1. NothingLost(state', members', ext', Elems(stack'), unreferred_objects', isolated_roots')
  BY DEF LostNow
<1>2. Marks(gc', state', mark', ref_count_scan', unreferred_objects', isolated_roots')
  <2>1. Marks(gc, state, mark, ref_count_scan, unreferred_objects, isolated_roots)
    BY DEF CInv
  <2>2. SUFFICES ASSUME NEW x \in Obj
                 PROVE  /\ mark'[x] = 0 => ref_count_scan'[x] = 0
                        /\ state'[x] = "free" => mark'[x] = 0
                        /\ mark'[x] \in {1, 2} => state'[x] = "live"
                        /\ mark'[x] # 1
                        /\ gc = "idle" /\ state'[x] = "live" => mark'[x] \in {0, 1}
                        /\ InList(unreferred_objects', x) => mark'[x] = 0
                        /\ InList(isolated_roots', x) => gc # "idle"
    BY DEF Marks
  <2>3. /\ mark[x] = 0 => ref_count_scan[x] = 0
        /\ state[x] = "free" => mark[x] = 0
        /\ mark[x] \in {1, 2} => state[x] = "live"
        /\ mark[x] # 1
        /\ gc = "idle" /\ state[x] = "live" => mark[x] \in {0, 1}
        /\ InList(unreferred_objects, x) => mark[x] = 0
        /\ InList(isolated_roots, x) => gc # "idle"
    BY <2>1 DEF Marks
  <2>. QED
    BY <2>3 DEF StateStep, ListStep
<1>3. CutOff(state', mark', members', ext', Elems(stack'))
  BY CutOffStep DEF CInv
<1>4. Worked(mark', members', Elems(stack'))
  BY WorkedStep DEF CInv
<1>. QED
  BY <1>1, <1>2, <1>3, <1>4 DEF CInv

-----------------------------------------------------------------------------
(* The frames that walk over the members of an object.  The collector's come *)
(* first; no other one walks over the members of an object while a frame     *)
(* below is at one of them; an object is collected by one frame; and the     *)
(* member a frame comes to next is there, or di_setx is about to put it back.*)
Walks(f) == f.op \in {"collect", "fin"}
Iterates(f) == Walks(f) /\ f.k \in Slot

Order(s) ==
    \A i, j \in DOMAIN s : i < j =>
        /\ s[j].op = "collect" => s[i].op = "collect"
        /\ Iterates(s[i]) /\ Walks(s[j]) => s[i].o # s[j].o
        /\ Works(s[i]) /\ Works(s[j]) => s[i].o # s[j].o

PutBack(s, i) == \E j \in DOMAIN s :
    j > i /\ s[j].op = "set" /\ s[j].o = s[i].o /\ s[j].k = s[i].k
Pointed(s, m) ==
    \A i \in DOMAIN s : Iterates(s[i]) => m[s[i].o][s[i].k] # NoObj \/ PutBack(s, i)

(* A destructor is called before the members go, and once.  The one of an    *)
(* object that is being collected runs in the frame that finalizes it.       *)
DtorsCalled(s, d, mk) ==
    /\ \A i \in DOMAIN s : s[i].op = "fin" /\ s[i].k > 0 => ~d[s[i].o]
    /\ \A i \in DOMAIN s : s[i].op = "dtor" => ~d[s[i].o] /\ (mk[s[i].o] = 3 => i > 1 /\ Works(s[i - 1]))
    /\ \A x \in Obj : mk[x] = 3 /\ d[x] => \E i \in DOMAIN s : Works(s[i]) /\ s[i].o = x

Walk(s, m, d, mk) == Order(s) /\ Pointed(s, m) /\ DtorsCalled(s, d, mk)
SInv == Walk(stack, members, dtor, mark)

-----------------------------------------------------------------------------
(* User code.                                                                *)

SameWork(F, G) == \A f : f.op # "dtor" => (f \in F <=> f \in G)

LEMMA AfterOpFrames ==
    ASSUME TypeOK, StackSound, UserCode
    PROVE  SameWork(Elems(stack), Elems(AfterOp)) /\ AfterOp \in Seq(Frame)
<1>0. stack \in Seq(Frame)
  BY DEF TypeOK
<1>1. CASE stack = <<>>
  BY <1>0, <1>1 DEF AfterOp, SameWork
<1>2. CASE stack # <<>>
  <2>1. Len(stack) > 0 /\ stack[Len(stack)].op = "dtor" /\ stack[Len(stack)].k > 0
    BY <1>0, <1>2 DEF UserCode, Running, Top
  <2>2. stack[Len(stack)] \in Frame
    BY <1>0, <2>1
  <2>. DEFINE n == stack[Len(stack)].k - 1
  <2>3. n \in Nat /\ AfterOp = [stack EXCEPT ![Len(stack)].k = n]
    BY <1>2, <2>1, <2>2 DEF Frame, AfterOp
  <2>. HIDE DEF n
  <2>4. Edited(stack, AfterOp)
    BY <1>0, <2>1, <2>3, TopEdit
  <2>. QED
    BY <1>0, <2>1, <2>4, FramesEdit DEF SameWork, Edited
<1>. QED
  BY <1>1, <1>2

(* What user code refers to is not marked in these phases.                   *)
LEMMA UserMark ==
    ASSUME HeapInv, CInv, gc \in {"idle", "collect"}, NEW p \in Obj, ext[p] > 0
    PROVE  state[p] = "live" /\ mark[p] = 0 /\ ~Doomed(state, mark, p)
<1>1. state[p] = "live"
  BY Owned DEF HeapInv
<1>2. mark[p] # 1 /\ mark[p] \in 0 .. 3
  BY DEF CInv, Marks, HeapInv, TypeOK
<1>3. ~Doomed(state, mark, p)
  BY DEF CInv, CutOff
<1>. QED
  BY <1>1, <1>2, <1>3 DEF Doomed

LEMMA UserPlain ==
    ASSUME HeapInv, HeapInv', ListsInv', CInv, UserCode, stack' = AfterOp, gc' = gc,
           StateStep, EdgeStep, ListStep,
           \A x \in Obj : state'[x] = "dying" => state[x] = "dying",
           \A x \in Obj : ext'[x] > 0 => ~Doomed(state, mark, x),
           LostNow'
    PROVE  CInv'
<1>1. /\ gc \in {"idle", "collect"} /\ SameWork(Elems(stack), Elems(stack'))
      /\ stack \in Seq(Frame) /\ stack' \in Seq(Frame)
  BY UserOp, AfterOpFrames DEF HeapInv, TypeOK
<1>2. UserStays
  <2>1. ASSUME NEW f \in Elems(stack'), Returns(f)
        PROVE  ~Doomed(state, mark, f.o)
    <3>1. f \in Elems(stack)
      BY <1>1, <2>1 DEF SameWork, Returns
    <3>2. f.o \in Obj
      BY <1>1, <3>1, FrameType
    <3>. QED
      BY <1>1, <2>1, <3>1, <3>2 DEF CInv, CutOff
  <2>. QED
    BY <2>1 DEF UserStays
<1>3. WorkStep
  BY <1>1 DEF WorkStep, Works, SameWork
<1>4. DyingFramed(state', Elems(stack'))
  BY <1>1 DEF CInv, DyingFramed, Destroys, SameWork
<1>. QED
  BY <1>1, <1>2, <1>3, <1>4, HeapStepInv

(* What is known stays known after an operation that drops no reference.     *)
LEMMA UserKnown ==
    ASSUME HeapInv, UserCode, stack' = AfterOp, NEW o,
           \A x \in Obj : ext[x] > 0 => ext'[x] > 0 \/ x = o,
           \A x \in Obj : InList(unreferred_objects, x) => InList(unreferred_objects', x),
           isolated_roots' = isolated_roots
    PROVE  KnownNow \subseteq KnownNow' \cup {o}
<1>1. SameWork(Elems(stack), Elems(stack'))
  BY AfterOpFrames DEF HeapInv
<1>. QED
  BY <1>1 DEF KnownNow, Known, Anchors, SameWork

(* Nothing is lost when all references stay.                                 *)
LEMMA KeepAll ==
    ASSUME CInv, KnownNow \subseteq KnownNow',
           EdgesKept(members, members', NoObj),
           \A x \in Obj : state'[x] = "live" => state[x] = "live" \/ ext'[x] > 0
    PROVE  LostNow'
<1>1. \A x \in Obj : From(members, KnownNow, x) => From(members', KnownNow', x)
  BY DEF From, ClosedIn, EdgesKept
<1>2. \A x \in Obj : ext'[x] > 0 => From(members', KnownNow', x)
  <2>1. \A x \in Obj : ext'[x] > 0 => x \in KnownNow'
    BY DEF KnownNow, Known
  <2>. QED
    BY <2>1, FromSelf
<1>. QED
  BY <1>1, <1>2 DEF LostNow, NothingLost, CInv, KnownNow

LEMMA Unmarked ==
    ASSUME UNCHANGED <<state, mark, ref_count_scan>>
    PROVE  StateStep
  BY DEF StateStep

LEMMA SameEdges ==
    ASSUME UNCHANGED members
    PROVE  EdgeStep /\ EdgesKept(members, members', NoObj)
  BY DEF EdgeStep, EdgesKept

LEMMA UserGrows ==
    ASSUME HeapInv, HeapInv', ListsInv', CInv, UserCode, stack' = AfterOp, gc' = gc,
           StateStep, EdgeStep, EdgesKept(members, members', NoObj),
           \A x \in Obj : state'[x] = "dying" => state[x] = "dying",
           \A x \in Obj : ext[x] > 0 => ext'[x] > 0,
           \A x \in Obj : ext'[x] > 0 => ~Doomed(state, mark, x),
           isolated_roots' = isolated_roots,
           \A x \in Obj :
              /\ InList(unreferred_objects, x) => InList(unreferred_objects', x)
              /\ InList(unreferred_objects', x) => InList(unreferred_objects, x) \/ mark[x] = 0
    PROVE  CInv'
<1>1. KnownNow \subseteq KnownNow'
  <2>1. KnownNow \subseteq KnownNow' \cup {NoObj}
    BY UserKnown
  <2>. QED
    BY <2>1, HeapAssumption DEF KnownNow, Known
<1>2. LostNow'
  <2>1. \A x \in Obj : state'[x] = "live" => state[x] = "live" \/ ext'[x] > 0
    BY DEF StateStep
  <2>. QED
    BY <1>1, <2>1, KeepAll
<1>3. ListStep
  BY DEF ListStep
<1>. QED
  BY <1>2, <1>3, UserPlain

LEMMA SameLists ==
    ASSUME UNCHANGED listVars
    PROVE  /\ isolated_roots' = isolated_roots
           /\ \A x \in Obj :
                /\ InList(unreferred_objects, x) => InList(unreferred_objects', x)
                /\ InList(unreferred_objects', x) => InList(unreferred_objects, x) \/ mark[x] = 0
  BY DEF listVars

LEMMA RefUnrefFacts ==
    ASSUME HeapInv, ListsInv, NEW o \in Obj, RefUnref(o)
    PROVE  \A x \in Obj :
              /\ InList(unreferred_objects, x) => InList(unreferred_objects', x)
              /\ InList(unreferred_objects', x) => InList(unreferred_objects, x) \/ mark[x] = 0
<1>1. CASE mark[o] = 0 /\ ~Listed(o)
  <2>1. /\ unreferred_objects' = <<o>> \o unreferred_objects
        /\ ~InList(unreferred_objects, o) /\ Distinct(unreferred_objects)
        /\ unreferred_objects \in Seq(Obj)
    BY <1>1 DEF RefUnref, Listed, ListsInv, HeapInv, TypeOK
  <2>2. \A x : InList(unreferred_objects', x) <=> InList(unreferred_objects, x) \/ x = o
    BY <2>1, PrependFacts
  <2>. QED
    BY <1>1, <2>2
<1>2. CASE ~(mark[o] = 0 /\ ~Listed(o))
  BY <1>2 DEF RefUnref
<1>. QED
  BY <1>1, <1>2

LEMMA NewObjectC ==
    ASSUME HeapInv, HeapInv', ListsInv', CInv, NEW o \in Obj, NEW d, NewObject(o, d)
    PROVE  CInv'
<1>1. /\ UserCode /\ state[o] = "free" /\ stack' = AfterOp /\ gc' = gc
      /\ state' = [state EXCEPT ![o] = "live"] /\ ext' = [ext EXCEPT ![o] = 1]
      /\ UNCHANGED <<members, mark, ref_count_scan, listVars>>
  BY DEF NewObject, scanVars, gcVars
<1>2. gc \in {"idle", "collect"} /\ mark[o] = 0
  BY <1>1, UserOp DEF HeapInv, CInv, Marks
<1>3. \A x \in Obj : /\ x # o => state'[x] = state[x] /\ ext'[x] = ext[x]
                     /\ x = o => state'[x] = "live" /\ ext'[x] = 1
  BY <1>1 DEF HeapInv, TypeOK
<1>4. StateStep
  BY <1>1, <1>2, <1>3 DEF StateStep
<1>5. \A x \in Obj : ext'[x] > 0 => ~Doomed(state, mark, x)
  BY <1>1, <1>2, <1>3, UserMark DEF Doomed
<1>6. \A x \in Obj : /\ state'[x] = "dying" => state[x] = "dying"
                     /\ ext[x] > 0 => ext'[x] > 0
  BY <1>3
<1>. QED
  BY <1>1, <1>4, <1>5, <1>6, SameEdges, SameLists, UserGrows

(* User code takes a reference to an object that is not scheduled.           *)
LEMMA TakeRefC ==
    ASSUME HeapInv, HeapInv', ListsInv', CInv, NEW o \in Obj, UserCode,
           ext' = [ext EXCEPT ![o] = @ + 1], stack' = AfterOp,
           ~Doomed(state, mark, o), UNCHANGED <<state, members, scanVars, listVars, gcVars>>
    PROVE  CInv'
<1>1. gc' = gc /\ UNCHANGED <<state, members, mark, ref_count_scan>> /\ gc \in {"idle", "collect"}
  BY UserOp DEF scanVars, gcVars, HeapInv
<1>2. \A x \in Obj : ext'[x] = IF x = o THEN ext[x] + 1 ELSE ext[x]
  BY DEF HeapInv, TypeOK
<1>3. \A x \in Obj : ext[x] \in Nat
  BY DEF HeapInv, TypeOK
<1>4. \A x \in Obj : /\ ext'[x] > 0 => ~Doomed(state, mark, x)
                     /\ ext[x] > 0 => ext'[x] > 0
                     /\ state'[x] = "dying" => state[x] = "dying"
  BY <1>1, <1>2, <1>3, UserMark
<1>. QED
  BY <1>1, <1>4, Unmarked, SameEdges, SameLists, UserGrows

LEMMA UserTakesC ==
    ASSUME HeapInv, HeapInv', ListsInv', CInv, ~Reenters, ~UsesScheduled,
           \/ \E o \in Obj : RefObject(o) \/ UpgradeWeakRef(o)
           \/ \E p \in Obj, k \in Slot : GetMember(p, k)
    PROVE  CInv'
<1>1. ASSUME NEW o \in Obj, RefObject(o)
      PROVE  CInv'
  <2>1. UserCode /\ ~Doomed(state, mark, o)
    BY <1>1 DEF RefObject, Keepable, Doomed
  <2>. QED
    BY <1>1, <2>1, TakeRefC DEF RefObject
<1>2. ASSUME NEW o \in Obj, UpgradeWeakRef(o)
      PROVE  CInv'
  <2>1. UserCode /\ ~Doomed(state, mark, o)
    BY <1>2 DEF UpgradeWeakRef, Upgradable, Doomed
  <2>. QED
    BY <1>2, <2>1, TakeRefC DEF UpgradeWeakRef
<1>3. ASSUME NEW p \in Obj, NEW k \in Slot, GetMember(p, k)
      PROVE  CInv'
  <2>1. PICK o : o = members[p][k]
    OBVIOUS
  <2>2. Named(p, k) = o
    BY <1>3, <2>1 DEF GetMember, Named
  <2>3. UserCode /\ o # NoObj /\ Keepable(o)
    BY <1>3, <2>2 DEF GetMember
  <2>4. o \in Obj
    BY <2>1, <2>3 DEF HeapInv, TypeOK
  <2>5. ~Doomed(state, mark, o)
    BY <2>3 DEF Keepable, Doomed
  <2>6. /\ ext' = [ext EXCEPT ![o] = @ + 1] /\ stack' = AfterOp
        /\ UNCHANGED <<state, members, scanVars, listVars, gcVars>>
    BY <1>3, <2>2 DEF GetMember
  <2>. QED
    BY <2>3, <2>4, <2>5, <2>6, TakeRefC
<1>. QED
  BY <1>1, <1>2, <1>3

LEMMA WeaklyRefC ==
    ASSUME HeapInv, HeapInv', ListsInv', CInv, NEW o \in Obj, WeaklyRef(o)
    PROVE  CInv'
<1>1. /\ UserCode /\ stack' = AfterOp /\ gc' = gc
      /\ UNCHANGED <<state, ext, members, mark, ref_count_scan, listVars>>
  BY DEF WeaklyRef, scanVars, gcVars
<1>2. gc \in {"idle", "collect"}
  BY <1>1, UserOp DEF HeapInv
<1>3. \A x \in Obj : /\ ext'[x] > 0 => ~Doomed(state, mark, x)
                     /\ ext[x] > 0 => ext'[x] > 0
                     /\ state'[x] = "dying" => state[x] = "dying"
  BY <1>1, <1>2, UserMark
<1>. QED
  BY <1>1, <1>3, Unmarked, SameEdges, SameLists, UserGrows

LEMMA DropWeakRefC ==
    ASSUME HeapInv, HeapInv', ListsInv', CInv, NEW o \in Obj, DropWeakRef(o)
    PROVE  CInv'
<1>1. /\ UserCode /\ stack' = AfterOp /\ gc' = gc /\ weak[o] > 0
      /\ DecrementWeak(o, state[o])
      /\ UNCHANGED <<ext, members, listVars>>
  BY DEF DropWeakRef, gcVars
<1>2. gc \in {"idle", "collect"}
  BY <1>1, UserOp DEF HeapInv
<1>3. \A x \in Obj : x # o =>
         state'[x] = state[x] /\ mark'[x] = mark[x] /\ ref_count_scan'[x] = ref_count_scan[x]
  BY <1>1 DEF DecrementWeak, HeapInv, TypeOK
<1>4. CASE weak_ref_count[o] = 1
  <2>1. state'[o] = "free" /\ mark'[o] = 0 /\ ref_count_scan'[o] = 0
    BY <1>1, <1>4 DEF DecrementWeak, HeapInv, TypeOK
  <2>2. state[o] # "live"
    BY <1>1, <1>4 DEF HeapInv, WeakCountExact, TypeOK
  <2>3. StateStep
    BY <1>3, <2>1, <2>2 DEF StateStep
  <2>4. \A x \in Obj : /\ ext'[x] > 0 => ~Doomed(state, mark, x)
                       /\ ext[x] > 0 => ext'[x] > 0
                       /\ state'[x] = "dying" => state[x] = "dying"
    BY <1>1, <1>2, <1>3, <2>1, UserMark
  <2>. QED
    BY <1>1, <2>3, <2>4, SameEdges, SameLists, UserGrows
<1>5. CASE weak_ref_count[o] # 1
  <2>1. state'[o] = state[o] /\ mark'[o] = mark[o] /\ ref_count_scan'[o] = ref_count_scan[o]
    BY <1>1, <1>5 DEF DecrementWeak, HeapInv, TypeOK
  <2>2. StateStep
    BY <1>3, <2>1 DEF StateStep
  <2>3. \A x \in Obj : /\ ext'[x] > 0 => ~Doomed(state, mark, x)
                       /\ ext[x] > 0 => ext'[x] > 0
                       /\ state'[x] = "dying" => state[x] = "dying"
    BY <1>1, <1>2, <1>3, <2>1, UserMark
  <2>. QED
    BY <1>1, <2>2, <2>3, SameEdges, SameLists, UserGrows
<1>. QED
  BY <1>4, <1>5

(* The destructor that runs was called by the frame below it.                *)
LEMMA GivenFrame ==
    ASSUME HeapInv, NEW p \in Obj, Given(p)
    PROVE  \E i \in DOMAIN stack :
              /\ i = Len(stack) - 1 /\ stack[i].op = "fin" /\ stack[i].o = p /\ stack[i].k = 0
              /\ i + 1 \in DOMAIN stack /\ stack[i + 1].op = "dtor" /\ stack[i + 1].o = p
<1>1. stack \in Seq(Frame) /\ Len(stack) \in DOMAIN stack /\ Top = stack[Len(stack)]
  BY DEF Given, Running, Top, HeapInv, TypeOK
<1>2. Linked(stack, members, Len(stack)) /\ stack[Len(stack)].op = "dtor" /\ stack[Len(stack)].o = p
  BY <1>1 DEF HeapInv, StackSound, Given, Running, Top
<1>. DEFINE n == Len(stack) - 1
<1>3. /\ n \in DOMAIN stack /\ n + 1 = Len(stack)
      /\ stack[n].op = "fin" /\ stack[n].o = p /\ stack[n].k = 0
  BY <1>1, <1>2 DEF Linked
<1>. QED
  BY <1>1, <1>2, <1>3

LEMMA FinMark ==
    ASSUME HeapInv, CInv, gc \in {"idle", "collect"}, NEW i \in DOMAIN stack, stack[i].op = "fin",
           NEW p \in Obj, p = stack[i].o
    PROVE  mark[p] # 2
<1>1. stack[i].st \in {0, 1, 2} /\ stack[i] \in Elems(stack)
  <2>1. stack[i] \in Frame
    BY DEF HeapInv, TypeOK
  <2>. QED
    BY <2>1 DEF Frame, Elems
<1>2. CASE stack[i].st = 0
  <2>1. state[p] = "dying"
    BY <1>2 DEF Destroys, HeapInv, StackSound
  <2>. QED
    BY <2>1 DEF CInv, Marks
<1>3. CASE stack[i].st = 1
  BY <1>1, <1>3 DEF Works, CInv, Worked, Passed
<1>4. CASE stack[i].st = 2
  <2>1. state[p] = "live"
    BY <1>4, Owned DEF HeapInv, Holds
  <2>2. ~Doomed(state, mark, p)
    BY <1>1, <1>4 DEF Returns, CInv, CutOff
  <2>. QED
    BY <2>1, <2>2 DEF Doomed
<1>. QED
  BY <1>1, <1>2, <1>3, <1>4

LEMMA ReachesFill ==
    ASSUME HeapInv, CInv, SInv, gc \in {"idle", "collect"}, NEW p \in Obj, Reaches(p)
    PROVE  Fillable(p)
<1>1. CASE ext[p] > 0
  <2>1. mark[p] = 0
    BY <1>1, UserMark
  <2>. QED
    BY <2>1 DEF Fillable
<1>2. CASE Given(p)
  <2>1. PICK i \in DOMAIN stack :
           /\ stack[i].op = "fin" /\ stack[i].o = p /\ stack[i].k = 0
           /\ i + 1 \in DOMAIN stack /\ stack[i + 1].op = "dtor" /\ stack[i + 1].o = p
    BY <1>2, GivenFrame
  <2>2. SUFFICES ASSUME mark[p] = 3
                 PROVE  /\ \E f \in Elems(stack) : Works(f) /\ f.o = p
                        /\ \A f \in Elems(stack) : Works(f) /\ f.o = p => f.op = "fin" /\ f.k = 0
    BY <2>1, FinMark DEF Fillable
  <2>3. i \in Nat /\ (i + 1) - 1 = i /\ DOMAIN stack = 1 .. Len(stack) /\ Len(stack) \in Nat
    BY DEF HeapInv, TypeOK
  <2>4. Works(stack[i])
    BY <2>1, <2>2, <2>3 DEF SInv, Walk, DtorsCalled
  <2>5. ASSUME NEW j \in DOMAIN stack, Works(stack[j]), stack[j].o = p
        PROVE  j = i
    <3>1. ~(i < j) /\ ~(j < i)
      BY <2>1, <2>4, <2>5 DEF SInv, Walk, Order
    <3>. QED
      BY <2>3, <3>1
  <2>. QED
    BY <2>1, <2>4, <2>5 DEF Elems
<1>. QED
  BY <1>1, <1>2 DEF Reaches

(* A member is filled with an object user code refers to.                    *)
LEMMA FillEdges ==
    ASSUME HeapInv, CInv, gc \in {"idle", "collect"}, NEW p \in Obj, NEW k \in Slot,
           NEW o \in Obj, Fillable(p), ext[o] > 0, members' = [members EXCEPT ![p][k] = o]
    PROVE  /\ EdgeStep
           /\ EdgesKept(members, members', members[p][k])
           /\ members'[p][k] = o
<1>1. /\ members'[p][k] = o
      /\ \A q \in Obj, j \in Slot : q # p \/ j # k => members'[q][j] = members[q][j]
  BY DEF HeapInv, TypeOK
<1>2. mark[o] = 0
  BY UserMark
<1>3. EdgeStep
  BY <1>1, <1>2 DEF EdgeStep
<1>4. EdgesKept(members, members', members[p][k])
  BY <1>1 DEF EdgesKept
<1>. QED
  BY <1>1, <1>3, <1>4

LEMMA AppendsEmpty ==
    ASSUME NEW p \in Obj, NEW k \in Slot, Appends(p, k)
    PROVE  members[p][k] = NoObj
  BY HeapAssumption DEF Appends, Unused, Slot

LEMMA AddMemberC ==
    ASSUME HeapInv, ListsInv, HeapInv', ListsInv', CInv, SInv, NEW p \in Obj, NEW k \in Slot,
           NEW o \in Obj, AddMember(p, k, o)
    PROVE  CInv'
<1>1. /\ UserCode /\ stack' = AfterOp /\ gc' = gc /\ Reaches(p) /\ ext[o] > 0
      /\ UNCHANGED <<state, ext, mark, ref_count_scan, isolated_roots>>
  BY DEF AddMember, scanVars, gcVars, ownVars
<1>2. gc \in {"idle", "collect"}
  BY <1>1, UserOp DEF HeapInv
<1>3. \A x \in Obj : /\ ext'[x] > 0 => ~Doomed(state, mark, x)
                     /\ ext[x] > 0 => ext'[x] > 0
                     /\ state'[x] = "dying" => state[x] = "dying"
  BY <1>1, <1>2, UserMark
<1>4. CASE /\ Appends(p, k) /\ members' = [members EXCEPT ![p][k] = o]
           /\ UNCHANGED unreferred_objects
  <2>1. members[p][k] = NoObj
    BY <1>4, AppendsEmpty
  <2>2. EdgeStep /\ EdgesKept(members, members', NoObj)
    BY <1>1, <1>2, <1>4, <2>1, ReachesFill, FillEdges
  <2>3. UNCHANGED listVars
    BY <1>1, <1>4 DEF listVars
  <2>. QED
    BY <1>1, <1>3, <2>2, <2>3, Unmarked, SameLists, UserGrows
<1>5. CASE RefUnref(o) /\ UNCHANGED members
  <2>1. RefUnref(o) /\ UNCHANGED members
    BY <1>5
  <2>2. EdgeStep /\ EdgesKept(members, members', NoObj)
    BY <2>1, SameEdges
  <2>. QED
    BY <1>1, <1>3, <2>1, <2>2, Unmarked, RefUnrefFacts, UserGrows
<1>. QED
  BY <1>4, <1>5 DEF AddMember

LEMMA DtorUsesMemberC ==
    ASSUME HeapInv, ListsInv, HeapInv', ListsInv', CInv, NEW k \in Slot, DtorUsesMember(k)
    PROVE  CInv'
<1>1. PICK o : o = members[Top.o][k]
  OBVIOUS
<1>2. /\ Running("dtor") /\ Top.k > 0 /\ o # NoObj /\ RefUnref(o) /\ stack' = AfterOp /\ gc' = gc
      /\ UNCHANGED <<state, members, ext, mark, ref_count_scan, isolated_roots>>
  BY <1>1 DEF DtorUsesMember, objVars, scanVars, gcVars, ownVars
<1>3. UserCode /\ Top.o \in Obj
  BY <1>2, TopFacts DEF UserCode, HeapInv
<1>4. o \in Obj
  BY <1>1, <1>2, <1>3 DEF HeapInv, TypeOK
<1>5. gc \in {"idle", "collect"}
  BY <1>3, UserOp DEF HeapInv
<1>6. \A x \in Obj : /\ ext'[x] > 0 => ~Doomed(state, mark, x)
                     /\ ext[x] > 0 => ext'[x] > 0
                     /\ state'[x] = "dying" => state[x] = "dying"
  BY <1>2, <1>5, UserMark
<1>. QED
  BY <1>2, <1>3, <1>4, <1>6, Unmarked, SameEdges, RefUnrefFacts, UserGrows

(* What AfterUnref(o, s) does: o is destroyed or stays, and when it is not   *)
(* marked it can be found in either case.                                    *)
UnrefEffect(o, G) ==
    /\ \A f \in Elems(stack') : f \in G \/ (Destroys(f) /\ f.o = o)
    /\ G \subseteq Elems(stack')
    /\ \A x \in Obj : state'[x] = state[x] \/ (x = o /\ state'[x] = "dying")
    /\ state'[o] = "dying" => \E f \in Elems(stack') : Destroys(f) /\ f.o = o
    /\ ListStep
    /\ \A x \in Obj : /\ InList(unreferred_objects, x) => InList(unreferred_objects', x) \/ x = o
                      /\ InList(isolated_roots, x) => InList(isolated_roots', x) \/ x = o
    /\ \/ state'[o] = "dying"
       \/ mark[o] # 0
       \/ InList(unreferred_objects', o)
       \/ InList(isolated_roots', o)

LEMMA UnrefFacts ==
    ASSUME HeapInv, ListsInv, NEW o \in Obj, state[o] = "live",
           NEW s \in Seq(Frame), AfterUnref(o, s)
    PROVE  UnrefEffect(o, Elems(s))
<1>. DEFINE u == unreferred_objects
            r == isolated_roots
            f == [op |-> "fin", o |-> o, k |-> 0, st |-> 0]
<1>0. /\ u \in Seq(Obj) /\ r \in Seq(Obj) /\ Distinct(u) /\ Distinct(r)
      /\ state \in [Obj -> {"free", "live", "dying", "zombie"}]
  BY DEF HeapInv, TypeOK, ListsInv
<1>1. CASE ref_count[o] = 1
  <2>1. /\ u' = Without(u, o) /\ r' = Without(r, o)
        /\ state' = [state EXCEPT ![o] = "dying"] /\ stack' = Append(s, f)
    BY <1>1 DEF AfterUnref
  <2>2. f \in Frame /\ Destroys(f) /\ f.o = o
    BY DEF Frame, Destroys
  <2>. HIDE DEF f
  <2>3. Elems(stack') = Elems(s) \cup {f}
    BY <2>1, <2>2, FramesPush
  <2>4. /\ \A x : InList(u', x) <=> InList(u, x) /\ x # o
        /\ \A x : InList(r', x) <=> InList(r, x) /\ x # o
    BY <1>0, <2>1, WithoutFacts
  <2>5. ListStep
    BY <2>4 DEF ListStep
  <2>. QED
    BY <1>0, <2>1, <2>2, <2>3, <2>4, <2>5 DEF UnrefEffect
<1>2. CASE ref_count[o] # 1
  <2>1. /\ stack' = s /\ UNCHANGED <<isolated_roots, state>> /\ RefUnref(o)
    BY <1>2 DEF AfterUnref, RefUnref
  <2>2. \A x \in Obj :
           /\ InList(u, x) => InList(u', x)
           /\ InList(u', x) => InList(u, x) \/ mark[x] = 0
    BY <2>1, RefUnrefFacts
  <2>3. mark[o] # 0 \/ InList(u', o) \/ InList(r', o)
    <3>1. CASE mark[o] = 0 /\ ~Listed(o)
      <4>1. u' = <<o>> \o u /\ ~InList(u, o)
        BY <2>1, <3>1 DEF RefUnref, Listed
      <4>. QED
        BY <1>0, <4>1, PrependFacts
    <3>2. CASE Listed(o)
      BY <2>1, <2>2, <3>2 DEF Listed
    <3>. QED
      BY <3>1, <3>2
  <2>4. ListStep
    BY <2>1, <2>2 DEF ListStep
  <2>. QED
    BY <2>1, <2>2, <2>3, <2>4 DEF UnrefEffect
<1>. QED
  BY <1>1, <1>2

(* A reference is dropped: s are the frames that go on.                      *)
LEMMA FinUnrefC ==
    ASSUME HeapInv, ListsInv, HeapInv', ListsInv', CInv, gc \in {"idle", "collect"}, gc' = gc,
           NEW o \in Obj, state[o] = "live", mark[o] \in {0, 3},
           NEW s \in Seq(Frame), AfterUnref(o, s), UNCHANGED scanVars, EdgeStep,
           \A x \in Obj : ext'[x] > 0 => ext[x] > 0,
           \A x \in Obj : ext[x] > 0 =>
              ext'[x] > 0 \/ x = o \/ \E g \in Elems(s) : Anchors(g) /\ g.o = x,
           EdgesKept(members, members', o),
           \A f \in Elems(s) : Returns(f) => ~Doomed(state, mark, f.o),
           \A f \in Elems(s) : Works(f) => f \in Elems(stack) \/ Passed(f, mark, members'),
           \A f \in Elems(stack) : Works(f) =>
              (\E g \in Elems(s) : Works(g) /\ g.o = f.o) \/ Bare(members', f.o),
           \A f \in Elems(stack) : Destroys(f) => \E g \in Elems(s) : Destroys(g) /\ g.o = f.o,
           \A f \in Elems(stack) : Anchors(f) =>
              f.o = o \/ \E g \in Elems(s) : Anchors(g) /\ g.o = f.o,
           mark[o] = 3 => \/ \E f \in Elems(s) : Works(f) /\ f.o = o
                          \/ Bare(members, o) /\ Bare(members', o)
    PROVE  CInv'
<1>1. UNCHANGED <<mark, ref_count_scan>>
  BY DEF scanVars
<1>2. UnrefEffect(o, Elems(s))
  BY UnrefFacts
<1>3. StateStep
  BY <1>1, <1>2 DEF UnrefEffect, StateStep
<1>4. ListStep
  BY <1>2 DEF UnrefEffect
<1>5. /\ \A f \in Elems(stack') : f \in Elems(s) \/ (Destroys(f) /\ f.o = o)
      /\ Elems(s) \subseteq Elems(stack')
  BY <1>2 DEF UnrefEffect
<1>6. UserStays
  <2>1. \A x \in Obj : ext'[x] > 0 => ~Doomed(state, mark, x)
    BY <1>1, UserMark
  <2>2. \A f \in Elems(stack') : Returns(f) => ~Doomed(state, mark, f.o)
    BY <1>5 DEF Returns, Destroys
  <2>. QED
    BY <2>1, <2>2 DEF UserStays
<1>7. WorkStep
  <2>1. \A f \in Elems(stack') : Works(f) => f \in Elems(s)
    BY <1>5 DEF Works, Destroys
  <2>2. \A f \in Elems(stack') : Works(f) => f \in Elems(stack) \/ Passed(f, mark, members')
    BY <2>1
  <2>3. \A f \in Elems(stack) : Works(f) =>
           (\E g \in Elems(stack') : Works(g) /\ g.o = f.o) \/ Bare(members', f.o)
    BY <1>5
  <2>. QED
    BY <2>2, <2>3 DEF WorkStep
<1>8. DyingFramed(state', Elems(stack'))
  <2>1. ASSUME NEW x \in Obj, state'[x] = "dying"
        PROVE  \E f \in Elems(stack') : Destroys(f) /\ f.o = x
    <3>1. CASE state[x] = "dying"
      <4>1. PICK f \in Elems(stack) : Destroys(f) /\ f.o = x
        BY <3>1 DEF CInv, DyingFramed
      <4>. QED
        BY <1>5, <4>1
    <3>2. CASE state[x] # "dying"
      BY <1>2, <2>1, <3>2 DEF UnrefEffect
    <3>. QED
      BY <3>1, <3>2
  <2>. QED
    BY <2>1 DEF DyingFramed
<1>9. LossStep(o)
  <2>1. \A x \in Obj : (\E f \in Elems(stack) : Anchors(f) /\ f.o = x)
                         => x = o \/ \E f \in Elems(stack') : Anchors(f) /\ f.o = x
    BY <1>5
  <2>2. \A x \in Obj : /\ InList(unreferred_objects, x) => InList(unreferred_objects', x) \/ x = o
                       /\ InList(isolated_roots, x) => InList(isolated_roots', x) \/ x = o
    BY <1>2 DEF UnrefEffect
  <2>3. KnownNow \subseteq KnownNow' \cup {o}
    BY <1>5, <2>1, <2>2 DEF KnownNow, Known
  <2>4. o \in KnownNow' \/ (Bare(members, o) /\ Bare(members', o))
    <3>1. CASE mark[o] = 0
      <4>1. state'[o] = "dying" => \E f \in Elems(stack') : Anchors(f) /\ f.o = o
        BY <1>2 DEF UnrefEffect, Destroys, Anchors
      <4>2. state'[o] = "dying" \/ InList(unreferred_objects', o) \/ InList(isolated_roots', o)
        BY <1>2, <3>1 DEF UnrefEffect
      <4>. QED
        BY <4>1, <4>2 DEF KnownNow, Known
    <3>2. ASSUME NEW f \in Elems(s), Works(f), f.o = o
          PROVE  o \in KnownNow'
      <4>1. f \in Elems(stack') /\ Anchors(f)
        BY <1>5, <3>2 DEF Works, Anchors
      <4>. QED
        BY <3>2, <4>1 DEF KnownNow, Known
    <3>. QED
      BY <3>1, <3>2
  <2>. QED
    BY <2>3, <2>4 DEF LossStep
<1>10. LostNow'
  <2>1. \A x \in Obj : state'[x] = "live" => state[x] = "live" \/ ext'[x] > 0
    BY <1>3 DEF StateStep
  <2>. QED
    BY <1>8, <1>9, <2>1, LossStepInv
<1>. QED
  BY <1>3, <1>4, <1>6, <1>7, <1>8, <1>10, HeapStepInv

(* What an object that is being finalized lets go of is unmarked or being    *)
(* collected.                                                                *)
LEMMA FreedMark ==
    ASSUME HeapInv, CInv, gc \in {"idle", "collect"}, NEW i \in DOMAIN stack, stack[i].op = "fin",
           NEW p \in Obj, p = stack[i].o, NEW k \in Slot, members[p][k] # NoObj
    PROVE  /\ members[p][k] \in Obj
           /\ state[members[p][k]] = "live"
           /\ mark[members[p][k]] \in {0, 3}
<1>1. /\ stack \in Seq(Frame) /\ stack[i] \in Frame /\ stack[i].st \in {0, 1, 2}
      /\ stack[i] \in Elems(stack)
  <2>1. stack \in Seq(Frame) /\ stack[i] \in Frame
    BY DEF HeapInv, TypeOK
  <2>. QED
    BY <2>1 DEF Frame, Elems
<1>3. PICK o \in Obj : o = members[p][k]
  BY DEF HeapInv, TypeOK
<1>4. state[o] = "live" /\ mark[o] # 1 /\ mark[o] \in 0 .. 3
  BY <1>3, Owned DEF HeapInv, CInv, Marks, TypeOK
<1>5. CASE stack[i].st = 0
  <2>1. state[p] = "dying"
    BY <1>5 DEF Destroys, HeapInv, StackSound
  <2>2. mark[p] # 2
    BY <2>1 DEF CInv, Marks
  <2>3. mark[p] # 3
    <3>1. SUFFICES ASSUME mark[p] = 3
                   PROVE  FALSE
      OBVIOUS
    <3>2. ~Bare(members, p)
      BY DEF Bare
    <3>3. PICK f \in Elems(stack) : Works(f) /\ f.o = p
      BY <3>1, <3>2 DEF CInv, Worked
    <3>4. PICK j \in DOMAIN stack : stack[j] = f
      BY <3>3 DEF Elems
    <3>5. state[p] = "live"
      BY <3>3, <3>4, Owned DEF HeapInv, Holds, Works
    <3>. QED
      BY <2>1, <3>5
  <2>4. ~Doomed(state, mark, o)
    BY <1>3, <2>2, <2>3 DEF CInv, CutOff
  <2>. QED
    BY <1>3, <1>4, <2>4 DEF Doomed
<1>6. CASE stack[i].st = 1
  <2>1. Passed(stack[i], mark, members)
    BY <1>1, <1>6 DEF Works, CInv, Worked
  <2>2. mark[o] # 2
    BY <1>3, <2>1 DEF Passed
  <2>. QED
    BY <1>3, <1>4, <2>2
<1>7. CASE stack[i].st = 2
  <2>1. ~Doomed(state, mark, p)
    BY <1>1, <1>7 DEF Returns, CInv, CutOff
  <2>2. state[p] = "live"
    BY <1>7, Owned DEF HeapInv, Holds
  <2>3. ~Doomed(state, mark, o)
    BY <1>3, <2>1, <2>2 DEF CInv, CutOff, Doomed
  <2>. QED
    BY <1>3, <1>4, <2>3 DEF Doomed
<1>. QED
  BY <1>1, <1>5, <1>6, <1>7

(* User code gives up a reference to an object that is not marked.           *)
LEMMA UserUnrefC ==
    ASSUME HeapInv, ListsInv, HeapInv', ListsInv', CInv, UserCode, gc' = gc,
           NEW o \in Obj, state[o] = "live", mark[o] \in {0, 3},
           mark[o] = 3 => \/ \E f \in Elems(stack) : Works(f) /\ f.o = o
                          \/ Bare(members, o) /\ Bare(members', o),
           NEW s \in Seq(Frame), AfterUnref(o, s),
           \A f \in Elems(stack) : f.op # "dtor" => f \in Elems(s),
           \A f \in Elems(s) : f.op # "dtor" =>
              f \in Elems(stack) \/ (f.op \in {"set", "value"} /\ ext[f.o] > 0),
           UNCHANGED scanVars, EdgeStep, EdgesKept(members, members', o),
           \A x \in Obj : ext[x] > 0 => \/ ext'[x] > 0 \/ x = o
                                        \/ \E f \in Elems(s) : f.op \in {"set", "value"} /\ f.o = x,
           \A x \in Obj : ext'[x] > 0 => ext[x] > 0
    PROVE  CInv'
<1>1. gc \in {"idle", "collect"} /\ stack \in Seq(Frame)
  BY UserOp DEF HeapInv, TypeOK
<1>2. ASSUME NEW f \in Elems(s), Returns(f)
      PROVE  ~Doomed(state, mark, f.o)
  <2>1. f.o \in Obj
    BY FrameType
  <2>2. f \in Elems(stack) \/ ext[f.o] > 0
    BY <1>2 DEF Returns
  <2>. QED
    BY <1>1, <1>2, <2>1, <2>2, UserMark DEF CInv, CutOff
<1>3. \A f \in Elems(s) : Works(f) => f \in Elems(stack) \/ Passed(f, mark, members')
  BY DEF Works
<1>4. /\ \A f \in Elems(stack) : Works(f) => f \in Elems(s)
      /\ \A f \in Elems(stack) : Destroys(f) => f \in Elems(s)
      /\ \A f \in Elems(stack) : Anchors(f) => f \in Elems(s)
  BY DEF Works, Destroys, Anchors
<1>5. \A x \in Obj : ext[x] > 0 => \/ ext'[x] > 0 \/ x = o
                                   \/ \E f \in Elems(s) : Anchors(f) /\ f.o = x
  BY DEF Anchors
<1>. QED
  BY <1>1, <1>2, <1>3, <1>4, <1>5, FinUnrefC

LEMMA DropRefC ==
    ASSUME HeapInv, ListsInv, HeapInv', ListsInv', CInv, NEW o \in Obj, DropRef(o)
    PROVE  CInv'
<1>1. /\ UserCode /\ gc' = gc /\ ext[o] > 0 /\ ext' = [ext EXCEPT ![o] = @ - 1]
      /\ AfterUnref(o, AfterOp) /\ UNCHANGED <<members, scanVars>>
  BY DEF DropRef, UnrefObject, gcVars
<1>2. state[o] = "live" /\ mark[o] = 0
  BY <1>1, UserOp, UserMark DEF HeapInv
<1>3. \A x \in Obj : ext[x] \in Nat /\ ext'[x] = IF x = o THEN ext[x] - 1 ELSE ext[x]
  BY <1>1 DEF HeapInv, TypeOK
<1>4. \A x \in Obj : /\ ext[x] > 0 => ext'[x] > 0 \/ x = o
                     /\ ext'[x] > 0 => ext[x] > 0
  BY <1>3
<1>5. EdgeStep /\ EdgesKept(members, members', o)
  BY <1>1 DEF EdgeStep, EdgesKept
<1>6. /\ AfterOp \in Seq(Frame)
      /\ \A f : f.op # "dtor" => (f \in Elems(stack) <=> f \in Elems(AfterOp))
  BY <1>1, AfterOpFrames DEF HeapInv, SameWork
<1>. QED
  BY <1>1, <1>2, <1>4, <1>5, <1>6, UserUnrefC

(* What an object of user code refers to is not marked.                      *)
LEMMA UserMember ==
    ASSUME HeapInv, CInv, gc \in {"idle", "collect"}, NEW p \in Obj, NEW k \in Slot,
           ext[p] > 0, members[p][k] # NoObj
    PROVE  /\ members[p][k] \in Obj
           /\ state[members[p][k]] = "live"
           /\ mark[members[p][k]] = 0
<1>1. PICK o \in Obj : o = members[p][k]
  BY DEF HeapInv, TypeOK
<1>2. state[o] = "live"
  BY <1>1, Owned DEF HeapInv
<1>3. mark[p] = 0
  BY UserMark
<1>4. mark[o] # 1 /\ mark[o] \in 0 .. 3
  BY DEF CInv, Marks, HeapInv, TypeOK
<1>5. ~Doomed(state, mark, o)
  BY <1>1, <1>3 DEF CInv, CutOff
<1>. QED
  BY <1>1, <1>2, <1>4, <1>5 DEF Doomed

LEMMA DeleteMemberC ==
    ASSUME HeapInv, ListsInv, HeapInv', ListsInv', CInv, NEW p \in Obj, NEW k \in Slot,
           DeleteMember(p, k)
    PROVE  CInv'
<1>1. PICK o : o = members[p][k]
  OBVIOUS
<1>2. /\ UserCode /\ gc' = gc /\ Reaches(p) /\ o # NoObj
      /\ members' = [members EXCEPT ![p][k] = NoObj]
      /\ AfterUnref(o, AfterOp) /\ UNCHANGED <<ext, scanVars>>
  BY <1>1 DEF DeleteMember, UnrefObject, gcVars, ownVars
<1>3. gc \in {"idle", "collect"}
  BY <1>2, UserOp DEF HeapInv
<1>4. o \in Obj /\ state[o] = "live" /\ mark[o] \in {0, 3}
  <2>1. CASE ext[p] > 0
    BY <1>1, <1>2, <1>3, <2>1, UserMember
  <2>2. CASE Given(p)
    <3>1. PICK i \in DOMAIN stack : stack[i].op = "fin" /\ stack[i].o = p
      BY <2>2, GivenFrame
    <3>. QED
      BY <1>1, <1>2, <1>3, <3>1, FreedMark
  <2>. QED
    BY <1>2, <2>1, <2>2 DEF Reaches
<1>5. /\ members'[p][k] = NoObj
      /\ \A q \in Obj, j \in Slot : q # p \/ j # k => members'[q][j] = members[q][j]
  BY <1>2 DEF HeapInv, TypeOK
<1>6. EdgeStep /\ EdgesKept(members, members', o)
  BY <1>1, <1>5 DEF EdgeStep, EdgesKept
<1>7. mark[o] = 3 => \/ \E f \in Elems(stack) : Works(f) /\ f.o = o
                     \/ Bare(members, o) /\ Bare(members', o)
  <2>1. \A x \in Obj : Bare(members, x) => Bare(members', x)
    BY <1>5 DEF Bare
  <2>. QED
    BY <1>3, <1>4, <2>1 DEF CInv, Worked
<1>8. /\ AfterOp \in Seq(Frame)
      /\ \A f : f.op # "dtor" => (f \in Elems(stack) <=> f \in Elems(AfterOp))
  BY <1>2, AfterOpFrames DEF HeapInv, SameWork
<1>. QED
  BY <1>2, <1>4, <1>6, <1>7, <1>8, UserUnrefC

LEMMA SetMemberC ==
    ASSUME HeapInv, ListsInv, HeapInv', ListsInv', CInv, NEW p \in Obj, NEW k \in Slot,
           NEW n \in Obj, SetMember(p, k, n)
    PROVE  CInv'
<1>1. PICK o : o = members[p][k]
  OBVIOUS
<1>. DEFINE f == [op |-> "value", o |-> n, k |-> 0, st |-> 0]
            g == [op |-> "set", o |-> p, k |-> k, st |-> 0]
            t == Append(AfterOp, f)
            s == Append(t, g)
<1>2. /\ UserCode /\ gc' = gc /\ ext[n] > 0 /\ ext[p] > IF p = n THEN 1 ELSE 0
      /\ o # NoObj /\ ext' = [[ext EXCEPT ![n] = @ - 1] EXCEPT ![p] = @ - 1]
      /\ members' = [members EXCEPT ![p][k] = NoObj]
      /\ AfterUnref(o, s) /\ UNCHANGED scanVars
  BY <1>1 DEF SetMember, SetFrames, UnrefObject, gcVars
<1>3. gc \in {"idle", "collect"}
  BY <1>2, UserOp DEF HeapInv
<1>4. f \in Frame /\ f.op = "value" /\ f.o = n /\ g \in Frame /\ g.op = "set" /\ g.o = p
  BY HeapAssumption DEF Frame, Slot
<1>. HIDE DEF f, g
<1>5. /\ AfterOp \in Seq(Frame)
      /\ \A h : h.op # "dtor" => (h \in Elems(stack) <=> h \in Elems(AfterOp))
  BY <1>2, AfterOpFrames DEF HeapInv, SameWork
<1>6. t \in Seq(Frame) /\ Elems(t) = Elems(AfterOp) \cup {f}
  BY <1>4, <1>5, FramesPush
<1>. HIDE DEF t
<1>7. s \in Seq(Frame) /\ Elems(s) = Elems(AfterOp) \cup {f, g}
  <2>1. Elems(s) = Elems(t) \cup {g}
    BY <1>4, <1>6, FramesPush
  <2>. QED
    BY <1>4, <1>6, <2>1
<1>. HIDE DEF s
<1>8. \A x \in Obj : ext[x] \in Nat /\ (x # n /\ x # p => ext'[x] = ext[x])
  BY <1>2 DEF HeapInv, TypeOK
<1>9. ext[p] > 0
  BY <1>2, <1>8
<1>10. o \in Obj /\ state[o] = "live" /\ mark[o] = 0
  BY <1>1, <1>2, <1>3, <1>9, UserMember
<1>11. EdgeStep /\ EdgesKept(members, members', o)
  <2>1. /\ members'[p][k] = NoObj
        /\ \A q \in Obj, j \in Slot : q # p \/ j # k => members'[q][j] = members[q][j]
    BY <1>2 DEF HeapInv, TypeOK
  <2>. QED
    BY <1>1, <2>1 DEF EdgeStep, EdgesKept
<1>12. /\ \A h \in Elems(stack) : h.op # "dtor" => h \in Elems(s)
       /\ \A h \in Elems(s) : h.op # "dtor" =>
             h \in Elems(stack) \/ (h.op \in {"set", "value"} /\ ext[h.o] > 0)
  BY <1>2, <1>4, <1>5, <1>7, <1>9
<1>13. \A x \in Obj : ext[x] > 0 => \/ ext'[x] > 0 \/ x = o
                                    \/ \E h \in Elems(s) : h.op \in {"set", "value"} /\ h.o = x
  BY <1>4, <1>7, <1>8
<1>14. \A x \in Obj : ext'[x] > 0 => ext[x] > 0
  BY <1>2, <1>8, <1>9
<1>. QED
  <2>1. mark[o] \in {0, 3} /\ mark[o] # 3
    BY <1>10
  <2>2. UserCode /\ gc' = gc /\ AfterUnref(o, s) /\ UNCHANGED scanVars
    BY <1>2
  <2>. QED
    BY <1>7, <1>10, <1>11, <1>12, <1>13, <1>14, <2>1, <2>2, UserUnrefC

LEMMA StoreMemberC ==
    ASSUME HeapInv, HeapInv', ListsInv', CInv, StoreMember
    PROVE  CInv'
<1>. DEFINE n == Len(stack) - 1
            t == Pop(stack)
            s == Pop(t)
<1>1. PICK o : o = stack[n].o
  OBVIOUS
<1>2. PICK p, k : p = Top.o /\ k = Top.k
  OBVIOUS
<1>3. /\ Running("set") /\ members' = [members EXCEPT ![p][k] = o]
      /\ ext' = [[ext EXCEPT ![o] = @ + 1] EXCEPT ![p] = @ + 1]
      /\ stack' = s /\ gc' = gc
      /\ UNCHANGED <<state, mark, ref_count_scan, unreferred_objects, isolated_roots>>
  BY <1>1, <1>2 DEF StoreMember, scanVars, listVars, gcVars
<1>4. /\ stack \in Seq(Frame) /\ Len(stack) > 0 /\ Len(stack) \in DOMAIN stack
      /\ Top = stack[Len(stack)] /\ Top.op = "set" /\ p \in Obj
      /\ gc \in {"idle", "collect"} /\ Linked(stack, members, Len(stack))
  BY <1>2, <1>3, TopFacts DEF HeapInv, Shape
<1>5. /\ Len(stack) > 1 /\ n \in DOMAIN stack /\ stack[n].op = "value"
      /\ k \in Slot /\ members[p][k] = NoObj
  BY <1>2, <1>4 DEF Linked
<1>6. o \in Obj
  <2>1. stack[n] \in Frame
    BY <1>4, <1>5
  <2>. QED
    BY <1>1, <2>1 DEF Frame
<1>7. Elems(stack) = Elems(s) \cup {Top, stack[n]}
  <2>1. Elems(stack) = Elems(t) \cup {Top}
    BY <1>4, FramesPop
  <2>2. t \in Seq(Frame) /\ Len(t) = n /\ \A i \in 1 .. n : t[i] = stack[i]
    BY <1>4, PopPush
  <2>3. n \in 1 .. n
    BY <1>4, <1>5
  <2>. HIDE DEF t, n
  <2>4. Len(t) > 0 /\ t[Len(t)] = stack[n]
    BY <2>2, <2>3
  <2>5. Elems(t) = Elems(s) \cup {stack[n]}
    BY <2>2, <2>4, FramesPop
  <2>. QED
    BY <2>1, <2>5
<1>8. /\ Returns(Top) /\ Returns(stack[n]) /\ Holds(Top) /\ Holds(stack[n])
      /\ ~Works(Top) /\ ~Works(stack[n]) /\ ~Destroys(Top) /\ ~Destroys(stack[n])
  BY <1>4, <1>5 DEF Returns, Holds, Works, Destroys
<1>. HIDE DEF s, t, n
<1>9. ASSUME NEW x \in Obj, x = o \/ x = p
      PROVE  mark[x] = 0 /\ ~Doomed(state, mark, x)
  <2>1. state[x] = "live"
    BY <1>1, <1>2, <1>4, <1>5, <1>8, <1>9, Owned DEF HeapInv
  <2>2. mark[x] # 1 /\ mark[x] \in 0 .. 3
    BY <1>4 DEF CInv, Marks, HeapInv, TypeOK
  <2>3. ~Doomed(state, mark, x)
    BY <1>1, <1>2, <1>4, <1>7, <1>8, <1>9 DEF CInv, CutOff
  <2>. QED
    BY <2>1, <2>2, <2>3 DEF Doomed
<1>10. /\ EdgeStep /\ EdgesKept(members, members', NoObj)
  <2>1. /\ members'[p][k] = o
        /\ \A q \in Obj, j \in Slot : q # p \/ j # k => members'[q][j] = members[q][j]
    BY <1>3, <1>4, <1>5 DEF HeapInv, TypeOK
  <2>2. mark[o] = 0 /\ Fillable(p)
    BY <1>4, <1>6, <1>9 DEF Fillable
  <2>. QED
    BY <1>5, <1>6, <2>1, <2>2 DEF EdgeStep, EdgesKept
<1>11. \A x \in Obj : /\ ext[x] \in Nat /\ ext[x] > 0 => ext'[x] > 0
                      /\ x = o \/ x = p => ext'[x] > 0
                      /\ x # o /\ x # p => ext'[x] = ext[x]
  <2>1. ext \in [Obj -> Nat]
    BY DEF HeapInv, TypeOK
  <2>2. CASE p = o
    <3>1. ext' = [ext EXCEPT ![p] = (ext[p] + 1) + 1]
      BY <1>3, <1>4, <2>1, <2>2
    <3>. QED
      BY <1>4, <2>1, <2>2, <3>1
  <2>3. CASE p # o
    BY <1>3, <1>4, <1>6, <2>1, <2>3
  <2>. QED
    BY <2>2, <2>3
<1>12. UserStays
  <2>1. \A x \in Obj : ext'[x] > 0 => ~Doomed(state, mark, x)
    BY <1>4, <1>9, <1>11, UserMark
  <2>2. \A f \in Elems(stack) : Returns(f) => ~Doomed(state, mark, f.o)
    BY <1>4, FrameType DEF CInv, CutOff
  <2>. QED
    BY <1>3, <1>7, <2>1, <2>2 DEF UserStays
<1>13. WorkStep /\ DyingFramed(state', Elems(stack'))
  BY <1>3, <1>7, <1>8 DEF WorkStep, DyingFramed, CInv
<1>14. KnownNow \subseteq KnownNow'
  BY <1>1, <1>2, <1>3, <1>7, <1>11 DEF KnownNow, Known
<1>15. LostNow'
  BY <1>3, <1>10, <1>14, KeepAll
<1>16. StateStep /\ ListStep
  BY <1>3, Unmarked DEF ListStep
<1>. QED
  BY <1>3, <1>4, <1>10, <1>12, <1>13, <1>15, <1>16, HeapStepInv

LEMMA MoveMemberC ==
    ASSUME HeapInv, ListsInv, HeapInv', ListsInv', CInv, SInv, NEW p \in Obj, NEW k \in Slot,
           NEW o \in Obj, MoveMember(p, k, o)
    PROVE  CInv'
<1>1. /\ UserCode /\ gc' = gc /\ ext[o] > 0 /\ ext' = [ext EXCEPT ![o] = @ - 1]
      /\ Given(p) \/ ext[p] > IF p = o THEN 1 ELSE 0
      /\ UNCHANGED scanVars
  BY DEF MoveMember, gcVars
<1>2. gc \in {"idle", "collect"}
  BY <1>1, UserOp DEF HeapInv
<1>3. state[o] = "live" /\ mark[o] = 0
  BY <1>1, <1>2, UserMark
<1>4. \A x \in Obj : ext[x] \in Nat /\ ext'[x] = IF x = o THEN ext[x] - 1 ELSE ext[x]
  BY <1>1 DEF HeapInv, TypeOK
<1>5. \A x \in Obj : /\ ext[x] > 0 => ext'[x] > 0 \/ x = o
                     /\ ext'[x] > 0 => ext[x] > 0
  BY <1>4
<1>6. /\ Given(p) \/ (ext[p] > 0 /\ ext'[p] > 0)
      /\ Fillable(p)
  <2>1. Given(p) \/ (ext[p] > 0 /\ ext'[p] > 0)
    BY <1>1, <1>4
  <2>. QED
    BY <1>2, <2>1, ReachesFill DEF Reaches
<1>9. /\ AfterOp \in Seq(Frame)
      /\ \A f : f.op # "dtor" => (f \in Elems(stack) <=> f \in Elems(AfterOp))
  BY <1>1, AfterOpFrames DEF HeapInv, SameWork
<1>7. CASE UnrefObject(o, AfterOp) /\ UNCHANGED members
  <2>1. AfterUnref(o, AfterOp) /\ UNCHANGED members
    BY <1>7 DEF UnrefObject
  <2>2. EdgeStep /\ EdgesKept(members, members', o)
    BY <2>1 DEF EdgeStep, EdgesKept
  <2>. QED
    BY <1>1, <1>3, <1>5, <1>9, <2>1, <2>2, UserUnrefC
<1>8. CASE /\ Appends(p, k) /\ members' = [members EXCEPT ![p][k] = o] /\ stack' = AfterOp
           /\ UNCHANGED <<state, listVars>>
  <2>1. /\ members' = [members EXCEPT ![p][k] = o] /\ stack' = AfterOp /\ members[p][k] = NoObj
        /\ UNCHANGED <<state, listVars, mark, ref_count_scan>>
    BY <1>1, <1>8, AppendsEmpty DEF scanVars
  <2>2. /\ EdgeStep /\ EdgesKept(members, members', NoObj) /\ members'[p][k] = o
    BY <1>1, <1>2, <1>6, <1>8, <2>1, FillEdges
  <2>3. KnownNow \subseteq KnownNow' \cup {o}
    BY <1>1, <1>5, <2>1, SameLists, UserKnown
  <2>4. LostNow'
    <3>1. PICK L : L = KnownNow'
      OBVIOUS
    <3>2. L = Known(ext', Elems(stack'), unreferred_objects', isolated_roots')
      BY <3>1 DEF KnownNow
    <3>3. p \in L
      <4>1. CASE ext'[p] > 0
        BY <3>2, <4>1 DEF Known
      <4>2. CASE Given(p)
        <5>1. PICK i \in DOMAIN stack : stack[i].op = "fin" /\ stack[i].o = p
          BY <4>2, GivenFrame
        <5>2. stack[i] \in Elems(stack')
          BY <1>9, <2>1, <5>1 DEF Elems
        <5>. QED
          BY <3>2, <5>1, <5>2 DEF Known, Anchors
      <4>. QED
        BY <1>6, <4>1, <4>2
    <3>4. From(members', L, o)
      BY <2>2, <3>3, FromSelf, FromEdge, HeapAssumption
    <3>5. \A y \in KnownNow : From(members', L, y)
      BY <2>3, <3>1, <3>4, FromSelf
    <3>6. ASSUME NEW x \in Obj, state'[x] = "live"
          PROVE  From(members', L, x)
      <4>1. From(members, KnownNow, x)
        BY <2>1, <3>6 DEF CInv, NothingLost, KnownNow
      <4>2. From(members', KnownNow, x)
        BY <2>2, <4>1 DEF From, ClosedIn, EdgesKept
      <4>. QED
        BY <3>5, <4>2, FromTrans
    <3>. QED
      BY <3>2, <3>6 DEF LostNow, NothingLost
  <2>5. \A x \in Obj : ext'[x] > 0 => ~Doomed(state, mark, x)
    BY <1>2, <1>5, UserMark
  <2>6. ListStep /\ \A x \in Obj : state'[x] = "dying" => state[x] = "dying"
    BY <2>1 DEF ListStep, listVars
  <2>. QED
    BY <1>1, <2>1, <2>2, <2>4, <2>5, <2>6, Unmarked, UserPlain
<1>. QED
  BY <1>7, <1>8 DEF MoveMember

-----------------------------------------------------------------------------
(* Finalization.                                                             *)

DyingKept ==
    \A f \in Elems(stack) : Destroys(f) => \E g \in Elems(stack') : Destroys(g) /\ g.o = f.o

LEMMA FramesStep ==
    ASSUME HeapInv, HeapInv', ListsInv', CInv, gc \in {"idle", "collect"}, gc' = gc,
           UNCHANGED <<state, members, scanVars, listVars>>,
           UserStays, WorkStep, DyingKept, KnownNow \subseteq KnownNow'
    PROVE  CInv'
<1>1. UNCHANGED <<state, mark, ref_count_scan, members, unreferred_objects, isolated_roots>>
  BY DEF scanVars, listVars
<1>2. StateStep /\ EdgeStep /\ EdgesKept(members, members', NoObj)
  BY <1>1, Unmarked, SameEdges
<1>3. ListStep
  BY <1>1 DEF ListStep
<1>4. DyingFramed(state', Elems(stack'))
  BY <1>1 DEF CInv, DyingFramed, DyingKept
<1>5. LostNow'
  BY <1>1, <1>2, KeepAll
<1>. QED
  BY <1>2, <1>3, <1>4, <1>5, HeapStepInv

LEMMA FinalizeC ==
    ASSUME HeapInv, HeapInv', ListsInv', CInv, NEW o \in Obj, Finalize(o)
    PROVE  CInv'
<1>1. PICK f : f = [op |-> "fin", o |-> o, k |-> 0, st |-> 2]
  OBVIOUS
<1>2. /\ UserCode /\ gc' = gc /\ ext[o] > 0 /\ ext' = [ext EXCEPT ![o] = @ - 1]
      /\ stack' = Append(AfterOp, f)
      /\ UNCHANGED <<state, members, scanVars, listVars>>
  BY <1>1 DEF Finalize, objVars, gcVars
<1>3. /\ gc \in {"idle", "collect"} /\ SameWork(Elems(stack), Elems(AfterOp))
      /\ stack \in Seq(Frame) /\ AfterOp \in Seq(Frame)
  BY <1>2, UserOp, AfterOpFrames DEF HeapInv, TypeOK
<1>4. f \in Frame /\ f.op = "fin" /\ f.o = o /\ f.st = 2
  BY <1>1 DEF Frame
<1>5. Elems(stack') = Elems(AfterOp) \cup {f}
  BY <1>2, <1>3, <1>4, FramesPush
<1>6. \A x \in Obj : ext[x] \in Nat /\ ext'[x] = IF x = o THEN ext[x] - 1 ELSE ext[x]
  BY <1>2 DEF HeapInv, TypeOK
<1>7. \A x \in Obj : /\ ext[x] > 0 => ext'[x] > 0 \/ x = o
                     /\ ext'[x] > 0 => ext[x] > 0
  BY <1>6
<1>8. \A x \in Obj : ext[x] > 0 => ~Doomed(state, mark, x)
  BY <1>3, UserMark
<1>9. \A g \in Elems(stack) : g.op # "dtor" => g \in Elems(stack')
  BY <1>3, <1>5 DEF SameWork
<1>10. \A g \in Elems(stack') : g.op # "dtor" => g \in Elems(stack) \/ g = f
  BY <1>3, <1>5 DEF SameWork
<1>11. UserStays
  <2>1. ASSUME NEW g \in Elems(stack'), Returns(g)
        PROVE  ~Doomed(state, mark, g.o)
    <3>1. CASE g = f
      BY <1>2, <1>4, <1>8, <3>1
    <3>2. CASE g \in Elems(stack)
      <4>1. g.o \in Obj
        BY <1>3, <3>2, FrameType
      <4>. QED
        BY <1>3, <2>1, <3>2, <4>1 DEF CInv, CutOff
    <3>. QED
      BY <1>10, <2>1, <3>1, <3>2 DEF Returns
  <2>. QED
    BY <1>7, <1>8, <2>1 DEF UserStays
<1>12. WorkStep /\ DyingKept
  BY <1>4, <1>9, <1>10 DEF WorkStep, DyingKept, Works, Destroys
<1>13. KnownNow \subseteq KnownNow'
  <2>1. \A x \in Obj : (\E g \in Elems(stack) : Anchors(g) /\ g.o = x)
                         => \E g \in Elems(stack') : Anchors(g) /\ g.o = x
    BY <1>9 DEF Anchors
  <2>2. \E g \in Elems(stack') : Anchors(g) /\ g.o = o
    BY <1>4, <1>5 DEF Anchors
  <2>. QED
    BY <1>2, <1>7, <2>1, <2>2 DEF KnownNow, Known, listVars
<1>. QED
  BY <1>2, <1>3, <1>11, <1>12, <1>13, FramesStep

(* A step of a running finalization or collection keeps what the frames      *)
(* below the top say; the top frame is replaced by t, or gone.               *)
LEMMA TopReplaced ==
    ASSUME HeapInv, CInv, NEW op \in {"collect", "fin", "dtor"}, Running(op)
    PROVE  /\ stack \in Seq(Frame) /\ Len(stack) > 0 /\ Top = stack[Len(stack)]
           /\ Top \in Frame /\ Top.o \in Obj /\ Top.op = op /\ Top.k \in Nat
           /\ Top.st \in {0, 1, 2}
           /\ gc \in {"idle", "collect"}
           /\ Top \in Elems(stack)
           /\ Returns(Top) => ~Doomed(state, mark, Top.o)
           /\ Works(Top) => Passed(Top, mark, members) /\ state[Top.o] = "live"
           /\ Destroys(Top) => state[Top.o] = "dying"
           /\ \A f \in Elems(stack) : Returns(f) => ~Doomed(state, mark, f.o)
<1>1. /\ stack \in Seq(Frame) /\ Len(stack) > 0 /\ Len(stack) \in DOMAIN stack
      /\ Top = stack[Len(stack)] /\ Top \in Frame /\ Top.op = op
      /\ Top.o \in Obj /\ Top.k \in Nat /\ Top.st \in {0, 1, 2}
      /\ gc \in {"idle", "collect"} /\ Shape(stack, state, members)
  BY TopFacts DEF HeapInv
<1>2. Top \in Elems(stack)
  BY <1>1 DEF Elems
<1>3. \A f \in Elems(stack) : Returns(f) => ~Doomed(state, mark, f.o)
  BY <1>1, FrameType DEF CInv, CutOff
<1>4. Works(Top) => Passed(Top, mark, members) /\ state[Top.o] = "live"
  <2>1. Works(Top) => Passed(Top, mark, members)
    BY <1>1, <1>2 DEF CInv, Worked
  <2>2. Works(Top) => Holds(stack[Len(stack)])
    BY <1>1 DEF Works, Holds
  <2>. QED
    BY <1>1, <2>1, <2>2, Owned DEF HeapInv
<1>5. Destroys(Top) => state[Top.o] = "dying"
  BY <1>1 DEF Shape
<1>. QED
  BY <1>1, <1>2, <1>3, <1>4, <1>5

(* The top frame goes on to the next member.                                 *)
LEMMA MoveFrames ==
    ASSUME stack \in Seq(Frame), Len(stack) > 0, Top.o \in Obj, Top.k \in 0 .. MaxMembers,
           NEW s, s = MoveTo(NextMember(Top.o, Top.k)), NEW t, t = s[Len(stack)]
    PROVE  /\ s \in Seq(Frame) /\ Edited(stack, s)
           /\ t.o = Top.o /\ t.op = Top.op /\ t.st = Top.st /\ t.k \in Nat /\ t.k > Top.k
           /\ t.k \in Slot => members[Top.o][t.k] # NoObj
           /\ t \in Elems(s)
           /\ \A f \in Elems(s) : f \in Elems(stack) \/ f = t
           /\ \A f \in Elems(stack) : f \in Elems(s) \/ f = Top
           /\ \A k \in Slot : k < t.k => k < Top.k \/ k = Top.k \/ members[Top.o][k] = NoObj
<1>1. PICK n : n = NextMember(Top.o, Top.k)
  OBVIOUS
<1>2. /\ n \in Top.k + 1 .. MaxMembers + 1 /\ n \in Nat
      /\ n \in Slot => members[Top.o][n] # NoObj
      /\ \A j \in Slot : Top.k < j /\ j < n => members[Top.o][j] = NoObj
  BY <1>1, NextMemberFacts
<1>3. s = [stack EXCEPT ![Len(stack)].k = n]
  BY <1>1 DEF MoveTo
<1>4. Edited(stack, s) /\ s[Len(stack)].k = n
  BY <1>2, <1>3, TopEdit
<1>5. /\ t.o = Top.o /\ t.op = Top.op /\ t.st = Top.st
      /\ t \in Elems(s)
      /\ \A f \in Elems(s) : f \in Elems(stack) \/ f = t
      /\ \A f \in Elems(stack) : f \in Elems(s) \/ f = Top
  BY <1>4, FramesEdit DEF Top
<1>6. t.k = n /\ n > Top.k /\ \A k \in Slot : k < Top.k \/ k = Top.k \/ Top.k < k
  BY <1>2, <1>4, HeapAssumption DEF Slot
<1>7. s \in Seq(Frame)
  BY <1>4 DEF Edited
<1>. QED
  BY <1>2, <1>4, <1>5, <1>6, <1>7

LEMMA CallDtorC ==
    ASSUME HeapInv, HeapInv', ListsInv', CInv, CallDtor
    PROVE  CInv'
<1>1. /\ Running("fin") /\ Top.k = 0 /\ gc' = gc
      /\ UNCHANGED <<state, members, ext, scanVars, listVars>>
  BY DEF CallDtor, gcVars, ownVars
<1>2. /\ stack \in Seq(Frame) /\ Len(stack) > 0 /\ Top = stack[Len(stack)] /\ Top \in Elems(stack)
      /\ Top.o \in Obj /\ Top.op = "fin" /\ gc \in {"idle", "collect"}
      /\ Returns(Top) => ~Doomed(state, mark, Top.o)
      /\ Works(Top) => Passed(Top, mark, members)
      /\ \A f \in Elems(stack) : Returns(f) => ~Doomed(state, mark, f.o)
  BY <1>1, TopReplaced
<1>. DEFINE s == MoveTo(NextMember(Top.o, Top.k))
            d == [op |-> "dtor", o |-> Top.o, k |-> MaxDtorOps, st |-> 0]
<1>3. PICK t : t = IF dtor[Top.o] THEN Top ELSE s[Len(stack)]
  OBVIOUS
<1>4. /\ t.o = Top.o /\ t.op = Top.op /\ t.st = Top.st /\ t \in Elems(stack')
      /\ \A f \in Elems(stack') : f.op # "dtor" => f \in Elems(stack) \/ f = t
      /\ \A f \in Elems(stack) : f \in Elems(stack') \/ f = Top
      /\ \A k \in Slot : k < t.k => members[Top.o][k] = NoObj
  <2>0. \A k \in Slot : ~(k < 0) /\ k # 0
    BY HeapAssumption DEF Slot
  <2>1. CASE dtor[Top.o]
    <3>1. d \in Frame /\ d.op = "dtor"
      BY <1>2, HeapAssumption DEF Frame
    <3>2. stack' = Append(stack, d)
      BY <2>1 DEF CallDtor
    <3>. HIDE DEF s, d
    <3>3. Elems(stack') = Elems(stack) \cup {d}
      BY <1>2, <3>1, <3>2, FramesPush
    <3>. QED
      BY <1>1, <1>2, <1>3, <2>0, <2>1, <3>1, <3>3
  <2>2. CASE ~dtor[Top.o]
    <3>1. stack' = s /\ t = s[Len(stack)] /\ Top.k \in 0 .. MaxMembers
      BY <1>1, <1>3, <2>2, HeapAssumption DEF CallDtor
    <3>2. /\ t.o = Top.o /\ t.op = Top.op /\ t.st = Top.st /\ t \in Elems(s)
          /\ \A f \in Elems(s) : f \in Elems(stack) \/ f = t
          /\ \A f \in Elems(stack) : f \in Elems(s) \/ f = Top
          /\ \A k \in Slot : k < t.k => k < Top.k \/ k = Top.k \/ members[Top.o][k] = NoObj
      BY <1>2, <3>1, MoveFrames
    <3>. QED
      BY <1>1, <2>0, <3>1, <3>2
  <2>. QED
    BY <2>1, <2>2
<1>9. UserStays
  <2>1. \A x \in Obj : ext'[x] > 0 => ~Doomed(state, mark, x)
    BY <1>1, <1>2, UserMark
  <2>2. \A f \in Elems(stack') : Returns(f) => ~Doomed(state, mark, f.o)
    BY <1>2, <1>4 DEF Returns
  <2>. QED
    BY <2>1, <2>2 DEF UserStays
<1>10. WorkStep
  <2>1. Works(t) => Passed(t, mark, members')
    BY <1>1, <1>2, <1>4 DEF Works, Passed
  <2>. QED
    BY <1>2, <1>4, <2>1 DEF WorkStep, Works
<1>11. DyingKept
  BY <1>2, <1>4 DEF DyingKept, Destroys
<1>12. KnownNow \subseteq KnownNow'
  <2>1. \A x \in Obj : (\E g \in Elems(stack) : Anchors(g) /\ g.o = x)
                         => \E g \in Elems(stack') : Anchors(g) /\ g.o = x
    BY <1>2, <1>4 DEF Anchors
  <2>. QED
    BY <1>1, <2>1 DEF KnownNow, Known, listVars
<1>. QED
  BY <1>1, <1>2, <1>9, <1>10, <1>11, <1>12, FramesStep

LEMMA DtorReturnsC ==
    ASSUME HeapInv, HeapInv', ListsInv', CInv, DtorReturns
    PROVE  CInv'
<1>1. /\ Running("dtor") /\ gc' = gc /\ stack' = Pop(stack)
      /\ UNCHANGED <<state, members, ext, scanVars, listVars>>
  BY DEF DtorReturns, gcVars, ownVars, objVars
<1>2. /\ stack \in Seq(Frame) /\ Len(stack) > 0 /\ Top = stack[Len(stack)]
      /\ Top.op = "dtor" /\ gc \in {"idle", "collect"}
      /\ \A f \in Elems(stack) : Returns(f) => ~Doomed(state, mark, f.o)
  BY <1>1, TopReplaced
<1>3. Elems(stack) = Elems(stack') \cup {Top}
  BY <1>1, <1>2, FramesPop
<1>4. UserStays
  BY <1>1, <1>2, <1>3, UserMark DEF UserStays
<1>5. WorkStep /\ DyingKept
  BY <1>2, <1>3 DEF WorkStep, DyingKept, Works, Destroys
<1>6. KnownNow \subseteq KnownNow'
  BY <1>1, <1>2, <1>3 DEF KnownNow, Known, listVars, Anchors
<1>. QED
  BY <1>1, <1>2, <1>4, <1>5, <1>6, FramesStep

LEMMA FinalizedC ==
    ASSUME HeapInv, HeapInv', ListsInv', CInv, Finalized
    PROVE  CInv'
<1>1. /\ Running("fin") /\ Top.st = 2 /\ gc' = gc /\ stack' = Pop(stack)
      /\ ext' = [ext EXCEPT ![Top.o] = @ + 1]
      /\ UNCHANGED <<state, members, scanVars, listVars>>
  BY DEF Finalized, gcVars, objVars
<1>2. /\ stack \in Seq(Frame) /\ Len(stack) > 0 /\ Top = stack[Len(stack)]
      /\ Top.op = "fin" /\ Top.o \in Obj /\ gc \in {"idle", "collect"}
      /\ Top \in Elems(stack)
      /\ \A f \in Elems(stack) : Returns(f) => ~Doomed(state, mark, f.o)
  BY <1>1, TopReplaced
<1>3. Elems(stack) = Elems(stack') \cup {Top}
  BY <1>1, <1>2, FramesPop
<1>4. PICK o \in Obj : o = Top.o
  BY <1>2
<1>5. \A x \in Obj : ext[x] \in Nat /\ ext'[x] = IF x = o THEN ext[x] + 1 ELSE ext[x]
  BY <1>1, <1>4 DEF HeapInv, TypeOK
<1>6. ext'[o] > 0 /\ \A x \in Obj : /\ ext[x] > 0 => ext'[x] > 0
                                    /\ ext'[x] > 0 => ext[x] > 0 \/ x = o
  BY <1>5
<1>7. UserStays
  <2>1. ~Doomed(state, mark, o)
    BY <1>1, <1>2, <1>4 DEF Returns
  <2>. QED
    BY <1>2, <1>3, <1>6, <2>1, UserMark DEF UserStays
<1>8. WorkStep /\ DyingKept
  BY <1>1, <1>2, <1>3 DEF WorkStep, DyingKept, Works, Destroys
<1>9. KnownNow \subseteq KnownNow'
  BY <1>1, <1>3, <1>4, <1>6 DEF KnownNow, Known, listVars
<1>. QED
  BY <1>1, <1>2, <1>7, <1>8, <1>9, FramesStep

LEMMA CollectPostC ==
    ASSUME HeapInv, HeapInv', ListsInv', CInv, CollectPost
    PROVE  CInv'
<1>0. PICK f : f = [op |-> "fin", o |-> Top.o, k |-> 0, st |-> 1]
  OBVIOUS
<1>1. /\ Running("collect") /\ Top.k > MaxMembers /\ gc' = gc
      /\ stack' = Append(Pop(stack), f)
      /\ UNCHANGED <<state, members, ext, scanVars, listVars>>
  BY <1>0 DEF CollectPost, gcVars, ownVars, objVars
<1>2. /\ stack \in Seq(Frame) /\ Len(stack) > 0 /\ Top = stack[Len(stack)]
      /\ Top.op = "collect" /\ Top.o \in Obj /\ Top.k \in Nat /\ gc \in {"idle", "collect"}
      /\ Top \in Elems(stack)
      /\ Works(Top) => Passed(Top, mark, members)
      /\ \A g \in Elems(stack) : Returns(g) => ~Doomed(state, mark, g.o)
  BY <1>1, TopReplaced
<1>3. f \in Frame /\ f.op = "fin" /\ f.o = Top.o /\ f.st = 1 /\ f.k = 0
  BY <1>0, <1>2 DEF Frame
<1>4. Elems(stack) = Elems(Pop(stack)) \cup {Top} /\ Elems(stack') = Elems(Pop(stack)) \cup {f}
  BY <1>1, <1>2, <1>3, FramesPop, FramesPush, PopPush
<1>5. UserStays
  BY <1>1, <1>2, <1>3, <1>4, UserMark DEF UserStays, Returns
<1>6. WorkStep
  <2>1. Passed(f, mark, members')
    <3>1. \A k \in Slot : ~(k < 0) /\ k < Top.k
      BY <1>1, <1>2, HeapAssumption DEF Slot
    <3>. QED
      BY <1>1, <1>2, <1>3, <3>1 DEF Works, Passed
  <2>. QED
    BY <1>3, <1>4, <2>1 DEF WorkStep, Works
<1>7. DyingKept
  BY <1>2, <1>4 DEF DyingKept, Destroys
<1>8. KnownNow \subseteq KnownNow'
  BY <1>1, <1>2, <1>3, <1>4 DEF KnownNow, Known, listVars, Anchors
<1>. QED
  BY <1>1, <1>2, <1>5, <1>6, <1>7, <1>8, FramesStep

LEMMA DestroyedC ==
    ASSUME HeapInv, HeapInv', ListsInv', CInv, Destroyed
    PROVE  CInv'
<1>1. /\ Running("fin") /\ Top.st = 0 /\ gc' = gc /\ stack' = Pop(stack)
      /\ DecrementWeak(Top.o, "zombie")
      /\ UNCHANGED <<ext, members, unreferred_objects, isolated_roots>>
  BY DEF Destroyed, gcVars, ownVars, listVars
<1>2. /\ stack \in Seq(Frame) /\ Len(stack) > 0 /\ Top = stack[Len(stack)]
      /\ Top.op = "fin" /\ Top.o \in Obj /\ gc \in {"idle", "collect"}
      /\ Top \in Elems(stack)
      /\ Destroys(Top) => state[Top.o] = "dying"
      /\ \A f \in Elems(stack) : Returns(f) => ~Doomed(state, mark, f.o)
  BY <1>1, TopReplaced
<1>3. Elems(stack) = Elems(stack') \cup {Top}
  BY <1>1, <1>2, FramesPop
<1>4. PICK o \in Obj : o = Top.o
  BY <1>2
<1>5. /\ \A x \in Obj : x # o => /\ state'[x] = state[x] /\ mark'[x] = mark[x]
                                 /\ ref_count_scan'[x] = ref_count_scan[x]
      /\ \/ state'[o] = "free" /\ mark'[o] = 0 /\ ref_count_scan'[o] = 0
         \/ /\ state'[o] = "zombie" /\ mark'[o] = mark[o]
            /\ ref_count_scan'[o] = ref_count_scan[o]
      /\ state[o] = "dying"
  BY <1>1, <1>2, <1>4 DEF DecrementWeak, HeapInv, TypeOK, Destroys
<1>6. StateStep
  BY <1>5 DEF StateStep
<1>7. EdgeStep /\ ListStep
  BY <1>1 DEF EdgeStep, ListStep
<1>8. UserStays
  BY <1>1, <1>2, <1>3, UserMark DEF UserStays
<1>9. WorkStep
  BY <1>1, <1>2, <1>3 DEF WorkStep, Works
<1>10. DyingFramed(state', Elems(stack'))
  <2>1. ASSUME NEW x \in Obj, state'[x] = "dying"
        PROVE  \E f \in Elems(stack') : Destroys(f) /\ f.o = x
    <3>1. x # o /\ state[x] = "dying"
      BY <1>5, <2>1
    <3>2. PICK f \in Elems(stack) : Destroys(f) /\ f.o = x
      BY <3>1 DEF CInv, DyingFramed
    <3>. QED
      BY <1>3, <1>4, <3>1, <3>2
  <2>. QED
    BY <2>1 DEF DyingFramed
<1>11. LossStep(o)
  <2>1. KnownNow \subseteq KnownNow' \cup {o}
    BY <1>1, <1>3, <1>4 DEF KnownNow, Known
  <2>2. Bare(members', o)
    BY <1>5 DEF HeapInv, DestroyedHoldsNothing, Bare
  <2>3. EdgesKept(members, members', o)
    BY <1>1 DEF EdgesKept
  <2>. QED
    BY <1>1, <2>1, <2>2, <2>3 DEF LossStep
<1>12. LostNow'
  <2>1. \A x \in Obj : state'[x] = "live" => state[x] = "live" \/ ext'[x] > 0
    BY <1>5
  <2>. QED
    BY <1>10, <1>11, <2>1, LossStepInv
<1>. QED
  BY <1>1, <1>2, <1>6, <1>7, <1>8, <1>9, <1>10, <1>12, HeapStepInv

LEMMA CollectedC ==
    ASSUME HeapInv, ListsInv, HeapInv', ListsInv', CInv, Collected
    PROVE  CInv'
<1>1. /\ Running("fin") /\ Top.k > MaxMembers /\ Top.st = 1 /\ gc' = gc
      /\ AfterUnref(Top.o, Pop(stack)) /\ UNCHANGED <<members, scanVars, ext>>
  BY DEF Collected, UnrefObject, gcVars
<1>2. /\ stack \in Seq(Frame) /\ Len(stack) > 0 /\ Top = stack[Len(stack)]
      /\ Top.op = "fin" /\ Top.o \in Obj /\ Top.k \in Nat /\ gc \in {"idle", "collect"}
      /\ Works(Top) => Passed(Top, mark, members) /\ state[Top.o] = "live"
      /\ \A f \in Elems(stack) : Returns(f) => ~Doomed(state, mark, f.o)
  BY <1>1, TopReplaced
<1>3. PICK s \in Seq(Frame) : s = Pop(stack)
  BY <1>2, PopPush
<1>4. Elems(stack) = Elems(s) \cup {Top}
  BY <1>2, <1>3, FramesPop
<1>5. PICK o \in Obj : o = Top.o
  BY <1>2
<1>6. mark[o] = 3 /\ state[o] = "live" /\ Bare(members, o)
  <2>1. \A k \in Slot : k < Top.k
    BY <1>1, <1>2, HeapAssumption DEF Slot
  <2>. QED
    BY <1>1, <1>2, <1>5, <2>1 DEF Works, Passed, Bare
<1>7. Bare(members', o) /\ EdgeStep /\ EdgesKept(members, members', o)
  BY <1>1, <1>6 DEF Bare, EdgeStep, EdgesKept
<1>8. /\ \A f \in Elems(s) : Returns(f) => ~Doomed(state, mark, f.o)
      /\ \A f \in Elems(s) : Works(f) => f \in Elems(stack) \/ Passed(f, mark, members')
      /\ \A f \in Elems(stack) : Works(f) =>
           (\E g \in Elems(s) : Works(g) /\ g.o = f.o) \/ Bare(members', f.o)
      /\ \A f \in Elems(stack) : Destroys(f) => \E g \in Elems(s) : Destroys(g) /\ g.o = f.o
      /\ \A f \in Elems(stack) : Anchors(f) =>
           f.o = o \/ \E g \in Elems(s) : Anchors(g) /\ g.o = f.o
  BY <1>1, <1>2, <1>4, <1>5, <1>7 DEF Destroys
<1>. QED
  BY <1>1, <1>2, <1>3, <1>5, <1>6, <1>7, <1>8, FinUnrefC

LEMMA FreeMemberC ==
    ASSUME HeapInv, ListsInv, HeapInv', ListsInv', CInv, FreeMember
    PROVE  CInv'
<1>1. /\ Running("fin") /\ Top.k \in Slot /\ Member # NoObj /\ gc' = gc /\ UNCHANGED <<scanVars, ext>>
  BY DEF FreeMember, gcVars, ownVars
<1>2. /\ stack \in Seq(Frame) /\ Len(stack) > 0 /\ Top = stack[Len(stack)]
      /\ Top.o \in Obj /\ Top.op = "fin" /\ Top.k \in Nat /\ gc \in {"idle", "collect"}
      /\ Top \in Elems(stack) /\ Len(stack) \in DOMAIN stack
      /\ Returns(Top) => ~Doomed(state, mark, Top.o)
      /\ Works(Top) => Passed(Top, mark, members)
      /\ \A f \in Elems(stack) : Returns(f) => ~Doomed(state, mark, f.o)
  BY <1>1, TopReplaced
<1>3. PICK s, t : s = MoveTo(NextMember(Top.o, Top.k)) /\ t = s[Len(stack)]
  OBVIOUS
<1>5. /\ s \in Seq(Frame) /\ t.o = Top.o /\ t.op = Top.op /\ t.st = Top.st
      /\ t \in Elems(s)
      /\ \A f \in Elems(s) : f \in Elems(stack) \/ f = t
      /\ \A f \in Elems(stack) : f \in Elems(s) \/ f = Top
      /\ \A k \in Slot : k < t.k => k < Top.k \/ k = Top.k \/ members[Top.o][k] = NoObj
  <2>1. Top.k \in 0 .. MaxMembers
    BY <1>1, HeapAssumption DEF Slot
  <2>. QED
    BY <1>2, <1>3, <2>1, MoveFrames
<1>7. \A f \in Elems(s) : Returns(f) => ~Doomed(state, mark, f.o)
  BY <1>2, <1>5 DEF Returns
<1>21. PICK o \in Obj : o = Member /\ state[o] = "live" /\ mark[o] \in {0, 3}
  BY <1>1, <1>2, FreedMark DEF Member
<1>22. /\ members' = [members EXCEPT ![Top.o][Top.k] = NoObj]
       /\ AfterUnref(o, s)
  BY <1>3, <1>21 DEF FreeMember, UnrefObject
<1>23. PICK p \in Obj, j \in Slot : p = Top.o /\ j = Top.k
  BY <1>1, <1>2
<1>24. /\ members'[p][j] = NoObj
       /\ \A q \in Obj, k \in Slot : q # p \/ k # j => members'[q][k] = members[q][k]
  <2>1. members \in [Obj -> [Slot -> Obj \cup {NoObj}]]
    BY DEF HeapInv, TypeOK
  <2>2. members' = [members EXCEPT ![p][j] = NoObj]
    BY <1>22, <1>23
  <2>. QED
    BY <2>1, <2>2
<1>25. EdgeStep /\ EdgesKept(members, members', o)
  BY <1>21, <1>23, <1>24 DEF EdgeStep, EdgesKept, Member
<1>26. Works(t) => Passed(t, mark, members')
  <2>1. \A k \in Slot : members'[p][k] = members[p][k] \/ members'[p][k] = NoObj
    BY <1>24
  <2>2. Works(t) => Passed(Top, mark, members) /\ t.op = "fin" /\ Top.op = "fin"
    BY <1>2, <1>5 DEF Works
  <2>. QED
    BY <1>5, <1>23, <1>24, <2>1, <2>2 DEF Passed
<1>27. /\ \A f \in Elems(s) : Works(f) => f \in Elems(stack) \/ Passed(f, mark, members')
       /\ \A f \in Elems(stack) : Works(f) =>
            (\E g \in Elems(s) : Works(g) /\ g.o = f.o) \/ Bare(members', f.o)
  BY <1>5, <1>26 DEF Works
<1>28. \A f \in Elems(stack) : Destroys(f) => \E g \in Elems(s) : Destroys(g) /\ g.o = f.o
  BY <1>5 DEF Destroys
<1>29. \A f \in Elems(stack) : Anchors(f) =>
          f.o = o \/ \E g \in Elems(s) : Anchors(g) /\ g.o = f.o
  BY <1>5 DEF Anchors
<1>30. mark[o] = 3 => \/ \E f \in Elems(s) : Works(f) /\ f.o = o
                      \/ Bare(members, o) /\ Bare(members', o)
  <2>1. Bare(members, o) => Bare(members', o)
    BY <1>24 DEF Bare
  <2>2. ASSUME NEW f \in Elems(stack), Works(f), f.o = o
        PROVE  \E g \in Elems(s) : Works(g) /\ g.o = o
    BY <1>5, <2>2 DEF Works
  <2>. QED
    BY <1>2, <2>1, <2>2 DEF CInv, Worked
<1>. QED
  BY <1>1, <1>2, <1>5, <1>7, <1>21, <1>22, <1>25, <1>27, <1>28, <1>29, <1>30, FinUnrefC

-----------------------------------------------------------------------------
(* Collecting.                                                               *)

LEMMA CollectStep ==
    ASSUME HeapInv, HeapInv', CInv, gc \in {"idle", "collect"}, gc' = gc,
           UNCHANGED <<state, members, ext, ref_count_scan, listVars>>,
           \A x \in Obj : \/ mark'[x] = mark[x]
                          \/ /\ mark[x] = 2 /\ mark'[x] = 3
                             /\ \E f \in Elems(stack') : Works(f) /\ f.o = x,
           \A f \in Elems(stack') : Returns(f) => f \in Elems(stack),
           \A f \in Elems(stack') : Works(f) => f \in Elems(stack) \/ Passed(f, mark', members),
           \A f \in Elems(stack) : Works(f) => \E g \in Elems(stack') : Works(g) /\ g.o = f.o,
           DyingKept, KnownNow \subseteq KnownNow'
    PROVE  CInv'
<1>0. stack \in Seq(Frame) /\ stack' \in Seq(Frame)
  BY DEF HeapInv, TypeOK
<1>1. LostNow'
  BY KeepAll, SameEdges
<1>2. DyingFramed(state', Elems(stack'))
  BY DEF CInv, DyingFramed, DyingKept
<1>3. Marks(gc', state', mark', ref_count_scan', unreferred_objects', isolated_roots')
  <2>1. Marks(gc, state, mark, ref_count_scan, unreferred_objects, isolated_roots)
    BY DEF CInv
  <2>2. UNCHANGED <<unreferred_objects, isolated_roots>>
    BY DEF listVars
  <2>3. \A x \in Obj : /\ mark'[x] = 0 => ref_count_scan'[x] = 0
                       /\ state'[x] = "free" => mark'[x] = 0
                       /\ mark'[x] \in {1, 2} => state'[x] = "live"
                       /\ mark'[x] # 1
                       /\ gc = "idle" /\ state'[x] = "live" => mark'[x] \in {0, 1}
                       /\ InList(unreferred_objects', x) => mark'[x] = 0
                       /\ InList(isolated_roots', x) => gc # "idle"
    BY <2>1, <2>2 DEF Marks
  <2>. QED
    BY <2>3 DEF Marks
<1>4. CutOff(state', mark', members', ext', Elems(stack'))
  <2>1. SUFFICES ASSUME NEW x \in Obj, Doomed(state', mark', x)
                 PROVE  /\ ext'[x] = 0
                        /\ \A f \in Elems(stack') : Returns(f) => f.o # x
                        /\ \A p \in Obj, k \in Slot : members'[p][k] = x => mark'[p] \in {2, 3}
    BY DEF CutOff
  <2>2. Doomed(state, mark, x)
    BY <2>1 DEF Doomed
  <2>3. /\ ext[x] = 0
        /\ \A f \in Elems(stack) : Returns(f) => f.o # x
        /\ \A p \in Obj, k \in Slot : members[p][k] = x => mark[p] \in {2, 3}
    BY <2>2 DEF CInv, CutOff
  <2>. QED
    BY <2>3
<1>5. Worked(mark', members', Elems(stack'))
  <2>1. ASSUME NEW f \in Elems(stack'), Works(f)
        PROVE  Passed(f, mark', members')
    <3>1. CASE f \in Elems(stack)
      <4>1. Passed(f, mark, members) /\ f.o \in Obj
        BY <1>0, <2>1, <3>1, FrameType DEF CInv, Worked
      <4>2. \A k \in Slot : members[f.o][k] \in Obj \cup {NoObj}
        BY <4>1 DEF HeapInv, TypeOK
      <4>. QED
        BY <4>1, <4>2 DEF Passed
    <3>2. CASE f \notin Elems(stack)
      BY <2>1, <3>2
    <3>. QED
      BY <3>1, <3>2
  <2>2. ASSUME NEW x \in Obj, mark'[x] = 3
        PROVE  (\E f \in Elems(stack') : Works(f) /\ f.o = x) \/ Bare(members', x)
    <3>1. CASE mark[x] = 3
      <4>1. (\E f \in Elems(stack) : Works(f) /\ f.o = x) \/ Bare(members, x)
        BY <3>1 DEF CInv, Worked
      <4>. QED
        BY <4>1
    <3>2. CASE mark[x] # 3
      BY <2>2, <3>2
    <3>. QED
      BY <3>1, <3>2
  <2>. QED
    BY <2>1, <2>2 DEF Worked
<1>. QED
  BY <1>1, <1>2, <1>3, <1>4, <1>5 DEF CInv, LostNow

(* G is the stack with the top frame, if it collects, moved on.              *)
LEMMA CollectVisitC ==
    ASSUME HeapInv, HeapInv', CInv, gc \in {"idle", "collect"}, gc' = gc,
           UNCHANGED <<state, members, ext, ref_count_scan, listVars>>,
           NEW o \in Obj, NEW s \in Seq(Frame), CollectVisit(o, s),
           \A f \in Elems(s) : \/ f \in Elems(stack)
                               \/ f.op = "collect" /\ (mark'[o] # 2 => Passed(f, mark', members)),
           \A f \in Elems(stack) : \/ f \in Elems(s)
                                   \/ /\ f.op = "collect"
                                      /\ \E g \in Elems(s) : g.op = "collect" /\ g.o = f.o
    PROVE  CInv'
<1>1. PICK h : h = [op |-> "collect", o |-> o, k |-> NextMember(o, 0), st |-> 0]
  OBVIOUS
<1>2. h \in Frame /\ h.op = "collect" /\ h.o = o /\ h.k = NextMember(o, 0) /\ h.k \in Nat
  BY <1>1, NextMemberFacts, HeapAssumption DEF Frame
<1>3. mark \in [Obj -> 0 .. 3] /\ mark[o] # 1
  BY DEF HeapInv, TypeOK, CInv, Marks
<1>4. \/ mark[o] \in {0, 3} /\ mark' = mark /\ stack' = s
      \/ mark[o] = 2 /\ mark' = [mark EXCEPT ![o] = 3] /\ stack' = Append(s, h)
  BY <1>1, <1>3 DEF CollectVisit
<1>5. mark'[o] \in {0, 3} /\ \A x \in Obj : x # o => mark'[x] = mark[x]
  BY <1>3, <1>4
<1>6. /\ \A f \in Elems(stack') : f \in Elems(s) \/ (f = h /\ mark[o] = 2)
      /\ Elems(s) \subseteq Elems(stack')
      /\ mark[o] = 2 => h \in Elems(stack') /\ mark'[o] = 3
      /\ mark[o] # 2 => mark'[o] = mark[o]
  <2>1. CASE mark[o] \in {0, 3}
    BY <1>4, <2>1
  <2>2. CASE mark[o] = 2
    <3>1. mark' = [mark EXCEPT ![o] = 3] /\ stack' = Append(s, h)
      BY <1>4, <2>2
    <3>2. Elems(stack') = Elems(s) \cup {h}
      BY <1>2, <3>1, FramesPush
    <3>. QED
      BY <1>3, <2>2, <3>1, <3>2
  <2>. QED
    BY <1>4, <2>1, <2>2
<1>7. \A x \in Obj : \/ mark'[x] = mark[x]
                     \/ /\ mark[x] = 2 /\ mark'[x] = 3
                        /\ \E f \in Elems(stack') : Works(f) /\ f.o = x
  BY <1>2, <1>5, <1>6 DEF Works
<1>8. \A f \in Elems(stack') : Returns(f) => f \in Elems(stack)
  BY <1>2, <1>6 DEF Returns
<1>9. mark[o] = 2 => Passed(h, mark', members)
  <2>1. \A k \in Slot : k < NextMember(o, 0) => members[o][k] = NoObj
    BY NextMemberFacts, HeapAssumption DEF Slot
  <2>. QED
    BY <1>2, <1>6, <2>1 DEF Passed
<1>10. \A f \in Elems(stack') : Works(f) => f \in Elems(stack) \/ Passed(f, mark', members)
  BY <1>5, <1>6, <1>9
<1>11. \A f \in Elems(stack) : Works(f) => \E g \in Elems(stack') : Works(g) /\ g.o = f.o
  BY <1>6 DEF Works
<1>12. DyingKept
  BY <1>6 DEF DyingKept, Destroys
<1>13. KnownNow \subseteq KnownNow'
  <2>1. \A x \in Obj : (\E g \in Elems(stack) : Anchors(g) /\ g.o = x)
                         => \E g \in Elems(stack') : Anchors(g) /\ g.o = x
    BY <1>6 DEF Anchors
  <2>. QED
    BY <2>1 DEF KnownNow, Known, listVars
<1>. QED
  BY <1>7, <1>8, <1>10, <1>11, <1>12, <1>13, CollectStep

LEMMA CollectRootC ==
    ASSUME HeapInv, HeapInv', CInv, CollectRoot
    PROVE  CInv'
<1>1. PICK o : o = Head(isolated_roots)
  OBVIOUS
<1>2. /\ gc = "collect" /\ gc' = gc /\ CollectVisit(o, stack) /\ isolated_roots # <<>>
      /\ UNCHANGED <<state, members, ext, ref_count_scan, listVars>>
  BY <1>1 DEF CollectRoot, gcVars
<1>3. o \in Obj /\ stack \in Seq(Frame)
  BY <1>1, <1>2 DEF HeapInv, TypeOK
<1>. QED
  BY <1>2, <1>3, CollectVisitC

LEMMA CollectMemberC ==
    ASSUME HeapInv, HeapInv', CInv, CollectMember
    PROVE  CInv'
<1>1. /\ Running("collect") /\ Top.k \in Slot /\ Member # NoObj /\ gc' = gc
      /\ UNCHANGED <<state, members, ext, ref_count_scan, listVars>>
  BY DEF CollectMember, gcVars
<1>2. /\ stack \in Seq(Frame) /\ Len(stack) > 0 /\ Top = stack[Len(stack)]
      /\ Top.o \in Obj /\ Top.op = "collect" /\ Top.k \in Nat /\ gc \in {"idle", "collect"}
      /\ Top \in Elems(stack)
      /\ Works(Top) => Passed(Top, mark, members)
  BY <1>1, TopReplaced
<1>3. PICK s, t : s = MoveTo(NextMember(Top.o, Top.k)) /\ t = s[Len(stack)]
  OBVIOUS
<1>5. /\ s \in Seq(Frame) /\ t.o = Top.o /\ t.op = Top.op /\ t.st = Top.st
      /\ t \in Elems(s)
      /\ \A f \in Elems(s) : f \in Elems(stack) \/ f = t
      /\ \A f \in Elems(stack) : f \in Elems(s) \/ f = Top
      /\ \A k \in Slot : k < t.k => k < Top.k \/ k = Top.k \/ members[Top.o][k] = NoObj
  <2>1. Top.k \in 0 .. MaxMembers
    BY <1>1, HeapAssumption DEF Slot
  <2>. QED
    BY <1>2, <1>3, <2>1, MoveFrames
<1>7. ASSUME \A x \in Obj : mark'[x] = mark[x] \/ (mark[x] = 2 /\ mark'[x] = 3),
             mark'[Member] # 2
      PROVE  Passed(t, mark', members)
  <2>1. Passed(Top, mark, members)
    BY <1>2 DEF Works
  <2>2. \A k \in Slot : members[Top.o][k] \in Obj \cup {NoObj}
    BY <1>2 DEF HeapInv, TypeOK
  <2>3. mark'[Top.o] = 3
    BY <1>2, <1>7, <2>1 DEF Passed
  <2>4. \A k \in Slot : k < t.k =>
           members[Top.o][k] = NoObj \/ mark'[members[Top.o][k]] # 2
    BY <1>5, <1>7, <2>1, <2>2 DEF Passed, Member
  <2>. QED
    BY <1>2, <1>5, <2>3, <2>4 DEF Passed
<1>20. Member \in Obj
  BY <1>1, <1>2 DEF Member, HeapInv, TypeOK
<1>21. PICK o \in Obj : o = Member
  BY <1>20
<1>22. CollectVisit(o, s)
  BY <1>3, <1>21 DEF CollectMember
<1>23. \A x \in Obj : mark'[x] = mark[x] \/ (mark[x] = 2 /\ mark'[x] = 3)
  <2>1. mark \in [Obj -> 0 .. 3] /\ mark[o] # 1
    BY <1>2 DEF HeapInv, TypeOK, CInv, Marks
  <2>2. mark' = mark \/ (mark[o] = 2 /\ mark' = [mark EXCEPT ![o] = 3])
    BY <1>22, <2>1 DEF CollectVisit
  <2>. QED
    BY <2>1, <2>2
<1>24. mark'[o] # 2 => Passed(t, mark', members)
  BY <1>7, <1>21, <1>23
<1>25. /\ \A f \in Elems(s) : \/ f \in Elems(stack)
                              \/ f.op = "collect" /\ (mark'[o] # 2 => Passed(f, mark', members))
       /\ \A f \in Elems(stack) : \/ f \in Elems(s)
                                  \/ /\ f.op = "collect"
                                     /\ \E g \in Elems(s) : g.op = "collect" /\ g.o = f.o
  BY <1>2, <1>5, <1>24
<1>. QED
  BY <1>1, <1>2, <1>5, <1>22, <1>25, CollectVisitC

-----------------------------------------------------------------------------
(* The phases.                                                               *)

(* When nothing runs and no root is left, nothing scheduled is left either.  *)
LEMMA NothingDoomed ==
    ASSUME HeapInv, CInv, gc \in {"idle", "collect"}, stack = <<>>, isolated_roots = <<>>,
           NEW x \in Obj, state[x] = "live"
    PROVE  mark[x] = 0
<1>1. \A y \in Obj : mark[y] # 1 /\ mark[y] \in 0 .. 3
  BY DEF HeapInv, TypeOK, CInv, Marks
<1>. DEFINE T == {y \in Obj : mark[y] \notin {2, 3}}
<1>2. ClosedIn(members, T)
  <2>1. SUFFICES ASSUME NEW p \in T, NEW k \in Slot, members[p][k] # NoObj,
                        members[p][k] \notin T
                 PROVE  FALSE
    BY DEF ClosedIn
  <2>2. p \in Obj /\ members[p][k] \in Obj
    BY <2>1 DEF HeapInv, TypeOK
  <2>3. PICK o \in Obj : o = members[p][k]
    BY <2>2
  <2>4. state[o] = "live"
    BY <2>2, <2>3, Owned DEF HeapInv
  <2>5. Doomed(state, mark, o)
    BY <2>1, <2>3, <2>4 DEF Doomed
  <2>. QED
    BY <2>1, <2>2, <2>3, <2>5 DEF CInv, CutOff
<1>3. KnownNow \subseteq T
  <2>1. \A y \in Obj : ext[y] > 0 => mark[y] = 0
    BY UserMark
  <2>2. \A y \in Obj : InList(unreferred_objects, y) => mark[y] = 0
    BY DEF CInv, Marks
  <2>3. \A y : ~InList(isolated_roots, y)
    BY DEF InList
  <2>4. Elems(stack) = {}
    BY DEF Elems
  <2>. QED
    BY <2>1, <2>2, <2>3, <2>4 DEF KnownNow, Known
<1>4. From(members, KnownNow, x)
  BY DEF CInv, NothingLost, KnownNow
<1>5. x \in T
  <2>1. T \in SUBSET Obj
    OBVIOUS
  <2>. HIDE DEF T
  <2>. QED
    BY <1>2, <1>3, <1>4, <2>1, FromClosed
<1>. QED
  BY <1>1, <1>5

LEMMA MarkBegins ==
    ASSUME NEW mk, NEW m, NEW s, NEW n, NEW r, s = <<>>,
           \A x \in Obj : mk[x] # 1 /\ ~InList(r, x)
    PROVE  MarkStage(mk, m, s, n, r)
<1>1. MarkFrames(mk, m, s)
  BY DEF MarkFrames
<1>2. MarksPassOn(mk, m, s) /\ MarksCounted(mk, m, s, n)
  BY DEF MarksPassOn, MarksCounted, Looked
<1>3. MarkedRoots(mk, m, s, r)
  BY DEF MarkedRoots, Roots, First
<1>. QED
  BY <1>1, <1>2, <1>3 DEF MarkStage

LEMMA StartCollectC ==
    ASSUME HeapInv, CInv, StartCollect
    PROVE  CInv'
<1>1. /\ gc = "idle" /\ gc' = "mark" /\ stack = <<>>
      /\ UNCHANGED <<state, members, mark, ref_count_scan, unreferred_objects,
                     isolated_roots, ext, stack>>
  BY DEF StartCollect, objVars, scanVars, listVars, ownVars
<1>2. \A x \in Obj : mark[x] # 1 /\ ~InList(isolated_roots, x)
  BY <1>1 DEF CInv, Marks
<1>3. MarkStage(mark', members', stack', ref_count_scan', isolated_roots')
  BY <1>1, <1>2, MarkBegins
<1>4. Marks(gc', state', mark', ref_count_scan', unreferred_objects', isolated_roots')
  BY <1>1 DEF CInv, Marks
<1>. QED
  BY <1>1, <1>3, <1>4 DEF CInv

LEMMA EndCollectC ==
    ASSUME HeapInv, CInv, EndCollect
    PROVE  CInv'
<1>1. /\ gc = "collect" /\ stack = <<>> /\ isolated_roots = <<>> /\ gc' \in {"idle", "mark"}
      /\ UNCHANGED <<state, members, mark, ref_count_scan, unreferred_objects,
                     isolated_roots, ext, stack>>
  BY DEF EndCollect, objVars, scanVars, listVars, ownVars
<1>2. \A x \in Obj : mark[x] # 1 /\ ~InList(isolated_roots, x)
  BY <1>1 DEF CInv, Marks, InList
<1>3. MarkStage(mark', members', stack', ref_count_scan', isolated_roots')
  BY <1>1, <1>2, MarkBegins
<1>4. Marks(gc', state', mark', ref_count_scan', unreferred_objects', isolated_roots')
  <2>1. \A x \in Obj : state[x] = "live" => mark[x] = 0
    BY <1>1, NothingDoomed
  <2>. QED
    BY <1>1, <1>2, <2>1 DEF CInv, Marks
<1>. QED
  BY <1>1, <1>3, <1>4 DEF CInv

-----------------------------------------------------------------------------
(* Marking.                                                                  *)

(* The slots still to be looked at when the top frame goes on to its next    *)
(* slot, when a frame is pushed and when the top frame goes.                 *)
NextFrames(s, t, q, j) ==
    /\ t \in Seq(Frame) /\ Len(t) = Len(s) /\ DOMAIN t = DOMAIN s
    /\ \A i \in DOMAIN s : t[i].o = s[i].o /\ t[i].st = s[i].st /\ t[i].op = s[i].op
    /\ \A x : First(t, x) <=> First(s, x)
    /\ \A p : \A k \in Nat :
         /\ Pending(t, p, k) => Pending(s, p, k)
         /\ Pending(s, p, k) => Pending(t, p, k) \/ (p = q /\ k = j)
         /\ Reviving(t, p, k) => Reviving(s, p, k)
         /\ Reviving(s, p, k) => Reviving(t, p, k) \/ (p = q /\ k = j /\ s[Len(s)].st = 1)

PushFrames(s, t, f) ==
    /\ t \in Seq(Frame) /\ Len(t) = Len(s) + 1 /\ DOMAIN t = 1 .. Len(s) + 1
    /\ \A i \in DOMAIN s : t[i] = s[i]
    /\ t[Len(s) + 1] = f
    /\ s # <<>> => \A x : First(t, x) <=> First(s, x)
    /\ \A p : \A k \in Slot :
         /\ Pending(t, p, k) <=> Pending(s, p, k) \/ p = f.o
         /\ Reviving(t, p, k) <=> Reviving(s, p, k) \/ (p = f.o /\ f.st = 1)

SameSlots(s, t) ==
    \A p : \A k \in Slot : /\ Pending(t, p, k) <=> Pending(s, p, k)
                           /\ Reviving(t, p, k) <=> Reviving(s, p, k)

PopFrames(s, t) ==
    /\ t \in Seq(Frame) /\ DOMAIN t \subseteq DOMAIN s
    /\ \A i \in DOMAIN t : t[i] = s[i]
    /\ Len(s) = 1 => t = <<>>
    /\ Len(s) # 1 => \A x : First(t, x) <=> First(s, x)
    /\ SameSlots(s, t)

LEMMA PendingNext ==
    ASSUME NEW s \in Seq(Frame), Len(s) > 0, NEW t, t = NextSlot(s),
           NEW q, NEW j, q = s[Len(s)].o, j = s[Len(s)].k
    PROVE  NextFrames(s, t, q, j)
<1>1. /\ Edited(s, t) /\ t \in Seq(Frame) /\ t[Len(s)].k = j + 1
      /\ Len(s) \in DOMAIN s
  BY NextSlotStep
<1>2. /\ Len(t) = Len(s) /\ DOMAIN t = DOMAIN s
      /\ \A i \in DOMAIN s : t[i].o = s[i].o /\ t[i].st = s[i].st /\ t[i].op = s[i].op
      /\ \A i \in DOMAIN s : i # Len(s) => t[i].k = s[i].k
  BY <1>1 DEF Edited
<1>3. \A i \in DOMAIN s : s[i] \in Frame
  OBVIOUS
<1>4. \A i \in DOMAIN s : s[i].k \in Nat
  BY <1>3 DEF Frame
<1>5. j \in Nat
  BY <1>1, <1>4
<1>6. \A x : First(t, x) <=> First(s, x)
  <2>1. 1 \in DOMAIN s /\ s # <<>> /\ t # <<>>
    BY <1>1, <1>2
  <2>. QED
    BY <1>2, <2>1 DEF First
<1>7. ASSUME NEW i \in DOMAIN s, NEW k \in Nat
      PROVE  /\ t[i].k <= k => s[i].k <= k
             /\ s[i].k <= k => t[i].k <= k \/ (i = Len(s) /\ k = j)
  <2>1. CASE i = Len(s)
    BY <1>1, <1>5, <2>1
  <2>2. CASE i # Len(s)
    BY <1>2, <2>2
  <2>. QED
    BY <2>1, <2>2
<1>8. ASSUME NEW p, NEW k \in Nat
      PROVE  /\ Pending(t, p, k) => Pending(s, p, k)
             /\ Pending(s, p, k) => Pending(t, p, k) \/ (p = q /\ k = j)
             /\ Reviving(t, p, k) => Reviving(s, p, k)
             /\ Reviving(s, p, k) => Reviving(t, p, k) \/ (p = q /\ k = j /\ s[Len(s)].st = 1)
  BY <1>2, <1>7 DEF Pending, Reviving
<1>. QED
  BY <1>1, <1>2, <1>6, <1>8 DEF NextFrames

LEMMA PendingPush ==
    ASSUME NEW s \in Seq(Frame), NEW f \in Frame, f.k = 1, NEW t, t = Append(s, f)
    PROVE  PushFrames(s, t, f)
<1>1. /\ t \in Seq(Frame) /\ Len(t) = Len(s) + 1 /\ DOMAIN t = 1 .. Len(s) + 1
      /\ DOMAIN s = 1 .. Len(s) /\ Len(s) \in Nat
      /\ \A i \in DOMAIN s : t[i] = s[i]
      /\ t[Len(s) + 1] = f
  OBVIOUS
<1>2. s # <<>> => \A x : First(t, x) <=> First(s, x)
  <2>1. s # <<>> => 1 \in DOMAIN s /\ t # <<>>
    BY <1>1
  <2>. QED
    BY <1>1, <2>1 DEF First
<1>3. \A i \in 1 .. Len(s) + 1 : i \in DOMAIN s \/ i = Len(s) + 1
  BY <1>1
<1>4. \A k \in Slot : f.k <= k
  BY HeapAssumption DEF Slot
<1>5. \A p : \A k \in Slot :
         /\ Pending(t, p, k) <=> Pending(s, p, k) \/ p = f.o
         /\ Reviving(t, p, k) <=> Reviving(s, p, k) \/ (p = f.o /\ f.st = 1)
  BY <1>1, <1>3, <1>4 DEF Pending, Reviving
<1>. QED
  BY <1>1, <1>2, <1>5 DEF PushFrames

LEMMA PendingPop ==
    ASSUME NEW s \in Seq(Frame), Len(s) > 0, s[Len(s)].k > MaxMembers, NEW t, t = Pop(s)
    PROVE  PopFrames(s, t)
<1>1. /\ t \in Seq(Frame) /\ Len(t) = Len(s) - 1 /\ DOMAIN t = 1 .. Len(s) - 1
      /\ DOMAIN s = 1 .. Len(s) /\ Len(s) \in Nat
      /\ DOMAIN t \subseteq DOMAIN s
      /\ \A i \in DOMAIN t : t[i] = s[i]
      /\ s[Len(s)] \in Frame
  BY PopPush
<1>2. Len(s) = 1 => t = <<>>
  BY <1>1
<1>3. Len(s) # 1 => \A x : First(t, x) <=> First(s, x)
  <2>1. Len(s) # 1 => 1 \in DOMAIN t /\ t # <<>> /\ s # <<>>
    BY <1>1
  <2>. QED
    BY <1>1, <2>1 DEF First
<1>4. \A k \in Slot : ~(s[Len(s)].k <= k)
  <2>1. s[Len(s)].k \in Nat
    BY <1>1 DEF Frame
  <2>. QED
    BY <2>1, HeapAssumption DEF Slot
<1>5. \A i \in DOMAIN s : i \in DOMAIN t \/ i = Len(s)
  BY <1>1
<1>6. SameSlots(s, t)
  BY <1>1, <1>4, <1>5 DEF Pending, Reviving, SameSlots
<1>7. t \in Seq(Frame) /\ DOMAIN t \subseteq DOMAIN s
  BY <1>1
<1>8. \A i \in DOMAIN t : t[i] = s[i]
  BY <1>1
<1>. QED
  BY <1>2, <1>3, <1>6, <1>7, <1>8 DEF PopFrames

(* One more slot has been looked at.                                         *)
NextLooked(mk, s, mk2, s2, q, j) ==
    \A p \in Obj, k \in Slot :
        Looked(mk2, s2, p, k) <=> Looked(mk, s, p, k) \/ (p = q /\ k = j)

LEMMA SeenFinite ==
    ASSUME NEW mk, NEW m, NEW s, NEW x
    PROVE  /\ IsFiniteSet(Seen(mk, m, s, x)) /\ Cardinality(Seen(mk, m, s, x)) \in Nat
           /\ Cardinality(Seen(mk, m, s, x)) <= Cardinality(EdgesTo(m, x))
<1>1. Seen(mk, m, s, x) \subseteq EdgesTo(m, x)
  BY DEF Seen
<1>. QED
  BY <1>1, EdgesFinite, FS_Subset, FS_CardinalityType

LEMMA SeenNext ==
    ASSUME NEW mk, NEW m, NEW s, NEW mk2, NEW s2, NEW q \in Obj, NEW j \in Slot,
           NextLooked(mk, s, mk2, s2, q, j), ~Looked(mk, s, q, j), NEW x
    PROVE  Cardinality(Seen(mk2, m, s2, x)) =
             Cardinality(Seen(mk, m, s, x)) + IF m[q][j] = x THEN 1 ELSE 0
<1>0. <<q, j>> \in Obj \X Slot
  OBVIOUS
<1>1. \A e \in Obj \X Slot : e # <<q, j>> =>
         (Looked(mk2, s2, e[1], e[2]) <=> Looked(mk, s, e[1], e[2]))
  BY DEF NextLooked
<1>2. Looked(mk2, s2, q, j)
  BY DEF NextLooked
<1>3. CASE m[q][j] = x
  <2>1. Seen(mk2, m, s2, x) = Seen(mk, m, s, x) \cup {<<q, j>>}
    BY <1>0, <1>1, <1>2, <1>3 DEF Seen, EdgesTo
  <2>2. <<q, j>> \notin Seen(mk, m, s, x)
    BY DEF Seen
  <2>. QED
    BY <1>3, <2>1, <2>2, SeenFinite, FS_AddElement
<1>4. CASE m[q][j] # x
  <2>1. Seen(mk2, m, s2, x) = Seen(mk, m, s, x)
    BY <1>1, <1>4 DEF Seen, EdgesTo
  <2>. QED
    BY <1>4, <2>1, SeenFinite
<1>. QED
  BY <1>3, <1>4

(* What a visit does to marks, counts and lists: v is marked and counted     *)
(* once more, and is in the list no longer.                                  *)
MarksAdd(mk, mk2, v) == \A x \in Obj : mk2[x] = 1 <=> mk[x] = 1 \/ x = v
CountsAdd(n, n2, v) == \A x \in Obj : n2[x] = n[x] + IF x = v THEN 1 ELSE 0
ListDrops(r, r2, v) == \A x \in Obj : InList(r2, x) <=> InList(r, x) /\ x # v
Fresh(mk, n, v) == \A x \in Obj : x = v /\ mk[x] # 1 => n[x] = 0
SameFirst(s, s2) == \A x : First(s2, x) <=> First(s, x)
FirstIs(s, o) == \A x : First(s, x) <=> x = o
SameLooked(mk, s, mk2, s2) ==
    \A p \in Obj, k \in Slot : Looked(mk2, s2, p, k) <=> Looked(mk, s, p, k)

(* The slot j of the top frame's object q has been looked at, which marks    *)
(* the object v it refers to, if any.                                        *)
LEMMA LookStage ==
    ASSUME NEW mk, NEW m \in Table, NEW s, NEW n \in [Obj -> Nat], NEW r,
           NEW mk2, NEW s2, NEW n2, NEW r2, NEW q \in Obj, NEW j \in Slot, NEW v,
           MarkStage(mk, m, s, n, r), v = m[q][j], NextLooked(mk, s, mk2, s2, q, j),
           ~Looked(mk, s, q, j),
           s # <<>>, 1 \in DOMAIN s, s[1].o \in Obj, From(m, {s[1].o}, q),
           SameFirst(s, s2), Fresh(mk, n, v),
           MarksAdd(mk, mk2, v), CountsAdd(n, n2, v), ListDrops(r, r2, v)
    PROVE  MarksPassOn(mk2, m, s2) /\ MarksCounted(mk2, m, s2, n2) /\ MarkedRoots(mk2, m, s2, r2)
<1>. USE DEF MarksAdd, CountsAdd, ListDrops, Fresh, SameFirst
<1>0. \A p \in Obj, k \in Slot : m[p][k] \in Obj \cup {NoObj}
  BY DEF Table
<1>1. MarksPassOn(mk2, m, s2)
  <2>1. SUFFICES ASSUME NEW p \in Obj, NEW k \in Slot, Looked(mk2, s2, p, k), m[p][k] # NoObj
                 PROVE  mk2[m[p][k]] = 1
    BY DEF MarksPassOn
  <2>2. m[p][k] \in Obj
    BY <1>0, <2>1
  <2>3. CASE Looked(mk, s, p, k)
    <3>1. mk[m[p][k]] = 1
      BY <2>1, <2>3 DEF MarkStage, MarksPassOn
    <3>. QED
      BY <2>2, <3>1
  <2>4. CASE p = q /\ k = j
    BY <2>2, <2>4
  <2>. QED
    BY <2>1, <2>3, <2>4 DEF NextLooked
<1>2. MarksCounted(mk2, m, s2, n2)
  <2>1. SUFFICES ASSUME NEW x \in Obj, mk2[x] = 1
                 PROVE  n2[x] = Cardinality(Seen(mk2, m, s2, x)) + IF First(s2, x) THEN 1 ELSE 0
    BY DEF MarksCounted
  <2>2. Cardinality(Seen(mk2, m, s2, x)) = Cardinality(Seen(mk, m, s, x)) + IF v = x THEN 1 ELSE 0
    BY SeenNext
  <2>3. Cardinality(Seen(mk, m, s, x)) \in Nat /\ n[x] \in Nat
    BY SeenFinite
  <2>4. CASE mk[x] = 1
    <3>1. n[x] = Cardinality(Seen(mk, m, s, x)) + IF First(s, x) THEN 1 ELSE 0
      BY <2>4 DEF MarkStage, MarksCounted
    <3>2. n2[x] = n[x] + IF x = v THEN 1 ELSE 0
      OBVIOUS
    <3>. QED
      BY <2>2, <2>3, <3>1, <3>2
  <2>5. CASE mk[x] # 1
    <3>1. x = v /\ n[x] = 0 /\ n2[x] = 1
      BY <2>1, <2>5
    <3>2. Seen(mk, m, s, x) = {}
      <4>1. SUFFICES ASSUME NEW e \in Seen(mk, m, s, x)
                     PROVE  FALSE
        OBVIOUS
      <4>2. e[1] \in Obj /\ e[2] \in Slot /\ m[e[1]][e[2]] = x /\ Looked(mk, s, e[1], e[2])
        BY DEF Seen, EdgesTo
      <4>3. m[e[1]][e[2]] # NoObj
        BY <4>2, HeapAssumption
      <4>. QED
        BY <2>5, <4>2, <4>3 DEF MarkStage, MarksPassOn
    <3>3. Cardinality(Seen(mk, m, s, x)) = 0
      BY <3>2, FS_EmptySet
    <3>4. ~First(s, x)
      BY <2>5 DEF First, MarkStage, MarkFrames
    <3>. QED
      BY <2>2, <3>1, <3>3, <3>4
  <2>. QED
    BY <2>4, <2>5
<1>3. MarkedRoots(mk2, m, s2, r2)
  <2>1. PICK o \in Obj : o = s[1].o
    OBVIOUS
  <2>2. First(s2, o) /\ o \in Roots(s2, r2)
    BY <2>1 DEF First, Roots
  <2>3. From(m, {o}, v) \/ v = NoObj
    BY <2>1, FromEdge
  <2>4. \A y \in Roots(s, r) : From(m, Roots(s2, r2), y)
    <3>1. \A y \in Roots(s, r) : y \in Roots(s2, r2) \/ y = v
      BY DEF Roots
    <3>2. v = NoObj \/ From(m, Roots(s2, r2), v)
      BY <2>2, <2>3, FromMono
    <3>3. \A y \in Roots(s, r) : y # NoObj
      BY HeapAssumption DEF Roots
    <3>. QED
      BY <3>1, <3>2, <3>3, FromSelf
  <2>5. ASSUME NEW x \in Obj, mk2[x] = 1
        PROVE  From(m, Roots(s2, r2), x)
    <3>1. CASE mk[x] = 1
      <4>1. From(m, Roots(s, r), x)
        BY <3>1 DEF MarkStage, MarkedRoots
      <4>. QED
        BY <2>4, <4>1, FromTrans
    <3>2. CASE x = v
      BY <2>2, <2>3, <3>2, FromMono, HeapAssumption
    <3>. QED
      BY <2>5, <3>1, <3>2
  <2>6. \A x \in Obj : InList(r2, x) => mk2[x] = 1
    BY DEF MarkStage, MarkedRoots
  <2>7. ASSUME NEW x \in Roots(s2, r2), NEW p \in Obj, NEW k \in Slot,
               Looked(mk2, s2, p, k), m[p][k] = x
        PROVE  From(m, {x}, p)
    <3>1. x \in Roots(s, r)
      BY DEF Roots
    <3>2. CASE Looked(mk, s, p, k)
      BY <2>7, <3>1, <3>2 DEF MarkStage, MarkedRoots
    <3>3. CASE p = q /\ k = j
      <4>1. x = v /\ x \in Obj
        BY <2>7, <3>1, <3>3 DEF Roots
      <4>2. First(s2, x)
        BY <4>1 DEF Roots
      <4>3. x = o
        BY <2>1, <4>2 DEF First
      <4>. QED
        BY <2>1, <3>3, <4>3
    <3>. QED
      BY <2>7, <3>2, <3>3 DEF NextLooked
  <2>. QED
    BY <2>5, <2>6, <2>7 DEF MarkedRoots
<1>. QED
  BY <1>1, <1>2, <1>3

(* A traversal starts at an object that is not marked.                       *)
LEMMA RootStage ==
    ASSUME NEW mk, NEW m \in Table, NEW s, NEW n \in [Obj -> Nat], NEW r,
           NEW mk2, NEW s2, NEW n2, NEW r2, NEW o \in Obj,
           MarkStage(mk, m, s, n, r), s = <<>>, mk[o] # 1, n[o] = 0,
           SameLooked(mk, s, mk2, s2), FirstIs(s2, o),
           MarksAdd(mk, mk2, o), CountsAdd(n, n2, o), ListDrops(r, r2, o)
    PROVE  MarksPassOn(mk2, m, s2) /\ MarksCounted(mk2, m, s2, n2) /\ MarkedRoots(mk2, m, s2, r2)
<1>. USE DEF MarksAdd, CountsAdd, ListDrops, SameLooked, FirstIs
<1>0. \A p \in Obj, k \in Slot : m[p][k] \in Obj \cup {NoObj}
  BY DEF Table
<1>1. MarksPassOn(mk2, m, s2)
  BY <1>0 DEF MarkStage, MarksPassOn
<1>2. \A p \in Obj, k \in Slot : Looked(mk, s, p, k) => m[p][k] # o
  BY HeapAssumption DEF MarkStage, MarksPassOn
<1>3. MarksCounted(mk2, m, s2, n2)
  <2>1. SUFFICES ASSUME NEW x \in Obj, mk2[x] = 1
                 PROVE  n2[x] = Cardinality(Seen(mk2, m, s2, x)) + IF First(s2, x) THEN 1 ELSE 0
    BY DEF MarksCounted
  <2>2. Seen(mk2, m, s2, x) = Seen(mk, m, s, x)
    BY DEF Seen, EdgesTo
  <2>3. Cardinality(Seen(mk, m, s, x)) \in Nat /\ n[x] \in Nat
    BY SeenFinite
  <2>4. CASE x # o
    <3>1. mk[x] = 1 /\ ~First(s, x) /\ ~First(s2, x)
      BY <2>1, <2>4 DEF First
    <3>2. n[x] = Cardinality(Seen(mk, m, s, x)) + IF First(s, x) THEN 1 ELSE 0
      BY <3>1 DEF MarkStage, MarksCounted
    <3>. QED
      BY <2>2, <2>3, <2>4, <3>1, <3>2
  <2>5. CASE x = o
    <3>1. Seen(mk, m, s, x) = {}
      BY <1>2, <2>5 DEF Seen, EdgesTo
    <3>2. Cardinality(Seen(mk2, m, s2, x)) = 0
      BY <2>2, <3>1, FS_EmptySet
    <3>3. n2[x] = 1 /\ First(s2, x)
      BY <2>5
    <3>. QED
      BY <3>2, <3>3
  <2>. QED
    BY <2>4, <2>5
<1>4. MarkedRoots(mk2, m, s2, r2)
  <2>1. Roots(s, r) \subseteq Roots(s2, r2) /\ o \in Roots(s2, r2)
    BY DEF Roots, First
  <2>2. \A x \in Obj : mk2[x] = 1 => From(m, Roots(s2, r2), x)
    <3>1. \A x \in Obj : mk[x] = 1 => From(m, Roots(s2, r2), x)
      BY <2>1, FromMono DEF MarkStage, MarkedRoots
    <3>. QED
      BY <2>1, <3>1, FromSelf
  <2>3. \A x \in Obj : InList(r2, x) => mk2[x] = 1
    BY DEF MarkStage, MarkedRoots
  <2>4. ASSUME NEW x \in Roots(s2, r2), NEW p \in Obj, NEW k \in Slot,
               Looked(mk2, s2, p, k), m[p][k] = x
        PROVE  From(m, {x}, p)
    <3>1. Looked(mk, s, p, k) /\ x # o
      BY <1>2, <2>4
    <3>2. x \in Roots(s, r)
      BY <3>1 DEF Roots
    <3>. QED
      BY <2>4, <3>1, <3>2 DEF MarkStage, MarkedRoots
  <2>. QED
    BY <2>2, <2>3, <2>4 DEF MarkedRoots
<1>. QED
  BY <1>1, <1>3, <1>4

(* Nothing is destroyed while the collector marks or scans.                  *)
LEMMA NoneDying ==
    ASSUME HeapInv, CInv, gc \in {"mark", "scan"}
    PROVE  \A x \in Obj : state[x] # "dying"
<1>1. ASSUME NEW x \in Obj, state[x] = "dying"
      PROVE  FALSE
  <2>1. PICK f \in Elems(stack) : Destroys(f) /\ f.o = x
    BY <1>1 DEF CInv, DyingFramed
  <2>2. PICK i \in DOMAIN stack : stack[i] = f
    BY <2>1 DEF Elems
  <2>. QED
    BY <2>1, <2>2 DEF HeapInv, StackSound, Destroys
<1>. QED
  BY <1>1

(* While marking, the only frame that anchors its object is the root's.      *)
LEMMA MarkAnchors ==
    ASSUME NEW s \in Seq(Frame), NEW rcs, Marking(s, rcs),
           \A i \in DOMAIN s : s[i].st = 1 <=> i = 1
    PROVE  \A x : (\E f \in Elems(s) : Anchors(f) /\ f.o = x) <=> First(s, x)
<1>1. ASSUME NEW f \in Elems(s), Anchors(f)
      PROVE  First(s, f.o)
  <2>1. PICK i \in DOMAIN s : s[i] = f
    BY DEF Elems
  <2>2. i = 1 /\ s # <<>>
    BY <1>1, <2>1 DEF Marking, Anchors
  <2>. QED
    BY <2>1, <2>2 DEF First
<1>2. ASSUME NEW x, First(s, x)
      PROVE  \E f \in Elems(s) : Anchors(f) /\ f.o = x
  <2>1. 1 \in DOMAIN s /\ s[1].o = x
    BY <1>2 DEF First
  <2>2. s[1] \in Elems(s) /\ Anchors(s[1])
    BY <2>1 DEF Elems, Marking, Anchors
  <2>. QED
    BY <2>1, <2>2
<1>. QED
  BY <1>1, <1>2

(* What is left to show of a step of the marking.                            *)
LEMMA MarkPhaseC ==
    ASSUME HeapInv, CInv, gc = "mark", gc' = "mark", UNCHANGED <<state, members>>,
           LostNow',
           Marks(gc', state', mark', ref_count_scan', unreferred_objects', isolated_roots'),
           MarkFrames(mark', members, stack'), MarksPassOn(mark', members, stack'),
           MarksCounted(mark', members, stack', ref_count_scan'),
           MarkedRoots(mark', members, stack', isolated_roots')
    PROVE  CInv'
<1>1. DyingFramed(state', Elems(stack'))
  BY NoneDying DEF DyingFramed
<1>2. MarkStage(mark', members', stack', ref_count_scan', isolated_roots')
  BY DEF MarkStage
<1>. QED
  BY <1>1, <1>2 DEF CInv, LostNow

(* What MarkVisit does to marks, counts and lists.                           *)
LEMMA MarkVisitFacts ==
    ASSUME HeapInv, ListsInv, CInv, gc = "mark", gc' = "mark", NEW o \in Obj, state[o] = "live",
           NEW s, NEW isRoot, MarkVisit(o, s, isRoot), UNCHANGED state
    PROVE  /\ MarksAdd(mark, mark', o)
           /\ CountsAdd(ref_count_scan, ref_count_scan', o)
           /\ ListDrops(unreferred_objects, unreferred_objects', o)
           /\ ListDrops(isolated_roots, isolated_roots', o)
           /\ Fresh(mark, ref_count_scan, o)
           /\ Marks(gc', state', mark', ref_count_scan', unreferred_objects', isolated_roots')
<1>1. /\ mark \in [Obj -> 0 .. 3] /\ ref_count_scan \in [Obj -> Nat]
      /\ unreferred_objects \in Seq(Obj) /\ isolated_roots \in Seq(Obj)
      /\ Distinct(unreferred_objects) /\ Distinct(isolated_roots)
  BY DEF HeapInv, TypeOK, ListsInv
<1>2. /\ mark' = [mark EXCEPT ![o] = 1]
      /\ ref_count_scan' = [ref_count_scan EXCEPT ![o] = @ + 1]
      /\ unreferred_objects' = Without(unreferred_objects, o)
      /\ isolated_roots' = Without(isolated_roots, o)
  BY DEF MarkVisit
<1>3. /\ \A x : InList(unreferred_objects', x) <=> InList(unreferred_objects, x) /\ x # o
      /\ \A x : InList(isolated_roots', x) <=> InList(isolated_roots, x) /\ x # o
  BY <1>1, <1>2, WithoutFacts
<1>4. /\ mark'[o] = 1 /\ \A x \in Obj : x # o => mark'[x] = mark[x]
      /\ ref_count_scan'[o] = ref_count_scan[o] + 1
      /\ \A x \in Obj : x # o => ref_count_scan'[x] = ref_count_scan[x]
      /\ \A x \in Obj : ref_count_scan[x] \in Nat
  BY <1>1, <1>2
<1>5. \A x \in Obj :
         /\ mark[x] = 0 => ref_count_scan[x] = 0
         /\ state[x] = "free" => mark[x] = 0
         /\ mark[x] \in {1, 2} => state[x] = "live"
         /\ state[x] = "live" => mark[x] \in {0, 1}
         /\ InList(unreferred_objects, x) => mark[x] = 0
  BY DEF CInv, Marks
<1>6. Marks(gc', state', mark', ref_count_scan', unreferred_objects', isolated_roots')
  BY <1>3, <1>4, <1>5 DEF Marks
<1>. QED
  BY <1>3, <1>4, <1>5, <1>6 DEF MarksAdd, CountsAdd, ListDrops, Fresh

LEMMA MarkRootC ==
    ASSUME HeapInv, ListsInv, CInv, MarkRoot
    PROVE  CInv'
<1>1. PICK o : o = Head(unreferred_objects)
  OBVIOUS
<1>2. /\ gc = "mark" /\ gc' = "mark" /\ stack = <<>> /\ MarkVisit(o, stack, 1)
      /\ unreferred_objects # <<>> /\ UNCHANGED <<state, members, ext>>
  BY <1>1 DEF MarkRoot, gcVars, objVars, ownVars
<1>3. o \in Obj /\ InList(unreferred_objects, o)
  BY <1>1, <1>2 DEF HeapInv, TypeOK, InList
<1>4. state[o] = "live" /\ mark[o] = 0 /\ ref_count_scan[o] = 0
  BY <1>3 DEF ListsInv, Listed, CInv, Marks
<1>5. PICK f \in Frame : f = [op |-> "mark", o |-> o, k |-> 1, st |-> 1]
  BY <1>3 DEF Frame
<1>6. stack' = Append(<<>>, f) /\ f.op = "mark" /\ f.o = o /\ f.k = 1 /\ f.st = 1
  BY <1>2, <1>4, <1>5 DEF MarkVisit
<1>7. /\ MarksAdd(mark, mark', o)
      /\ CountsAdd(ref_count_scan, ref_count_scan', o)
      /\ ListDrops(unreferred_objects, unreferred_objects', o)
      /\ ListDrops(isolated_roots, isolated_roots', o)
      /\ Marks(gc', state', mark', ref_count_scan', unreferred_objects', isolated_roots')
  BY <1>2, <1>3, <1>4, MarkVisitFacts
<1>8. /\ stack' \in Seq(Frame) /\ DOMAIN stack' = {1} /\ stack'[1] = f /\ stack' # <<>>
  BY <1>6
<1>9. MarkStage(mark, members, stack, ref_count_scan, isolated_roots)
  BY <1>2 DEF CInv
<1>10. FirstIs(stack', o)
  BY <1>6, <1>8 DEF First, FirstIs
<1>11. SameLooked(mark, stack, mark', stack')
  <2>. SUFFICES ASSUME NEW p \in Obj, NEW k \in Slot
                PROVE  Looked(mark', stack', p, k) <=> Looked(mark, stack, p, k)
    BY DEF SameLooked
  <2>1. Pending(stack', p, k) <=> p = o
    <3>1. 1 <= k
      BY HeapAssumption DEF Slot
    <3>. QED
      BY <1>6, <1>8, <3>1 DEF Pending
  <2>2. ~Pending(stack, p, k)
    BY <1>2 DEF Pending
  <2>. QED
    BY <1>4, <1>7, <2>1, <2>2 DEF Looked, MarksAdd
<1>12. members \in Table /\ ref_count_scan \in [Obj -> Nat]
  BY DEF HeapInv, TypeOK, Table
<1>13. /\ MarksPassOn(mark', members, stack')
       /\ MarksCounted(mark', members, stack', ref_count_scan')
       /\ MarkedRoots(mark', members, stack', isolated_roots')
  <2>1. mark[o] # 1
    BY <1>4
  <2>. QED
    BY <1>2, <1>3, <1>4, <1>7, <1>9, <1>10, <1>11, <1>12, <2>1, RootStage
<1>14. MarkFrames(mark', members, stack')
  BY <1>3, <1>6, <1>7, <1>8, FromSelf DEF MarkFrames, MarksAdd
<1>15. LostNow'
  <2>1. f \in Elems(stack') /\ Anchors(f)
    BY <1>6, <1>8 DEF Elems, Anchors
  <2>2. Elems(stack) = {}
    BY <1>2 DEF Elems
  <2>3. KnownNow \subseteq KnownNow'
    BY <1>2, <1>3, <1>6, <1>7, <2>1, <2>2 DEF KnownNow, Known, ListDrops
  <2>. QED
    BY <1>2, <2>3, KeepAll, SameEdges
<1>. QED
  BY <1>2, <1>7, <1>13, <1>14, <1>15, MarkPhaseC

(* The top frame has looked at its slot.                                     *)
LEMMA LookNext ==
    ASSUME NEW s \in Seq(Frame), Len(s) > 0, NEW t, t = NextSlot(s), NEW mk, NEW m,
           MarkFrames(mk, m, s),
           NEW q, NEW j \in Slot, q = s[Len(s)].o, j = s[Len(s)].k
    PROVE  /\ NextLooked(mk, s, mk, t, q, j)
           /\ ~Looked(mk, s, q, j)
           /\ MarkFrames(mk, m, t)
           /\ SameFirst(s, t)
           /\ From(m, {s[1].o}, q)
<1>1. /\ t \in Seq(Frame) /\ DOMAIN t = DOMAIN s
      /\ \A i \in DOMAIN s : t[i].o = s[i].o /\ t[i].st = s[i].st
      /\ \A x : First(t, x) <=> First(s, x)
      /\ \A p : \A k \in Nat : /\ Pending(t, p, k) => Pending(s, p, k)
                               /\ Pending(s, p, k) => Pending(t, p, k) \/ (p = q /\ k = j)
  <2>1. NextFrames(s, t, q, j)
    BY PendingNext
  <2>. QED
    BY <2>1 DEF NextFrames
<1>2. Len(s) \in DOMAIN s /\ 1 \in DOMAIN s /\ j \in Nat
  BY HeapAssumption DEF Slot
<1>3. t[Len(s)].k = j + 1
  BY NextSlotStep
<1>4. mk[q] = 1 /\ From(m, {s[1].o}, q)
  BY <1>2 DEF MarkFrames
<1>5. ~Pending(t, q, j)
  <2>1. SUFFICES ASSUME NEW i \in DOMAIN t, t[i].o = q, t[i].k <= j
                 PROVE  FALSE
    BY DEF Pending
  <2>2. i = Len(s)
    BY <1>1, <1>2, <2>1 DEF MarkFrames
  <2>. QED
    BY <1>2, <1>3, <2>1, <2>2
<1>6. Pending(s, q, j)
  BY <1>2 DEF Pending
<1>7. NextLooked(mk, s, mk, t, q, j)
  <2>1. SUFFICES ASSUME NEW p \in Obj, NEW k \in Slot
                 PROVE  Looked(mk, t, p, k) <=> Looked(mk, s, p, k) \/ (p = q /\ k = j)
    BY DEF NextLooked
  <2>2. k \in Nat
    BY HeapAssumption DEF Slot
  <2>3. /\ Pending(t, p, k) => Pending(s, p, k)
        /\ Pending(s, p, k) => Pending(t, p, k) \/ (p = q /\ k = j)
    BY <1>1, <2>2
  <2>. QED
    BY <1>4, <1>5, <2>3 DEF Looked
<1>8. MarkFrames(mk, m, t)
  <2>1. t[1].o = s[1].o
    BY <1>1, <1>2
  <2>2. \A i \in DOMAIN t : /\ t[i].st = 1 <=> i = 1
                            /\ mk[t[i].o] = 1
                            /\ From(m, {t[1].o}, t[i].o)
    BY <1>1, <2>1 DEF MarkFrames
  <2>3. \A i, k \in DOMAIN t : t[i].o = t[k].o => i = k
    BY <1>1 DEF MarkFrames
  <2>. QED
    BY <2>2, <2>3 DEF MarkFrames
<1>. QED
  BY <1>1, <1>4, <1>6, <1>7, <1>8 DEF Looked, SameFirst

(* A frame is pushed for an object marked just now.                          *)
LEMMA LookPush ==
    ASSUME NEW t \in Seq(Frame), t # <<>>, NEW f \in Frame, f.k = 1, f.st = 0,
           NEW t2, t2 = Append(t, f), NEW mk, NEW mk2, NEW m, NEW o \in Obj, f.o = o,
           MarkFrames(mk, m, t), mk[o] # 1, MarksAdd(mk, mk2, o), From(m, {t[1].o}, o)
    PROVE  /\ SameLooked(mk, t, mk2, t2)
           /\ MarkFrames(mk2, m, t2)
           /\ SameFirst(t, t2)
<1>1. /\ t2 \in Seq(Frame) /\ DOMAIN t2 = 1 .. Len(t) + 1
      /\ \A i \in DOMAIN t : t2[i] = t[i]
      /\ t2[Len(t) + 1] = f
      /\ \A x : First(t2, x) <=> First(t, x)
      /\ \A p : \A k \in Slot : Pending(t2, p, k) <=> Pending(t, p, k) \/ p = f.o
  <2>1. PushFrames(t, t2, f)
    BY PendingPush
  <2>. QED
    BY <2>1 DEF PushFrames
<1>2. 1 \in DOMAIN t /\ Len(t) \in Nat /\ DOMAIN t = 1 .. Len(t) /\ Len(t) + 1 # 1
  OBVIOUS
<1>3. \A i \in DOMAIN t : t[i] \in Frame
  OBVIOUS
<1>4. \A i \in DOMAIN t : t[i].o \in Obj
  BY <1>3 DEF Frame
<1>5. \A i \in DOMAIN t2 : i \in DOMAIN t \/ i = Len(t) + 1
  BY <1>1, <1>2
<1>6. \A i \in DOMAIN t : t[i].o # o /\ mk2[t[i].o] = 1
  BY <1>4 DEF MarkFrames, MarksAdd
<1>7. SameLooked(mk, t, mk2, t2)
  <2>1. \A p \in Obj, k \in Slot : Pending(t, p, k) => p # o
    BY <1>6 DEF Pending
  <2>. QED
    BY <1>1, <2>1 DEF SameLooked, Looked, MarksAdd
<1>8. t2[1].o = t[1].o
  BY <1>1, <1>2
<1>9. MarkFrames(mk2, m, t2)
  <2>1. ASSUME NEW i \in DOMAIN t2
        PROVE  (t2[i].st = 1 <=> i = 1) /\ mk2[t2[i].o] = 1 /\ From(m, {t[1].o}, t2[i].o)
    <3>1. CASE i \in DOMAIN t
      BY <1>1, <1>6, <3>1 DEF MarkFrames
    <3>2. CASE i = Len(t) + 1
      BY <1>1, <1>2, <3>2 DEF MarksAdd
    <3>. QED
      BY <1>5, <3>1, <3>2
  <2>2. ASSUME NEW i \in DOMAIN t2, NEW k \in DOMAIN t2, t2[i].o = t2[k].o
        PROVE  i = k
    <3>1. CASE i \in DOMAIN t /\ k \in DOMAIN t
      BY <1>1, <2>2, <3>1 DEF MarkFrames
    <3>2. CASE i \in DOMAIN t /\ k = Len(t) + 1
      BY <1>1, <1>6, <2>2, <3>2
    <3>3. CASE k \in DOMAIN t /\ i = Len(t) + 1
      BY <1>1, <1>6, <2>2, <3>3
    <3>. QED
      BY <1>5, <3>1, <3>2, <3>3
  <2>. QED
    BY <1>8, <2>1, <2>2 DEF MarkFrames
<1>. QED
  BY <1>1, <1>7, <1>9 DEF SameFirst

(* Whatever is known while marking is known afterwards, or is the object     *)
(* visited, which is reached from the root of the traversal.                 *)
LEMMA MarkKeeps ==
    ASSUME HeapInv, CInv, gc = "mark", UNCHANGED <<state, members, ext>>,
           stack' \in Seq(Frame), Marking(stack', ref_count_scan'),
           MarkFrames(mark', members, stack'), SameFirst(stack, stack'), NEW v,
           \A x \in Obj : InList(unreferred_objects, x) => InList(unreferred_objects', x) \/ x = v,
           \A x \in Obj : InList(isolated_roots, x) => InList(isolated_roots', x) \/ x = v,
           NEW q \in Obj, First(stack, q), v \in Obj => From(members, {q}, v)
    PROVE  LostNow'
<1>1. stack \in Seq(Frame) /\ Marking(stack, ref_count_scan)
  BY CollectorStack DEF HeapInv, TypeOK
<1>2. MarkFrames(mark, members, stack)
  BY DEF CInv, MarkStage
<1>3. \A x : (\E f \in Elems(stack) : Anchors(f) /\ f.o = x) => First(stack, x)
  <2>1. \A i \in DOMAIN stack : stack[i].st = 1 <=> i = 1
    BY <1>2 DEF MarkFrames
  <2>. QED
    BY <1>1, <2>1, MarkAnchors
<1>4. \A x : First(stack', x) => \E f \in Elems(stack') : Anchors(f) /\ f.o = x
  <2>1. \A i \in DOMAIN stack' : stack'[i].st = 1 <=> i = 1
    BY DEF MarkFrames
  <2>. QED
    BY <2>1, MarkAnchors
<1>5. PICK K : K = Known(ext', Elems(stack'), unreferred_objects', isolated_roots')
  OBVIOUS
<1>6. q \in K
  BY <1>4, <1>5 DEF Known, SameFirst
<1>7. ASSUME NEW y \in Known(ext, Elems(stack), unreferred_objects, isolated_roots)
      PROVE  From(members, K, y)
  <2>1. y \in K \/ y = v
    BY <1>3, <1>4, <1>5 DEF Known, SameFirst
  <2>2. y \in Obj
    BY DEF Known
  <2>. QED
    BY <1>6, <2>1, <2>2, FromSelf, FromMono
<1>8. NothingLost(state, members, ext, Elems(stack), unreferred_objects, isolated_roots)
  BY DEF CInv
<1>9. NothingLost(state, members, ext', Elems(stack'), unreferred_objects', isolated_roots')
  BY <1>5, <1>7, <1>8, LoseNothing
<1>. QED
  BY <1>9 DEF LostNow

LEMMA MarkMemberC ==
    ASSUME HeapInv, ListsInv, CInv, MarkMember
    PROVE  CInv'
<1>1. /\ Running("mark") /\ Top.k \in Slot
      /\ UNCHANGED <<state, members, ext, gc>>
  BY DEF MarkMember, gcVars, objVars, ownVars
<1>2. /\ stack \in Seq(Frame) /\ Len(stack) > 0 /\ Len(stack) \in DOMAIN stack
      /\ Top = stack[Len(stack)] /\ Top.o \in Obj /\ Top.op = "mark"
  BY <1>1, TopFacts DEF HeapInv
<1>3. gc = "mark" /\ gc' = "mark"
  BY <1>1, <1>2 DEF HeapInv, StackSound
<1>4. MarkStage(mark, members, stack, ref_count_scan, isolated_roots)
  BY <1>3 DEF CInv
<1>5. PICK q \in Obj, j \in Slot : q = Top.o /\ j = Top.k
  BY <1>1, <1>2
<1>6. PICK t : t = NextSlot(stack)
  OBVIOUS
<1>7. t \in Seq(Frame) /\ Marking(t, ref_count_scan) /\ t # <<>>
  <2>1. Marking(stack, ref_count_scan)
    BY <1>3, CollectorStack DEF HeapInv
  <2>2. t \in Seq(Frame) /\ Marking(t, ref_count_scan)
    BY <1>2, <1>6, <2>1, CollectorNext
  <2>3. Len(t) = Len(stack)
    BY <1>2, <1>6, NextSlotStep DEF Edited
  <2>. QED
    BY <1>2, <2>2, <2>3
<1>8. /\ NextLooked(mark, stack, mark, t, q, j)
      /\ ~Looked(mark, stack, q, j)
      /\ MarkFrames(mark, members, t)
      /\ SameFirst(stack, t)
      /\ From(members, {stack[1].o}, q)
  <2>1. MarkFrames(mark, members, stack)
    BY <1>4 DEF MarkStage
  <2>. QED
    BY <1>2, <1>5, <1>6, <2>1, LookNext
<1>9. PICK r \in Obj : r = stack[1].o
  <2>1. stack[1] \in Frame
    BY <1>2
  <2>. QED
    BY <2>1 DEF Frame
<1>10. First(stack, r) /\ stack # <<>> /\ 1 \in DOMAIN stack
  BY <1>2, <1>9 DEF First
<1>11. members \in Table /\ ref_count_scan \in [Obj -> Nat]
  BY DEF HeapInv, TypeOK, Table
<1>12. PICK v : v = members[q][j]
  OBVIOUS
<1>13. v = Member /\ v \in Obj \cup {NoObj} /\ (v \in Obj => From(members, {r}, v))
  <2>1. v = Member /\ v \in Obj \cup {NoObj}
    BY <1>5, <1>12 DEF Member, HeapInv, TypeOK
  <2>. QED
    BY <1>8, <1>9, <1>12, <2>1, FromEdge, HeapAssumption
<1>14. ASSUME NextLooked(mark, stack, mark', stack', q, j), SameFirst(stack, stack'),
              MarkFrames(mark', members, stack'),
              MarksAdd(mark, mark', v), CountsAdd(ref_count_scan, ref_count_scan', v),
              Fresh(mark, ref_count_scan, v),
              ListDrops(isolated_roots, isolated_roots', v),
              ListDrops(unreferred_objects, unreferred_objects', v),
              stack' \in Seq(Frame), Marking(stack', ref_count_scan'),
              Marks(gc', state', mark', ref_count_scan', unreferred_objects', isolated_roots')
       PROVE  CInv'
  <2>1. /\ MarksPassOn(mark', members, stack')
        /\ MarksCounted(mark', members, stack', ref_count_scan')
        /\ MarkedRoots(mark', members, stack', isolated_roots')
    BY <1>4, <1>8, <1>9, <1>10, <1>11, <1>12, <1>14, LookStage
  <2>2. /\ \A x \in Obj : InList(unreferred_objects, x) => InList(unreferred_objects', x) \/ x = v
        /\ \A x \in Obj : InList(isolated_roots, x) => InList(isolated_roots', x) \/ x = v
    BY <1>14 DEF ListDrops
  <2>3. LostNow'
    BY <1>1, <1>3, <1>10, <1>13, <1>14, <2>2, MarkKeeps
  <2>. QED
    BY <1>1, <1>3, <1>14, <2>1, <2>3, MarkPhaseC
<1>15. CASE v = NoObj
  <2>1. stack' = t /\ UNCHANGED <<mark, ref_count_scan, unreferred_objects, isolated_roots>>
    BY <1>6, <1>13, <1>15 DEF MarkMember, scanVars, listVars
  <2>2. \A x \in Obj : x # v
    BY <1>15, HeapAssumption
  <2>3. /\ MarksAdd(mark, mark', v) /\ CountsAdd(ref_count_scan, ref_count_scan', v)
        /\ Fresh(mark, ref_count_scan, v)
        /\ ListDrops(isolated_roots, isolated_roots', v)
        /\ ListDrops(unreferred_objects, unreferred_objects', v)
    BY <1>11, <2>1, <2>2 DEF MarksAdd, CountsAdd, Fresh, ListDrops
  <2>4. Marks(gc', state', mark', ref_count_scan', unreferred_objects', isolated_roots')
    BY <1>1, <2>1 DEF CInv
  <2>. QED
    BY <1>7, <1>8, <1>14, <2>1, <2>3, <2>4
<1>16. CASE v # NoObj
  <2>1. PICK o \in Obj : o = v
    BY <1>13, <1>16
  <2>2. MarkVisit(o, t, 0)
    BY <1>6, <1>13, <1>16, <2>1 DEF MarkMember
  <2>3. state[o] = "live"
    BY <1>12, <2>1, Owned DEF HeapInv
  <2>4. /\ MarksAdd(mark, mark', o)
        /\ CountsAdd(ref_count_scan, ref_count_scan', o)
        /\ ListDrops(unreferred_objects, unreferred_objects', o)
        /\ ListDrops(isolated_roots, isolated_roots', o)
        /\ Fresh(mark, ref_count_scan, o)
        /\ Marks(gc', state', mark', ref_count_scan', unreferred_objects', isolated_roots')
    BY <1>1, <1>3, <2>2, <2>3, MarkVisitFacts
  <2>5. Marking(stack', ref_count_scan') /\ stack' \in Seq(Frame)
    BY <1>7, <2>2, MarkVisitStep DEF HeapInv
  <2>6. /\ SameLooked(mark, t, mark', stack')
        /\ MarkFrames(mark', members, stack')
        /\ SameFirst(t, stack')
    <3>1. CASE mark[o] = 1
      <4>1. stack' = t
        BY <2>2, <3>1 DEF MarkVisit
      <4>2. \A x \in Obj : mark'[x] = 1 <=> mark[x] = 1
        BY <2>4, <3>1 DEF MarksAdd
      <4>3. \A i \in DOMAIN t : t[i].o \in Obj
        <5>1. \A i \in DOMAIN t : t[i] \in Frame
          BY <1>7
        <5>. QED
          BY <5>1 DEF Frame
      <4>. QED
        BY <1>8, <4>1, <4>2, <4>3 DEF SameLooked, Looked, MarkFrames, SameFirst
    <3>2. CASE mark[o] # 1
      <4>1. PICK f \in Frame : f = [op |-> "mark", o |-> o, k |-> 1, st |-> 0]
        BY DEF Frame
      <4>2. stack' = Append(t, f) /\ f.k = 1 /\ f.st = 0 /\ f.o = o
        BY <2>2, <3>2, <4>1 DEF MarkVisit
      <4>3. t[1].o = r
        BY <1>7, <1>8, <1>10 DEF SameFirst, First
      <4>4. From(members, {t[1].o}, o)
        BY <1>13, <2>1, <4>3
      <4>. QED
        BY <1>7, <1>8, <2>4, <3>2, <4>2, <4>4, LookPush
    <3>. QED
      BY <3>1, <3>2
  <2>7. NextLooked(mark, stack, mark', stack', q, j)
    BY <1>8, <2>6 DEF NextLooked, SameLooked
  <2>8. SameFirst(stack, stack')
    BY <1>8, <2>6 DEF SameFirst
  <2>. QED
    BY <1>14, <2>1, <2>4, <2>5, <2>6, <2>7, <2>8
<1>. QED
  BY <1>15, <1>16

(* A frame returns: nothing more is looked at, and the roots stay.           *)
CountsFirst(s, n, s2, n2) ==
    \A x \in Obj : n2[x] + (IF First(s, x) THEN 1 ELSE 0) = n[x] + (IF First(s2, x) THEN 1 ELSE 0)
RootsMarked(mk, r) == \A x \in Obj : InList(r, x) => mk[x] = 1

LEMMA SettleStage ==
    ASSUME NEW mk, NEW m, NEW s, NEW n \in [Obj -> Nat], NEW r,
           NEW s2, NEW n2 \in [Obj -> Nat], NEW r2,
           MarkStage(mk, m, s, n, r), SameLooked(mk, s, mk, s2),
           Roots(s2, r2) = Roots(s, r), CountsFirst(s, n, s2, n2), RootsMarked(mk, r2)
    PROVE  MarksPassOn(mk, m, s2) /\ MarksCounted(mk, m, s2, n2) /\ MarkedRoots(mk, m, s2, r2)
<1>1. MarksPassOn(mk, m, s2)
  BY DEF MarkStage, MarksPassOn, SameLooked
<1>2. MarksCounted(mk, m, s2, n2)
  <2>1. SUFFICES ASSUME NEW x \in Obj, mk[x] = 1
                 PROVE  n2[x] = Cardinality(Seen(mk, m, s2, x)) + IF First(s2, x) THEN 1 ELSE 0
    BY DEF MarksCounted
  <2>2. Seen(mk, m, s2, x) = Seen(mk, m, s, x)
    BY DEF Seen, EdgesTo, SameLooked
  <2>3. Cardinality(Seen(mk, m, s, x)) \in Nat /\ n[x] \in Nat /\ n2[x] \in Nat
    BY SeenFinite
  <2>4. n[x] = Cardinality(Seen(mk, m, s, x)) + IF First(s, x) THEN 1 ELSE 0
    BY <2>1 DEF MarkStage, MarksCounted
  <2>5. n2[x] + (IF First(s, x) THEN 1 ELSE 0) = n[x] + (IF First(s2, x) THEN 1 ELSE 0)
    BY DEF CountsFirst
  <2>. QED
    BY <2>2, <2>3, <2>4, <2>5
<1>3. MarkedRoots(mk, m, s2, r2)
  <2>1. \A x \in Roots(s2, r2) : x \in Obj
    BY DEF Roots
  <2>. QED
    BY <2>1 DEF MarkStage, MarkedRoots, SameLooked, RootsMarked
<1>. QED
  BY <1>1, <1>2, <1>3

LEMMA MarkEndC ==
    ASSUME HeapInv, ListsInv, CInv, MarkEnd
    PROVE  CInv'
<1>1. /\ Running("mark") /\ Top.k > MaxMembers /\ stack' = Pop(stack)
      /\ UNCHANGED <<state, members, ext, gc, mark, unreferred_objects>>
  BY DEF MarkEnd, gcVars, objVars, ownVars
<1>2. /\ stack \in Seq(Frame) /\ Len(stack) > 0 /\ Len(stack) \in DOMAIN stack
      /\ Top = stack[Len(stack)] /\ Top.o \in Obj /\ Top.op = "mark"
  BY <1>1, TopFacts DEF HeapInv
<1>3. gc = "mark" /\ gc' = "mark"
  BY <1>1, <1>2 DEF HeapInv, StackSound
<1>4. MarkStage(mark, members, stack, ref_count_scan, isolated_roots)
  BY <1>3 DEF CInv
<1>5. MarkFrames(mark, members, stack)
  BY <1>4 DEF MarkStage
<1>6. PICK o \in Obj : o = Top.o
  BY <1>2
<1>7. mark[o] = 1 /\ (Top.st = 1 <=> Len(stack) = 1)
  BY <1>2, <1>5, <1>6 DEF MarkFrames
<1>8. PopFrames(stack, stack')
  BY <1>1, <1>2, PendingPop
<1>9. SameLooked(mark, stack, mark, stack')
  BY <1>8 DEF PopFrames, SameSlots, SameLooked, Looked
<1>10. MarkFrames(mark', members, stack')
  <2>1. /\ DOMAIN stack' \subseteq DOMAIN stack
        /\ \A i \in DOMAIN stack' : stack'[i] = stack[i]
        /\ stack' \in Seq(Frame)
    BY <1>8 DEF PopFrames
  <2>2. \A i \in DOMAIN stack' : 1 \in DOMAIN stack'
    BY <2>1
  <2>3. \A i \in DOMAIN stack' : /\ stack'[i].st = 1 <=> i = 1
                                 /\ mark[stack'[i].o] = 1
                                 /\ From(members, {stack'[1].o}, stack'[i].o)
    BY <1>5, <2>1, <2>2 DEF MarkFrames
  <2>4. \A i, j \in DOMAIN stack' : stack'[i].o = stack'[j].o => i = j
    BY <1>5, <2>1 DEF MarkFrames
  <2>. QED
    BY <1>1, <2>3, <2>4 DEF MarkFrames
<1>11. /\ mark \in [Obj -> 0 .. 3] /\ ref_count_scan \in [Obj -> Nat] /\ members \in Table
       /\ isolated_roots \in Seq(Obj) /\ Distinct(isolated_roots)
  BY DEF HeapInv, TypeOK, Table, ListsInv
<1>12. RootsMarked(mark, isolated_roots)
  BY <1>4 DEF MarkStage, MarkedRoots, RootsMarked
<1>13. Marking(stack, ref_count_scan)
  BY <1>3, CollectorStack DEF HeapInv
<1>14. Marks("mark", state, mark, ref_count_scan, unreferred_objects, isolated_roots)
  BY <1>3 DEF CInv
<1>15. CASE Top.st = 0
  <2>1. UNCHANGED <<ref_count_scan, isolated_roots>>
    BY <1>15 DEF MarkEnd
  <2>2. Len(stack) # 1
    BY <1>7, <1>15
  <2>3. SameFirst(stack, stack') /\ stack' \in Seq(Frame)
    BY <1>8, <2>2 DEF PopFrames, SameFirst
  <2>4. Roots(stack', isolated_roots') = Roots(stack, isolated_roots)
    BY <2>1, <2>3 DEF Roots, SameFirst
  <2>5. CountsFirst(stack, ref_count_scan, stack', ref_count_scan')
    BY <1>11, <2>1, <2>3 DEF CountsFirst, SameFirst
  <2>6. /\ MarksPassOn(mark, members, stack')
        /\ MarksCounted(mark, members, stack', ref_count_scan')
        /\ MarkedRoots(mark, members, stack', isolated_roots')
    BY <1>4, <1>9, <1>11, <1>12, <2>1, <2>4, <2>5, SettleStage
  <2>7. Marking(stack', ref_count_scan')
    BY <1>1, <1>2, <1>13, <2>1, CollectorPop
  <2>8. LostNow'
    <3>1. PICK q \in Obj : q = stack[1].o
      <4>1. stack[1] \in Frame
        BY <1>2
      <4>. QED
        BY <4>1 DEF Frame
    <3>2. First(stack, q)
      BY <1>2, <3>1 DEF First
    <3>3. NoObj \notin Obj
      BY HeapAssumption
    <3>4. /\ \A x \in Obj :
               InList(unreferred_objects, x) => InList(unreferred_objects', x) \/ x = NoObj
          /\ \A x \in Obj : InList(isolated_roots, x) => InList(isolated_roots', x) \/ x = NoObj
      BY <1>1, <2>1
    <3>. QED
      BY <1>1, <1>3, <1>10, <2>3, <2>7, <3>2, <3>3, <3>4, MarkKeeps
  <2>9. Marks(gc', state', mark', ref_count_scan', unreferred_objects', isolated_roots')
    BY <1>1, <1>3, <1>14, <2>1
  <2>. QED
    BY <1>1, <1>3, <1>10, <2>6, <2>8, <2>9, MarkPhaseC
<1>16. CASE Top.st = 1
  <2>1. /\ ref_count_scan' = [ref_count_scan EXCEPT ![o] = @ - 1]
        /\ isolated_roots' = <<o>> \o isolated_roots
    BY <1>6, <1>16 DEF MarkEnd
  <2>2. Len(stack) = 1
    BY <1>7, <1>16
  <2>3. FirstIs(stack, o) /\ stack' = <<>>
    BY <1>2, <1>6, <1>8, <2>2 DEF PopFrames, FirstIs, First
  <2>4. \A x : ~First(stack', x)
    BY <2>3 DEF First
  <2>5. \A x \in Obj : InList(isolated_roots', x) <=> InList(isolated_roots, x) \/ x = o
    <3>1. ~InList(isolated_roots, o)
      BY <1>2, <1>3, <1>6, <1>16 DEF ListsInv, Listed
    <3>. QED
      BY <1>11, <2>1, <3>1, PrependFacts
  <2>6. Roots(stack', isolated_roots') = Roots(stack, isolated_roots)
    BY <2>3, <2>4, <2>5 DEF Roots, FirstIs
  <2>7. ref_count_scan[o] > 0
    BY <1>2, <1>6, <1>13, <1>16 DEF Marking
  <2>8. /\ ref_count_scan' \in [Obj -> Nat]
        /\ CountsFirst(stack, ref_count_scan, stack', ref_count_scan')
    BY <1>11, <2>1, <2>3, <2>4, <2>7 DEF CountsFirst, FirstIs
  <2>9. RootsMarked(mark, isolated_roots')
    BY <1>7, <1>12, <2>5 DEF RootsMarked
  <2>10. /\ MarksPassOn(mark, members, stack')
         /\ MarksCounted(mark, members, stack', ref_count_scan')
         /\ MarkedRoots(mark, members, stack', isolated_roots')
    BY <1>4, <1>9, <1>11, <2>6, <2>8, <2>9, SettleStage
  <2>11. LostNow'
    <3>1. \A x : (\E f \in Elems(stack) : Anchors(f) /\ f.o = x) => x = o
      <4>1. \A i \in DOMAIN stack : stack[i].st = 1 <=> i = 1
        BY <1>5 DEF MarkFrames
      <4>. QED
        BY <1>2, <1>13, <2>3, <4>1, MarkAnchors DEF FirstIs
    <3>2. KnownNow \subseteq KnownNow'
      BY <1>1, <2>5, <3>1 DEF KnownNow, Known
    <3>. QED
      BY <1>1, <3>2, KeepAll, SameEdges
  <2>12. Marks(gc', state', mark', ref_count_scan', unreferred_objects', isolated_roots')
    <3>1. \A x \in Obj : mark[x] # 1 => ref_count_scan'[x] = ref_count_scan[x]
      BY <1>7, <1>11, <2>1
    <3>. QED
      BY <1>1, <1>3, <1>14, <2>5, <3>1 DEF Marks
  <2>. QED
    BY <1>1, <1>3, <1>10, <2>10, <2>11, <2>12, MarkPhaseC
<1>. QED
  BY <1>15, <1>16 DEF MarkEnd

-----------------------------------------------------------------------------
(* Scanning.                                                                 *)

(* What is left to show of a step of the scan.                               *)
LEMMA ScanPhaseC ==
    ASSUME HeapInv, CInv, gc \in {"mark", "scan"}, gc' = "scan", UNCHANGED <<state, members>>,
           LostNow',
           Marks(gc', state', mark', ref_count_scan', unreferred_objects', isolated_roots'),
           NEW M \in SUBSET Obj,
           Marked(M, mark', members, isolated_roots'),
           Decided(M, mark', members, stack', isolated_roots', cursor'),
           Counted(M, mark', members, ref_count_scan', ref_count'),
           InUse(M, state', mark', members, ext')
    PROVE  CInv'
<1>1. DyingFramed(state', Elems(stack'))
  BY NoneDying DEF DyingFramed
<1>2. ScanStage(M)'
  BY DEF ScanStage
<1>. QED
  BY <1>1, <1>2 DEF CInv, LostNow

(* The scan starts with M, the marked objects; what is not in M is reached   *)
(* from user code, for nothing has been lost.                                *)
LEMMA StartScanC ==
    ASSUME HeapInv, ListsInv, CInv, StartScan
    PROVE  CInv'
<1>1. /\ gc = "mark" /\ gc' = "scan" /\ stack = <<>> /\ unreferred_objects = <<>> /\ cursor' = 1
      /\ UNCHANGED <<state, ref_count, members, mark, ref_count_scan, unreferred_objects,
                     isolated_roots, ext, stack>>
  BY DEF StartScan, objVars, scanVars, listVars, ownVars
<1>2. MarkStage(mark, members, stack, ref_count_scan, isolated_roots)
  BY <1>1 DEF CInv
<1>3. Marks("mark", state, mark, ref_count_scan, unreferred_objects, isolated_roots)
  BY <1>1 DEF CInv
<1>4. PICK M \in SUBSET Obj : M = {x \in Obj : mark[x] = 1}
  OBVIOUS
<1>5. \A p, k : Looked(mark, stack, p, k) <=> mark[p] = 1
  BY <1>1 DEF Looked, Pending
<1>6. \A x : ~First(stack, x) /\ ~InList(unreferred_objects, x)
  BY <1>1 DEF First, InList
<1>7. Roots(stack, isolated_roots) = ListSet(isolated_roots)
  BY <1>6 DEF Roots, ListSet
<1>8. members \in Table /\ ref_count_scan \in [Obj -> Nat]
  BY DEF HeapInv, TypeOK, Table
<1>9. \A p \in Obj, k \in Slot : members[p][k] \in Obj \cup {NoObj}
  BY <1>8 DEF Table
<1>10. Marked(M, mark', members, isolated_roots')
  <2>1. ClosedIn(members, M)
    BY <1>2, <1>4, <1>5, <1>9 DEF ClosedIn, MarkStage, MarksPassOn
  <2>2. \A x \in Obj : x \notin M => mark[x] \notin {1, 2}
    BY <1>3, <1>4 DEF Marks
  <2>3. \A x \in Obj : InList(isolated_roots, x) => x \in M
    BY <1>2, <1>4 DEF MarkStage, MarkedRoots
  <2>4. \A x \in Obj : InList(isolated_roots, x) =>
           \A p \in M, k \in Slot : members[p][k] = x => From(members, {x}, p)
    <3>1. \A x \in Obj : InList(isolated_roots, x) => x \in Roots(stack, isolated_roots)
      BY DEF Roots
    <3>2. \A p \in M : p \in Obj /\ mark[p] = 1
      BY <1>4
    <3>. QED
      BY <1>2, <1>5, <3>1, <3>2 DEF MarkStage, MarkedRoots
  <2>5. \A x \in M : mark[x] # 3
    BY <1>4
  <2>6. Marked(M, mark, members, isolated_roots)
    BY <2>1, <2>2, <2>3, <2>4, <2>5 DEF Marked
  <2>. QED
    BY <1>1, <2>6
<1>11. Decided(M, mark', members, stack', isolated_roots', cursor')
  <2>1. \A x \in M : From(members, ListSet(isolated_roots), x)
    BY <1>2, <1>4, <1>7 DEF MarkStage, MarkedRoots
  <2>2. \A i \in DOMAIN isolated_roots : ~(i < 1)
    <3>1. isolated_roots \in Seq(Obj)
      BY DEF HeapInv, TypeOK
    <3>. QED
      BY <3>1
  <2>. QED
    BY <1>1, <1>4, <2>1, <2>2 DEF Decided
<1>12. Counted(M, mark', members, ref_count_scan', ref_count')
  <2>1. SUFFICES ASSUME NEW x \in M
                 PROVE  ref_count_scan[x] = Cardinality(Inner(M, members, x))
    BY <1>1, <1>4 DEF Counted
  <2>2. Seen(mark, members, stack, x) = Inner(M, members, x)
    BY <1>4, <1>5 DEF Seen, Inner, EdgesTo
  <2>3. ref_count_scan[x] = Cardinality(Seen(mark, members, stack, x)) + 0
    BY <1>2, <1>4, <1>6 DEF MarkStage, MarksCounted
  <2>4. Cardinality(Seen(mark, members, stack, x)) \in Nat
    BY SeenFinite
  <2>. QED
    BY <2>2, <2>3, <2>4
<1>13. InUse(M, state', mark', members, ext')
  <2>1. SUFFICES ASSUME NEW x \in Obj, x \notin M, state[x] = "live"
                 PROVE  From(members, Users(ext), x)
    BY <1>1, <1>4 DEF InUse
  <2>2. From(members, KnownNow, x)
    BY <2>1 DEF CInv, NothingLost, KnownNow
  <2>3. KnownNow \subseteq Users(ext) \cup ListSet(isolated_roots)
    <3>1. Elems(stack) = {}
      BY <1>1 DEF Elems
    <3>. QED
      BY <1>6, <3>1 DEF KnownNow, Known, Users, ListSet
  <2>4. From(members, Users(ext), x) \/ From(members, ListSet(isolated_roots), x)
    BY <2>2, <2>3, FromMono, FromSplit
  <2>5. ListSet(isolated_roots) \subseteq M /\ ClosedIn(members, M)
    BY <1>1, <1>10 DEF Marked, ListSet
  <2>. QED
    BY <2>1, <2>4, <2>5, FromClosed
<1>14. Marks(gc', state', mark', ref_count_scan', unreferred_objects', isolated_roots')
  BY <1>1, <1>3, <1>6 DEF Marks
<1>15. LostNow'
  BY <1>1 DEF CInv, LostNow
<1>. QED
  BY <1>1, <1>10, <1>11, <1>12, <1>13, <1>14, <1>15, ScanPhaseC

(* Scanning between two steps: of the slots of decided objects, those that   *)
(* refer to v may still be open.                                             *)
DecidedBut(M, mk, m, s, v, rev) ==
    /\ \A i \in DOMAIN s : s[i].o \in M /\ mk[s[i].o] # 1 /\ (s[i].st = 1 => mk[s[i].o] = 0)
    /\ \A p \in M, k \in Slot : mk[p] # 1 /\ m[p][k] # NoObj =>
         mk[m[p][k]] # 1 \/ Pending(s, p, k) \/ m[p][k] = v
    /\ \A p \in M, k \in Slot : mk[p] = 0 /\ m[p][k] # NoObj =>
         mk[m[p][k]] = 0 \/ Reviving(s, p, k) \/ (m[p][k] = v /\ rev = 1)

(* The visit finds the object decided, or decides it and scans its members.  *)
VisitDecides(mk, mk2, s, s2, o, rev) ==
    \/ s2 = s /\ mk2 = mk /\ mk[o] # 1 /\ (rev = 1 => mk[o] = 0)
    \/ \E f \in Frame : /\ s2 = Append(s, f) /\ f.o = o /\ f.k = 1 /\ f.op = "scan"
                        /\ \/ f.st = 1 /\ mk2 = [mk EXCEPT ![o] = 0]
                           \/ f.st = 0 /\ mk2 = [mk EXCEPT ![o] = 2] /\ mk[o] = 1 /\ rev # 1

LEMMA VisitDecided ==
    ASSUME NEW M \in SUBSET Obj, NEW mk \in [Obj -> 0 .. 3], NEW mk2, NEW m \in Table,
           NEW s \in Seq(Frame), NEW s2, NEW o \in M, NEW rev, ClosedIn(m, M),
           DecidedBut(M, mk, m, s, o, rev), VisitDecides(mk, mk2, s, s2, o, rev)
    PROVE  /\ DecidedBut(M, mk2, m, s2, NoObj, 0)
           /\ mk2[o] \in {0, 2, 3} /\ s2 \in Seq(Frame)
           /\ \A x \in Obj : mk[x] # 1 => mk2[x] # 1
<1>0. o \in Obj /\ \A p \in M : p \in Obj
  OBVIOUS
<1>1. CASE s2 = s /\ mk2 = mk /\ mk[o] # 1 /\ (rev = 1 => mk[o] = 0)
  BY <1>0, <1>1 DEF DecidedBut
<1>2. ASSUME NEW f \in Frame, s2 = Append(s, f), f.o = o, f.k = 1,
             NEW w \in {0, 2}, mk2 = [mk EXCEPT ![o] = w], f.st = 1 <=> w = 0,
             w = 2 => mk[o] = 1 /\ rev # 1
      PROVE  /\ DecidedBut(M, mk2, m, s2, NoObj, 0)
             /\ mk2[o] \in {0, 2, 3} /\ s2 \in Seq(Frame)
             /\ \A x \in Obj : mk[x] # 1 => mk2[x] # 1
  <2>1. PushFrames(s, s2, f)
    BY <1>2, PendingPush
  <2>2. /\ s2 \in Seq(Frame) /\ DOMAIN s2 = 1 .. Len(s) + 1
        /\ \A i \in DOMAIN s : s2[i] = s[i]
        /\ s2[Len(s) + 1] = f
    BY <2>1 DEF PushFrames
  <2>3. \A p : \A k \in Slot :
           /\ Pending(s2, p, k) <=> Pending(s, p, k) \/ p = o
           /\ Reviving(s2, p, k) <=> Reviving(s, p, k) \/ (p = o /\ f.st = 1)
    BY <1>2, <2>1 DEF PushFrames
  <2>4. \A i \in DOMAIN s2 : i \in DOMAIN s \/ i = Len(s) + 1
    BY <2>2
  <2>5. mk2[o] = w /\ \A x \in Obj : x # o => mk2[x] = mk[x]
    BY <1>0, <1>2
  <2>6. ASSUME NEW i \in DOMAIN s2
        PROVE  s2[i].o \in M /\ mk2[s2[i].o] # 1 /\ (s2[i].st = 1 => mk2[s2[i].o] = 0)
    <3>1. CASE i \in DOMAIN s
      <4>1. s[i].o \in M /\ mk[s[i].o] # 1 /\ (s[i].st = 1 => mk[s[i].o] = 0)
        BY <3>1 DEF DecidedBut
      <4>2. s2[i] = s[i]
        BY <2>2, <3>1
      <4>. QED
        BY <1>0, <1>2, <2>5, <4>1, <4>2
    <3>2. CASE i = Len(s) + 1
      BY <1>2, <2>2, <2>5, <3>2
    <3>. QED
      BY <2>4, <3>1, <3>2
  <2>7. ASSUME NEW p \in M, NEW k \in Slot, m[p][k] # NoObj
        PROVE  m[p][k] \in Obj
    BY <1>0, <2>7 DEF Table
  <2>8. ASSUME NEW p \in M, NEW k \in Slot, mk2[p] # 1, m[p][k] # NoObj
        PROVE  mk2[m[p][k]] # 1 \/ Pending(s2, p, k)
    <3>1. CASE p = o
      BY <2>3, <3>1
    <3>2. CASE p # o
      <4>1. mk[p] # 1 /\ m[p][k] \in Obj
        BY <1>0, <2>5, <2>7, <2>8, <3>2
      <4>2. mk[m[p][k]] # 1 \/ Pending(s, p, k) \/ m[p][k] = o
        BY <2>8, <4>1 DEF DecidedBut
      <4>. QED
        BY <1>2, <2>3, <2>5, <4>1, <4>2
    <3>. QED
      BY <3>1, <3>2
  <2>9. ASSUME NEW p \in M, NEW k \in Slot, mk2[p] = 0, m[p][k] # NoObj
        PROVE  mk2[m[p][k]] = 0 \/ Reviving(s2, p, k)
    <3>1. CASE p = o
      BY <1>2, <2>3, <2>5, <2>9, <3>1
    <3>2. CASE p # o
      <4>1. mk[p] = 0 /\ m[p][k] \in Obj
        BY <1>0, <2>5, <2>7, <2>9, <3>2
      <4>2. mk[m[p][k]] = 0 \/ Reviving(s, p, k) \/ (m[p][k] = o /\ rev = 1)
        BY <2>9, <4>1 DEF DecidedBut
      <4>. QED
        BY <1>2, <2>3, <2>5, <4>1, <4>2
    <3>. QED
      BY <3>1, <3>2
  <2>10. DecidedBut(M, mk2, m, s2, NoObj, 0)
    BY <2>6, <2>8, <2>9 DEF DecidedBut
  <2>. QED
    BY <1>2, <2>2, <2>5, <2>10
<1>3. ASSUME NEW f \in Frame, s2 = Append(s, f), f.o = o, f.k = 1,
             \/ f.st = 1 /\ mk2 = [mk EXCEPT ![o] = 0]
             \/ f.st = 0 /\ mk2 = [mk EXCEPT ![o] = 2] /\ mk[o] = 1 /\ rev # 1
      PROVE  /\ DecidedBut(M, mk2, m, s2, NoObj, 0)
             /\ mk2[o] \in {0, 2, 3} /\ s2 \in Seq(Frame)
             /\ \A x \in Obj : mk[x] # 1 => mk2[x] # 1
  BY <1>2, <1>3
<1>. QED
  BY <1>1, <1>3 DEF VisitDecides

(* An object referred to from elsewhere is in use.                           *)
LEMMA CountedShort ==
    ASSUME HeapInv, CInv, gc = "scan", NEW M \in SUBSET Obj, ScanStage(M), NEW o \in M,
           mark[o] # 0, ref_count_scan[o] # ref_count[o]
    PROVE  From(members, Users(ext), o)
<1>1. ref_count_scan[o] = Cardinality(Inner(M, members, o))
  BY DEF ScanStage, Counted
<1>2. Held(o) = 0
  <2>1. HoldersIn(stack, o) = {}
    BY CollectorStack, NoHolders DEF HeapInv
  <2>. QED
    BY <2>1, FS_EmptySet DEF Held
<1>3. ref_count[o] = ext[o] + Cardinality(EdgesTo(members, o)) /\ ext[o] \in Nat
  <2>1. /\ ref_count[o] = ext[o] + Held(o) + Cardinality(InEdges(o))
        /\ ext[o] \in Nat /\ Cardinality(InEdges(o)) \in Nat
    BY Owned DEF HeapInv, RefCountExact, TypeOK
  <2>. QED
    BY <1>2, <2>1 DEF InEdges
<1>4. Cardinality(EdgesTo(members, o)) \in Nat
  BY Owned DEF HeapInv, InEdges
<1>5. CASE ext[o] > 0
  BY <1>5, FromSelf DEF Users
<1>6. CASE Inner(M, members, o) # EdgesTo(members, o)
  <2>1. PICK e \in EdgesTo(members, o) : e[1] \notin M
    BY <1>6 DEF Inner
  <2>2. PICK p \in Obj, k \in Slot : p = e[1] /\ members[p][k] = o
    BY DEF EdgesTo
  <2>3. members[p][k] # NoObj
    BY <2>2, HeapAssumption
  <2>4. state[p] = "live"
    BY <2>3, NoneDying DEF HeapInv, DestroyedHoldsNothing, TypeOK
  <2>5. From(members, Users(ext), p)
    BY <2>1, <2>2, <2>4 DEF ScanStage, InUse
  <2>. QED
    BY <2>2, <2>3, <2>5, FromEdge
<1>. QED
  BY <1>1, <1>3, <1>4, <1>5, <1>6

(* What a visit of the scan does to marks and counts.                        *)
LEMMA ScanVisitFacts ==
    ASSUME HeapInv, CInv, gc = "scan", gc' = "scan", UNCHANGED <<state, members, ext, ref_count>>,
           UNCHANGED <<unreferred_objects, isolated_roots>>,
           NEW M \in SUBSET Obj, ScanStage(M), NEW o \in M, state[o] = "live",
           NEW rev, rev = 1 => From(members, Users(ext), o), NEW s, ScanVisit(o, rev, s)
    PROVE  /\ VisitDecides(mark, mark', s, stack', o, rev)
           /\ Marked(M, mark', members, isolated_roots')
           /\ Counted(M, mark', members, ref_count_scan', ref_count')
           /\ InUse(M, state', mark', members, ext')
           /\ Marks(gc', state', mark', ref_count_scan', unreferred_objects', isolated_roots')
<1>1. /\ mark \in [Obj -> 0 .. 3] /\ ref_count_scan \in [Obj -> Nat] /\ o \in Obj
      /\ \A x \in M : x \in Obj
  BY DEF HeapInv, TypeOK
<1>2. /\ Marked(M, mark, members, isolated_roots)
      /\ Counted(M, mark, members, ref_count_scan, ref_count)
      /\ InUse(M, state, mark, members, ext)
  BY DEF ScanStage
<1>3. Marks("scan", state, mark, ref_count_scan, unreferred_objects, isolated_roots)
  BY DEF CInv
<1>4. mark[o] \in {0, 1, 2}
  BY <1>1, <1>2 DEF Marked
<1>5. PICK inUse \in BOOLEAN : inUse <=> rev = 1 \/ ref_count_scan[o] # ref_count[o]
  OBVIOUS
<1>6. PICK w \in {0, 2} : w = IF inUse \/ mark[o] = 0 THEN 0 ELSE 2
  OBVIOUS
<1>7. PICK c \in Nat : c = IF inUse /\ mark[o] # 0 THEN 0 ELSE ref_count_scan[o]
  BY <1>1
<1>8. mark' = [mark EXCEPT ![o] = w]
  <2>1. CASE inUse
    BY <1>5, <1>6, <2>1 DEF ScanVisit
  <2>2. CASE ~inUse
    BY <1>5, <1>6, <2>2 DEF ScanVisit
  <2>. QED
    BY <2>1, <2>2
<1>9. ref_count_scan' = [ref_count_scan EXCEPT ![o] = c]
  <2>1. CASE inUse
    BY <1>5, <1>7, <2>1 DEF ScanVisit
  <2>2. CASE ~inUse
    <3>1. ref_count_scan' = ref_count_scan
      BY <1>5, <2>2 DEF ScanVisit
    <3>. QED
      BY <1>1, <1>7, <2>2, <3>1
  <2>. QED
    BY <2>1, <2>2
<1>10. /\ mark'[o] = w /\ \A x \in Obj : x # o => mark'[x] = mark[x]
       /\ ref_count_scan'[o] = c /\ \A x \in Obj : x # o => ref_count_scan'[x] = ref_count_scan[x]
  BY <1>1, <1>8, <1>9
<1>11. VisitDecides(mark, mark', s, stack', o, rev)
  <2>1. CASE mark[o] = 0 \/ (mark[o] = 2 /\ ~inUse)
    <3>1. stack' = s
      BY <1>5, <2>1 DEF ScanVisit
    <3>2. mark' = mark
      BY <1>1, <1>6, <1>8, <2>1
    <3>. QED
      BY <1>5, <2>1, <3>1, <3>2 DEF VisitDecides
  <2>2. CASE inUse /\ mark[o] # 0
    <3>1. PICK f \in Frame : f = [op |-> "scan", o |-> o, k |-> 1, st |-> 1]
      BY <1>1 DEF Frame
    <3>2. stack' = Append(s, f) /\ f.o = o /\ f.k = 1 /\ f.op = "scan" /\ f.st = 1
      BY <1>5, <2>2, <3>1 DEF ScanVisit
    <3>3. mark' = [mark EXCEPT ![o] = 0]
      BY <1>6, <1>8, <2>2
    <3>. QED
      BY <3>2, <3>3 DEF VisitDecides
  <2>3. CASE mark[o] = 1 /\ ~inUse
    <3>1. PICK f \in Frame : f = [op |-> "scan", o |-> o, k |-> 1, st |-> 0]
      BY <1>1 DEF Frame
    <3>2. stack' = Append(s, f) /\ f.o = o /\ f.k = 1 /\ f.op = "scan" /\ f.st = 0
      BY <1>5, <2>3, <3>1 DEF ScanVisit
    <3>3. mark' = [mark EXCEPT ![o] = 2]
      BY <1>6, <1>8, <2>3
    <3>4. rev # 1
      BY <1>5, <2>3
    <3>. QED
      BY <2>3, <3>2, <3>3, <3>4 DEF VisitDecides
  <2>. QED
    BY <1>4, <2>1, <2>2, <2>3
<1>12. Marked(M, mark', members, isolated_roots')
  <2>1. Marked(M, mark', members, isolated_roots)
    BY <1>1, <1>2, <1>10 DEF Marked
  <2>. QED
    BY <2>1
<1>13. Counted(M, mark', members, ref_count_scan', ref_count')
  <2>1. SUFFICES ASSUME NEW x \in M
                 PROVE  /\ mark'[x] # 0 => ref_count_scan'[x] = Cardinality(Inner(M, members, x))
                        /\ mark'[x] = 2 => ref_count_scan'[x] = ref_count[x]
    BY DEF Counted
  <2>2. CASE x # o
    BY <1>1, <1>2, <1>10, <2>2 DEF Counted
  <2>3. CASE x = o
    BY <1>2, <1>5, <1>6, <1>7, <1>10, <2>3 DEF Counted
  <2>. QED
    BY <2>2, <2>3
<1>14. InUse(M, state', mark', members, ext')
  <2>1. SUFFICES ASSUME NEW x \in Obj,
                        (x \in M /\ mark'[x] = 0) \/ (x \notin M /\ state[x] = "live")
                 PROVE  From(members, Users(ext), x)
    BY DEF InUse
  <2>2. CASE x # o
    BY <1>2, <1>10, <2>1, <2>2 DEF InUse
  <2>3. CASE x = o /\ mark[o] = 0
    BY <1>2, <2>3 DEF InUse
  <2>4. CASE x = o /\ mark[o] # 0
    <3>1. inUse
      BY <1>6, <1>10, <2>1, <2>4
    <3>. QED
      BY <1>5, <2>4, <3>1, CountedShort
  <2>. QED
    BY <2>2, <2>3, <2>4
<1>15. Marks("scan", state, mark', ref_count_scan', unreferred_objects, isolated_roots)
  <2>1. w = 0 => c = 0
    BY <1>1, <1>3, <1>6, <1>7 DEF Marks
  <2>2. ~InList(unreferred_objects, o)
    BY <1>1, <1>3 DEF Marks
  <2>3. SUFFICES ASSUME NEW x \in Obj
                 PROVE  /\ mark'[x] = 0 => ref_count_scan'[x] = 0
                        /\ state[x] = "free" => mark'[x] = 0
                        /\ mark'[x] \in {1, 2} => state[x] = "live"
                        /\ state[x] = "live" => mark'[x] \in {0, 1, 2}
                        /\ ~InList(unreferred_objects, x)
    BY DEF Marks
  <2>4. CASE x = o
    BY <1>10, <2>1, <2>2, <2>4
  <2>5. CASE x # o
    BY <1>3, <1>10, <2>5 DEF Marks
  <2>. QED
    BY <2>4, <2>5
<1>. QED
  BY <1>11, <1>12, <1>13, <1>14, <1>15

(* The scan loses nothing: it owns nothing and changes no list.              *)
LEMMA ScanKeeps ==
    ASSUME HeapInv, CInv, gc = "scan",
           UNCHANGED <<state, members, ext, unreferred_objects, isolated_roots>>
    PROVE  LostNow'
<1>1. \A f \in Elems(stack) : ~Anchors(f)
  BY CollectorStack DEF HeapInv, Scanning, Elems, Anchors
<1>2. KnownNow \subseteq KnownNow'
  BY <1>1 DEF KnownNow, Known
<1>. QED
  BY <1>2, KeepAll, SameEdges

(* The parts of Decided.                                                     *)
RootsDone(mk, r, c) == c > 0 /\ \A i \in DOMAIN r : i < c => mk[r[i]] # 1
AllFromRoots(M, m, r) == \A x \in M : From(m, ListSet(r), x)

LEMMA DecidedParts ==
    ASSUME NEW M, NEW mk, NEW m, NEW s, NEW r, NEW c
    PROVE  /\ Decided(M, mk, m, s, r, c) => DecidedBut(M, mk, m, s, NoObj, 0) /\ RootsDone(mk, r, c)
           /\ /\ DecidedBut(M, mk, m, s, NoObj, 0) /\ RootsDone(mk, r, c)
              /\ AllFromRoots(M, m, r) \/ (s = <<>> /\ c > Len(r) /\ \A x \in M : mk[x] # 1)
              => Decided(M, mk, m, s, r, c)
           /\ Decided(M, mk, m, s, r, c) /\ (s # <<>> \/ ~(c > Len(r))) => AllFromRoots(M, m, r)
  BY DEF Decided, DecidedBut, RootsDone, AllFromRoots

(* The top frame goes on, and what its slot referred to is open.             *)
LEMMA ScanNext ==
    ASSUME NEW M, NEW mk, NEW m, NEW s \in Seq(Frame), Len(s) > 0, NEW t, t = NextSlot(s),
           NEW q \in Obj, NEW j \in Slot, q = s[Len(s)].o, j = s[Len(s)].k,
           DecidedBut(M, mk, m, s, NoObj, 0)
    PROVE  DecidedBut(M, mk, m, t, m[q][j], s[Len(s)].st)
<1>1. NextFrames(s, t, q, j)
  BY PendingNext
<1>2. /\ DOMAIN t = DOMAIN s
      /\ \A i \in DOMAIN s : t[i].o = s[i].o /\ t[i].st = s[i].st
  BY <1>1 DEF NextFrames
<1>3. \A k \in Slot : k \in Nat
  BY HeapAssumption DEF Slot
<1>4. \A p : \A k \in Slot :
         /\ Pending(s, p, k) => Pending(t, p, k) \/ (p = q /\ k = j)
         /\ Reviving(s, p, k) => Reviving(t, p, k) \/ (p = q /\ k = j /\ s[Len(s)].st = 1)
  BY <1>1, <1>3 DEF NextFrames
<1>5. \A i \in DOMAIN t : t[i].o \in M /\ mk[t[i].o] # 1 /\ (t[i].st = 1 => mk[t[i].o] = 0)
  BY <1>2 DEF DecidedBut
<1>6. ASSUME NEW p \in M, NEW k \in Slot, mk[p] # 1, m[p][k] # NoObj
      PROVE  mk[m[p][k]] # 1 \/ Pending(t, p, k) \/ m[p][k] = m[q][j]
  BY <1>4, <1>6 DEF DecidedBut
<1>7. ASSUME NEW p \in M, NEW k \in Slot, mk[p] = 0, m[p][k] # NoObj
      PROVE  mk[m[p][k]] = 0 \/ Reviving(t, p, k) \/ (m[p][k] = m[q][j] /\ s[Len(s)].st = 1)
  BY <1>4, <1>7 DEF DecidedBut
<1>. QED
  BY <1>5, <1>6, <1>7 DEF DecidedBut

(* A visit, of a root or of a member.                                        *)
LEMMA ScanVisitC ==
    ASSUME HeapInv, CInv, gc = "scan", gc' = "scan", UNCHANGED <<state, members, ext, ref_count>>,
           UNCHANGED <<unreferred_objects, isolated_roots>>,
           NEW M \in SUBSET Obj, ScanStage(M), NEW o \in M, state[o] = "live",
           NEW rev, rev = 1 => From(members, Users(ext), o),
           NEW s \in Seq(Frame), ScanVisit(o, rev, s),
           DecidedBut(M, mark, members, s, o, rev),
           AllFromRoots(M, members, isolated_roots),
           \/ cursor' = cursor
           \/ cursor' = cursor + 1 /\ cursor \in DOMAIN isolated_roots /\ isolated_roots[cursor] = o
    PROVE  CInv'
<1>1. /\ VisitDecides(mark, mark', s, stack', o, rev)
      /\ Marked(M, mark', members, isolated_roots')
      /\ Counted(M, mark', members, ref_count_scan', ref_count')
      /\ InUse(M, state', mark', members, ext')
      /\ Marks(gc', state', mark', ref_count_scan', unreferred_objects', isolated_roots')
  BY ScanVisitFacts
<1>2. LostNow'
  BY ScanKeeps
<1>3. /\ DecidedBut(M, mark', members, stack', NoObj, 0)
      /\ mark'[o] \in {0, 2, 3}
      /\ \A x \in Obj : mark[x] # 1 => mark'[x] # 1
  <2>1. mark \in [Obj -> 0 .. 3] /\ members \in Table
    BY DEF HeapInv, TypeOK, Table
  <2>2. ClosedIn(members, M)
    BY DEF ScanStage, Marked
  <2>. QED
    BY <1>1, <2>1, <2>2, VisitDecided
<1>4. RootsDone(mark', isolated_roots', cursor')
  <2>1. RootsDone(mark, isolated_roots, cursor)
    BY DecidedParts DEF ScanStage
  <2>2. /\ cursor \in Nat /\ DOMAIN isolated_roots = 1 .. Len(isolated_roots)
        /\ \A i \in DOMAIN isolated_roots : isolated_roots[i] \in Obj
        /\ Len(isolated_roots) \in Nat
    BY DEF HeapInv, TypeOK
  <2>3. cursor' > 0
    BY <2>1, <2>2 DEF RootsDone
  <2>4. ASSUME NEW i \in DOMAIN isolated_roots, i < cursor'
        PROVE  mark'[isolated_roots[i]] # 1
    <3>1. CASE i < cursor
      BY <1>3, <2>1, <2>2, <3>1 DEF RootsDone
    <3>2. CASE ~(i < cursor)
      <4>1. i = cursor /\ isolated_roots[cursor] = o
        BY <2>2, <2>4, <3>2
      <4>. QED
        BY <1>3, <4>1
    <3>. QED
      BY <3>1, <3>2
  <2>. QED
    BY <2>3, <2>4 DEF RootsDone
<1>5. Decided(M, mark', members, stack', isolated_roots', cursor')
  <2>1. AllFromRoots(M, members, isolated_roots')
    OBVIOUS
  <2>. QED
    BY <1>3, <1>4, <2>1, DecidedParts
<1>. QED
  BY <1>1, <1>2, <1>5, ScanPhaseC

LEMMA ScanRootC ==
    ASSUME HeapInv, ListsInv, CInv, ScanRoot
    PROVE  CInv'
<1>1. /\ gc = "scan" /\ gc' = "scan" /\ stack = <<>> /\ cursor \in DOMAIN isolated_roots
      /\ cursor' = cursor + 1 /\ ScanVisit(isolated_roots[cursor], 0, stack)
      /\ UNCHANGED <<state, members, ext, ref_count>>
      /\ UNCHANGED <<unreferred_objects, isolated_roots>>
  BY DEF ScanRoot, objVars, listVars, ownVars
<1>2. PICK M \in SUBSET Obj : ScanStage(M)
  BY <1>1 DEF CInv
<1>3. isolated_roots \in Seq(Obj) /\ stack \in Seq(Frame)
  BY DEF HeapInv, TypeOK
<1>4. PICK o \in Obj : o = isolated_roots[cursor]
  BY <1>1, <1>3
<1>5. InList(isolated_roots, o)
  BY <1>1, <1>4 DEF InList
<1>6. o \in M /\ state[o] = "live"
  BY <1>2, <1>5 DEF ScanStage, Marked, ListsInv, Listed
<1>7. Decided(M, mark, members, stack, isolated_roots, cursor)
  BY <1>2 DEF ScanStage
<1>8. ~(cursor > Len(isolated_roots))
  BY <1>1, <1>3
<1>9. AllFromRoots(M, members, isolated_roots) /\ DecidedBut(M, mark, members, stack, NoObj, 0)
  BY <1>7, <1>8, DecidedParts
<1>10. DecidedBut(M, mark, members, stack, o, 0)
  BY <1>9 DEF DecidedBut
<1>11. ScanVisit(o, 0, stack)
  BY <1>1, <1>4
<1>12. PICK rev : rev = 0
  OBVIOUS
<1>13. /\ rev = 1 => From(members, Users(ext), o)
       /\ ScanVisit(o, rev, stack) /\ DecidedBut(M, mark, members, stack, o, rev)
  BY <1>10, <1>11, <1>12
<1>14. isolated_roots[cursor] = o
  BY <1>4
<1>. QED
  BY <1>1, <1>2, <1>3, <1>6, <1>9, <1>13, <1>14, ScanVisitC

LEMMA ScanMemberC ==
    ASSUME HeapInv, ListsInv, CInv, ScanMember
    PROVE  CInv'
<1>1. /\ Running("scan") /\ Top.k \in Slot
      /\ UNCHANGED <<state, members, ext, ref_count>>
      /\ UNCHANGED <<unreferred_objects, isolated_roots>> /\ UNCHANGED <<gc, cursor>>
  BY DEF ScanMember, objVars, listVars, ownVars, gcVars
<1>2. /\ stack \in Seq(Frame) /\ Len(stack) > 0 /\ Len(stack) \in DOMAIN stack
      /\ Top = stack[Len(stack)] /\ Top.o \in Obj /\ Top.op = "scan"
  BY <1>1, TopFacts DEF HeapInv
<1>3. gc = "scan" /\ gc' = "scan" /\ stack # <<>>
  BY <1>1, <1>2 DEF HeapInv, StackSound
<1>4. PICK M \in SUBSET Obj : ScanStage(M)
  BY <1>3 DEF CInv
<1>5. Decided(M, mark, members, stack, isolated_roots, cursor)
  BY <1>4 DEF ScanStage
<1>6. /\ AllFromRoots(M, members, isolated_roots) /\ DecidedBut(M, mark, members, stack, NoObj, 0)
      /\ RootsDone(mark, isolated_roots, cursor)
  BY <1>3, <1>5, DecidedParts
<1>7. PICK q \in Obj, j \in Slot : q = Top.o /\ j = Top.k
  BY <1>1, <1>2
<1>8. PICK t : t = NextSlot(stack)
  OBVIOUS
<1>9. t \in Seq(Frame)
  BY <1>2, <1>8, CollectorNext
<1>10. DecidedBut(M, mark, members, t, members[q][j], Top.st)
  BY <1>2, <1>6, <1>7, <1>8, ScanNext
<1>11. Member = members[q][j] /\ Member \in Obj \cup {NoObj}
  BY <1>7 DEF Member, HeapInv, TypeOK
<1>12. CASE Member = NoObj
  <2>1. stack' = t /\ UNCHANGED <<mark, ref_count_scan>>
    BY <1>8, <1>12 DEF ScanMember, scanVars
  <2>2. DecidedBut(M, mark, members, t, NoObj, 0)
    BY <1>10, <1>11, <1>12 DEF DecidedBut
  <2>3. Decided(M, mark', members, stack', isolated_roots', cursor')
    BY <1>1, <1>6, <2>1, <2>2, DecidedParts
  <2>4. /\ Marked(M, mark', members, isolated_roots')
        /\ Counted(M, mark', members, ref_count_scan', ref_count')
        /\ InUse(M, state', mark', members, ext')
    BY <1>1, <1>4, <2>1 DEF ScanStage
  <2>5. Marks(gc', state', mark', ref_count_scan', unreferred_objects', isolated_roots')
    BY <1>1, <2>1 DEF CInv
  <2>6. LostNow'
    BY <1>1, <1>3, ScanKeeps
  <2>. QED
    BY <1>1, <1>3, <2>3, <2>4, <2>5, <2>6, ScanPhaseC
<1>13. CASE Member # NoObj
  <2>1. PICK o \in Obj : o = members[q][j]
    BY <1>11, <1>13
  <2>2. ScanVisit(o, Top.st, t)
    BY <1>8, <1>11, <1>13, <2>1 DEF ScanMember
  <2>3. state[o] = "live"
    BY <2>1, Owned DEF HeapInv
  <2>4. q \in M /\ mark[q] # 1 /\ (Top.st = 1 => mark[q] = 0)
    BY <1>2, <1>6, <1>7 DEF DecidedBut
  <2>5. o \in M
    BY <1>4, <1>11, <1>13, <2>1, <2>4 DEF ScanStage, Marked, ClosedIn
  <2>6. ASSUME Top.st = 1
        PROVE  From(members, Users(ext), o)
    <3>1. From(members, Users(ext), q)
      BY <1>4, <2>4, <2>6 DEF ScanStage, InUse
    <3>. QED
      BY <1>11, <1>13, <2>1, <3>1, FromEdge
  <2>7. DecidedBut(M, mark, members, t, o, Top.st)
    BY <1>10, <2>1
  <2>. QED
    BY <1>1, <1>3, <1>4, <1>6, <1>9, <2>2, <2>3, <2>5, <2>6, <2>7, ScanVisitC
<1>. QED
  BY <1>12, <1>13

LEMMA ScanEndC ==
    ASSUME HeapInv, ListsInv, CInv, ScanEnd
    PROVE  CInv'
<1>1. /\ Running("scan") /\ Top.k > MaxMembers /\ stack' = Pop(stack)
      /\ UNCHANGED <<state, members, ext, ref_count>> /\ UNCHANGED <<mark, ref_count_scan>>
      /\ UNCHANGED <<unreferred_objects, isolated_roots>> /\ UNCHANGED <<gc, cursor>>
  BY DEF ScanEnd, objVars, scanVars, listVars, ownVars, gcVars
<1>2. /\ stack \in Seq(Frame) /\ Len(stack) > 0 /\ Len(stack) \in DOMAIN stack
      /\ Top = stack[Len(stack)] /\ Top.o \in Obj /\ Top.op = "scan"
  BY <1>1, TopFacts DEF HeapInv
<1>3. gc = "scan" /\ gc' = "scan" /\ stack # <<>>
  BY <1>1, <1>2 DEF HeapInv, StackSound
<1>4. PICK M \in SUBSET Obj : ScanStage(M)
  BY <1>3 DEF CInv
<1>5. Decided(M, mark, members, stack, isolated_roots, cursor)
  BY <1>4 DEF ScanStage
<1>6. /\ AllFromRoots(M, members, isolated_roots) /\ DecidedBut(M, mark, members, stack, NoObj, 0)
      /\ RootsDone(mark, isolated_roots, cursor)
  BY <1>3, <1>5, DecidedParts
<1>7. PopFrames(stack, stack')
  BY <1>1, <1>2, PendingPop
<1>8. DecidedBut(M, mark, members, stack', NoObj, 0)
  <2>1. /\ DOMAIN stack' \subseteq DOMAIN stack
        /\ \A i \in DOMAIN stack' : stack'[i] = stack[i]
        /\ SameSlots(stack, stack')
    BY <1>7 DEF PopFrames
  <2>2. \A i \in DOMAIN stack' : /\ stack'[i].o \in M /\ mark[stack'[i].o] # 1
                                 /\ stack'[i].st = 1 => mark[stack'[i].o] = 0
    BY <1>6, <2>1 DEF DecidedBut
  <2>. QED
    BY <1>6, <2>1, <2>2 DEF DecidedBut, SameSlots
<1>9. Decided(M, mark', members, stack', isolated_roots', cursor')
  BY <1>1, <1>6, <1>8, DecidedParts
<1>10. /\ Marked(M, mark', members, isolated_roots')
       /\ Counted(M, mark', members, ref_count_scan', ref_count')
       /\ InUse(M, state', mark', members, ext')
  BY <1>1, <1>4 DEF ScanStage
<1>11. Marks(gc', state', mark', ref_count_scan', unreferred_objects', isolated_roots')
  BY <1>1 DEF CInv
<1>12. LostNow'
  BY <1>1, <1>3, ScanKeeps
<1>. QED
  BY <1>1, <1>3, <1>9, <1>10, <1>11, <1>12, ScanPhaseC

(* The end of the scan: every marked object is decided, and what a revived   *)
(* object refers to is revived.                                              *)
RevivesAll(M, mk, m) ==
    \A p \in M, k \in Slot : mk[p] = 0 /\ m[p][k] # NoObj => mk[m[p][k]] = 0

LEMMA AllDecided ==
    ASSUME NEW M \in SUBSET Obj, NEW mk, NEW m, NEW s, NEW r \in Seq(Obj), NEW c \in Nat,
           Marked(M, mk, m, r), Decided(M, mk, m, s, r, c), s = <<>>, c \notin DOMAIN r
    PROVE  /\ \A x \in M : mk[x] # 1
           /\ RevivesAll(M, mk, m)
           /\ c > Len(r)
<1>0. \A p, k : ~Pending(s, p, k) /\ ~Reviving(s, p, k)
  BY DEF Pending, Reviving
<1>1. c > Len(r)
  BY DEF Decided
<1>2. CASE AllFromRoots(M, m, r)
  <2>. DEFINE T == {x \in M : mk[x] # 1}
  <2>1. ClosedIn(m, T)
    BY <1>0 DEF ClosedIn, Marked, Decided
  <2>2. ListSet(r) \subseteq T
    <3>1. SUFFICES ASSUME NEW x \in Obj, InList(r, x)
                   PROVE  x \in M /\ mk[x] # 1
      BY DEF ListSet
    <3>2. PICK i \in DOMAIN r : r[i] = x
      BY <3>1 DEF InList
    <3>3. i < c
      BY <1>1
    <3>. QED
      BY <3>1, <3>2, <3>3 DEF Marked, Decided
  <2>3. T \in SUBSET Obj
    OBVIOUS
  <2>4. T \subseteq M /\ \A x \in T : mk[x] # 1
    OBVIOUS
  <2>. HIDE DEF T
  <2>5. \A x \in M : x \in T
    BY <1>2, <2>1, <2>2, <2>3, FromClosed DEF AllFromRoots
  <2>. QED
    BY <1>0, <1>1, <2>4, <2>5 DEF Decided, RevivesAll
<1>3. CASE \A x \in M : mk[x] # 1
  BY <1>0, <1>1, <1>3 DEF Decided, RevivesAll
<1>. QED
  BY <1>2, <1>3 DEF Decided, AllFromRoots

LEMMA WithoutShorter ==
    ASSUME NEW list \in Seq(Obj), NEW o
    PROVE  Len(Without(list, o)) <= Len(list)
<1>1. CASE ~InList(list, o)
  BY <1>1 DEF Without
<1>2. CASE InList(list, o)
  <2>1. PICK i \in DOMAIN list : i = Position(list, o)
    BY <1>2 DEF InList, Position
  <2>2. Without(list, o) = SubSeq(list, 1, i - 1) \o SubSeq(list, i + 1, Len(list))
    BY <1>2, <2>1 DEF Without
  <2>3. i \in 1 .. Len(list) /\ Len(list) \in Nat
    OBVIOUS
  <2>4. /\ SubSeq(list, 1, i - 1) \in Seq(Obj) /\ Len(SubSeq(list, 1, i - 1)) = i - 1
        /\ SubSeq(list, i + 1, Len(list)) \in Seq(Obj)
        /\ Len(SubSeq(list, i + 1, Len(list))) = Len(list) - i
    BY <2>3
  <2>. QED
    BY <2>2, <2>3, <2>4
<1>. QED
  BY <1>1, <1>2

(* A root that is dropped is in use, so that it is not lost.                 *)
LEMMA DropRevivedC ==
    ASSUME HeapInv, ListsInv, CInv, DropRevived
    PROVE  CInv'
<1>1. /\ gc = "scan" /\ gc' = "scan" /\ stack = <<>> /\ cursor \notin DOMAIN isolated_roots
      /\ UNCHANGED <<state, ref_count, members, mark, ref_count_scan, unreferred_objects,
                     ext, cursor, stack>>
  BY DEF DropRevived, objVars, scanVars, ownVars, gcVars
<1>2. isolated_roots \in Seq(Obj) /\ cursor \in Nat /\ Distinct(isolated_roots)
  BY DEF HeapInv, TypeOK, ListsInv
<1>3. PICK i \in DOMAIN isolated_roots :
         /\ mark[isolated_roots[i]] # 2
         /\ isolated_roots' = Without(isolated_roots, isolated_roots[i])
  BY DEF DropRevived
<1>4. PICK o \in Obj : o = isolated_roots[i]
  BY <1>2
<1>5. InList(isolated_roots, o) /\ mark[o] # 2
  BY <1>3, <1>4 DEF InList
<1>6. ListDrops(isolated_roots, isolated_roots', o)
  BY <1>2, <1>3, <1>4, WithoutFacts DEF ListDrops
<1>7. Len(isolated_roots') <= Len(isolated_roots) /\ isolated_roots' \in Seq(Obj)
  BY <1>2, <1>3, <1>4, WithoutShorter, WithoutType
<1>8. PICK M \in SUBSET Obj : ScanStage(M)
  BY <1>1 DEF CInv
<1>9. /\ Marked(M, mark, members, isolated_roots)
      /\ Decided(M, mark, members, stack, isolated_roots, cursor)
  BY <1>8 DEF ScanStage
<1>10. /\ \A x \in M : mark[x] # 1
       /\ cursor > Len(isolated_roots)
  BY <1>1, <1>2, <1>9, AllDecided
<1>11. Marked(M, mark', members, isolated_roots')
  <2>1. Marked(M, mark, members, isolated_roots')
    BY <1>6, <1>9 DEF Marked, ListDrops
  <2>. QED
    BY <1>1, <2>1
<1>12. Decided(M, mark', members, stack', isolated_roots', cursor')
  <2>1. DecidedBut(M, mark, members, stack, NoObj, 0) /\ cursor > 0
    BY <1>9, DecidedParts DEF RootsDone
  <2>2. RootsDone(mark, isolated_roots', cursor)
    <3>1. ASSUME NEW j \in DOMAIN isolated_roots'
          PROVE  mark[isolated_roots'[j]] # 1
      <4>1. PICK x \in Obj : x = isolated_roots'[j]
        BY <1>7
      <4>2. InList(isolated_roots', x)
        BY <4>1 DEF InList
      <4>3. x \in M
        BY <1>1, <1>11, <4>2 DEF Marked
      <4>. QED
        BY <1>10, <4>1, <4>3
    <3>. QED
      BY <2>1, <3>1 DEF RootsDone
  <2>3. cursor > Len(isolated_roots')
    <3>1. Len(isolated_roots) \in Nat /\ Len(isolated_roots') \in Nat
      BY <1>2, <1>7
    <3>. QED
      BY <1>2, <1>7, <1>10, <3>1
  <2>4. Decided(M, mark, members, stack, isolated_roots', cursor)
    BY <1>1, <1>10, <2>1, <2>2, <2>3, DecidedParts
  <2>. QED
    BY <1>1, <2>4
<1>13. /\ Counted(M, mark', members, ref_count_scan', ref_count')
       /\ InUse(M, state', mark', members, ext')
  BY <1>1, <1>8 DEF ScanStage
<1>14. Marks(gc', state', mark', ref_count_scan', unreferred_objects', isolated_roots')
  BY <1>1 DEF CInv, Marks
<1>15. LostNow'
  <2>1. From(members, Users(ext), o)
    <3>1. o \in M /\ mark[o] # 1 /\ mark[o] # 3
      BY <1>5, <1>9, <1>10 DEF Marked
    <3>2. mark[o] = 0
      BY <1>5, <3>1 DEF HeapInv, TypeOK
    <3>. QED
      BY <1>8, <3>1, <3>2 DEF ScanStage, InUse
  <2>2. PICK K : K = Known(ext', Elems(stack'), unreferred_objects', isolated_roots')
    OBVIOUS
  <2>3. Users(ext) \subseteq K
    BY <1>1, <2>2 DEF Users, Known
  <2>4. ASSUME NEW y \in Known(ext, Elems(stack), unreferred_objects, isolated_roots)
        PROVE  From(members, K, y)
    <3>1. y \in K \/ y = o
      BY <1>1, <1>6, <2>2 DEF Known, ListDrops
    <3>. QED
      BY <2>1, <2>3, <3>1, FromSelf, FromMono
  <2>5. NothingLost(state, members, ext, Elems(stack), unreferred_objects, isolated_roots)
    BY DEF CInv
  <2>6. NothingLost(state, members, ext', Elems(stack'), unreferred_objects', isolated_roots')
    BY <2>2, <2>4, <2>5, LoseNothing
  <2>. QED
    BY <1>1, <2>6 DEF LostNow
<1>. QED
  BY <1>1, <1>11, <1>12, <1>13, <1>14, <1>15, ScanPhaseC

(* What is still marked is referred to only by what is marked too: its count *)
(* leaves no room for another reference.                                     *)
LEMMA StartFinalizeC ==
    ASSUME HeapInv, ListsInv, CInv, StartFinalize
    PROVE  CInv'
<1>1. /\ gc = "scan" /\ gc' = "collect" /\ stack = <<>> /\ cursor \notin DOMAIN isolated_roots
      /\ UNCHANGED <<state, ref_count, members, mark, ref_count_scan, unreferred_objects,
                     isolated_roots, ext, stack>>
  BY DEF StartFinalize, objVars, scanVars, listVars, ownVars
<1>2. isolated_roots \in Seq(Obj) /\ cursor \in Nat /\ mark \in [Obj -> 0 .. 3]
  BY DEF HeapInv, TypeOK
<1>3. PICK M \in SUBSET Obj : ScanStage(M)
  BY <1>1 DEF CInv
<1>4. /\ Marked(M, mark, members, isolated_roots)
      /\ Decided(M, mark, members, stack, isolated_roots, cursor)
  BY <1>3 DEF ScanStage
<1>5. /\ \A x \in M : mark[x] # 1
      /\ RevivesAll(M, mark, members)
  BY <1>1, <1>2, <1>4, AllDecided
<1>6. Marks("scan", state, mark, ref_count_scan, unreferred_objects, isolated_roots)
  BY <1>1 DEF CInv
<1>7. Elems(stack) = {}
  BY <1>1 DEF Elems
<1>8. CutOff(state, mark, members, ext, Elems(stack))
  <2>1. SUFFICES ASSUME NEW x \in Obj, Doomed(state, mark, x)
                 PROVE  /\ ext[x] = 0
                        /\ \A p \in Obj, k \in Slot : members[p][k] = x => mark[p] \in {2, 3}
    BY <1>7 DEF CutOff
  <2>2. mark[x] = 2 /\ x \in M
    BY <1>4, <1>6, <2>1 DEF Doomed, Marks, Marked
  <2>3. Cardinality(Inner(M, members, x)) = ref_count[x]
    BY <1>3, <2>2 DEF ScanStage, Counted
  <2>4. ref_count[x] = ext[x] + Cardinality(EdgesTo(members, x)) /\ ext[x] \in Nat
    <3>1. HoldersIn(stack, x) = {}
      BY <1>1 DEF HoldersIn
    <3>2. Held(x) = 0
      BY <3>1, FS_EmptySet DEF Held
    <3>3. /\ ref_count[x] = ext[x] + Held(x) + Cardinality(InEdges(x))
          /\ ext[x] \in Nat /\ Cardinality(InEdges(x)) \in Nat
      BY Owned DEF HeapInv, RefCountExact, TypeOK
    <3>. QED
      BY <3>2, <3>3 DEF InEdges
  <2>5. IsFiniteSet(EdgesTo(members, x)) /\ Cardinality(EdgesTo(members, x)) \in Nat
    BY EdgesFinite
  <2>6. Inner(M, members, x) \subseteq EdgesTo(members, x)
    BY DEF Inner
  <2>7. /\ Cardinality(Inner(M, members, x)) <= Cardinality(EdgesTo(members, x))
        /\ Cardinality(Inner(M, members, x)) \in Nat
        /\ Cardinality(Inner(M, members, x)) = Cardinality(EdgesTo(members, x)) =>
             Inner(M, members, x) = EdgesTo(members, x)
    BY <2>5, <2>6, FS_Subset, FS_CardinalityType
  <2>8. ext[x] = 0 /\ Inner(M, members, x) = EdgesTo(members, x)
    BY <2>3, <2>4, <2>5, <2>7
  <2>9. ASSUME NEW p \in Obj, NEW k \in Slot, members[p][k] = x
        PROVE  mark[p] \in {2, 3}
    <3>1. <<p, k>> \in EdgesTo(members, x)
      BY <2>9 DEF EdgesTo
    <3>2. p \in M
      BY <2>8, <3>1 DEF Inner
    <3>3. mark[p] # 0
      BY <1>5, <2>2, <2>9, <3>2, HeapAssumption DEF RevivesAll
    <3>. QED
      BY <1>2, <1>5, <3>2, <3>3
  <2>. QED
    BY <2>8, <2>9
<1>9. Worked(mark, members, Elems(stack))
  <2>1. ASSUME NEW x \in Obj, mark[x] = 3
        PROVE  Bare(members, x)
    <3>1. state[x] # "dying"
      BY <1>1, NoneDying
    <3>2. state[x] # "live"
      BY <1>6, <2>1 DEF Marks
    <3>3. state[x] \in {"free", "zombie"}
      BY <3>1, <3>2 DEF HeapInv, TypeOK
    <3>. QED
      BY <3>3 DEF HeapInv, DestroyedHoldsNothing, Bare
  <2>. QED
    BY <1>7, <2>1 DEF Worked
<1>10. Marks("collect", state, mark, ref_count_scan, unreferred_objects, isolated_roots)
  <2>1. \A x \in Obj : mark[x] # 1
    BY <1>4, <1>5 DEF Marked
  <2>. QED
    BY <1>6, <2>1 DEF Marks
<1>11. /\ NothingLost(state, members, ext, Elems(stack), unreferred_objects, isolated_roots)
       /\ DyingFramed(state, Elems(stack))
  BY DEF CInv
<1>. QED
  BY <1>1, <1>8, <1>9, <1>10, <1>11 DEF CInv

-----------------------------------------------------------------------------
(* The theorems about the collector.                                         *)

-----------------------------------------------------------------------------
(* The frames that walk over members.                                        *)

LEMMA WalkEdit ==
    ASSUME NEW s \in Seq(Frame), Len(s) > 0, NEW t, Edited(s, t), s[Len(s)].op # "set",
           NEW m, NEW d, NEW mk, Walk(s, m, d, mk),
           Iterates(t[Len(s)]) => m[s[Len(s)].o][t[Len(s)].k] # NoObj,
           s[Len(s)].op = "fin" /\ t[Len(s)].k > 0 => ~d[s[Len(s)].o]
    PROVE  Walk(t, m, d, mk)
<1>1. /\ DOMAIN s = 1 .. Len(s) /\ Len(s) \in Nat /\ Len(s) \in DOMAIN s /\ DOMAIN t = DOMAIN s
      /\ \A i \in DOMAIN s : /\ t[i].op = s[i].op /\ t[i].o = s[i].o /\ t[i].st = s[i].st
                             /\ i # Len(s) => t[i].k = s[i].k
  BY DEF Edited
<1>2. \A i \in DOMAIN s : (Works(t[i]) <=> Works(s[i])) /\ (Walks(t[i]) <=> Walks(s[i]))
  BY <1>1 DEF Works, Walks
<1>3. Order(t)
  <2>1. SUFFICES ASSUME NEW i \in DOMAIN t, NEW j \in DOMAIN t, i < j
                 PROVE  /\ t[j].op = "collect" => t[i].op = "collect"
                        /\ Iterates(t[i]) /\ Walks(t[j]) => t[i].o # t[j].o
                        /\ Works(t[i]) /\ Works(t[j]) => t[i].o # t[j].o
    BY DEF Order
  <2>2. i \in DOMAIN s /\ j \in DOMAIN s /\ i # Len(s)
    BY <1>1, <2>1
  <2>3. Iterates(t[i]) => Iterates(s[i])
    BY <1>1, <1>2, <2>2 DEF Iterates
  <2>4. /\ s[j].op = "collect" => s[i].op = "collect"
        /\ Iterates(s[i]) /\ Walks(s[j]) => s[i].o # s[j].o
        /\ Works(s[i]) /\ Works(s[j]) => s[i].o # s[j].o
    BY <2>1, <2>2 DEF Walk, Order
  <2>. QED
    BY <1>1, <1>2, <2>2, <2>3, <2>4
<1>4. Pointed(t, m)
  <2>1. SUFFICES ASSUME NEW i \in DOMAIN t, Iterates(t[i])
                 PROVE  m[t[i].o][t[i].k] # NoObj \/ PutBack(t, i)
    BY DEF Pointed
  <2>2. CASE i = Len(s)
    BY <1>1, <2>1, <2>2
  <2>3. CASE i # Len(s)
    <3>1. i \in DOMAIN s /\ Iterates(s[i])
      BY <1>1, <1>2, <2>1, <2>3 DEF Iterates
    <3>2. m[s[i].o][s[i].k] # NoObj \/ PutBack(s, i)
      BY <3>1 DEF Walk, Pointed
    <3>3. PutBack(s, i) => PutBack(t, i)
      BY <1>1, <2>3, <3>1 DEF PutBack
    <3>. QED
      BY <1>1, <2>3, <3>1, <3>2, <3>3
  <2>. QED
    BY <2>2, <2>3
<1>5. DtorsCalled(t, d, mk)
  <2>1. \A i \in DOMAIN t : t[i].op = "fin" /\ t[i].k > 0 => ~d[t[i].o]
    BY <1>1 DEF Walk, DtorsCalled
  <2>2. ASSUME NEW i \in DOMAIN t, t[i].op = "dtor"
        PROVE  ~d[t[i].o] /\ (mk[t[i].o] = 3 => i > 1 /\ Works(t[i - 1]))
    <3>1. ~d[s[i].o] /\ (mk[s[i].o] = 3 => i > 1 /\ Works(s[i - 1]))
      BY <1>1, <2>2 DEF Walk, DtorsCalled
    <3>2. i > 1 => i - 1 \in DOMAIN s
      BY <1>1, <2>2
    <3>. QED
      BY <1>1, <1>2, <2>2, <3>1, <3>2
  <2>3. \A x \in Obj : mk[x] = 3 /\ d[x] => \E i \in DOMAIN t : Works(t[i]) /\ t[i].o = x
    BY <1>1, <1>2 DEF Walk, DtorsCalled
  <2>. QED
    BY <2>1, <2>2, <2>3 DEF DtorsCalled
<1>. QED
  BY <1>3, <1>4, <1>5 DEF Walk

LEMMA WalkPush ==
    ASSUME NEW s \in Seq(Frame), NEW f \in Frame, NEW m, NEW d, NEW mk, Walk(s, m, d, mk),
           f.op = "collect" => \A i \in DOMAIN s : s[i].op = "collect",
           Walks(f) => \A i \in DOMAIN s : Iterates(s[i]) => s[i].o # f.o,
           Works(f) => \A i \in DOMAIN s : Works(s[i]) => s[i].o # f.o,
           Iterates(f) => m[f.o][f.k] # NoObj,
           f.op = "fin" /\ f.k > 0 => ~d[f.o],
           f.op = "dtor" => ~d[f.o] /\ (mk[f.o] = 3 => Len(s) > 0 /\ Works(s[Len(s)]))
    PROVE  Walk(Append(s, f), m, d, mk)
<1>. DEFINE t == Append(s, f)
            n == Len(s) + 1
<1>1. /\ DOMAIN t = 1 .. n /\ t[n] = f /\ DOMAIN s = 1 .. Len(s) /\ Len(s) \in Nat
      /\ \A i \in DOMAIN s : t[i] = s[i] /\ i \in DOMAIN t
  OBVIOUS
<1>2. /\ n \in DOMAIN t /\ n - 1 = Len(s) /\ \A i \in DOMAIN t : i = n \/ i \in DOMAIN s
      /\ \A i, j \in DOMAIN t : i < j => i \in DOMAIN s
  BY <1>1
<1>. HIDE DEF t
<1>3. Order(t)
  <2>1. SUFFICES ASSUME NEW i \in DOMAIN t, NEW j \in DOMAIN t, i < j
                 PROVE  /\ t[j].op = "collect" => t[i].op = "collect"
                        /\ Iterates(t[i]) /\ Walks(t[j]) => t[i].o # t[j].o
                        /\ Works(t[i]) /\ Works(t[j]) => t[i].o # t[j].o
    BY DEF Order
  <2>2. i \in DOMAIN s /\ t[i] = s[i]
    BY <1>1, <1>2, <2>1
  <2>3. CASE j = n
    BY <1>1, <2>2, <2>3
  <2>4. CASE j \in DOMAIN s
    BY <1>1, <2>1, <2>2, <2>4 DEF Walk, Order
  <2>. QED
    BY <1>2, <2>3, <2>4
<1>4. Pointed(t, m)
  <2>1. \A i \in DOMAIN s : PutBack(s, i) => PutBack(t, i)
    BY <1>1 DEF PutBack
  <2>. QED
    BY <1>1, <1>2, <2>1 DEF Walk, Pointed
<1>5. DtorsCalled(t, d, mk)
  <2>1. \A i \in DOMAIN t : t[i].op = "fin" /\ t[i].k > 0 => ~d[t[i].o]
    BY <1>1, <1>2 DEF Walk, DtorsCalled
  <2>2. ASSUME NEW i \in DOMAIN t, t[i].op = "dtor"
        PROVE  ~d[t[i].o] /\ (mk[t[i].o] = 3 => i > 1 /\ Works(t[i - 1]))
    <3>1. CASE i = n
      <4>1. Len(s) > 0 => n > 1 /\ Len(s) \in DOMAIN s
        BY <1>1
      <4>. QED
        BY <1>1, <1>2, <2>2, <3>1, <4>1
    <3>2. CASE i \in DOMAIN s
      <4>1. ~d[s[i].o] /\ (mk[s[i].o] = 3 => i > 1 /\ Works(s[i - 1]))
        BY <1>1, <2>2, <3>2 DEF Walk, DtorsCalled
      <4>2. i > 1 => i - 1 \in DOMAIN s
        BY <1>1, <3>2
      <4>. QED
        BY <1>1, <3>2, <4>1, <4>2
    <3>. QED
      BY <1>2, <3>1, <3>2
  <2>3. \A x \in Obj : mk[x] = 3 /\ d[x] => \E i \in DOMAIN t : Works(t[i]) /\ t[i].o = x
    BY <1>1 DEF Walk, DtorsCalled
  <2>. QED
    BY <2>1, <2>2, <2>3 DEF DtorsCalled
<1>6. Walk(t, m, d, mk)
  BY <1>3, <1>4, <1>5 DEF Walk
<1>. QED
  BY <1>6 DEF t

(* The frames below the top, with f, a frame that is no set one, or nothing  *)
(* in its place.                                                             *)
LEMMA WalkPop ==
    ASSUME NEW s \in Seq(Frame), Len(s) > 0, NEW m, NEW d, NEW mk, Walk(s, m, d, mk),
           NEW n, \A p \in Obj, k \in Slot : m[p][k] # NoObj => n[p][k] # NoObj,
           s[Len(s)].op = "set" => n[s[Len(s)].o][s[Len(s)].k] # NoObj,
           Works(s[Len(s)]) => ~d[s[Len(s)].o]
    PROVE  Walk(Pop(s), n, d, mk)
<1>. DEFINE t == Pop(s)
<1>1. /\ DOMAIN s = 1 .. Len(s) /\ Len(s) \in Nat /\ DOMAIN t = 1 .. Len(s) - 1
      /\ \A i \in DOMAIN t : t[i] = s[i] /\ i \in DOMAIN s
      /\ \A i \in DOMAIN s : i \in DOMAIN t \/ i = Len(s)
  <2>1. t \in Seq(Frame) /\ Len(t) = Len(s) - 1 /\ \A i \in 1 .. Len(s) - 1 : t[i] = s[i]
    BY PopPush
  <2>. HIDE DEF t
  <2>2. DOMAIN s = 1 .. Len(s) /\ Len(s) \in Nat /\ DOMAIN t = 1 .. Len(t)
    BY <2>1
  <2>. QED
    BY <2>1, <2>2
<1>. HIDE DEF t
<1>2. Order(t)
  BY <1>1 DEF Walk, Order
<1>3. Pointed(t, n)
  <2>1. SUFFICES ASSUME NEW i \in DOMAIN t, Iterates(t[i])
                 PROVE  n[t[i].o][t[i].k] # NoObj \/ PutBack(t, i)
    BY DEF Pointed
  <2>2. s[i] \in Frame /\ t[i] = s[i]
    BY <1>1
  <2>3. t[i].o \in Obj /\ t[i].k \in Slot
    BY <2>1, <2>2 DEF Frame, Iterates
  <2>4. m[s[i].o][s[i].k] # NoObj \/ PutBack(s, i)
    BY <1>1, <2>1, <2>2 DEF Walk, Pointed
  <2>5. PutBack(s, i) => PutBack(t, i) \/ n[t[i].o][t[i].k] # NoObj
    BY <1>1, <2>2 DEF PutBack
  <2>. QED
    BY <2>2, <2>3, <2>4, <2>5
<1>4. DtorsCalled(t, d, mk)
  <2>1. \A i \in DOMAIN t : i > 1 => i - 1 \in DOMAIN t
    BY <1>1
  <2>. QED
    BY <1>1, <2>1 DEF Walk, DtorsCalled
<1>. QED
  BY <1>2, <1>3, <1>4 DEF Walk, t

(* The heap changes under the frames.                                        *)
LEMMA WalkHeap ==
    ASSUME NEW s, NEW m, NEW d, NEW mk, Walk(s, m, d, mk), NEW n, NEW e, NEW mk2,
           \A i \in DOMAIN s : Iterates(s[i]) /\ m[s[i].o][s[i].k] # NoObj =>
              n[s[i].o][s[i].k] # NoObj \/ PutBack(s, i),
           \A i \in DOMAIN s : s[i].op \in {"fin", "dtor"} => (e[s[i].o] => d[s[i].o]),
           \A x \in Obj : mk2[x] = 3 => mk[x] = 3 /\ (e[x] => d[x]),
           \A i \in DOMAIN s : s[i].op = "dtor" => s[i].o \in Obj
    PROVE  Walk(s, n, e, mk2)
<1>1. Order(s)
  BY DEF Walk
<1>2. Pointed(s, n)
  BY DEF Walk, Pointed
<1>3. DtorsCalled(s, e, mk2)
  BY DEF Walk, DtorsCalled
<1>. QED
  BY <1>1, <1>2, <1>3 DEF Walk

LEMMA WalkAfterOp ==
    ASSUME HeapInv, UserCode, NEW m, NEW d, NEW mk, Walk(stack, m, d, mk)
    PROVE  /\ Walk(AfterOp, m, d, mk) /\ AfterOp \in Seq(Frame)
           /\ \A i \in DOMAIN AfterOp :
                i \in DOMAIN stack /\ AfterOp[i].op = stack[i].op /\ AfterOp[i].o = stack[i].o
                  /\ (stack[i].op # "dtor" => AfterOp[i].k = stack[i].k)
<1>0. stack \in Seq(Frame) /\ DOMAIN stack = 1 .. Len(stack) /\ Len(stack) \in Nat
  BY DEF HeapInv, TypeOK
<1>1. CASE stack = <<>>
  BY <1>0, <1>1 DEF AfterOp
<1>2. CASE stack # <<>>
  <2>1. Len(stack) > 0 /\ stack[Len(stack)].op = "dtor" /\ stack[Len(stack)].k > 0
    BY <1>0, <1>2 DEF UserCode, Running, Top
  <2>2. stack[Len(stack)] \in Frame
    BY <1>0, <2>1
  <2>. DEFINE n == stack[Len(stack)].k - 1
  <2>3. n \in Nat /\ AfterOp = [stack EXCEPT ![Len(stack)].k = n]
    BY <1>2, <2>1, <2>2 DEF Frame, AfterOp
  <2>. HIDE DEF n
  <2>4. Edited(stack, AfterOp)
    BY <1>0, <2>1, <2>3, TopEdit
  <2>5. AfterOp[Len(stack)].op = "dtor"
    BY <1>0, <2>1, <2>4 DEF Edited
  <2>6. Walk(AfterOp, m, d, mk)
    BY <1>0, <2>1, <2>4, <2>5, WalkEdit DEF Iterates, Walks
  <2>. QED
    BY <1>0, <2>1, <2>4, <2>6 DEF Edited
<1>. QED
  BY <1>1, <1>2

(* The object that is destroyed is walked over by the new frame only.        *)
LEMMA WalkUnref ==
    ASSUME HeapInv, HeapInv', NEW o \in Obj, NEW s \in Seq(Frame), AfterUnref(o, s),
           Walk(s, members', dtor', mark')
    PROVE  SInv'
<1>. DEFINE f == [op |-> "fin", o |-> o, k |-> 0, st |-> 0]
<1>1. CASE ref_count[o] = 1
  <2>1. stack' = Append(s, f) /\ state' = [state EXCEPT ![o] = "dying"]
    BY <1>1 DEF AfterUnref
  <2>2. f \in Frame /\ f.op = "fin" /\ f.o = o /\ f.k = 0 /\ f.st = 0
    BY DEF Frame
  <2>. HIDE DEF f
  <2>3. state'[o] # "live"
    BY <2>1 DEF HeapInv, TypeOK
  <2>4. /\ DOMAIN s = 1 .. Len(s) /\ Len(s) \in Nat /\ Len(s) + 1 \in DOMAIN stack'
        /\ stack'[Len(s) + 1] = f
        /\ \A i \in DOMAIN s : i \in DOMAIN stack' /\ stack'[i] = s[i] /\ i # Len(s) + 1
    BY <2>1, <2>2
  <2>5. ASSUME NEW i \in DOMAIN s, Iterates(s[i]), s[i].o = o
        PROVE  FALSE
    <3>1. s[i] \in Frame
      OBVIOUS
    <3>2. Holds(s[i]) \/ Destroys(s[i])
      BY <2>5, <3>1 DEF Iterates, Walks, Holds, Destroys, Frame
    <3>3. CASE Holds(s[i])
      <4>1. TypeOK' /\ RefCountExact' /\ i \in DOMAIN stack' /\ stack'[i].o = o /\ Holds(stack'[i])
        BY <2>4, <2>5, <3>3 DEF HeapInv
      <4>2. i \in HoldersIn(stack', o) /\ stack' \in Seq(Frame)
        BY <4>1 DEF HoldersIn, TypeOK
      <4>3. Cardinality(HoldersIn(stack', o)) > 0 /\ Cardinality(HoldersIn(stack', o)) \in Nat
        BY <4>2, HoldersFinite, FS_EmptySet
      <4>4. /\ ref_count'[o] = ext'[o] + Cardinality(HoldersIn(stack', o)) + Cardinality(EdgesTo(members', o))
            /\ ext'[o] \in Nat /\ Cardinality(EdgesTo(members', o)) \in Nat
            /\ ref_count'[o] > 0 => state'[o] = "live"
        BY <4>1, EdgesFinite DEF RefCountExact, Held, InEdges, TypeOK
      <4>. QED
        BY <2>3, <4>3, <4>4
    <3>4. CASE Destroys(s[i])
      BY <2>2, <2>4, <2>5, <3>4 DEF HeapInv, StackSound, Destroys
    <3>. QED
      BY <3>2, <3>3, <3>4
  <2>6. Walk(Append(s, f), members', dtor', mark')
    <3>1. ~Works(f) /\ ~Iterates(f) /\ f.op # "collect" /\ f.op # "dtor" /\ ~(f.k > 0)
      BY <2>2, HeapAssumption DEF Works, Iterates, Slot
    <3>. QED
      BY <2>2, <2>5, <3>1, WalkPush
  <2>. QED
    BY <2>1, <2>6 DEF SInv
<1>2. CASE ref_count[o] # 1
  BY <1>2 DEF AfterUnref, SInv
<1>. QED
  BY <1>1, <1>2

LEMMA SameWalk ==
    ASSUME HeapInv, NEW s \in Seq(Frame), Walk(s, members, dtor, mark), UNCHANGED <<dtor, mark>>,
           \A i \in DOMAIN s : Iterates(s[i]) /\ members[s[i].o][s[i].k] # NoObj =>
              members'[s[i].o][s[i].k] # NoObj \/ PutBack(s, i)
    PROVE  Walk(s, members', dtor', mark')
<1>1. \A i \in DOMAIN s : s[i].o \in Obj
  <2>1. \A i \in DOMAIN s : s[i] \in Frame
    OBVIOUS
  <2>. QED
    BY <2>1 DEF Frame
<1>. QED
  BY <1>1, WalkHeap

(* An object that is not there has no frame.                                 *)
LEMMA FreeFrame ==
    ASSUME HeapInv, gc \in {"idle", "collect"}, NEW o \in Obj, state[o] = "free", NEW i \in DOMAIN stack,
           stack[i].op \in {"fin", "dtor"}
    PROVE  stack[i].o # o
<1>1. ASSUME NEW j \in DOMAIN stack, stack[j].op = "fin", stack[j].o = o
      PROVE  FALSE
  <2>1. Holds(stack[j]) \/ Destroys(stack[j])
    <3>1. stack[j] \in Frame
      BY DEF HeapInv, TypeOK
    <3>. QED
      BY <1>1, <3>1 DEF Holds, Destroys, Frame
  <2>2. Holds(stack[j]) => state[o] = "live"
    BY <1>1, Owned DEF HeapInv
  <2>3. Destroys(stack[j]) => state[o] = "dying"
    BY <1>1 DEF HeapInv, StackSound
  <2>. QED
    BY <2>1, <2>2, <2>3
<1>2. CASE stack[i].op = "dtor"
  <2>1. DOMAIN stack = 1 .. Len(stack) /\ Len(stack) \in Nat
    BY DEF HeapInv, TypeOK
  <2>2. i > 1 /\ stack[i - 1].op = "fin" /\ stack[i - 1].o = stack[i].o
    BY <1>2 DEF HeapInv, StackSound, Linked
  <2>3. i - 1 \in DOMAIN stack
    BY <2>1, <2>2
  <2>. QED
    BY <1>1, <2>2, <2>3
<1>. QED
  BY <1>1, <1>2

LEMMA NewObjectS ==
    ASSUME HeapInv, SInv, CInv, NEW o \in Obj, NEW d \in BOOLEAN, NewObject(o, d)
    PROVE  SInv'
<1>1. /\ UserCode /\ state[o] = "free" /\ stack' = AfterOp /\ UNCHANGED <<members, mark>>
      /\ dtor' = [dtor EXCEPT ![o] = d]
  BY DEF NewObject, scanVars
<1>2. gc \in {"idle", "collect"} /\ stack \in Seq(Frame) /\ dtor \in [Obj -> BOOLEAN]
  BY <1>1, UserOp DEF HeapInv, TypeOK
<1>3. mark[o] = 0
  BY <1>1 DEF CInv, Marks
<1>4. \A x : x # o => (dtor'[x] = dtor[x])
  BY <1>1, <1>2
<1>5. \A i \in DOMAIN stack : stack[i].op \in {"fin", "dtor"} => stack[i].o # o
  BY <1>1, <1>2, FreeFrame
<1>6. \A i \in DOMAIN stack : stack[i].o \in Obj
  <2>1. \A i \in DOMAIN stack : stack[i] \in Frame
    BY <1>2
  <2>. QED
    BY <2>1 DEF Frame
<1>7. Walk(stack, members', dtor', mark')
  <2>1. \A x \in Obj : mark'[x] = 3 => mark[x] = 3 /\ (dtor'[x] => dtor[x])
    BY <1>1, <1>3, <1>4
  <2>2. Walk(stack, members, dtor, mark)
    BY DEF SInv
  <2>3. \A i \in DOMAIN stack : stack[i].op \in {"fin", "dtor"} =>
           (dtor'[stack[i].o] => dtor[stack[i].o])
    BY <1>4, <1>5
  <2>4. \A i \in DOMAIN stack : Iterates(stack[i]) /\ members[stack[i].o][stack[i].k] # NoObj =>
           members'[stack[i].o][stack[i].k] # NoObj \/ PutBack(stack, i)
    BY <1>1
  <2>. QED
    BY <1>6, <2>1, <2>2, <2>3, <2>4, WalkHeap
<1>. QED
  BY <1>1, <1>7, WalkAfterOp DEF SInv

(* Operations that take nothing away.                                        *)
LEMMA QuietS ==
    ASSUME HeapInv, SInv, UserCode, stack' = AfterOp, UNCHANGED dtor,
           \A x \in Obj : mark'[x] = 3 => mark[x] = 3,
           \A p \in Obj, k \in Slot : members[p][k] # NoObj => members'[p][k] # NoObj
    PROVE  SInv'
<1>1. stack \in Seq(Frame)
  BY DEF HeapInv, TypeOK
<1>2. \A i \in DOMAIN stack : stack[i].o \in Obj
  <2>1. \A i \in DOMAIN stack : stack[i] \in Frame
    BY <1>1
  <2>. QED
    BY <2>1 DEF Frame
<1>3. Walk(stack, members', dtor', mark')
  <2>1. Walk(stack, members, dtor, mark)
    BY DEF SInv
  <2>2. \A i \in DOMAIN stack : Iterates(stack[i]) /\ members[stack[i].o][stack[i].k] # NoObj =>
           members'[stack[i].o][stack[i].k] # NoObj
    BY <1>2 DEF Iterates
  <2>. QED
    BY <1>2, <2>1, <2>2, WalkHeap
<1>. QED
  BY <1>3, WalkAfterOp DEF SInv

LEMMA FillKeeps ==
    ASSUME HeapInv, NEW p \in Obj, NEW k \in Slot, NEW o \in Obj,
           members' = [members EXCEPT ![p][k] = o]
    PROVE  \A q \in Obj, j \in Slot : members[q][j] # NoObj => members'[q][j] # NoObj
  BY HeapAssumption DEF HeapInv, TypeOK

LEMMA QuietOpsS ==
    ASSUME HeapInv, HeapInv', SInv,
           \/ \E o \in Obj : RefObject(o) \/ UpgradeWeakRef(o) \/ WeaklyRef(o) \/ DropWeakRef(o)
           \/ \E p \in Obj, k \in Slot : GetMember(p, k)
           \/ \E k \in Slot : DtorUsesMember(k)
           \/ \E p, o \in Obj, k \in Slot : AddMember(p, k, o)
    PROVE  SInv'
<1>1. ASSUME NEW o \in Obj, RefObject(o) \/ UpgradeWeakRef(o) \/ WeaklyRef(o)
      PROVE  SInv'
  BY <1>1, QuietS DEF RefObject, UpgradeWeakRef, WeaklyRef, scanVars
<1>2. ASSUME NEW o \in Obj, DropWeakRef(o)
      PROVE  SInv'
  <2>1. UserCode /\ stack' = AfterOp /\ UNCHANGED <<members, dtor>> /\ DecrementWeak(o, state[o])
    BY <1>2 DEF DropWeakRef
  <2>2. \A x \in Obj : mark'[x] = 3 => mark[x] = 3
    BY <2>1 DEF DecrementWeak, HeapInv, TypeOK
  <2>. QED
    BY <2>1, <2>2, QuietS
<1>3. ASSUME NEW p \in Obj, NEW k \in Slot, GetMember(p, k)
      PROVE  SInv'
  BY <1>3, QuietS DEF GetMember, scanVars
<1>4. ASSUME NEW k \in Slot, DtorUsesMember(k)
      PROVE  SInv'
  BY <1>4, QuietS DEF DtorUsesMember, UserCode, objVars, scanVars
<1>5. ASSUME NEW p \in Obj, NEW o \in Obj, NEW k \in Slot, AddMember(p, k, o)
      PROVE  SInv'
  <2>1. UserCode /\ stack' = AfterOp /\ UNCHANGED <<dtor, mark>>
    BY <1>5 DEF AddMember, scanVars
  <2>2. members' = members \/ members' = [members EXCEPT ![p][k] = o]
    BY <1>5 DEF AddMember
  <2>3. \A q \in Obj, j \in Slot : members[q][j] # NoObj => members'[q][j] # NoObj
    BY <2>2, FillKeeps
  <2>. QED
    BY <2>1, <2>3, QuietS
<1>. QED
  BY <1>1, <1>2, <1>3, <1>4, <1>5

LEMMA UserUnrefS ==
    ASSUME HeapInv, HeapInv', SInv, UserCode, NEW o \in Obj, AfterUnref(o, AfterOp),
           UNCHANGED <<members, dtor, mark>>
    PROVE  SInv'
<1>1. Walk(AfterOp, members', dtor', mark') /\ AfterOp \in Seq(Frame)
  BY WalkAfterOp DEF SInv
<1>. QED
  BY <1>1, WalkUnref

LEMMA DropRefS ==
    ASSUME HeapInv, HeapInv', SInv, NEW o \in Obj, DropRef(o)
    PROVE  SInv'
  BY UserUnrefS DEF DropRef, UnrefObject, scanVars

LEMMA MoveMemberS ==
    ASSUME HeapInv, HeapInv', SInv, NEW p \in Obj, NEW k \in Slot, NEW o \in Obj, MoveMember(p, k, o)
    PROVE  SInv'
<1>1. UserCode /\ UNCHANGED <<dtor, mark>>
  BY DEF MoveMember, scanVars
<1>2. CASE members' = [members EXCEPT ![p][k] = o] /\ stack' = AfterOp
  BY <1>1, <1>2, FillKeeps, QuietS
<1>3. CASE UnrefObject(o, AfterOp) /\ UNCHANGED members
  BY <1>1, <1>3, UserUnrefS DEF UnrefObject
<1>. QED
  BY <1>2, <1>3 DEF MoveMember

LEMMA DeleteMemberS ==
    ASSUME HeapInv, HeapInv', SInv, ~Reenters, NEW p \in Obj, NEW k \in Slot, DeleteMember(p, k)
    PROVE  SInv'
<1>1. PICK o : o = members[p][k]
  OBVIOUS
<1>2. /\ UserCode /\ o # NoObj /\ ~Saved(p, k) /\ AfterUnref(o, AfterOp) /\ UNCHANGED <<dtor, mark>>
      /\ members' = [members EXCEPT ![p][k] = NoObj]
  BY <1>1 DEF DeleteMember, UnrefObject, scanVars
<1>3. o \in Obj /\ members \in [Obj -> [Slot -> Obj \cup {NoObj}]] /\ stack \in Seq(Frame)
  BY <1>1, <1>2 DEF HeapInv, TypeOK
<1>4. ASSUME NEW i \in DOMAIN stack, Iterates(stack[i]), members[stack[i].o][stack[i].k] # NoObj
      PROVE  members'[stack[i].o][stack[i].k] # NoObj
  <2>1. stack[i] \in Frame
    BY <1>3
  <2>2. stack[i].o \in Obj /\ stack[i].k \in Slot /\ stack[i].op \in {"fin", "collect"}
    BY <1>4, <2>1 DEF Frame, Iterates, Walks
  <2>3. stack[i].o # p \/ stack[i].k # k
    BY <1>2, <2>2 DEF Saved
  <2>. QED
    BY <1>2, <1>3, <1>4, <2>2, <2>3
<1>5. Walk(stack, members', dtor', mark')
  BY <1>2, <1>3, <1>4, SameWalk DEF SInv
<1>6. Walk(AfterOp, members', dtor', mark') /\ AfterOp \in Seq(Frame)
  BY <1>2, <1>5, WalkAfterOp
<1>. QED
  BY <1>2, <1>3, <1>6, WalkUnref

LEMMA SetMemberS ==
    ASSUME HeapInv, HeapInv', SInv, NEW p \in Obj, NEW k \in Slot, NEW n \in Obj, SetMember(p, k, n)
    PROVE  SInv'
<1>1. PICK o : o = members[p][k]
  OBVIOUS
<1>. DEFINE f == [op |-> "value", o |-> n, k |-> 0, st |-> 0]
            g == [op |-> "set", o |-> p, k |-> k, st |-> 0]
            t == Append(AfterOp, f)
            s == Append(t, g)
<1>2. /\ UserCode /\ o # NoObj /\ members' = [members EXCEPT ![p][k] = NoObj]
      /\ AfterUnref(o, s) /\ UNCHANGED <<dtor, mark>>
  BY <1>1 DEF SetMember, SetFrames, UnrefObject, scanVars
<1>3. /\ f \in Frame /\ f.op = "value"
      /\ g \in Frame /\ g.op = "set" /\ g.o = p /\ g.k = k
  BY HeapAssumption DEF Frame, Slot
<1>. HIDE DEF f, g
<1>4. AfterOp \in Seq(Frame) /\ Walk(AfterOp, members, dtor, mark)
  BY <1>2, WalkAfterOp DEF SInv
<1>5. t \in Seq(Frame) /\ Walk(t, members, dtor, mark)
  BY <1>3, <1>4, WalkPush DEF Walks, Works, Iterates
<1>. HIDE DEF t
<1>6. s \in Seq(Frame) /\ Walk(s, members, dtor, mark)
  BY <1>3, <1>5, WalkPush DEF Walks, Works, Iterates
<1>7. /\ DOMAIN s = 1 .. Len(t) + 1 /\ Len(t) \in Nat /\ s[Len(t) + 1] = g
  BY <1>3, <1>5
<1>. HIDE DEF s
<1>8. o \in Obj /\ members \in [Obj -> [Slot -> Obj \cup {NoObj}]]
  <2>1. members \in [Obj -> [Slot -> Obj \cup {NoObj}]]
    BY DEF HeapInv, TypeOK
  <2>2. o # NoObj
    BY <1>2
  <2>. QED
    BY <1>1, <2>1, <2>2
<1>9. ASSUME NEW i \in DOMAIN s, Iterates(s[i]), members[s[i].o][s[i].k] # NoObj
      PROVE  members'[s[i].o][s[i].k] # NoObj \/ PutBack(s, i)
  <2>1. s[i] \in Frame
    BY <1>6
  <2>2. s[i].o \in Obj /\ s[i].k \in Slot
    BY <1>9, <2>1 DEF Frame, Iterates
  <2>3. CASE s[i].o = p /\ s[i].k = k
    <3>1. i # Len(t) + 1
      BY <1>3, <1>7, <1>9 DEF Iterates, Walks
    <3>2. Len(t) + 1 \in DOMAIN s /\ Len(t) + 1 > i
      BY <1>7, <3>1
    <3>. QED
      BY <1>3, <1>7, <2>3, <3>2 DEF PutBack
  <2>4. CASE ~(s[i].o = p /\ s[i].k = k)
    BY <1>2, <1>8, <1>9, <2>2, <2>4
  <2>. QED
    BY <2>3, <2>4
<1>10. Walk(s, members', dtor', mark')
  BY <1>2, <1>6, <1>9, SameWalk
<1>. QED
  BY <1>2, <1>6, <1>8, <1>10, WalkUnref

LEMMA FinalizeS ==
    ASSUME HeapInv, SInv, ~Reenters, NEW o \in Obj, Finalize(o)
    PROVE  SInv'
<1>. DEFINE f == [op |-> "fin", o |-> o, k |-> 0, st |-> 2]
<1>1. /\ UserCode /\ stack' = Append(AfterOp, f) /\ UNCHANGED <<members, dtor, mark>>
      /\ \A k \in Slot : ~Saved(o, k)
  BY DEF Finalize, objVars, scanVars
<1>2. f \in Frame /\ f.op = "fin" /\ f.o = o /\ f.k = 0 /\ f.st = 2
  BY DEF Frame
<1>. HIDE DEF f
<1>3. /\ Walk(AfterOp, members, dtor, mark) /\ AfterOp \in Seq(Frame)
      /\ \A i \in DOMAIN AfterOp :
           i \in DOMAIN stack /\ AfterOp[i].op = stack[i].op /\ AfterOp[i].o = stack[i].o
             /\ (stack[i].op # "dtor" => AfterOp[i].k = stack[i].k)
  BY <1>1, WalkAfterOp DEF SInv
<1>4. ASSUME NEW i \in DOMAIN AfterOp, Iterates(AfterOp[i])
      PROVE  AfterOp[i].o # o
  BY <1>1, <1>3, <1>4 DEF Iterates, Walks, Saved
<1>5. ~Works(f) /\ ~Iterates(f) /\ ~(f.k > 0)
  BY <1>2, HeapAssumption DEF Works, Iterates, Slot
<1>. QED
  BY <1>1, <1>2, <1>3, <1>4, <1>5, WalkPush DEF SInv

(* The destructor of an object that is being collected is called by the      *)
(* frame that finalizes it.                                                  *)
LEMMA TopWorks ==
    ASSUME HeapInv, CInv, SInv, Running("fin"), mark[Top.o] = 3, dtor[Top.o]
    PROVE  Works(Top)
<1>1. /\ stack \in Seq(Frame) /\ Len(stack) \in DOMAIN stack /\ Top = stack[Len(stack)]
      /\ Top.op = "fin" /\ Top.o \in Obj /\ Top.st \in {0, 1, 2} /\ gc \in {"idle", "collect"}
      /\ Shape(stack, state, members)
  BY TopFacts DEF HeapInv
<1>2. PICK i \in DOMAIN stack : Works(stack[i]) /\ stack[i].o = Top.o
  BY <1>1 DEF SInv, Walk, DtorsCalled
<1>3. state[Top.o] = "live"
  BY <1>1, <1>2, Owned DEF HeapInv, Holds, Works
<1>4. Top.st # 0
  BY <1>1, <1>3 DEF Shape, Destroys
<1>5. Top.st # 2
  <2>1. Top \in Elems(stack)
    BY <1>1 DEF Elems
  <2>2. Top.st = 2 => Returns(Top)
    BY <1>1 DEF Returns
  <2>. QED
    BY <1>1, <1>3, <2>1, <2>2 DEF CInv, CutOff, Doomed
<1>. QED
  BY <1>1, <1>4, <1>5 DEF Works

LEMMA CallDtorS ==
    ASSUME HeapInv, CInv, SInv, CallDtor
    PROVE  SInv'
<1>1. /\ Running("fin") /\ Top.k = 0 /\ UNCHANGED <<members, mark>>
      /\ dtor' = [dtor EXCEPT ![Top.o] = FALSE]
  BY DEF CallDtor, scanVars
<1>2. /\ stack \in Seq(Frame) /\ Len(stack) > 0 /\ Len(stack) \in DOMAIN stack
      /\ Top = stack[Len(stack)] /\ Top.o \in Obj /\ Top.op = "fin"
      /\ dtor \in [Obj -> BOOLEAN]
  BY <1>1, TopFacts DEF HeapInv, TypeOK
<1>3. \A x \in Obj : (dtor'[x] => dtor[x]) /\ (x = Top.o => ~dtor'[x])
  BY <1>1, <1>2
<1>4. \A i \in DOMAIN stack : stack[i].o \in Obj
  <2>1. \A i \in DOMAIN stack : stack[i] \in Frame
    BY <1>2
  <2>. QED
    BY <2>1 DEF Frame
<1>5. Walk(stack, members', dtor', mark')
  <2>1. Walk(stack, members, dtor, mark)
    BY DEF SInv
  <2>2. \A i \in DOMAIN stack : Iterates(stack[i]) /\ members[stack[i].o][stack[i].k] # NoObj =>
           members'[stack[i].o][stack[i].k] # NoObj \/ PutBack(stack, i)
    BY <1>1
  <2>3. \A x \in Obj : mark'[x] = 3 => mark[x] = 3 /\ (dtor'[x] => dtor[x])
    BY <1>1, <1>3
  <2>. QED
    BY <1>3, <1>4, <2>1, <2>2, <2>3, WalkHeap
<1>. DEFINE d == [op |-> "dtor", o |-> Top.o, k |-> MaxDtorOps, st |-> 0]
            s == MoveTo(NextMember(Top.o, Top.k))
<1>6. CASE dtor[Top.o]
  <2>1. d \in Frame /\ d.op = "dtor" /\ d.o = Top.o
    BY <1>2, HeapAssumption DEF Frame
  <2>2. stack' = Append(stack, d)
    BY <1>6 DEF CallDtor
  <2>. HIDE DEF d
  <2>3. mark'[d.o] = 3 => Works(stack[Len(stack)])
    BY <1>1, <1>2, <1>6, <2>1, TopWorks
  <2>4. ~Walks(d) /\ ~Works(d) /\ ~Iterates(d) /\ ~dtor'[d.o]
    BY <1>2, <1>3, <2>1 DEF Walks, Works, Iterates
  <2>5. Walk(Append(stack, d), members', dtor', mark')
    BY <1>2, <1>5, <2>1, <2>3, <2>4, WalkPush
  <2>. QED
    BY <2>2, <2>5 DEF SInv
<1>7. CASE ~dtor[Top.o]
  <2>1. stack' = s /\ Top.k \in 0 .. MaxMembers
    BY <1>1, <1>7, HeapAssumption DEF CallDtor
  <2>2. PICK t : t = s[Len(stack)]
    OBVIOUS
  <2>3. Edited(stack, s) /\ t.o = Top.o /\ (t.k \in Slot => members[Top.o][t.k] # NoObj)
    BY <1>2, <2>1, <2>2, MoveFrames
  <2>. HIDE DEF s
  <2>4. Iterates(s[Len(stack)]) => members'[stack[Len(stack)].o][s[Len(stack)].k] # NoObj
    BY <1>1, <1>2, <2>2, <2>3 DEF Iterates
  <2>5. ~dtor'[stack[Len(stack)].o] /\ stack[Len(stack)].op # "set"
    BY <1>2, <1>3
  <2>6. Walk(s, members', dtor', mark')
    BY <1>2, <1>5, <2>3, <2>4, <2>5, WalkEdit
  <2>. QED
    BY <2>1, <2>6 DEF SInv
<1>. QED
  BY <1>6, <1>7

LEMMA StoreMemberS ==
    ASSUME HeapInv, SInv, StoreMember
    PROVE  SInv'
<1>. DEFINE n == Len(stack) - 1
            t == Pop(stack)
            s == Pop(t)
<1>1. PICK o, p, k : o = stack[n].o /\ p = Top.o /\ k = Top.k
  OBVIOUS
<1>2. /\ Running("set") /\ members' = [members EXCEPT ![p][k] = o]
      /\ stack' = s /\ UNCHANGED <<dtor, mark>>
  BY <1>1 DEF StoreMember, scanVars
<1>3. /\ stack \in Seq(Frame) /\ Len(stack) > 0
      /\ Top = stack[Len(stack)] /\ Top.op = "set" /\ p \in Obj
      /\ Linked(stack, members, Len(stack))
  BY <1>1, <1>2, TopFacts DEF HeapInv, Shape
<1>4. /\ Len(stack) > 1 /\ n \in DOMAIN stack /\ stack[n].op = "value" /\ k \in Slot
  BY <1>1, <1>3 DEF Linked
<1>5. o \in Obj
  <2>1. stack[n] \in Frame
    BY <1>3, <1>4
  <2>. QED
    BY <1>1, <2>1 DEF Frame
<1>6. /\ \A q \in Obj, j \in Slot : members[q][j] # NoObj => members'[q][j] # NoObj
      /\ members'[p][k] # NoObj
  BY <1>2, <1>3, <1>4, <1>5, HeapAssumption DEF HeapInv, TypeOK
<1>7. /\ t \in Seq(Frame) /\ Len(t) > 0 /\ t[Len(t)].op = "value"
  <2>1. t \in Seq(Frame) /\ Len(t) = n /\ \A i \in 1 .. n : t[i] = stack[i]
    BY <1>3, PopPush
  <2>2. n \in 1 .. n
    BY <1>3, <1>4
  <2>. HIDE DEF t, n
  <2>. QED
    BY <1>4, <2>1, <2>2
<1>8. Walk(t, members', dtor, mark)
  BY <1>1, <1>3, <1>6, WalkPop DEF SInv, Works
<1>. HIDE DEF t
<1>9. Walk(s, members', dtor, mark)
  BY <1>7, <1>8, WalkPop DEF Works
<1>. QED
  BY <1>2, <1>9 DEF SInv

LEMMA PopS ==
    ASSUME HeapInv, SInv, NEW op \in {"fin", "dtor"}, Running(op),
           op = "fin" /\ Top.st = 1 => Top.k > MaxMembers
    PROVE  Pop(stack) \in Seq(Frame) /\ Walk(Pop(stack), members, dtor, mark)
<1>1. /\ stack \in Seq(Frame) /\ Len(stack) > 0 /\ Len(stack) \in DOMAIN stack
      /\ Top = stack[Len(stack)] /\ Top.op = op /\ Top.k \in Nat
  BY TopFacts DEF HeapInv
<1>2. Works(stack[Len(stack)]) => ~dtor[stack[Len(stack)].o]
  <2>1. Works(Top) => Top.op = "fin" /\ Top.k > 0
    BY <1>1, HeapAssumption DEF Works
  <2>. QED
    BY <1>1, <2>1 DEF SInv, Walk, DtorsCalled
<1>. QED
  BY <1>1, <1>2, WalkPop, PopPush DEF SInv

LEMMA ReturnsS ==
    ASSUME HeapInv, HeapInv', SInv, DtorReturns \/ Destroyed \/ Collected \/ Finalized
    PROVE  SInv'
<1>1. CASE DtorReturns
  BY <1>1, PopS DEF DtorReturns, objVars, scanVars, SInv
<1>2. CASE Finalized
  BY <1>2, PopS DEF Finalized, objVars, scanVars, SInv
<1>3. CASE Destroyed
  <2>1. /\ Running("fin") /\ Top.st = 0 /\ stack' = Pop(stack) /\ UNCHANGED <<members, dtor>>
        /\ DecrementWeak(Top.o, "zombie")
    BY <1>3 DEF Destroyed
  <2>2. Pop(stack) \in Seq(Frame) /\ Walk(Pop(stack), members, dtor, mark)
    BY <2>1, PopS
  <2>3. \A x \in Obj : mark'[x] = 3 => mark[x] = 3
    <3>1. PICK y : y = Top.o
      OBVIOUS
    <3>2. mark' = [mark EXCEPT ![y] = IF weak_ref_count[y] = 1 THEN 0 ELSE @]
      BY <2>1, <3>1 DEF DecrementWeak
    <3>3. mark \in [Obj -> 0 .. 3]
      BY DEF HeapInv, TypeOK
    <3>. QED
      BY <3>2, <3>3
  <2>4. \A i \in DOMAIN Pop(stack) : Pop(stack)[i].o \in Obj
    <3>1. \A i \in DOMAIN Pop(stack) : Pop(stack)[i] \in Frame
      BY <2>2
    <3>. QED
      BY <3>1 DEF Frame
  <2>5. Walk(Pop(stack), members', dtor', mark')
    BY <2>1, <2>2, <2>3, <2>4, WalkHeap
  <2>. QED
    BY <2>1, <2>5 DEF SInv
<1>4. CASE Collected
  <2>1. /\ Running("fin") /\ Top.k > MaxMembers /\ AfterUnref(Top.o, Pop(stack))
        /\ UNCHANGED <<members, dtor, mark>>
    BY <1>4 DEF Collected, UnrefObject, scanVars
  <2>2. Pop(stack) \in Seq(Frame) /\ Walk(Pop(stack), members', dtor', mark')
    BY <2>1, PopS
  <2>3. Top.o \in Obj
    BY <2>1, TopFacts DEF HeapInv
  <2>. QED
    BY <2>1, <2>2, <2>3, WalkUnref
<1>. QED
  BY <1>1, <1>2, <1>3, <1>4

LEMMA FreeMemberS ==
    ASSUME HeapInv, HeapInv', SInv, FreeMember
    PROVE  SInv'
<1>1. PICK o, s : o = Member /\ s = MoveTo(NextMember(Top.o, Top.k))
  OBVIOUS
<1>2. /\ Running("fin") /\ Top.k \in Slot /\ Member # NoObj
      /\ members' = [members EXCEPT ![Top.o][Top.k] = NoObj]
      /\ AfterUnref(o, s) /\ UNCHANGED <<dtor, mark>>
  BY <1>1 DEF FreeMember, UnrefObject, scanVars
<1>3. /\ stack \in Seq(Frame) /\ Len(stack) > 0 /\ Len(stack) \in DOMAIN stack
      /\ Top = stack[Len(stack)] /\ Top.o \in Obj /\ Top.op = "fin" /\ Top.k \in Nat
      /\ DOMAIN stack = 1 .. Len(stack)
      /\ members \in [Obj -> [Slot -> Obj \cup {NoObj}]]
  <2>1. members \in [Obj -> [Slot -> Obj \cup {NoObj}]]
    BY DEF HeapInv, TypeOK
  <2>2. /\ stack \in Seq(Frame) /\ Len(stack) > 0 /\ Len(stack) \in DOMAIN stack
        /\ Top = stack[Len(stack)] /\ Top.o \in Obj /\ Top.op = "fin" /\ Top.k \in Nat
    BY <1>2, TopFacts DEF HeapInv
  <2>. QED
    BY <2>1, <2>2
<1>4. o \in Obj /\ Top.k \in 0 .. MaxMembers /\ Top.k > 0
  BY <1>1, <1>2, <1>3, HeapAssumption DEF Slot, Member
<1>5. PICK t : t = s[Len(stack)]
  OBVIOUS
<1>6. /\ s \in Seq(Frame) /\ Edited(stack, s) /\ t.o = Top.o /\ t.k > Top.k
      /\ (t.k \in Slot => members[Top.o][t.k] # NoObj)
  BY <1>1, <1>3, <1>4, <1>5, MoveFrames
<1>7. Walk(s, members, dtor, mark)
  <2>1. ~dtor[Top.o]
    BY <1>3, <1>4 DEF SInv, Walk, DtorsCalled
  <2>2. Iterates(s[Len(stack)]) => members[stack[Len(stack)].o][s[Len(stack)].k] # NoObj
    BY <1>3, <1>5, <1>6 DEF Iterates
  <2>3. stack[Len(stack)].op # "set" /\ ~dtor[stack[Len(stack)].o]
    BY <1>3, <2>1
  <2>. QED
    BY <1>3, <1>6, <2>2, <2>3, WalkEdit DEF SInv
<1>8. ASSUME NEW i \in DOMAIN s, Iterates(s[i]), members[s[i].o][s[i].k] # NoObj
      PROVE  members'[s[i].o][s[i].k] # NoObj
  <2>1. s[i] \in Frame
    BY <1>6
  <2>2. s[i].o \in Obj /\ s[i].k \in Slot
    BY <1>8, <2>1 DEF Frame, Iterates
  <2>3. s[i].o # Top.o \/ s[i].k # Top.k
    <3>1. CASE i = Len(stack)
      <4>1. Top.k # t.k
        BY <1>3, <1>6
      <4>. QED
        BY <1>5, <3>1, <4>1
    <3>2. CASE i # Len(stack)
      <4>1. i \in DOMAIN stack /\ i < Len(stack) /\ stack[i].o = s[i].o /\ Iterates(stack[i])
        BY <1>3, <1>6, <1>8, <3>2 DEF Edited, Iterates, Walks
      <4>2. Walks(stack[Len(stack)])
        BY <1>3 DEF Walks
      <4>. QED
        BY <1>3, <4>1, <4>2 DEF SInv, Walk, Order
    <3>. QED
      BY <3>1, <3>2
  <2>. QED
    BY <1>2, <1>3, <1>8, <2>2, <2>3
<1>9. Walk(s, members', dtor', mark')
  BY <1>2, <1>6, <1>7, <1>8, SameWalk
<1>. QED
  BY <1>2, <1>4, <1>6, <1>9, WalkUnref

(* While the collector marks or scans there are no such frames.              *)
LEMMA CollectorS ==
    ASSUME HeapInv, HeapInv', SInv, gc \in {"mark", "scan"}, gc' \in {"mark", "scan"},
           UNCHANGED dtor, \A x \in Obj : mark'[x] = 3 => mark[x] = 3
    PROVE  SInv'
<1>1. /\ \A i \in DOMAIN stack : stack[i].op \notin {"collect", "fin", "dtor"}
      /\ \A i \in DOMAIN stack' : stack'[i].op \notin {"collect", "fin", "dtor"}
  BY DEF HeapInv, StackSound
<1>2. \A x \in Obj : mark[x] = 3 => ~dtor[x]
  BY <1>1 DEF SInv, Walk, DtorsCalled, Works
<1>3. Order(stack') /\ Pointed(stack', members')
  BY <1>1 DEF Order, Pointed, Iterates, Walks, Works
<1>4. DtorsCalled(stack', dtor', mark')
  BY <1>1, <1>2 DEF DtorsCalled
<1>. QED
  BY <1>3, <1>4 DEF SInv, Walk

LEMMA MarkScanS ==
    ASSUME HeapInv, HeapInv', SInv,
           \/ MarkRoot \/ MarkMember \/ MarkEnd \/ StartScan
           \/ ScanRoot \/ ScanMember \/ ScanEnd \/ DropRevived
    PROVE  SInv'
<1>0. mark \in [Obj -> 0 .. 3]
  BY DEF HeapInv, TypeOK
<1>1. ASSUME NEW o, NEW s, NEW r, MarkVisit(o, s, r)
      PROVE  \A x \in Obj : mark'[x] = 3 => mark[x] = 3
  BY <1>0, <1>1 DEF MarkVisit
<1>2. ASSUME NEW o, NEW s, NEW r, ScanVisit(o, r, s)
      PROVE  \A x \in Obj : mark'[x] = 3 => mark[x] = 3
  <2>1. \/ mark' = [mark EXCEPT ![o] = 0]
        \/ mark' = [mark EXCEPT ![o] = IF @ = 0 THEN 0 ELSE 2]
    BY <1>2 DEF ScanVisit
  <2>. QED
    BY <1>0, <2>1
<1>3. Running("mark") => gc = "mark"
  BY TopFacts DEF HeapInv, StackSound
<1>4. Running("scan") => gc = "scan"
  BY TopFacts DEF HeapInv, StackSound
<1>5. CASE MarkRoot
  BY <1>1, <1>5, CollectorS DEF MarkRoot, objVars, gcVars
<1>6. CASE MarkMember
  <2>1. gc = "mark" /\ UNCHANGED <<gc, dtor>> /\ (mark' = mark \/ \E o, s, r : MarkVisit(o, s, r))
    BY <1>3, <1>6 DEF MarkMember, objVars, gcVars, scanVars
  <2>. QED
    BY <1>1, <2>1, CollectorS
<1>7. CASE MarkEnd
  BY <1>3, <1>7, CollectorS DEF MarkEnd, objVars, gcVars
<1>8. CASE StartScan
  BY <1>8, CollectorS DEF StartScan, objVars, scanVars
<1>9. CASE ScanRoot
  BY <1>2, <1>9, CollectorS DEF ScanRoot, objVars
<1>10. CASE ScanMember
  <2>1. gc = "scan" /\ UNCHANGED <<gc, dtor>> /\ (mark' = mark \/ \E o, s, r : ScanVisit(o, r, s))
    BY <1>4, <1>10 DEF ScanMember, objVars, gcVars, scanVars
  <2>. QED
    BY <1>2, <2>1, CollectorS
<1>11. CASE ScanEnd
  BY <1>4, <1>11, CollectorS DEF ScanEnd, objVars, gcVars, scanVars
<1>12. CASE DropRevived
  BY <1>12, CollectorS DEF DropRevived, objVars, gcVars, scanVars
<1>. QED
  BY <1>5, <1>6, <1>7, <1>8, <1>9, <1>10, <1>11, <1>12

LEMMA CollectVisitS ==
    ASSUME HeapInv, CInv, gc \in {"idle", "collect"}, NEW s \in Seq(Frame), Walk(s, members, dtor, mark),
           \A i \in DOMAIN s : s[i].op = "collect" /\ mark[s[i].o] = 3,
           NEW o \in Obj, CollectVisit(o, s), UNCHANGED <<members, dtor>>
    PROVE  SInv'
<1>1. CASE mark[o] \in {0, 3}
  BY <1>1 DEF CollectVisit, SInv
<1>2. CASE mark[o] \notin {0, 3}
  <2>. DEFINE h == [op |-> "collect", o |-> o, k |-> NextMember(o, 0), st |-> 0]
  <2>1. mark' = [mark EXCEPT ![o] = 3] /\ stack' = Append(s, h)
    BY <1>2 DEF CollectVisit
  <2>2. h \in Frame /\ h.op = "collect" /\ h.o = o /\ (h.k \in Slot => members[o][h.k] # NoObj)
    BY NextMemberFacts, HeapAssumption DEF Frame
  <2>. HIDE DEF h
  <2>3. mark \in [Obj -> 0 .. 3]
    BY DEF HeapInv, TypeOK
  <2>4. \A x \in Obj : mark'[x] = IF x = o THEN 3 ELSE mark[x]
    BY <2>1, <2>3
  <2>5. Walk(Append(s, h), members, dtor, mark)
    <3>1. \A i \in DOMAIN s : s[i].o # h.o
      BY <1>2, <2>2
    <3>. QED
      BY <2>2, <3>1, WalkPush DEF Iterates
  <2>6. /\ Len(s) \in Nat /\ Len(s) + 1 \in DOMAIN stack' /\ stack'[Len(s) + 1] = h
        /\ \A i \in DOMAIN stack' : stack'[i] = h \/ (i \in DOMAIN s /\ stack'[i] = s[i])
    BY <2>1, <2>2
  <2>7. DtorsCalled(stack', dtor', mark')
    <3>1. \A i \in DOMAIN stack' : stack'[i].op = "collect"
      BY <2>2, <2>6
    <3>2. \A x \in Obj : mark[x] = 3 /\ dtor[x] => \E i \in DOMAIN stack' : Works(stack'[i]) /\ stack'[i].o = x
      BY <2>1, <2>5 DEF Walk, DtorsCalled
    <3>3. \E i \in DOMAIN stack' : Works(stack'[i]) /\ stack'[i].o = o
      BY <2>2, <2>6 DEF Works
    <3>. QED
      BY <2>4, <3>1, <3>2, <3>3 DEF DtorsCalled
  <2>. QED
    BY <2>1, <2>5, <2>7 DEF SInv, Walk
<1>. QED
  BY <1>1, <1>2

LEMMA CollectRootS ==
    ASSUME HeapInv, CInv, SInv, CollectRoot
    PROVE  SInv'
<1>1. /\ gc = "collect" /\ stack = <<>> /\ isolated_roots # <<>>
      /\ CollectVisit(Head(isolated_roots), stack) /\ UNCHANGED <<members, dtor>>
  BY DEF CollectRoot
<1>2. Head(isolated_roots) \in Obj /\ stack \in Seq(Frame) /\ DOMAIN stack = {}
  BY <1>1 DEF HeapInv, TypeOK
<1>. QED
  BY <1>1, <1>2, CollectVisitS DEF SInv

LEMMA CollectMemberS ==
    ASSUME HeapInv, CInv, SInv, CollectMember
    PROVE  SInv'
<1>1. PICK o, s : o = Member /\ s = MoveTo(NextMember(Top.o, Top.k))
  OBVIOUS
<1>2. /\ Running("collect") /\ Top.k \in Slot /\ o # NoObj
      /\ CollectVisit(o, s) /\ UNCHANGED <<members, dtor>>
  BY <1>1 DEF CollectMember
<1>3. /\ stack \in Seq(Frame) /\ Len(stack) > 0 /\ Len(stack) \in DOMAIN stack
      /\ Top = stack[Len(stack)] /\ Top.o \in Obj /\ Top.op = "collect" /\ Top.k \in Nat
      /\ gc \in {"idle", "collect"}
  BY <1>2, TopFacts DEF HeapInv
<1>4. o \in Obj /\ Top.k \in 0 .. MaxMembers
  <2>1. members \in [Obj -> [Slot -> Obj \cup {NoObj}]]
    BY DEF HeapInv, TypeOK
  <2>. QED
    BY <1>1, <1>2, <1>3, <2>1, HeapAssumption DEF Slot, Member
<1>5. PICK t : t = s[Len(stack)]
  OBVIOUS
<1>6. /\ s \in Seq(Frame) /\ Edited(stack, s) /\ t.o = Top.o
      /\ (t.k \in Slot => members[Top.o][t.k] # NoObj)
  BY <1>1, <1>3, <1>4, <1>5, MoveFrames
<1>7. Walk(s, members, dtor, mark)
  <2>2. Iterates(s[Len(stack)]) => members[stack[Len(stack)].o][s[Len(stack)].k] # NoObj
    BY <1>3, <1>5, <1>6 DEF Iterates
  <2>. QED
    BY <1>3, <1>6, <2>2, WalkEdit DEF SInv
<1>8. ASSUME NEW i \in DOMAIN s
      PROVE  s[i].op = "collect" /\ mark[s[i].o] = 3
  <2>1. i \in DOMAIN stack /\ s[i].op = stack[i].op /\ s[i].o = stack[i].o
    BY <1>6 DEF Edited
  <2>2. stack[i].op = "collect"
    <3>1. i = Len(stack) \/ i < Len(stack)
      BY <1>3, <2>1
    <3>. QED
      BY <1>3, <2>1, <3>1 DEF SInv, Walk, Order
  <2>3. stack[i] \in Elems(stack) /\ Works(stack[i])
    BY <2>1, <2>2 DEF Elems, Works
  <2>. QED
    BY <1>3, <2>1, <2>2, <2>3 DEF CInv, Worked, Passed
<1>. QED
  BY <1>2, <1>3, <1>4, <1>6, <1>7, <1>8, CollectVisitS

LEMMA CollectPostS ==
    ASSUME HeapInv, SInv, CollectPost
    PROVE  SInv'
<1>. DEFINE f == [op |-> "fin", o |-> Top.o, k |-> 0, st |-> 1]
            p == Pop(stack)
            n == Len(stack)
            t == Append(p, f)
<1>1. /\ Running("collect") /\ stack' = t /\ UNCHANGED <<members, dtor, mark>>
  BY DEF CollectPost, objVars, scanVars
<1>2. /\ stack \in Seq(Frame) /\ n > 0 /\ n \in DOMAIN stack /\ n \in Nat
      /\ Top = stack[n] /\ Top.o \in Obj /\ Top.op = "collect" /\ DOMAIN stack = 1 .. n
  BY <1>1, TopFacts DEF HeapInv
<1>3. f \in Frame /\ f.op = "fin" /\ f.o = Top.o /\ f.k = 0 /\ f.st = 1
  BY <1>2 DEF Frame
<1>. HIDE DEF f
<1>4. /\ p \in Seq(Frame) /\ Len(p) = n - 1 /\ \A i \in 1 .. n - 1 : p[i] = stack[i]
  <2>1. stack \in Seq(Frame) /\ Len(stack) > 0
    BY <1>2
  <2>2. /\ Pop(stack) \in Seq(Frame) /\ Len(Pop(stack)) = Len(stack) - 1
        /\ \A i \in 1 .. Len(stack) - 1 : Pop(stack)[i] = stack[i]
    BY <2>1, PopPush
  <2>. QED
    BY <2>2
<1>. HIDE DEF p, n
<1>5. /\ DOMAIN t = DOMAIN stack /\ t[n] = f
      /\ \A i \in DOMAIN stack : i # n => t[i] = stack[i]
      /\ \A i \in DOMAIN stack : i < n \/ i = n
  BY <1>2, <1>3, <1>4
<1>. HIDE DEF t
<1>6. /\ Works(f) /\ Works(stack[n]) /\ Walks(stack[n]) /\ ~Iterates(f)
  BY <1>2, <1>3, HeapAssumption DEF Works, Walks, Iterates, Slot
<1>7. Order(t)
  <2>1. SUFFICES ASSUME NEW i \in DOMAIN t, NEW j \in DOMAIN t, i < j
                 PROVE  /\ t[j].op = "collect" => t[i].op = "collect"
                        /\ Iterates(t[i]) /\ Walks(t[j]) => t[i].o # t[j].o
                        /\ Works(t[i]) /\ Works(t[j]) => t[i].o # t[j].o
    BY DEF Order
  <2>2. i \in DOMAIN stack /\ j \in DOMAIN stack /\ i # n
    BY <1>2, <1>5, <2>1
  <2>3. /\ stack[j].op = "collect" => stack[i].op = "collect"
        /\ Iterates(stack[i]) /\ Walks(stack[j]) => stack[i].o # stack[j].o
        /\ Works(stack[i]) /\ Works(stack[j]) => stack[i].o # stack[j].o
    BY <2>1, <2>2 DEF SInv, Walk, Order
  <2>4. CASE j = n
    BY <1>2, <1>3, <1>5, <1>6, <2>2, <2>3, <2>4
  <2>5. CASE j # n
    BY <1>5, <2>2, <2>3, <2>5
  <2>. QED
    BY <2>4, <2>5
<1>8. Pointed(t, members)
  <2>1. SUFFICES ASSUME NEW i \in DOMAIN t, Iterates(t[i])
                 PROVE  members[t[i].o][t[i].k] # NoObj \/ PutBack(t, i)
    BY DEF Pointed
  <2>2. i \in DOMAIN stack /\ i # n /\ t[i] = stack[i]
    BY <1>5, <1>6, <2>1
  <2>3. PutBack(stack, i) => PutBack(t, i)
    BY <1>2, <1>5, <2>2 DEF PutBack
  <2>. QED
    BY <2>1, <2>2, <2>3 DEF SInv, Walk, Pointed
<1>9. DtorsCalled(t, dtor, mark)
  <2>1. ~(f.k > 0) /\ f.op # "dtor"
    BY <1>3
  <2>2. \A i \in DOMAIN stack : Works(stack[i]) <=> Works(t[i])
    BY <1>5, <1>6
  <2>3. \A i \in DOMAIN stack : t[i].o = stack[i].o
    BY <1>2, <1>3, <1>5
  <2>4. \A i \in DOMAIN stack : i > 1 => i - 1 \in DOMAIN stack
    BY <1>2
  <2>5. /\ \A i \in DOMAIN t : t[i].op = "fin" /\ t[i].k > 0 => ~dtor[t[i].o]
        /\ \A x \in Obj : mark[x] = 3 /\ dtor[x] => \E i \in DOMAIN t : Works(t[i]) /\ t[i].o = x
    BY <1>5, <2>1, <2>2, <2>3 DEF SInv, Walk, DtorsCalled
  <2>6. \A i \in DOMAIN t : t[i].op = "dtor" =>
           ~dtor[t[i].o] /\ (mark[t[i].o] = 3 => i > 1 /\ Works(t[i - 1]))
    BY <1>5, <2>1, <2>2, <2>4 DEF SInv, Walk, DtorsCalled
  <2>. QED
    BY <2>5, <2>6 DEF DtorsCalled
<1>. QED
  BY <1>1, <1>7, <1>8, <1>9 DEF SInv, Walk

LEMMA PhaseS ==
    ASSUME SInv, StartCollect \/ StartFinalize \/ EndCollect
    PROVE  SInv'
  BY DEF StartCollect, StartFinalize, EndCollect, objVars, scanVars, SInv

LEMMA SInvUser ==
    ASSUME HeapInv, HeapInv', CInv, SInv, ~Reenters, User
    PROVE  SInv'
<1>1. \A d \in Dtors : d \in BOOLEAN
  BY HeapAssumption
<1>. QED
  BY <1>1, NewObjectS, QuietOpsS, DropRefS, MoveMemberS, DeleteMemberS, SetMemberS, FinalizeS
  DEF User

LEMMA SInvSystem ==
    ASSUME HeapInv, HeapInv', CInv, SInv, System
    PROVE  SInv'
  BY CallDtorS, StoreMemberS, ReturnsS, FreeMemberS, MarkScanS, CollectRootS, CollectMemberS,
     CollectPostS, PhaseS DEF System

LEMMA SInvInit ==
    ASSUME Init
    PROVE  SInv
<1>1. DOMAIN stack = {} /\ \A x \in Obj : mark[x] = 0
  BY DEF Init
<1>. QED
  BY <1>1 DEF SInv, Walk, Order, Pointed, DtorsCalled

LEMMA CInvInit ==
    ASSUME Init
    PROVE  CInv
<1>1. /\ \A x \in Obj : state[x] = "free" /\ mark[x] = 0 /\ ref_count_scan[x] = 0
      /\ unreferred_objects = <<>> /\ isolated_roots = <<>> /\ stack = <<>> /\ gc = "idle"
  BY DEF Init
<1>2. Elems(stack) = {} /\ \A x : ~InList(unreferred_objects, x) /\ ~InList(isolated_roots, x)
  BY <1>1 DEF Elems, InList
<1>3. NothingLost(state, members, ext, Elems(stack), unreferred_objects, isolated_roots)
  BY <1>1 DEF NothingLost
<1>4. DyingFramed(state, Elems(stack))
  BY <1>1 DEF DyingFramed
<1>5. Marks(gc, state, mark, ref_count_scan, unreferred_objects, isolated_roots)
  BY <1>1, <1>2 DEF Marks
<1>6. CutOff(state, mark, members, ext, Elems(stack))
  BY <1>1 DEF CutOff, Doomed
<1>7. Worked(mark, members, Elems(stack))
  BY <1>1, <1>2 DEF Worked
<1>. QED
  BY <1>1, <1>3, <1>4, <1>5, <1>6, <1>7 DEF CInv

LEMMA CInvUser ==
    ASSUME HeapInv, ListsInv, HeapInv', ListsInv', CInv, SInv, ~Reenters, ~UsesScheduled, User
    PROVE  CInv'
  BY NewObjectC, UserTakesC, DropRefC, WeaklyRefC, DropWeakRefC, FinalizeC, AddMemberC,
     MoveMemberC, SetMemberC, DeleteMemberC, DtorUsesMemberC DEF User

LEMMA CInvSystem ==
    ASSUME HeapInv, ListsInv, HeapInv', ListsInv', CInv, System
    PROVE  CInv'
  BY StoreMemberC, CallDtorC, DtorReturnsC, FreeMemberC, DestroyedC, CollectedC, FinalizedC,
     MarkRootC, MarkMemberC, MarkEndC, StartScanC, ScanRootC, ScanMemberC, ScanEndC,
     DropRevivedC, StartFinalizeC, CollectRootC, CollectMemberC, CollectPostC,
     EndCollectC DEF System

LEMMA CInvNext ==
    ASSUME ~Reenters, ~UsesScheduled, IInv, CInv, SInv, [Next]_vars
    PROVE  IInv' /\ CInv' /\ SInv'
<1>1. IInv'
  BY IInvNext
<1>2. HeapInv /\ ListsInv /\ HeapInv' /\ ListsInv'
  BY <1>1 DEF IInv
<1>3. CASE User
  BY <1>1, <1>2, <1>3, CInvUser, SInvUser
<1>4. CASE StartCollect
  BY <1>1, <1>2, <1>4, StartCollectC, PhaseS
<1>5. CASE System
  BY <1>1, <1>2, <1>5, CInvSystem, SInvSystem
<1>6. CASE UNCHANGED vars
  <2>1. UNCHANGED <<state, ref_count, members, dtor, mark, ref_count_scan, unreferred_objects,
                    isolated_roots, ext, gc, cursor, stack>>
    BY <1>6 DEF vars, objVars, scanVars, listVars, ownVars, gcVars
  <2>2. \A M : ScanStage(M) => ScanStage(M)'
    BY <2>1 DEF ScanStage
  <2>. QED
    BY <1>1, <2>1, <2>2 DEF CInv, SInv
<1>. QED
  BY <1>3, <1>4, <1>5, <1>6 DEF Next

(* The collector's invariant holds in every state the heap can reach: the    *)
(* three stages of di_collect_garbage, interrupted by destructors or not,    *)
(* lose no object, count the references they find and decide by them, and    *)
(* their loops over members never come to a member that has gone.  User code *)
(* must not reach into the member di_setx is replacing or delete the member  *)
(* a loop comes to next (~Reenters), and a destructor must not keep an       *)
(* object that is collected with its own (~UsesScheduled): object.c checks   *)
(* none of this, and what it does then is in the README.                     *)
THEOREM CollectorCorrect ==
    ASSUME ~Reenters, ~UsesScheduled
    PROVE  Spec => [](IInv /\ CInv /\ SInv)
<1>1. Init => IInv /\ CInv /\ SInv
  BY IInvInit, CInvInit, SInvInit
<1>2. IInv /\ CInv /\ SInv /\ [Next]_vars => (IInv /\ CInv /\ SInv)'
  BY CInvNext
<1>. QED
  BY <1>1, <1>2, PTL DEF Spec

(* The objects reached from S, as the properties say it.                     *)
LEMMA ReachableFrom ==
    ASSUME NEW S
    PROVE  \A x : x \in Reachable(S) <=> x \in Obj /\ From(members, S, x)
  BY DEF Reachable, Closed, From, ClosedIn

LEMMA UsersHold ==
    Users(ext) \subseteq HeldByUser
  BY DEF Users, HeldByUser

LEMMA InUseReached ==
    ASSUME NEW x \in Obj, From(members, Users(ext), x)
    PROVE  x \notin Garbage
<1>1. From(members, HeldByUser, x)
  BY UsersHold, FromMono
<1>. QED
  BY <1>1, ReachableFrom DEF Garbage

(* The collector finalizes only garbage: what di_collect_garbage_scan leaves *)
(* marked, and what is being collected, cannot be reached from user code,    *)
(* also after destructors have run in the middle of the collection, unless   *)
(* one of them keeps what is collected with its own object (UsesScheduled).  *)
THEOREM OnlyGarbageIsCollected ==
    ASSUME ~Reenters, ~UsesScheduled
    PROVE  Spec => []CollectsOnlyGarbage
<1>1. IInv /\ CInv => CollectsOnlyGarbage
  <2>1. SUFFICES ASSUME HeapInv, ListsInv, CInv, gc = "collect", NEW o \in Obj, state[o] = "live",
                        mark[o] \in {2, 3}
                 PROVE  o \in Garbage
    BY DEF IInv, CollectsOnlyGarbage, Live
  <2>2. CutOff(state, mark, members, ext, Elems(stack))
    BY <2>1 DEF CInv
  <2>3. stack \in Seq(Frame)
    BY <2>1 DEF HeapInv, TypeOK
  <2>4. PICK T \in SUBSET Obj : T = {y \in Obj : mark[y] \notin {2, 3}}
    OBVIOUS
  <2>5. ClosedIn(members, T)
    <3>1. SUFFICES ASSUME NEW p \in T, NEW k \in Slot, members[p][k] # NoObj,
                          members[p][k] \notin T
                   PROVE  FALSE
      BY DEF ClosedIn
    <3>2. PICK y \in Obj : y = members[p][k] /\ p \in Obj
      <4>1. p \in Obj
        OBVIOUS
      <4>2. members[p][k] \in Obj \cup {NoObj}
        BY <2>1, <4>1 DEF HeapInv, TypeOK
      <4>. QED
        BY <3>1, <4>1, <4>2
    <3>3. state[y] = "live"
      BY <2>1, <3>2, Owned DEF HeapInv
    <3>4. Doomed(state, mark, y)
      BY <2>4, <3>1, <3>2, <3>3 DEF Doomed
    <3>5. mark[p] \in {2, 3}
      BY <2>2, <3>2, <3>4 DEF CutOff
    <3>. QED
      BY <2>4, <3>5
  <2>6. HeldByUser \subseteq T
    <3>1. SUFFICES ASSUME NEW y \in HeldByUser
                   PROVE  y \in T
      OBVIOUS
    <3>2. y \in Obj
      BY DEF HeldByUser
    <3>3. CASE ext[y] > 0
      <4>1. mark[y] = 0
        BY <2>1, <3>2, <3>3, UserMark
      <4>. QED
        BY <2>4, <3>2, <4>1
    <3>4. ASSUME NEW i \in DOMAIN stack, stack[i].o = y, Returns(stack[i])
          PROVE  y \in T
      <4>1. state[y] = "live"
        BY <2>1, <3>2, <3>4, Owned DEF HeapInv, Holds, Returns
      <4>2. stack[i] \in Elems(stack) /\ Returns(stack[i])
        BY <3>4 DEF Elems
      <4>3. ~Doomed(state, mark, y)
        BY <2>2, <3>2, <3>4, <4>2 DEF CutOff
      <4>. QED
        BY <2>4, <3>2, <4>1, <4>3 DEF Doomed
    <3>. QED
      BY <3>3, <3>4 DEF HeldByUser
  <2>7. ~From(members, HeldByUser, o)
    BY <2>1, <2>4, <2>5, <2>6, FromClosed
  <2>. QED
    BY <2>1, <2>7, ReachableFrom DEF Garbage, Live
<1>. QED
  BY <1>1, CollectorCorrect, PTL

(* Every reference to a garbage root comes from an object that finalizing    *)
(* this root finalizes too, which is what the last loop of                   *)
(* di_collect_garbage needs to end.                                          *)
THEOREM RootsOwnReferrers ==
    ASSUME ~Reenters, ~UsesScheduled
    PROVE  Spec => []RootsOwnTheirReferrers
<1>1. IInv /\ CInv => RootsOwnTheirReferrers
  <2>1. SUFFICES ASSUME HeapInv, ListsInv, CInv, gc = "scan", NEW x \in Elems(isolated_roots),
                        x \in Garbage, NEW e \in InEdges(x)
                 PROVE  e[1] \in Reachable({x})
    BY DEF IInv, RootsOwnTheirReferrers
  <2>2. InList(isolated_roots, x) /\ x \in Obj
    BY <2>1 DEF Elems, InList, Garbage, Live
  <2>3. PICK p \in Obj, k \in Slot : p = e[1] /\ members[p][k] = x
    BY DEF InEdges, EdgesTo
  <2>4. members[p][k] # NoObj
    BY <2>2, <2>3, HeapAssumption
  <2>5. PICK M \in SUBSET Obj : ScanStage(M)
    BY <2>1 DEF CInv
  <2>6. CASE p \in M
    <3>1. From(members, {x}, p)
      BY <2>2, <2>3, <2>5, <2>6 DEF ScanStage, Marked
    <3>. QED
      BY <2>3, <3>1, ReachableFrom
  <2>7. CASE p \notin M
    <3>1. state[p] # "dying"
      BY <2>1, NoneDying
    <3>2. state[p] = "live"
      BY <2>1, <2>4, <3>1 DEF HeapInv, DestroyedHoldsNothing, TypeOK
    <3>3. From(members, Users(ext), p)
      BY <2>5, <2>7, <3>2 DEF ScanStage, InUse
    <3>4. From(members, Users(ext), x)
      BY <2>3, <2>4, <3>3, FromEdge
    <3>. QED
      BY <2>1, <2>2, <3>4, InUseReached
  <2>. QED
    BY <2>6, <2>7
<1>. QED
  BY <1>1, CollectorCorrect, PTL

(* When the program is idle and the list of unreferred objects is empty,     *)
(* every live object is reached from user code.                              *)
NoGarbageMissed ==
    gc = "idle" /\ stack = <<>> /\ unreferred_objects = <<>> => Garbage = {}

(* No garbage is missed: a cycle that di_unref_object did not list, or that  *)
(* a collection dropped from its lists without destroying it, would be       *)
(* leaked for good, since only what is listed is ever collected.  (This is   *)
(* what becomes of an object that UsesScheduled lets a destructor keep: its  *)
(* mark stays 3, with which di_unref_object never lists it again.)           *)
THEOREM NoGarbageIsMissed ==
    ASSUME ~Reenters, ~UsesScheduled
    PROVE  Spec => []NoGarbageMissed
<1>1. IInv /\ CInv => NoGarbageMissed
  <2>1. SUFFICES ASSUME CInv, gc = "idle", stack = <<>>, unreferred_objects = <<>>,
                        NEW x \in Obj, state[x] = "live"
                 PROVE  x \notin Garbage
    BY DEF NoGarbageMissed, Garbage, Live
  <2>2. From(members, KnownNow, x)
    BY <2>1 DEF CInv, NothingLost, KnownNow
  <2>3. KnownNow \subseteq Users(ext)
    <3>1. \A y \in Obj : ~InList(isolated_roots, y)
      BY <2>1 DEF CInv, Marks
    <3>2. Elems(stack) = {} /\ \A y : ~InList(unreferred_objects, y)
      BY <2>1 DEF Elems, InList
    <3>. QED
      BY <3>1, <3>2 DEF KnownNow, Known, Users
  <2>. QED
    BY <2>2, <2>3, FromMono, InUseReached
<1>. QED
  BY <1>1, CollectorCorrect, PTL

(* The counts of the collector stay within the references there are.         *)
LEMMA EdgesCounted ==
    ASSUME HeapInv, NEW o \in Obj
    PROVE  /\ Cardinality(EdgesTo(members, o)) <= ref_count[o] /\ ref_count[o] \in Nat
           /\ Cardinality(EdgesTo(members, o)) \in Nat
<1>1. /\ ref_count[o] = ext[o] + Held(o) + Cardinality(InEdges(o))
      /\ ext[o] \in Nat /\ Held(o) \in Nat /\ Cardinality(InEdges(o)) \in Nat
  BY Owned DEF HeapInv, RefCountExact, TypeOK
<1>. QED
  BY <1>1 DEF InEdges

LEMMA ScanCounts ==
    ASSUME HeapInv, CInv, NEW o \in Obj, state[o] = "live"
    PROVE  /\ gc \in {"mark", "scan"} => ref_count_scan[o] <= ref_count[o] + 1
           /\ gc = "scan" => ref_count_scan[o] <= ref_count[o]
<1>1. /\ Cardinality(EdgesTo(members, o)) <= ref_count[o] /\ ref_count[o] \in Nat
      /\ Cardinality(EdgesTo(members, o)) \in Nat
  BY EdgesCounted
<1>2. mark[o] = 0 => ref_count_scan[o] = 0
  BY DEF CInv, Marks
<1>3. CASE gc = "mark" /\ mark[o] # 0
  <2>1. mark[o] = 1
    BY <1>3 DEF CInv, Marks
  <2>2. ref_count_scan[o] =
          Cardinality(Seen(mark, members, stack, o)) + IF First(stack, o) THEN 1 ELSE 0
    BY <1>3, <2>1 DEF CInv, MarkStage, MarksCounted
  <2>3. /\ Cardinality(Seen(mark, members, stack, o)) <= Cardinality(EdgesTo(members, o))
        /\ Cardinality(Seen(mark, members, stack, o)) \in Nat
    BY SeenFinite
  <2>. QED
    BY <1>1, <1>3, <2>2, <2>3
<1>4. CASE gc = "scan" /\ mark[o] # 0
  <2>1. PICK M \in SUBSET Obj : ScanStage(M)
    BY <1>4 DEF CInv
  <2>2. mark[o] \in {1, 2}
    BY <1>4 DEF CInv, Marks
  <2>3. o \in M
    BY <2>1, <2>2 DEF ScanStage, Marked
  <2>4. ref_count_scan[o] = Cardinality(Inner(M, members, o))
    BY <1>4, <2>1, <2>3 DEF ScanStage, Counted
  <2>5. Inner(M, members, o) \subseteq EdgesTo(members, o) /\ IsFiniteSet(EdgesTo(members, o))
    BY EdgesFinite DEF Inner
  <2>6. /\ Cardinality(Inner(M, members, o)) <= Cardinality(EdgesTo(members, o))
        /\ Cardinality(Inner(M, members, o)) \in Nat
    BY <2>5, FS_Subset, FS_CardinalityType
  <2>. QED
    BY <1>1, <1>4, <2>4, <2>6
<1>. QED
  BY <1>1, <1>2, <1>3, <1>4

(* None of the assertions of object.c fails: every reference that            *)
(* di_unref_object drops is a counted one to an object not destroyed yet,    *)
(* di_collect_garbage_mark counts at most ref_count references, the roots    *)
(* are unmarked before and decided after their traversal, and no loop comes  *)
(* to a member that has been freed.  The hypotheses are those of             *)
(* CollectorCorrect; without ~Reenters assert(!destroyed) does fail.         *)
THEOREM AssertionsAlwaysHold ==
    ASSUME ~Reenters, ~UsesScheduled
    PROVE  Spec => []AssertionsHold
<1>1. IInv /\ CInv /\ SInv => AssertionsHold
  <2>1. SUFFICES ASSUME HeapInv, ListsInv, CInv, SInv
                 PROVE  AssertionsHold
    BY DEF IInv
  <2>2. \A x \in Obj : gc \in {"idle", "collect"} => mark[x] # 1
    BY <2>1 DEF CInv, Marks
  <2>3. ASSUME UserCode, NEW o \in HeldByUser
        PROVE  UnrefOK(o)
    <3>1. o \in Obj /\ gc \in {"idle", "collect"}
      BY <2>1, <2>3, UserOp DEF HeldByUser, HeapInv
    <3>2. ref_count[o] > 0 /\ state[o] = "live"
      BY <2>1, <2>3, <3>1, Owned DEF HeldByUser, HeapInv, Holds, Returns
    <3>. QED
      BY <2>2, <3>1, <3>2 DEF UnrefOK
  <2>4. ASSUME Running("fin")
        PROVE  /\ Top.k \in Slot /\ Member # NoObj => UnrefOK(Member)
               /\ Top.st = 0 => ref_count[Top.o] = 0
               /\ Top.st = 1 => UnrefOK(Top.o) /\ mark[Top.o] = 3
    <3>1. /\ stack \in Seq(Frame) /\ Len(stack) \in DOMAIN stack /\ Top = stack[Len(stack)]
          /\ Top.o \in Obj /\ Top.op = "fin" /\ gc \in {"idle", "collect"}
      BY <2>1, <2>4, TopFacts DEF HeapInv
    <3>2. ASSUME Top.k \in Slot, Member # NoObj
          PROVE  UnrefOK(Member)
      <4>1. Member \in Obj /\ Member = members[Top.o][Top.k]
        BY <2>1, <3>1, <3>2 DEF Member, HeapInv, TypeOK
      <4>2. PICK o \in Obj : o = Member
        BY <4>1
      <4>3. ref_count[o] > 0 /\ state[o] = "live"
        BY <2>1, <3>1, <3>2, <4>1, <4>2, Owned DEF HeapInv
      <4>. QED
        BY <2>2, <3>1, <4>2, <4>3 DEF UnrefOK
    <3>3. ASSUME Top.st = 0
          PROVE  ref_count[Top.o] = 0
      <4>1. PICK o \in Obj : o = Top.o
        BY <3>1
      <4>2. state[o] = "dying"
        BY <2>1, <3>1, <3>3, <4>1 DEF HeapInv, StackSound, Destroys
      <4>3. ref_count[o] \in Nat /\ (ref_count[o] > 0 => state[o] = "live")
        BY <2>1 DEF HeapInv, RefCountExact, TypeOK
      <4>. QED
        BY <4>1, <4>2, <4>3
    <3>4. ASSUME Top.st = 1
          PROVE  UnrefOK(Top.o) /\ mark[Top.o] = 3
      <4>1. Works(Top) /\ Holds(Top) /\ Top \in Elems(stack)
        BY <3>1, <3>4 DEF Works, Holds, Elems
      <4>2. mark[Top.o] = 3
        BY <2>1, <3>1, <4>1 DEF CInv, Worked, Passed
      <4>3. ref_count[Top.o] > 0 /\ state[Top.o] = "live"
        BY <2>1, <3>1, <4>1, Owned DEF HeapInv
      <4>. QED
        BY <4>2, <4>3 DEF UnrefOK
    <3>. QED
      BY <3>2, <3>3, <3>4
  <2>5. ASSUME NEW o \in Live
        PROVE  /\ gc \in {"mark", "scan"} => ref_count_scan[o] <= ref_count[o] + 1
               /\ gc = "scan" => ref_count_scan[o] <= ref_count[o]
    BY <2>1, ScanCounts DEF Live
  <2>6. ASSUME gc = "mark", NEW o \in Elems(unreferred_objects)
        PROVE  mark[o] = 0
    <3>1. o \in Obj /\ InList(unreferred_objects, o)
      BY <2>1 DEF Elems, InList, HeapInv, TypeOK
    <3>. QED
      BY <2>1, <3>1 DEF CInv, Marks
  <2>7. ASSUME gc = "scan", NEW i \in DOMAIN isolated_roots, i < cursor
        PROVE  mark[isolated_roots[i]] \in {0, 2}
    <3>1. PICK M \in SUBSET Obj : ScanStage(M)
      BY <2>1, <2>7 DEF CInv
    <3>2. PICK x \in Obj : x = isolated_roots[i]
      BY <2>1 DEF HeapInv, TypeOK
    <3>3. mark[x] # 1
      BY <2>7, <3>1, <3>2 DEF ScanStage, Decided
    <3>4. mark[x] # 3
      BY <3>1, <3>2 DEF ScanStage, Marked, InList
    <3>5. mark[x] \in 0 .. 3
      BY <2>1 DEF HeapInv, TypeOK
    <3>. QED
      BY <3>2, <3>3, <3>4, <3>5
  <2>8. ASSUME NEW op \in {"fin", "collect"}, Running(op), Top.k \in Slot
        PROVE  Member # NoObj
    <3>1. /\ stack \in Seq(Frame) /\ Len(stack) \in DOMAIN stack /\ Top = stack[Len(stack)]
          /\ Top.op = op
      BY <2>1, <2>8, TopFacts DEF HeapInv
    <3>2. Iterates(stack[Len(stack)])
      BY <2>8, <3>1 DEF Iterates, Walks
    <3>3. ~PutBack(stack, Len(stack))
      BY <3>1 DEF PutBack
    <3>. QED
      BY <2>1, <3>1, <3>2, <3>3 DEF SInv, Walk, Pointed, Member
  <2>. QED
    BY <2>3, <2>4, <2>5, <2>6, <2>7, <2>8 DEF AssertionsHold
<1>. QED
  BY <1>1, CollectorCorrect, PTL
=============================================================================
