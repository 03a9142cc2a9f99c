------------------------ MODULE XorgConnectionProofs ------------------------
(***************************************************************************)
(* Proofs about XorgConnection, for any signals, outputs, numbers of        *)
(* events and of changes by other clients; and, at the end, about XorgKey,  *)
(* whose constants and variables are those declared there.                  *)
(***************************************************************************)
EXTENDS XorgConnection, FiniteSetTheorems, TLAPS

-----------------------------------------------------------------------------
(* The inductive invariant.                                                  *)

Sigs == InputSignals \cup RandrSignals \cup {"output-change", "view-change"}
Events == [ext : Exts, sigs : Seq(Sigs), time : Nat]

Records ==
    [open : BOOLEAN, held : SUBSET (Exts \cup {"conn"}), nsignals : Int, reading : BOOLEAN,
     connSigs : SUBSET ConnSignals, alive : SUBSET Exts, extSigs : [Exts -> SUBSET Sigs],
     extCount : [Exts -> Nat], strong : SUBSET Exts, selected : SUBSET Exts, events : Seq(Events)]

(* The signals of an extension are counted, and only a living one has any.   *)
Counted(al, es, ec) ==
    \A e \in Exts :
        /\ es[e] \subseteq SignalsOf(e) /\ IsFiniteSet(es[e]) /\ ec[e] = Cardinality(es[e])
        /\ e \notin al => es[e] = {}

(* The connection counts its own signals and the extensions with signals.    *)
Reads(o, n, r, cs, es, st) ==
    /\ IsFiniteSet(cs)
    /\ o => /\ n = Cardinality(cs) + Cardinality(st)
            /\ r <=> n > 0
            /\ \A e \in Exts : e \in st <=> es[e] # {}
    /\ ~o => ~r /\ cs = {} /\ st = {}

(* User code refers to extensions that exist.                                *)
Good(m) ==
    /\ m \in Records
    /\ m.held \cap Exts \subseteq m.alive
    /\ Counted(m.alive, m.extSigs, m.extCount)
    /\ Reads(m.open, m.nsignals, m.reading, m.connSigs, m.extSigs, m.strong)

(* Events carry times of the past.                                           *)
Past(es, t) == \A i \in DOMAIN es : es[i].time <= t

Server ==
    /\ broken \in BOOLEAN /\ conf \in Nat /\ cts \in 0 .. conf
    /\ view \in [outs : Outputs \cup {None}, time : Nat]
    /\ Len(events) <= MaxEvents /\ Past(events, conf)

(* di_xorg_ioev has an open connection in hand, unless a handler may close   *)
(* it, and emits on an extension that exists.                                *)
Handling ==
    /\ pc \in {"idle", "poll", "raw", "ext", "emit", "handler", "error", "crashed"}
    /\ ev \in Events \cup {NoEvent} /\ ev.time <= conf
    /\ pc \in {"raw", "ext", "emit", "handler"} => ev \in Events
    /\ pc \in {"emit", "handler"} => ev.ext \in alive
    /\ pc = "handler" => ev.sigs # <<>>
    /\ ~DisconnectInHandler /\ pc \in {"poll", "raw", "ext", "emit", "handler"} => open

(* What set_view_config is about to write is older than the view, or what    *)
(* the view has.                                                             *)
Setting ==
    /\ set \in [at : {"none", "info", "set"}, given : BOOLEAN, outs : Outputs \cup {None}, time : Nat]
    /\ set.at = "set" /\ ~set.given =>
          /\ set.time <= view.time
          /\ set.time = view.time => set.outs = view.outs

Inv == Good(Now) /\ Server /\ Handling /\ Setting

-----------------------------------------------------------------------------
(* Sets of signals and of extensions.                                        *)

LEMMA ExtsFinite ==
    ASSUME NEW S \in SUBSET Exts
    PROVE  IsFiniteSet(S)
<1>1. IsFiniteSet({}) /\ IsFiniteSet({"xinput"}) /\ IsFiniteSet({"xinput"} \cup {"randr"})
  BY FS_EmptySet, FS_AddElement
<1>2. Exts = {"xinput"} \cup {"randr"}
  BY DEF Exts
<1>3. IsFiniteSet(Exts)
  BY <1>1, <1>2
<1>. QED  BY <1>3, FS_Subset

LEMMA OneMore ==
    ASSUME NEW S, IsFiniteSet(S), NEW x, x \notin S
    PROVE  /\ IsFiniteSet(S \cup {x}) /\ Cardinality(S) \in Nat
           /\ Cardinality(S \cup {x}) = Cardinality(S) + 1
  BY FS_AddElement, FS_CardinalityType

LEMMA OneLess ==
    ASSUME NEW S, IsFiniteSet(S), NEW x \in S
    PROVE  /\ IsFiniteSet(S \ {x}) /\ Cardinality(S) \in Nat
           /\ Cardinality(S \ {x}) = Cardinality(S) - 1 /\ Cardinality(S \ {x}) \in Nat
<1>1. IsFiniteSet(S \ {x})
  BY FS_RemoveElement
<1>. QED  BY <1>1, FS_RemoveElement, FS_CardinalityType

LEMMA NoneLeft ==
    ASSUME NEW S, IsFiniteSet(S)
    PROVE  Cardinality(S) \in Nat /\ (Cardinality(S) = 0 <=> S = {})
  BY FS_CardinalityType, FS_EmptySet

-----------------------------------------------------------------------------
(* What the operations on the objects keep.                                  *)

LEMMA RecordFacts ==
    ASSUME NEW m \in Records
    PROVE  /\ m.open \in BOOLEAN /\ m.held \in SUBSET (Exts \cup {"conn"}) /\ m.nsignals \in Int
           /\ m.reading \in BOOLEAN /\ m.connSigs \in SUBSET ConnSignals /\ m.alive \in SUBSET Exts
           /\ m.extSigs \in [Exts -> SUBSET Sigs] /\ m.extCount \in [Exts -> Nat]
           /\ m.strong \in SUBSET Exts /\ m.selected \in SUBSET Exts /\ m.events \in Seq(Events)
  BY DEF Records

LEMMA FinalizedFields ==
    ASSUME NEW m \in Records
    PROVE  /\ Finalized(m) \in Records
           /\ Finalized(m).open = FALSE /\ Finalized(m).held = m.held
           /\ Finalized(m).nsignals = 0 /\ Finalized(m).reading = FALSE
           /\ Finalized(m).connSigs = {} /\ Finalized(m).alive = m.alive
           /\ Finalized(m).extSigs = m.extSigs /\ Finalized(m).extCount = m.extCount
           /\ Finalized(m).strong = {} /\ Finalized(m).events = <<>>
<1>1. <<>> \in Seq(Events)
  OBVIOUS
<1>2. PICK none : none = <<>>
  OBVIOUS
<1>3. none \in Seq(Events)
  BY <1>1, <1>2
<1>4. Finalized(m) = [m EXCEPT !.open = FALSE, !.nsignals = 0, !.reading = FALSE, !.connSigs = {},
                               !.strong = {}, !.selected = {}, !.events = none]
  BY <1>2 DEF Finalized
<1>5. Finalized(m) = [open |-> FALSE, held |-> m.held, nsignals |-> 0, reading |-> FALSE,
                      connSigs |-> {}, alive |-> m.alive, extSigs |-> m.extSigs,
                      extCount |-> m.extCount, strong |-> {}, selected |-> {}, events |-> none]
  BY <1>4 DEF Records
<1>6. /\ m.held \in SUBSET (Exts \cup {"conn"}) /\ m.alive \in SUBSET Exts
      /\ m.extSigs \in [Exts -> SUBSET Sigs] /\ m.extCount \in [Exts -> Nat]
  BY RecordFacts
<1>7. Finalized(m) \in Records
  BY <1>3, <1>5, <1>6 DEF Records
<1>. QED  BY <1>2, <1>5, <1>7

LEMMA FinalizedGood ==
    ASSUME NEW m, Good(m)
    PROVE  Good(Finalized(m))
<1>1. m \in Records /\ Counted(m.alive, m.extSigs, m.extCount)
  BY DEF Good
<1>2. /\ Finalized(m) \in Records
      /\ Finalized(m).open = FALSE /\ Finalized(m).held = m.held /\ Finalized(m).reading = FALSE
      /\ Finalized(m).connSigs = {} /\ Finalized(m).alive = m.alive
      /\ Finalized(m).extSigs = m.extSigs /\ Finalized(m).extCount = m.extCount
      /\ Finalized(m).strong = {}
  BY <1>1, FinalizedFields
<1>3. IsFiniteSet({})
  BY FS_EmptySet
<1>. QED  BY <1>1, <1>2, <1>3 DEF Good, Reads

LEMMA ExtsLeftFields ==
    ASSUME NEW m \in Records, NEW left \in SUBSET Exts
    PROVE  /\ ExtsLeft(m, left) \in Records
           /\ ExtsLeft(m, left).open = m.open /\ ExtsLeft(m, left).held = m.held
           /\ ExtsLeft(m, left).nsignals = m.nsignals /\ ExtsLeft(m, left).reading = m.reading
           /\ ExtsLeft(m, left).connSigs = m.connSigs /\ ExtsLeft(m, left).alive = left
           /\ ExtsLeft(m, left).strong = m.strong /\ ExtsLeft(m, left).events = m.events
           /\ ExtsLeft(m, left).extSigs = [e \in Exts |-> IF e \in left THEN m.extSigs[e] ELSE {}]
           /\ ExtsLeft(m, left).extCount = [e \in Exts |-> IF e \in left THEN m.extCount[e] ELSE 0]
<1>. DEFINE es == [e \in Exts |-> IF e \in left THEN m.extSigs[e] ELSE {}]
            ec == [e \in Exts |-> IF e \in left THEN m.extCount[e] ELSE 0]
<1>1. m.extSigs \in [Exts -> SUBSET Sigs] /\ m.extCount \in [Exts -> Nat] /\ m.selected \in SUBSET Exts
  BY RecordFacts
<1>2. es \in [Exts -> SUBSET Sigs] /\ ec \in [Exts -> Nat] /\ m.selected \cap left \in SUBSET Exts
  BY <1>1
<1>3. ExtsLeft(m, left) = [m EXCEPT !.alive = left, !.extSigs = es, !.extCount = ec,
                                    !.selected = m.selected \cap left]
  BY DEF ExtsLeft, Records
<1>. HIDE DEF es, ec
<1>4. /\ ExtsLeft(m, left) \in Records
      /\ ExtsLeft(m, left).open = m.open /\ ExtsLeft(m, left).held = m.held
      /\ ExtsLeft(m, left).nsignals = m.nsignals /\ ExtsLeft(m, left).reading = m.reading
      /\ ExtsLeft(m, left).connSigs = m.connSigs /\ ExtsLeft(m, left).alive = left
      /\ ExtsLeft(m, left).strong = m.strong /\ ExtsLeft(m, left).events = m.events
      /\ ExtsLeft(m, left).extSigs = es /\ ExtsLeft(m, left).extCount = ec
  BY <1>2, <1>3 DEF Records
<1>. QED  BY <1>4 DEF es, ec

(* No extension with listeners is collected while the connection is open.    *)
LEMMA ExtsLeftGood ==
    ASSUME NEW m, Good(m), NEW left \in SUBSET m.alive, m.held \cap Exts \subseteq left,
           m.open => m.strong \subseteq left
    PROVE  Good(ExtsLeft(m, left))
<1>. DEFINE r == ExtsLeft(m, left)
<1>1. /\ m \in Records /\ Counted(m.alive, m.extSigs, m.extCount)
      /\ Reads(m.open, m.nsignals, m.reading, m.connSigs, m.extSigs, m.strong)
  BY DEF Good
<1>2. /\ m.alive \in SUBSET Exts /\ m.extSigs \in [Exts -> SUBSET Sigs] /\ m.open \in BOOLEAN
      /\ m.extCount \in [Exts -> Nat] /\ left \in SUBSET Exts
  BY <1>1, RecordFacts
<1>3. /\ r \in Records /\ r.open = m.open /\ r.held = m.held /\ r.nsignals = m.nsignals /\ r.reading = m.reading
      /\ r.connSigs = m.connSigs /\ r.alive = left /\ r.strong = m.strong
      /\ r.extSigs = [e \in Exts |-> IF e \in left THEN m.extSigs[e] ELSE {}]
      /\ r.extCount = [e \in Exts |-> IF e \in left THEN m.extCount[e] ELSE 0]
  BY <1>1, <1>2, ExtsLeftFields
<1>. HIDE DEF r
<1>4. IsFiniteSet({}) /\ Cardinality({}) = 0
  BY FS_EmptySet
<1>5. Counted(r.alive, r.extSigs, r.extCount)
  <2>1. ASSUME NEW e \in Exts
        PROVE  /\ r.extSigs[e] \subseteq SignalsOf(e) /\ IsFiniteSet(r.extSigs[e])
               /\ r.extCount[e] = Cardinality(r.extSigs[e])
               /\ e \notin r.alive => r.extSigs[e] = {}
    <3>1. CASE e \in left
      <4>1. r.extSigs[e] = m.extSigs[e] /\ r.extCount[e] = m.extCount[e] /\ e \in r.alive
        BY <1>3, <3>1
      <4>. QED  BY <1>1, <4>1 DEF Counted
    <3>2. CASE e \notin left
      <4>1. r.extSigs[e] = {} /\ r.extCount[e] = 0
        BY <1>3, <3>2
      <4>. QED  BY <1>4, <4>1
    <3>. QED  BY <3>1, <3>2
  <2>. QED  BY <2>1 DEF Counted
<1>6. m.open => \A e \in Exts : e \in m.strong <=> r.extSigs[e] # {}
  <2>1. ASSUME m.open, NEW e \in Exts
        PROVE  e \in m.strong <=> r.extSigs[e] # {}
    <3>1. e \in m.strong <=> m.extSigs[e] # {}
      BY <1>1, <2>1 DEF Reads
    <3>2. e \in m.strong => e \in left
      BY <2>1
    <3>. QED  BY <1>3, <3>1, <3>2
  <2>. QED  BY <2>1
<1>7. Reads(r.open, r.nsignals, r.reading, r.connSigs, r.extSigs, r.strong)
  BY <1>1, <1>3, <1>6 DEF Reads
<1>8. Good(r)
  BY <1>3, <1>5, <1>7 DEF Good
<1>. QED  BY <1>8 DEF r

(* What is collected after a step.                                           *)
LEMMA CollectedGood ==
    ASSUME NEW m, Good(m), NEW p, NEW cur
    PROVE  /\ Good(Collected(m, p, cur))
           /\ Collected(m, p, cur).held = m.held
           /\ Collected(m, p, cur).events \in {m.events, <<>>}
           /\ p # "idle" \/ cur \in m.alive => Collected(m, p, cur).open = m.open
           /\ cur \in m.alive => cur \in Collected(m, p, cur).alive
<1>. DEFINE direct == m.alive \cap (m.held \cup {cur})
            conn == "conn" \in m.held \/ m.reading \/ p # "idle" \/ direct # {}
            n == IF conn \/ ~m.open THEN m ELSE Finalized(m)
            left == IF conn THEN direct \cup (m.alive \cap m.strong) ELSE {}
<1>1. Collected(m, p, cur) = ExtsLeft(n, left)
  BY DEF Collected
<1>2. /\ m \in Records /\ Counted(m.alive, m.extSigs, m.extCount)
      /\ Reads(m.open, m.nsignals, m.reading, m.connSigs, m.extSigs, m.strong)
      /\ m.open \in BOOLEAN /\ m.alive \in SUBSET Exts /\ m.strong \in SUBSET Exts
  BY RecordFacts DEF Good
<1>3. m.open => m.strong \subseteq m.alive
  BY <1>2 DEF Counted, Reads
<1>4. CASE conn \/ ~m.open
  <2>1. n = m
    BY <1>4
  <2>2. left \in SUBSET m.alive /\ left \in SUBSET Exts
    BY <1>2
  <2>3. (m.open => m.strong \subseteq left) /\ m.held \cap Exts \subseteq left
    BY <1>3, <1>4 DEF Good
  <2>4. (p # "idle" \/ cur \in m.alive) /\ cur \in m.alive => cur \in left
    OBVIOUS
  <2>. HIDE DEF left, n, conn, direct
  <2>5. Good(ExtsLeft(m, left))
    BY <2>2, <2>3, ExtsLeftGood
  <2>6. /\ ExtsLeft(m, left).open = m.open /\ ExtsLeft(m, left).held = m.held
        /\ ExtsLeft(m, left).alive = left /\ ExtsLeft(m, left).events = m.events
    BY <1>2, <2>2, ExtsLeftFields
  <2>. QED  BY <1>1, <2>1, <2>4, <2>5, <2>6
<1>5. CASE ~(conn \/ ~m.open)
  <2>1. /\ n = Finalized(m) /\ left = {} /\ p = "idle" /\ cur \notin m.alive
        /\ m.held \cap Exts = {}
    BY <1>5 DEF Good
  <2>. HIDE DEF left, n, conn, direct
  <2>2. /\ Finalized(m) \in Records /\ Good(Finalized(m))
        /\ Finalized(m).open = FALSE /\ Finalized(m).held = m.held /\ Finalized(m).events = <<>>
    BY <1>2, FinalizedFields, FinalizedGood
  <2>3. {} \in SUBSET Finalized(m).alive /\ {} \in SUBSET Exts
    OBVIOUS
  <2>4. Good(ExtsLeft(Finalized(m), {}))
    BY <2>1, <2>2, <2>3, ExtsLeftGood
  <2>5. /\ ExtsLeft(Finalized(m), {}).held = m.held
        /\ ExtsLeft(Finalized(m), {}).events = <<>>
    BY <2>2, <2>3, ExtsLeftFields
  <2>. QED  BY <1>1, <2>1, <2>4, <2>5
<1>. QED  BY <1>4, <1>5

(* Good, of the record of the fields given.                                  *)
LEMMA GoodFields ==
    ASSUME NEW r, r \in Records, r.held \cap Exts \subseteq r.alive,
           Counted(r.alive, r.extSigs, r.extCount),
           Reads(r.open, r.nsignals, r.reading, r.connSigs, r.extSigs, r.strong)
    PROVE  Good(r)
  BY DEF Good

LEMMA GoodHeld ==
    ASSUME NEW m, Good(m), NEW x
    PROVE  /\ Good([m EXCEPT !.held = @ \ {x}])
           /\ [m EXCEPT !.held = @ \ {x}].events = m.events
           /\ [m EXCEPT !.held = @ \ {x}].open = m.open
           /\ [m EXCEPT !.held = @ \ {x}].alive = m.alive
<1>. DEFINE r == [m EXCEPT !.held = @ \ {x}]
<1>1. m \in Records
  BY DEF Good
<1>2. /\ r \in Records /\ r.held = m.held \ {x} /\ r.open = m.open /\ r.nsignals = m.nsignals
      /\ r.reading = m.reading /\ r.connSigs = m.connSigs /\ r.alive = m.alive
      /\ r.extSigs = m.extSigs /\ r.extCount = m.extCount /\ r.strong = m.strong
      /\ r.events = m.events
  BY <1>1 DEF Records
<1>. HIDE DEF r
<1>3. Good(r)
  BY <1>2 DEF Good
<1>. QED  BY <1>2, <1>3 DEF r

LEMMA AddSignalFields ==
    ASSUME NEW m \in Records
    PROVE  /\ AddSignal(m) \in Records
           /\ AddSignal(m).held = m.held /\ AddSignal(m).open = m.open
           /\ AddSignal(m).nsignals = m.nsignals + 1 /\ (AddSignal(m).reading <=> m.reading \/ m.nsignals = 0)
           /\ AddSignal(m).connSigs = m.connSigs /\ AddSignal(m).alive = m.alive
           /\ AddSignal(m).extSigs = m.extSigs /\ AddSignal(m).extCount = m.extCount
           /\ AddSignal(m).strong = m.strong /\ AddSignal(m).events = m.events
<1>1. m.nsignals \in Int /\ m.reading \in BOOLEAN
  BY RecordFacts
<1>2. PICK b \in BOOLEAN : b = (m.reading \/ m.nsignals = 0)
  OBVIOUS
<1>3. PICK k \in Int : k = m.nsignals + 1
  BY <1>1
<1>4. AddSignal(m) = [m EXCEPT !.nsignals = k, !.reading = b]
  BY <1>2, <1>3 DEF AddSignal, Records
<1>5. /\ AddSignal(m) \in Records
      /\ AddSignal(m).held = m.held /\ AddSignal(m).open = m.open
      /\ AddSignal(m).nsignals = k /\ AddSignal(m).reading = b
      /\ AddSignal(m).connSigs = m.connSigs /\ AddSignal(m).alive = m.alive
      /\ AddSignal(m).extSigs = m.extSigs /\ AddSignal(m).extCount = m.extCount
      /\ AddSignal(m).strong = m.strong /\ AddSignal(m).events = m.events
  BY <1>4 DEF Records
<1>6. b <=> m.reading \/ m.nsignals = 0
  BY <1>2
<1>. QED  BY <1>3, <1>5, <1>6

LEMMA DelSignalFields ==
    ASSUME NEW m \in Records
    PROVE  /\ DelSignal(m) \in Records
           /\ DelSignal(m).held = m.held /\ DelSignal(m).open = m.open
           /\ DelSignal(m).nsignals = m.nsignals - 1 /\ (DelSignal(m).reading <=> m.reading /\ m.nsignals # 1)
           /\ DelSignal(m).connSigs = m.connSigs /\ DelSignal(m).alive = m.alive
           /\ DelSignal(m).extSigs = m.extSigs /\ DelSignal(m).extCount = m.extCount
           /\ DelSignal(m).strong = m.strong /\ DelSignal(m).events = m.events
<1>1. m.nsignals \in Int /\ m.reading \in BOOLEAN
  BY RecordFacts
<1>2. PICK b \in BOOLEAN : b = (m.reading /\ m.nsignals # 1)
  OBVIOUS
<1>3. PICK k \in Int : k = m.nsignals - 1
  BY <1>1
<1>4. DelSignal(m) = [m EXCEPT !.nsignals = k, !.reading = b]
  BY <1>2, <1>3 DEF DelSignal, Records
<1>5. /\ DelSignal(m) \in Records
      /\ DelSignal(m).held = m.held /\ DelSignal(m).open = m.open
      /\ DelSignal(m).nsignals = k /\ DelSignal(m).reading = b
      /\ DelSignal(m).connSigs = m.connSigs /\ DelSignal(m).alive = m.alive
      /\ DelSignal(m).extSigs = m.extSigs /\ DelSignal(m).extCount = m.extCount
      /\ DelSignal(m).strong = m.strong /\ DelSignal(m).events = m.events
  BY <1>4 DEF Records
<1>6. b <=> m.reading /\ m.nsignals # 1
  BY <1>2
<1>. QED  BY <1>3, <1>5, <1>6

(* A listener of the connection comes.                                       *)
LEMMA GoodAddConn ==
    ASSUME NEW m, Good(m), m.open, NEW s \in ConnSignals, s \notin m.connSigs
    PROVE  /\ Good(AddSignal([m EXCEPT !.connSigs = @ \cup {s}]))
           /\ AddSignal([m EXCEPT !.connSigs = @ \cup {s}]).events = m.events
           /\ AddSignal([m EXCEPT !.connSigs = @ \cup {s}]).open = m.open
           /\ AddSignal([m EXCEPT !.connSigs = @ \cup {s}]).alive = m.alive
<1>. DEFINE n == [m EXCEPT !.connSigs = @ \cup {s}]
            r == AddSignal(n)
<1>1. m \in Records /\ Reads(m.open, m.nsignals, m.reading, m.connSigs, m.extSigs, m.strong)
  BY DEF Good
<1>2. m.nsignals \in Int /\ m.reading \in BOOLEAN /\ m.connSigs \in SUBSET ConnSignals
      /\ m.strong \in SUBSET Exts
  BY <1>1, RecordFacts
<1>3. /\ n \in Records /\ n.held = m.held /\ n.open = m.open /\ n.nsignals = m.nsignals
      /\ n.reading = m.reading /\ n.connSigs = m.connSigs \cup {s} /\ n.alive = m.alive
      /\ n.extSigs = m.extSigs /\ n.extCount = m.extCount /\ n.strong = m.strong
      /\ n.events = m.events
  BY <1>1, <1>2 DEF Records
<1>. HIDE DEF n
<1>4. /\ r \in Records /\ r.held = m.held /\ r.open = m.open /\ r.nsignals = m.nsignals + 1
      /\ (r.reading <=> m.reading \/ m.nsignals = 0) /\ r.connSigs = m.connSigs \cup {s}
      /\ r.alive = m.alive /\ r.extSigs = m.extSigs /\ r.extCount = m.extCount
      /\ r.strong = m.strong /\ r.events = m.events
  BY <1>3, AddSignalFields
<1>. HIDE DEF r
<1>5. /\ IsFiniteSet(m.connSigs) /\ m.nsignals = Cardinality(m.connSigs) + Cardinality(m.strong)
      /\ (m.reading <=> m.nsignals > 0) /\ \A e \in Exts : e \in m.strong <=> m.extSigs[e] # {}
  BY <1>1 DEF Reads
<1>6. /\ IsFiniteSet(m.connSigs \cup {s}) /\ Cardinality(m.connSigs) \in Nat
      /\ Cardinality(m.connSigs \cup {s}) = Cardinality(m.connSigs) + 1
  BY <1>5, OneMore
<1>7. Cardinality(m.strong) \in Nat
  BY <1>2, ExtsFinite, NoneLeft
<1>8. /\ r.nsignals = Cardinality(r.connSigs) + Cardinality(r.strong) /\ r.nsignals > 0
      /\ m.nsignals > 0 \/ m.nsignals = 0
  BY <1>4, <1>5, <1>6, <1>7
<1>9. Reads(r.open, r.nsignals, r.reading, r.connSigs, r.extSigs, r.strong)
  BY <1>4, <1>5, <1>6, <1>8 DEF Reads
<1>10. Good(r)
  BY <1>4, <1>9, GoodFields DEF Good
<1>. QED  BY <1>4, <1>10 DEF r, n

(* A listener of the connection goes.                                        *)
LEMMA GoodDelConn ==
    ASSUME NEW m, Good(m), NEW s \in m.connSigs
    PROVE  /\ Good(DelSignal([m EXCEPT !.connSigs = @ \ {s}]))
           /\ DelSignal([m EXCEPT !.connSigs = @ \ {s}]).events = m.events
           /\ DelSignal([m EXCEPT !.connSigs = @ \ {s}]).open = m.open
           /\ DelSignal([m EXCEPT !.connSigs = @ \ {s}]).alive = m.alive
<1>. DEFINE n == [m EXCEPT !.connSigs = @ \ {s}]
            r == DelSignal(n)
<1>1. m \in Records /\ Reads(m.open, m.nsignals, m.reading, m.connSigs, m.extSigs, m.strong)
  BY DEF Good
<1>2. m.nsignals \in Int /\ m.reading \in BOOLEAN /\ m.connSigs \in SUBSET ConnSignals
      /\ m.strong \in SUBSET Exts
  BY <1>1, RecordFacts
<1>3. /\ n \in Records /\ n.held = m.held /\ n.open = m.open /\ n.nsignals = m.nsignals
      /\ n.reading = m.reading /\ n.connSigs = m.connSigs \ {s} /\ n.alive = m.alive
      /\ n.extSigs = m.extSigs /\ n.extCount = m.extCount /\ n.strong = m.strong
      /\ n.events = m.events
  BY <1>1, <1>2 DEF Records
<1>. HIDE DEF n
<1>4. /\ r \in Records /\ r.held = m.held /\ r.open = m.open /\ r.nsignals = m.nsignals - 1
      /\ (r.reading <=> m.reading /\ m.nsignals # 1) /\ r.connSigs = m.connSigs \ {s}
      /\ r.alive = m.alive /\ r.extSigs = m.extSigs /\ r.extCount = m.extCount
      /\ r.strong = m.strong /\ r.events = m.events
  BY <1>3, DelSignalFields
<1>. HIDE DEF r
<1>5. m.open
  BY <1>1 DEF Reads
<1>6. /\ IsFiniteSet(m.connSigs) /\ m.nsignals = Cardinality(m.connSigs) + Cardinality(m.strong)
      /\ (m.reading <=> m.nsignals > 0) /\ \A e \in Exts : e \in m.strong <=> m.extSigs[e] # {}
  BY <1>1, <1>5 DEF Reads
<1>7. /\ IsFiniteSet(m.connSigs \ {s}) /\ Cardinality(m.connSigs) \in Nat
      /\ Cardinality(m.connSigs \ {s}) = Cardinality(m.connSigs) - 1
      /\ Cardinality(m.connSigs \ {s}) \in Nat
  BY <1>6, OneLess
<1>8. Cardinality(m.strong) \in Nat
  BY <1>2, ExtsFinite, NoneLeft
<1>9. /\ r.nsignals = Cardinality(r.connSigs) + Cardinality(r.strong)
      /\ m.nsignals > 0 /\ m.nsignals # 1 <=> r.nsignals > 0
  BY <1>4, <1>6, <1>7, <1>8
<1>10. Reads(r.open, r.nsignals, r.reading, r.connSigs, r.extSigs, r.strong)
  BY <1>4, <1>5, <1>6, <1>7, <1>9 DEF Reads
<1>11. Good(r)
  BY <1>4, <1>10, GoodFields DEF Good
<1>. QED  BY <1>4, <1>11 DEF r, n

LEMMA SignalsTyped ==
    ASSUME NEW e \in Exts
    PROVE  SignalsOf(e) \subseteq Sigs
  BY DEF SignalsOf, Sigs

(* The signals of an extension and their number are written.                 *)
LEMMA ExtFields ==
    ASSUME NEW m \in Records, NEW e \in Exts, NEW S \in SUBSET Sigs, NEW k \in Nat
    PROVE  /\ [m EXCEPT !.extSigs[e] = S, !.extCount[e] = k] \in Records
           /\ [m EXCEPT !.extSigs[e] = S, !.extCount[e] = k] =
                [m EXCEPT !.extSigs = [m.extSigs EXCEPT ![e] = S],
                          !.extCount = [m.extCount EXCEPT ![e] = k]]
<1>1. m.extSigs \in [Exts -> SUBSET Sigs] /\ m.extCount \in [Exts -> Nat]
  BY RecordFacts
<1>2. PICK es : es = [m.extSigs EXCEPT ![e] = S]
  OBVIOUS
<1>3. PICK ec : ec = [m.extCount EXCEPT ![e] = k]
  OBVIOUS
<1>4. es \in [Exts -> SUBSET Sigs] /\ ec \in [Exts -> Nat]
  BY <1>1, <1>2, <1>3
<1>5. [m EXCEPT !.extSigs[e] = S, !.extCount[e] = k] = [m EXCEPT !.extSigs = es, !.extCount = ec]
  BY <1>2, <1>3 DEF Records
<1>6. [m EXCEPT !.extSigs = es, !.extCount = ec] \in Records
  BY <1>4 DEF Records
<1>. QED  BY <1>2, <1>3, <1>5, <1>6

WithExts(m, es, ec) == [m EXCEPT !.extSigs = es, !.extCount = ec]
WithStrong(m, S) == [m EXCEPT !.strong = S]

LEMMA ExtWritten ==
    ASSUME NEW m \in Records, NEW es \in [Exts -> SUBSET Sigs], NEW ec \in [Exts -> Nat],
           NEW n, n = WithExts(m, es, ec)
    PROVE  /\ n \in Records /\ n.held = m.held /\ n.open = m.open /\ n.nsignals = m.nsignals
           /\ n.reading = m.reading /\ n.connSigs = m.connSigs /\ n.alive = m.alive
           /\ n.extSigs = es /\ n.extCount = ec /\ n.strong = m.strong /\ n.events = m.events
  BY DEF Records, WithExts, WithStrong

LEMMA StrongWritten ==
    ASSUME NEW m \in Records, NEW S \in SUBSET Exts, NEW n, n = WithStrong(m, S)
    PROVE  /\ n \in Records /\ n.held = m.held /\ n.open = m.open /\ n.nsignals = m.nsignals
           /\ n.reading = m.reading /\ n.connSigs = m.connSigs /\ n.alive = m.alive
           /\ n.extSigs = m.extSigs /\ n.extCount = m.extCount /\ n.strong = S
           /\ n.events = m.events
  BY DEF Records, WithExts, WithStrong

LEMMA CountedWritten ==
    ASSUME NEW m, Good(m), NEW e \in Exts, NEW S \in SUBSET SignalsOf(e), IsFiniteSet(S),
           e \notin m.alive => S = {}
    PROVE  Counted(m.alive, [m.extSigs EXCEPT ![e] = S], [m.extCount EXCEPT ![e] = Cardinality(S)])
<1>1. /\ m.extSigs \in [Exts -> SUBSET Sigs] /\ m.extCount \in [Exts -> Nat]
      /\ Counted(m.alive, m.extSigs, m.extCount)
  BY RecordFacts DEF Good
<1>2. PICK es : es = [m.extSigs EXCEPT ![e] = S]
  OBVIOUS
<1>3. PICK ec : ec = [m.extCount EXCEPT ![e] = Cardinality(S)]
  OBVIOUS
<1>4. /\ es[e] = S /\ ec[e] = Cardinality(S)
      /\ \A x \in Exts : x # e => es[x] = m.extSigs[x] /\ ec[x] = m.extCount[x]
  BY <1>1, <1>2, <1>3
<1>5. Counted(m.alive, es, ec)
  BY <1>1, <1>4 DEF Counted
<1>. QED  BY <1>2, <1>3, <1>5

(* A listener of an extension comes: with the first one the connection holds *)
(* the extension and counts it.                                              *)
LEMMA GoodAddExt ==
    ASSUME NEW m, Good(m), m.open = TRUE, NEW e \in Exts, e \in m.alive,
           NEW s \in SignalsOf(e), s \notin m.extSigs[e]
    PROVE  /\ Good(AddExtSignal(m, e, s))
           /\ AddExtSignal(m, e, s).events = m.events
           /\ AddExtSignal(m, e, s).open = m.open
           /\ AddExtSignal(m, e, s).alive = m.alive
<1>1. /\ m \in Records /\ Counted(m.alive, m.extSigs, m.extCount)
      /\ Reads(m.open, m.nsignals, m.reading, m.connSigs, m.extSigs, m.strong)
      /\ m.held \cap Exts \subseteq m.alive
  BY DEF Good
<1>2. /\ m.nsignals \in Int /\ m.reading \in BOOLEAN /\ m.strong \in SUBSET Exts
      /\ m.extSigs \in [Exts -> SUBSET Sigs] /\ m.extCount \in [Exts -> Nat]
  BY <1>1, RecordFacts
<1>3. PICK S : S = m.extSigs[e] \cup {s}
  OBVIOUS
<1>4. /\ IsFiniteSet(m.extSigs[e]) /\ m.extCount[e] = Cardinality(m.extSigs[e])
      /\ m.extSigs[e] \subseteq SignalsOf(e)
  BY <1>1 DEF Counted
<1>5. /\ IsFiniteSet(S) /\ Cardinality(S) = m.extCount[e] + 1 /\ m.extCount[e] \in Nat
      /\ m.extCount[e] + 1 \in Nat
  BY <1>2, <1>3, <1>4, OneMore
<1>6. S \in SUBSET SignalsOf(e) /\ S \in SUBSET Sigs
  BY <1>3, <1>4, SignalsTyped
<1>7. PICK es : es = [m.extSigs EXCEPT ![e] = S]
  OBVIOUS
<1>8. PICK ec : ec = [m.extCount EXCEPT ![e] = Cardinality(S)]
  OBVIOUS
<1>9. Counted(m.alive, es, ec)
  BY <1>5, <1>6, <1>7, <1>8, CountedWritten
<1>10. /\ es \in [Exts -> SUBSET Sigs] /\ ec \in [Exts -> Nat] /\ ec[e] = m.extCount[e] + 1
       /\ es[e] = S /\ \A x \in Exts : x # e => es[x] = m.extSigs[x]
  BY <1>2, <1>5, <1>6, <1>7, <1>8
<1>11. PICK n : n = WithExts(m, es, ec)
  OBVIOUS
<1>12. /\ n \in Records /\ n.held = m.held /\ n.open = m.open /\ n.nsignals = m.nsignals
       /\ n.reading = m.reading /\ n.connSigs = m.connSigs /\ n.alive = m.alive
       /\ n.extSigs = es /\ n.extCount = ec /\ n.strong = m.strong /\ n.events = m.events
  <2>1. m \in Records
    BY <1>1
  <2>2. es \in [Exts -> SUBSET Sigs]
    BY <1>10
  <2>3. ec \in [Exts -> Nat]
    BY <1>10
  <2>. QED  BY <1>11, <2>1, <2>2, <2>3, ExtWritten
<1>13. n = [m EXCEPT !.extSigs[e] = @ \cup {s}, !.extCount[e] = @ + 1]
  BY <1>1, <1>3, <1>5, <1>6, <1>7, <1>8, <1>11, ExtFields DEF WithExts
<1>14. AddExtSignal(m, e, s) = IF n.extCount[e] = 1 THEN AddSignal([n EXCEPT !.strong = @ \cup {e}]) ELSE n
  BY <1>13 DEF AddExtSignal
<1>15. /\ IsFiniteSet(m.connSigs) /\ m.nsignals = Cardinality(m.connSigs) + Cardinality(m.strong)
       /\ (m.reading <=> m.nsignals > 0) /\ \A x \in Exts : x \in m.strong <=> m.extSigs[x] # {}
  BY <1>1 DEF Reads
<1>16. Cardinality(m.strong) \in Nat /\ Cardinality(m.connSigs) \in Nat /\ IsFiniteSet(m.strong)
  BY <1>2, <1>15, ExtsFinite, NoneLeft
<1>17. n.extCount[e] = 1 <=> m.extSigs[e] = {}
  BY <1>4, <1>5, <1>10, <1>12, NoneLeft
<1>18. CASE n.extCount[e] = 1
  <2>1. PICK st : st = m.strong \cup {e}
    OBVIOUS
  <2>2. e \notin m.strong
    BY <1>15, <1>17, <1>18
  <2>3. st \in SUBSET Exts /\ Cardinality(st) = Cardinality(m.strong) + 1
    BY <1>2, <1>16, <2>1, <2>2, OneMore
  <2>4. PICK q : q = WithStrong(n, st)
    OBVIOUS
  <2>5. /\ q \in Records /\ q.held = m.held /\ q.open = m.open /\ q.nsignals = m.nsignals
        /\ q.reading = m.reading /\ q.connSigs = m.connSigs /\ q.alive = m.alive
        /\ q.extSigs = es /\ q.extCount = ec /\ q.strong = st /\ q.events = m.events
    <3>1. n \in Records
      BY <1>12
    <3>2. st \in SUBSET Exts
      BY <2>3
    <3>3. /\ q \in Records /\ q.held = n.held /\ q.open = n.open /\ q.nsignals = n.nsignals
          /\ q.reading = n.reading /\ q.connSigs = n.connSigs /\ q.alive = n.alive
          /\ q.extSigs = n.extSigs /\ q.extCount = n.extCount /\ q.strong = st
          /\ q.events = n.events
      BY <2>4, <3>1, <3>2, StrongWritten
    <3>. QED  BY <1>12, <3>3
  <2>6. PICK r : r = AddSignal(q)
    OBVIOUS
  <2>7. /\ r \in Records /\ r.held = m.held /\ r.open = m.open /\ r.nsignals = m.nsignals + 1
        /\ (r.reading <=> m.reading \/ m.nsignals = 0) /\ r.connSigs = m.connSigs /\ r.alive = m.alive
        /\ r.extSigs = es /\ r.extCount = ec /\ r.strong = st /\ r.events = m.events
    BY <2>5, <2>6, AddSignalFields
  <2>8. AddExtSignal(m, e, s) = r
    BY <1>12, <1>14, <1>18, <2>1, <2>4, <2>6 DEF WithStrong
  <2>9. /\ r.nsignals = Cardinality(r.connSigs) + Cardinality(r.strong) /\ r.nsignals > 0
        /\ m.nsignals > 0 \/ m.nsignals = 0
    BY <1>15, <1>16, <2>3, <2>7
  <2>10. \A x \in Exts : x \in st <=> es[x] # {}
    BY <1>3, <1>10, <1>15, <2>1
  <2>11. Reads(r.open, r.nsignals, r.reading, r.connSigs, r.extSigs, r.strong)
    BY <1>15, <2>7, <2>9, <2>10 DEF Reads
  <2>12. Good(r)
    BY <1>1, <1>9, <2>7, <2>11, GoodFields
  <2>. QED  BY <2>7, <2>8, <2>12
<1>19. CASE n.extCount[e] # 1
  <2>1. AddExtSignal(m, e, s) = n
    BY <1>14, <1>19
  <2>2. \A x \in Exts : x \in m.strong <=> es[x] # {}
    BY <1>3, <1>10, <1>15, <1>17, <1>19
  <2>3. Reads(n.open, n.nsignals, n.reading, n.connSigs, n.extSigs, n.strong)
    BY <1>12, <1>15, <2>2 DEF Reads
  <2>4. Good(n)
    BY <1>1, <1>9, <1>12, <2>3, GoodFields
  <2>. QED  BY <1>12, <2>1, <2>4
<1>. QED  BY <1>18, <1>19

(* A listener of an extension goes, also when the connection is gone.        *)
LEMMA GoodDelExt ==
    ASSUME NEW m, Good(m), NEW e \in Exts, NEW s \in m.extSigs[e]
    PROVE  /\ Good(DelExtSignal(m, e, s))
           /\ DelExtSignal(m, e, s).events = m.events
           /\ DelExtSignal(m, e, s).open = m.open
           /\ DelExtSignal(m, e, s).alive = m.alive
<1>1. /\ m \in Records /\ Counted(m.alive, m.extSigs, m.extCount)
      /\ Reads(m.open, m.nsignals, m.reading, m.connSigs, m.extSigs, m.strong)
      /\ m.held \cap Exts \subseteq m.alive
  BY DEF Good
<1>2. /\ m.nsignals \in Int /\ m.reading \in BOOLEAN /\ m.strong \in SUBSET Exts
      /\ m.extSigs \in [Exts -> SUBSET Sigs] /\ m.extCount \in [Exts -> Nat] /\ m.open \in BOOLEAN
  BY <1>1, RecordFacts
<1>3. PICK S : S = m.extSigs[e] \ {s}
  OBVIOUS
<1>4. /\ IsFiniteSet(m.extSigs[e]) /\ m.extCount[e] = Cardinality(m.extSigs[e])
      /\ m.extSigs[e] \subseteq SignalsOf(e) /\ e \in m.alive
  BY <1>1 DEF Counted
<1>5. IsFiniteSet(S) /\ Cardinality(S) = m.extCount[e] - 1 /\ m.extCount[e] - 1 \in Nat
  BY <1>2, <1>3, <1>4, OneLess
<1>6. S \in SUBSET SignalsOf(e) /\ S \in SUBSET Sigs
  BY <1>3, <1>4, SignalsTyped
<1>7. PICK es : es = [m.extSigs EXCEPT ![e] = S]
  OBVIOUS
<1>8. PICK ec : ec = [m.extCount EXCEPT ![e] = Cardinality(S)]
  OBVIOUS
<1>9. Counted(m.alive, es, ec)
  BY <1>4, <1>5, <1>6, <1>7, <1>8, CountedWritten
<1>10. /\ es \in [Exts -> SUBSET Sigs] /\ ec \in [Exts -> Nat] /\ ec[e] = Cardinality(S)
       /\ es[e] = S /\ \A x \in Exts : x # e => es[x] = m.extSigs[x]
  BY <1>2, <1>5, <1>6, <1>7, <1>8
<1>11. PICK n : n = WithExts(m, es, ec)
  OBVIOUS
<1>12. /\ n \in Records /\ n.held = m.held /\ n.open = m.open /\ n.nsignals = m.nsignals
       /\ n.reading = m.reading /\ n.connSigs = m.connSigs /\ n.alive = m.alive
       /\ n.extSigs = es /\ n.extCount = ec /\ n.strong = m.strong /\ n.events = m.events
  <2>1. m \in Records
    BY <1>1
  <2>2. es \in [Exts -> SUBSET Sigs]
    BY <1>10
  <2>3. ec \in [Exts -> Nat]
    BY <1>10
  <2>. QED  BY <1>11, <2>1, <2>2, <2>3, ExtWritten
<1>13. n = [m EXCEPT !.extSigs[e] = @ \ {s}, !.extCount[e] = @ - 1]
  BY <1>1, <1>3, <1>5, <1>6, <1>7, <1>8, <1>11, ExtFields DEF WithExts
<1>14. DelExtSignal(m, e, s) = IF n.extCount[e] = 0 THEN DelSignal([n EXCEPT !.strong = @ \ {e}]) ELSE n
  BY <1>13 DEF DelExtSignal
<1>15. n.extCount[e] = 0 <=> S = {}
  BY <1>5, <1>10, <1>12, NoneLeft
<1>16. CASE n.extCount[e] = 0
  <2>1. PICK st : st = m.strong \ {e}
    OBVIOUS
  <2>2. st \in SUBSET Exts
    BY <1>2, <2>1
  <2>3. PICK q : q = WithStrong(n, st)
    OBVIOUS
  <2>4. /\ q \in Records /\ q.held = m.held /\ q.open = m.open /\ q.nsignals = m.nsignals
        /\ q.reading = m.reading /\ q.connSigs = m.connSigs /\ q.alive = m.alive
        /\ q.extSigs = es /\ q.extCount = ec /\ q.strong = st /\ q.events = m.events
    <3>1. n \in Records
      BY <1>12
    <3>2. st \in SUBSET Exts
      BY <2>2
    <3>3. /\ q \in Records /\ q.held = n.held /\ q.open = n.open /\ q.nsignals = n.nsignals
          /\ q.reading = n.reading /\ q.connSigs = n.connSigs /\ q.alive = n.alive
          /\ q.extSigs = n.extSigs /\ q.extCount = n.extCount /\ q.strong = st
          /\ q.events = n.events
      BY <2>3, <3>1, <3>2, StrongWritten
    <3>. QED  BY <1>12, <3>3
  <2>5. PICK r : r = DelSignal(q)
    OBVIOUS
  <2>6. /\ r \in Records /\ r.held = m.held /\ r.open = m.open /\ r.nsignals = m.nsignals - 1
        /\ (r.reading <=> m.reading /\ m.nsignals # 1) /\ r.connSigs = m.connSigs /\ r.alive = m.alive
        /\ r.extSigs = es /\ r.extCount = ec /\ r.strong = st /\ r.events = m.events
    BY <2>4, <2>5, DelSignalFields
  <2>7. DelExtSignal(m, e, s) = r
    BY <1>12, <1>14, <1>16, <2>1, <2>3, <2>5 DEF WithStrong
  <2>8. ASSUME m.open
        PROVE  Reads(r.open, r.nsignals, r.reading, r.connSigs, r.extSigs, r.strong)
    <3>1. /\ IsFiniteSet(m.connSigs) /\ m.nsignals = Cardinality(m.connSigs) + Cardinality(m.strong)
          /\ (m.reading <=> m.nsignals > 0) /\ \A x \in Exts : x \in m.strong <=> m.extSigs[x] # {}
      BY <1>1, <2>8 DEF Reads
    <3>2. e \in m.strong
      BY <3>1
    <3>3. IsFiniteSet(m.strong) /\ Cardinality(m.connSigs) \in Nat
      BY <1>2, <3>1, ExtsFinite, NoneLeft
    <3>4. /\ Cardinality(m.strong) \in Nat /\ Cardinality(st) = Cardinality(m.strong) - 1
          /\ Cardinality(st) \in Nat
      BY <2>1, <3>2, <3>3, OneLess
    <3>5. /\ r.nsignals = Cardinality(r.connSigs) + Cardinality(r.strong)
          /\ m.nsignals > 0 /\ m.nsignals # 1 <=> r.nsignals > 0
      BY <2>6, <3>1, <3>3, <3>4
    <3>6. \A x \in Exts : x \in st <=> es[x] # {}
      BY <1>10, <1>15, <1>16, <2>1, <3>1
    <3>. QED  BY <2>6, <2>8, <3>1, <3>5, <3>6 DEF Reads
  <2>9. ASSUME ~m.open
        PROVE  Reads(r.open, r.nsignals, r.reading, r.connSigs, r.extSigs, r.strong)
    <3>1. IsFiniteSet(m.connSigs) /\ ~m.reading /\ m.connSigs = {} /\ m.strong = {}
      BY <1>1, <2>9 DEF Reads
    <3>. QED  BY <2>1, <2>6, <2>9, <3>1 DEF Reads
  <2>10. Good(r)
    BY <1>1, <1>9, <2>6, <2>8, <2>9, GoodFields
  <2>. QED  BY <2>6, <2>7, <2>10
<1>17. CASE n.extCount[e] # 0
  <2>1. DelExtSignal(m, e, s) = n
    BY <1>14, <1>17
  <2>2. m.open => \A x \in Exts : x \in m.strong <=> es[x] # {}
    BY <1>1, <1>10, <1>15, <1>17 DEF Reads
  <2>3. Reads(n.open, n.nsignals, n.reading, n.connSigs, n.extSigs, n.strong)
    BY <1>1, <1>12, <2>2 DEF Reads
  <2>4. Good(n)
    BY <1>1, <1>9, <1>12, <2>3, GoodFields
  <2>. QED  BY <1>12, <2>1, <2>4
<1>. QED  BY <1>16, <1>17

(* di_xorg_get_ext, on the objects.                                          *)
Got(m, e) ==
    LET n == [m EXCEPT !.held = @ \cup {e}]
    IN IF e \in m.alive THEN n ELSE IF e = "xinput" THEN NewXinput(n) ELSE NewRandr(n)

WithExt(m, h, a, sel) == [m EXCEPT !.held = h, !.alive = a, !.selected = sel]

LEMMA WithExtFields ==
    ASSUME NEW m \in Records, NEW h \in SUBSET (Exts \cup {"conn"}), NEW a \in SUBSET Exts,
           NEW sel \in SUBSET Exts, NEW n, n = WithExt(m, h, a, sel)
    PROVE  /\ n \in Records /\ n.held = h /\ n.open = m.open /\ n.nsignals = m.nsignals
           /\ n.reading = m.reading /\ n.connSigs = m.connSigs /\ n.alive = a
           /\ n.extSigs = m.extSigs /\ n.extCount = m.extCount /\ n.strong = m.strong
           /\ n.events = m.events
  BY DEF Records, WithExt

LEMMA GotFields ==
    ASSUME NEW m \in Records, NEW e \in Exts
    PROVE  \E sel \in SUBSET Exts : Got(m, e) = WithExt(m, m.held \cup {e}, m.alive \cup {e}, sel)
<1>1. m.selected \in SUBSET Exts /\ m.alive \in SUBSET Exts /\ m.held \in SUBSET (Exts \cup {"conn"})
  BY RecordFacts
<1>2. CASE e \in m.alive
  <2>1. Got(m, e) = [m EXCEPT !.held = m.held \cup {e}]
    BY <1>2 DEF Got
  <2>2. m.alive = m.alive \cup {e}
    BY <1>2
  <2>3. Got(m, e) = WithExt(m, m.held \cup {e}, m.alive, m.selected)
    BY <2>1 DEF WithExt, Records
  <2>. QED  BY <1>1, <2>2, <2>3
<1>3. CASE e \notin m.alive /\ e = "xinput"
  <2>1. Got(m, e) = NewXinput([m EXCEPT !.held = m.held \cup {e}])
    BY <1>3 DEF Got
  <2>2. PICK sel : sel = m.selected \cup {"xinput"}
    OBVIOUS
  <2>3. Got(m, e) = WithExt(m, m.held \cup {e}, m.alive \cup {e}, sel)
    BY <1>3, <2>1, <2>2 DEF NewXinput, XiStartListen, WithExt, Records
  <2>4. sel \in SUBSET Exts
    BY <1>1, <2>2 DEF Exts
  <2>. QED  BY <2>3, <2>4
<1>4. CASE e \notin m.alive /\ e = "randr"
  <2>1. Got(m, e) = NewRandr([m EXCEPT !.held = m.held \cup {e}])
    BY <1>4 DEF Got
  <2>2. PICK sel : sel = (m.selected \ {"randr"}) \cup {"randr"}
    OBVIOUS
  <2>3. Got(m, e) = WithExt(m, m.held \cup {e}, m.alive \cup {e}, sel)
    BY <1>4, <2>1, <2>2 DEF NewRandr, RrSelectInput, WithExt, Records
  <2>4. sel \in SUBSET Exts
    BY <1>1, <2>2 DEF Exts
  <2>. QED  BY <2>3, <2>4
<1>. QED  BY <1>2, <1>3, <1>4 DEF Exts

LEMMA GoodGot ==
    ASSUME NEW m, Good(m), NEW e \in Exts
    PROVE  /\ Good(Got(m, e))
           /\ Got(m, e).events = m.events
           /\ Got(m, e).open = m.open
           /\ m.alive \subseteq Got(m, e).alive
<1>1. /\ m \in Records /\ Counted(m.alive, m.extSigs, m.extCount)
      /\ Reads(m.open, m.nsignals, m.reading, m.connSigs, m.extSigs, m.strong)
      /\ m.held \cap Exts \subseteq m.alive
  BY DEF Good
<1>2. m.alive \in SUBSET Exts /\ m.held \in SUBSET (Exts \cup {"conn"})
  BY <1>1, RecordFacts
<1>3. PICK sel \in SUBSET Exts : Got(m, e) = WithExt(m, m.held \cup {e}, m.alive \cup {e}, sel)
  BY <1>1, GotFields
<1>4. PICK h : h = m.held \cup {e}
  OBVIOUS
<1>5. PICK a : a = m.alive \cup {e}
  OBVIOUS
<1>6. h \in SUBSET (Exts \cup {"conn"}) /\ a \in SUBSET Exts
  BY <1>2, <1>4, <1>5
<1>7. PICK n : n = WithExt(m, h, a, sel)
  OBVIOUS
<1>8. /\ n \in Records /\ n.held = h /\ n.open = m.open /\ n.nsignals = m.nsignals
      /\ n.reading = m.reading /\ n.connSigs = m.connSigs /\ n.alive = a
      /\ n.extSigs = m.extSigs /\ n.extCount = m.extCount /\ n.strong = m.strong
      /\ n.events = m.events
  BY <1>1, <1>6, <1>7, WithExtFields
<1>9. Got(m, e) = n
  BY <1>3, <1>4, <1>5, <1>7
<1>10. Counted(a, m.extSigs, m.extCount)
  BY <1>1, <1>5 DEF Counted
<1>11. h \cap Exts \subseteq a
  BY <1>1, <1>4, <1>5
<1>12. Good(n)
  BY <1>1, <1>8, <1>10, <1>11, GoodFields
<1>. QED  BY <1>5, <1>8, <1>9, <1>12

-----------------------------------------------------------------------------
(* Steps of user code.                                                       *)

LEMMA BecomeNow ==
    ASSUME NEW m \in Records, Become(m)
    PROVE  Now' = m
<1>1. m = [open |-> m.open, held |-> m.held, nsignals |-> m.nsignals, reading |-> m.reading,
           connSigs |-> m.connSigs, alive |-> m.alive, extSigs |-> m.extSigs,
           extCount |-> m.extCount, strong |-> m.strong, selected |-> m.selected,
           events |-> m.events]
  BY DEF Records
<1>2. Now' = [open |-> m.open, held |-> m.held, nsignals |-> m.nsignals, reading |-> m.reading,
              connSigs |-> m.connSigs, alive |-> m.alive, extSigs |-> m.extSigs,
              extCount |-> m.extCount, strong |-> m.strong, selected |-> m.selected,
              events |-> m.events]
  BY DEF Now, Become
<1>. QED  BY <1>1, <1>2

LEMMA NowFields ==
    /\ Now.open = open /\ Now.held = held /\ Now.nsignals = nsignals /\ Now.reading = reading
    /\ Now.connSigs = connSigs /\ Now.alive = alive /\ Now.extSigs = extSigs
    /\ Now.extCount = extCount /\ Now.strong = strong /\ Now.selected = selected
    /\ Now.events = events
  BY DEF Now

LEMMA NowSame ==
    ASSUME open' = open, held' = held, nsignals' = nsignals, reading' = reading,
           connSigs' = connSigs, alive' = alive, extSigs' = extSigs, extCount' = extCount,
           strong' = strong, selected' = selected, events' = events
    PROVE  Now' = Now
  BY DEF Now

LEMMA GoodPrimed ==
    ASSUME NEW m, Now' = m, Good(m)
    PROVE  Good(Now)'
  BY DEF Good, Counted, Reads

LEMMA PastOf ==
    ASSUME NEW es, NEW es2, NEW t, Past(es, t), Len(es) <= MaxEvents, es2 \in {es, <<>>}
    PROVE  Past(es2, t) /\ Len(es2) <= MaxEvents
  BY XorgAssumption DEF Past

(* The invariant after the objects have become what is collected from m.     *)
LEMMA CollectedKeeps ==
    ASSUME Inv, NEW m, Good(m), m.events \in {events, <<>>}, NEW p, NEW cur,
           Become(Collected(m, p, cur))
    PROVE  /\ Good(Now)'
           /\ Past(events', conf) /\ Len(events') <= MaxEvents
           /\ p # "idle" \/ cur \in m.alive => open' = m.open
           /\ cur \in m.alive => cur \in alive'
<1>1. PICK r : r = Collected(m, p, cur)
  OBVIOUS
<1>2. /\ Good(r) /\ r.events \in {m.events, <<>>}
      /\ p # "idle" \/ cur \in m.alive => r.open = m.open
      /\ cur \in m.alive => cur \in r.alive
  BY <1>1, CollectedGood
<1>3. Become(r)
  BY <1>1
<1>4. r \in Records
  BY <1>2 DEF Good
<1>5. Good(Now)'
  BY <1>2, <1>3, <1>4, BecomeNow, GoodPrimed
<1>6. events' = r.events /\ open' = r.open /\ alive' = r.alive
  BY <1>3 DEF Become
<1>7. events' \in {events, <<>>}
  BY <1>2, <1>6
<1>8. Past(events, conf) /\ Len(events) <= MaxEvents
  BY DEF Inv, Server
<1>9. Past(events', conf) /\ Len(events') <= MaxEvents
  BY <1>7, <1>8, PastOf
<1>. QED  BY <1>2, <1>5, <1>6, <1>9

LEMMA UserKeeps ==
    ASSUME Inv, NEW m, Good(m), m.events \in {events, <<>>}, alive \subseteq m.alive,
           m.open = open \/ DisconnectInHandler \/ pc \in {"idle", "error"},
           UserStep(m), cts' \in 0 .. conf
    PROVE  Inv'
<1>1. Become(Collected(m, pc, Cur)) /\ UNCHANGED <<broken, conf, view, pc, ev, set>>
  BY DEF UserStep
<1>2. PICK cur : cur = Cur
  OBVIOUS
<1>3. Become(Collected(m, pc, cur))
  BY <1>1, <1>2
<1>4. /\ Good(Now)'
      /\ Past(events', conf) /\ Len(events') <= MaxEvents
      /\ pc # "idle" \/ cur \in m.alive => open' = m.open
      /\ cur \in m.alive => cur \in alive'
  BY <1>3, CollectedKeeps
<1>5. Server'
  BY <1>1, <1>4 DEF Inv, Server
<1>6. pc \in {"emit", "handler"} => ev.ext \in alive'
  <2>1. ASSUME pc \in {"emit", "handler"}
        PROVE  cur = ev.ext /\ ev.ext \in m.alive
    BY <1>2, <2>1 DEF Inv, Handling, Cur
  <2>. QED  BY <1>4, <2>1
<1>7. ~DisconnectInHandler /\ pc \in {"poll", "raw", "ext", "emit", "handler"} => open'
  <2>1. ASSUME ~DisconnectInHandler, pc \in {"poll", "raw", "ext", "emit", "handler"}
        PROVE  open'
    <3>1. open = TRUE
      <4>1. open
        BY <2>1 DEF Inv, Handling
      <4>2. open \in BOOLEAN
        BY RecordFacts, NowFields DEF Inv, Good
      <4>. QED  BY <4>1, <4>2
    <3>2. open' = m.open /\ m.open = open
      BY <1>4, <2>1
    <3>. QED  BY <3>1, <3>2
  <2>. QED  BY <2>1
<1>8. Handling'
  BY <1>1, <1>6, <1>7 DEF Inv, Handling
<1>9. Setting'
  BY <1>1 DEF Inv, Setting
<1>. QED  BY <1>4, <1>5, <1>8, <1>9 DEF Inv

LEMMA InvFacts ==
    ASSUME Inv
    PROVE  /\ Good(Now) /\ Now.events = events /\ Now.open = open /\ Now.alive = alive
           /\ open \in BOOLEAN /\ alive \in SUBSET Exts /\ held \cap Exts \subseteq alive
           /\ extSigs \in [Exts -> SUBSET Sigs] /\ events \in Seq(Events)
           /\ cts \in 0 .. conf /\ conf \in Nat
<1>1. Good(Now)
  BY DEF Inv
<1>2. Now \in Records /\ Now.held \cap Exts \subseteq Now.alive
  BY <1>1 DEF Good
<1>3. /\ Now.open \in BOOLEAN /\ Now.alive \in SUBSET Exts
      /\ Now.extSigs \in [Exts -> SUBSET Sigs] /\ Now.events \in Seq(Events)
  BY <1>2, RecordFacts
<1>4. cts \in 0 .. conf /\ conf \in Nat
  BY DEF Inv, Server
<1>. QED  BY <1>1, <1>2, <1>3, <1>4, NowFields

LEMMA GetExtKeeps ==
    ASSUME Inv, NEW e \in Exts, GetExt(e)
    PROVE  Inv'
<1>1. PICK m : m = Got(Now, e)
  OBVIOUS
<1>2. UserStep(m)
  BY <1>1, NowFields DEF GetExt, Got
<1>3. Good(m) /\ m.events = events /\ m.open = open /\ alive \subseteq m.alive
  BY <1>1, GoodGot, InvFacts
<1>4. cts' \in 0 .. conf
  BY InvFacts DEF GetExt
<1>. QED  BY <1>2, <1>3, <1>4, UserKeeps

LEMMA ReleaseKeeps ==
    ASSUME Inv, NEW x, Release(x)
    PROVE  Inv'
<1>1. PICK m : m = [Now EXCEPT !.held = @ \ {x}]
  OBVIOUS
<1>2. UserStep(m) /\ cts' \in 0 .. conf
  BY <1>1, InvFacts DEF Release
<1>3. Good(m) /\ m.events = events /\ m.open = open /\ alive \subseteq m.alive
  BY <1>1, GoodHeld, InvFacts
<1>. QED  BY <1>2, <1>3, UserKeeps

LEMMA ListenConnKeeps ==
    ASSUME Inv, NEW s \in ConnSignals, ListenConn(s)
    PROVE  Inv'
<1>1. PICK m : m = AddSignal([Now EXCEPT !.connSigs = @ \cup {s}])
  OBVIOUS
<1>2. UserStep(m) /\ cts' \in 0 .. conf
  BY <1>1, InvFacts DEF ListenConn
<1>3. Now.open /\ s \notin Now.connSigs
  BY NowFields DEF ListenConn
<1>4. Good(m) /\ m.events = events /\ m.open = open /\ alive \subseteq m.alive
  BY <1>1, <1>3, GoodAddConn, InvFacts
<1>. QED  BY <1>2, <1>4, UserKeeps

LEMMA UnlistenConnKeeps ==
    ASSUME Inv, NEW s, UnlistenConn(s)
    PROVE  Inv'
<1>1. PICK m : m = DelSignal([Now EXCEPT !.connSigs = @ \ {s}])
  OBVIOUS
<1>2. UserStep(m) /\ cts' \in 0 .. conf
  BY <1>1, InvFacts DEF UnlistenConn
<1>3. s \in Now.connSigs
  BY NowFields DEF UnlistenConn
<1>4. Good(m) /\ m.events = events /\ m.open = open /\ alive \subseteq m.alive
  BY <1>1, <1>3, GoodDelConn, InvFacts
<1>. QED  BY <1>2, <1>4, UserKeeps

LEMMA ListenExtKeeps ==
    ASSUME Inv, NEW e \in Exts, NEW s \in SignalsOf(e), ListenExt(e, s)
    PROVE  Inv'
<1>1. PICK m : m = AddExtSignal(Now, e, s)
  OBVIOUS
<1>2. UserStep(m) /\ cts' \in 0 .. conf
  BY <1>1, InvFacts DEF ListenExt
<1>3. Now.open = TRUE /\ e \in Now.alive /\ s \notin Now.extSigs[e]
  BY NowFields, InvFacts DEF ListenExt
<1>4. Good(m) /\ m.events = events /\ m.open = open /\ alive \subseteq m.alive
  BY <1>1, <1>3, GoodAddExt, InvFacts
<1>. QED  BY <1>2, <1>4, UserKeeps

LEMMA UnlistenExtKeeps ==
    ASSUME Inv, NEW e \in Exts, NEW s, UnlistenExt(e, s)
    PROVE  Inv'
<1>1. PICK m : m = DelExtSignal(Now, e, s)
  OBVIOUS
<1>2. UserStep(m) /\ cts' \in 0 .. conf
  BY <1>1, InvFacts DEF UnlistenExt
<1>3. s \in Now.extSigs[e]
  BY NowFields DEF UnlistenExt
<1>4. Good(m) /\ m.events = events /\ m.open = open /\ alive \subseteq m.alive
  BY <1>1, <1>3, GoodDelExt, InvFacts
<1>. QED  BY <1>2, <1>4, UserKeeps

LEMMA DisconnectKeeps ==
    ASSUME Inv, Disconnect
    PROVE  Inv'
<1>1. PICK m : m = Finalized(Now)
  OBVIOUS
<1>2. UserStep(m) /\ cts' \in 0 .. conf /\ (pc \in {"idle", "error"} \/ DisconnectInHandler)
  BY <1>1, InvFacts DEF Disconnect
<1>3. Now \in Records
  BY InvFacts DEF Good
<1>4. m.alive = Now.alive /\ m.events = <<>>
  BY <1>1, <1>3, FinalizedFields
<1>5. Good(m) /\ m.events \in {events, <<>>} /\ alive \subseteq m.alive
  BY <1>1, <1>4, FinalizedGood, InvFacts
<1>. QED  BY <1>2, <1>5, UserKeeps

-----------------------------------------------------------------------------
(* Steps of di_xorg_ioev.                                                    *)

(* Only events are read or sent.                                             *)
LEMMA GoodEvents ==
    ASSUME Good(Now), events' \in Seq(Events), UNCHANGED <<connVars, extVars, held, selected>>
    PROVE  Good(Now)'
<1>1. /\ open' = open /\ held' = held /\ nsignals' = nsignals /\ reading' = reading
      /\ connSigs' = connSigs /\ alive' = alive /\ extSigs' = extSigs /\ extCount' = extCount
      /\ strong' = strong /\ selected' = selected
  BY DEF connVars, extVars
<1>2. PICK es : es = events'
  OBVIOUS
<1>3. es \in Seq(Events)
  BY <1>2
<1>4. PICK m : m = [Now EXCEPT !.events = es]
  OBVIOUS
<1>5. Now' = m
  BY <1>1, <1>2, <1>4 DEF Now
<1>6. Now \in Records
  BY DEF Good
<1>7. /\ m \in Records /\ m.held = Now.held /\ m.open = Now.open /\ m.nsignals = Now.nsignals
      /\ m.reading = Now.reading /\ m.connSigs = Now.connSigs /\ m.alive = Now.alive
      /\ m.extSigs = Now.extSigs /\ m.extCount = Now.extCount /\ m.strong = Now.strong
  BY <1>3, <1>4, <1>6 DEF Records
<1>8. Good(m)
  BY <1>7, GoodFields DEF Good
<1>. QED  BY <1>5, <1>8, GoodPrimed

LEMMA SettingSame ==
    ASSUME Setting, set' = set, view' = view
    PROVE  Setting'
  BY DEF Setting

LEMMA GotoKeeps ==
    ASSUME Inv, NEW p, Goto(p), events' = events
    PROVE  Good(Now)' /\ Server' /\ Setting' /\ pc' = p /\ open' = open /\ alive' = alive /\ conf' = conf
<1>1. /\ UNCHANGED <<connVars, extVars, serverVars, held, cts, set>> /\ pc' = p
  BY DEF Goto
<1>2. Good(Now)'
  BY <1>1, InvFacts, GoodEvents DEF serverVars
<1>3. Server'
  BY <1>1 DEF Inv, Server, serverVars
<1>4. Setting'
  BY <1>1, SettingSame DEF Inv, serverVars
<1>. QED  BY <1>1, <1>2, <1>3, <1>4 DEF connVars, extVars, serverVars

LEMMA WakeKeeps ==
    ASSUME Inv, Wake
    PROVE  Inv'
<1>1. /\ Good(Now)' /\ Server' /\ Setting' /\ pc' = "poll" /\ open' = open /\ alive' = alive
      /\ conf' = conf
  BY GotoKeeps DEF Wake
<1>2. open
  <2>1. reading
    BY DEF Wake
  <2>. QED  BY <2>1, NowFields DEF Inv, Good, Reads
<1>3. Handling'
  BY <1>1, <1>2 DEF Inv, Handling, Wake
<1>. QED  BY <1>1, <1>3 DEF Inv

LEMMA PollKeeps ==
    ASSUME Inv, Poll
    PROVE  Inv'
<1>1. /\ UNCHANGED <<connVars, extVars, serverVars, held, cts, set>>
      /\ events # <<>> /\ ev' = Head(events) /\ events' = Tail(events) /\ open
      /\ pc' \in {"raw", "ext"}
  BY DEF Poll, Goto
<1>2. events \in Seq(Events)
  BY InvFacts
<1>3. /\ Head(events) \in Events /\ Tail(events) \in Seq(Events)
      /\ 1 \in DOMAIN events /\ Head(events) = events[1]
  BY <1>1, <1>2
<1>4. Len(Tail(events)) <= Len(events) /\ Len(events) \in Nat /\ Len(Tail(events)) \in Nat
      /\ Len(Tail(events)) = Len(events) - 1
      /\ \A i \in 1 .. Len(Tail(events)) : Tail(events)[i] = events[i + 1]
  BY <1>1, <1>2
<1>5. Past(events, conf) /\ Len(events) <= MaxEvents /\ MaxEvents \in Nat
  BY XorgAssumption DEF Inv, Server
<1>6. DOMAIN events = 1 .. Len(events) /\ DOMAIN Tail(events) = 1 .. Len(Tail(events))
  BY <1>2, <1>3
<1>7. Past(Tail(events), conf)
  <2>1. ASSUME NEW i \in 1 .. Len(Tail(events))
        PROVE  Tail(events)[i].time <= conf
    <3>1. i + 1 \in 1 .. Len(events)
      BY <1>4
    <3>2. Tail(events)[i] = events[i + 1]
      BY <1>4
    <3>. QED  BY <1>5, <1>6, <3>1, <3>2 DEF Past
  <2>. QED  BY <1>6, <2>1 DEF Past
<1>8. Good(Now)'
  BY <1>1, <1>3, InvFacts, GoodEvents DEF serverVars
<1>9. Len(Tail(events)) <= MaxEvents
  BY <1>4, <1>5
<1>10. Server'
  BY <1>1, <1>7, <1>9 DEF Inv, Server, serverVars
<1>11. ev'.time <= conf /\ ev' \in Events
  BY <1>1, <1>3, <1>5 DEF Past
<1>12. Handling'
  BY <1>1, <1>11 DEF Inv, Handling, connVars, extVars, serverVars
<1>13. Setting'
  BY <1>1, SettingSame DEF Inv, serverVars
<1>. QED  BY <1>8, <1>10, <1>12, <1>13 DEF Inv

LEMMA NowInHand ==
    /\ <<>> \in Seq(Sigs) /\ NoEvent.time = 0 /\ NoEvent.sigs = <<>>
  BY DEF NoEvent

LEMMA PollEmptyKeeps ==
    ASSUME Inv, PollEmpty
    PROVE  Inv'
<1>1. /\ Become(Collected(Now, "idle", None)) /\ UNCHANGED <<broken, conf, view, ev, cts, set>>
      /\ pc' \in {"idle", "crashed"}
  BY DEF PollEmpty
<1>2. Good(Now)' /\ Past(events', conf) /\ Len(events') <= MaxEvents
  BY <1>1, InvFacts, CollectedKeeps
<1>3. Server'
  BY <1>1, <1>2 DEF Inv, Server
<1>4. Handling'
  BY <1>1 DEF Inv, Handling
<1>5. Setting'
  BY <1>1, SettingSame DEF Inv
<1>. QED  BY <1>2, <1>3, <1>4, <1>5 DEF Inv

LEMMA FinalizeBrokenKeeps ==
    ASSUME Inv, FinalizeBroken
    PROVE  Inv'
<1>1. /\ Become(Collected(Finalized(Now), "idle", None))
      /\ UNCHANGED <<broken, conf, view, ev, cts, set>> /\ pc' = "idle"
  BY DEF FinalizeBroken
<1>2. PICK m : m = Finalized(Now)
  OBVIOUS
<1>3. Now \in Records
  BY InvFacts DEF Good
<1>4. Good(m) /\ m.events = <<>>
  BY <1>2, <1>3, InvFacts, FinalizedGood, FinalizedFields
<1>5. Good(Now)' /\ Past(events', conf) /\ Len(events') <= MaxEvents
  BY <1>1, <1>2, <1>4, CollectedKeeps
<1>6. Server'
  BY <1>1, <1>5 DEF Inv, Server
<1>7. Handling'
  BY <1>1 DEF Inv, Handling
<1>8. Setting'
  BY <1>1, SettingSame DEF Inv
<1>. QED  BY <1>5, <1>6, <1>7, <1>8 DEF Inv

LEMMA ConnectionErrorKeeps ==
    ASSUME Inv, ConnectionError
    PROVE  Inv'
<1>1. /\ Good(Now)' /\ Server' /\ Setting' /\ pc' = "error" /\ open' = open /\ alive' = alive
      /\ conf' = conf
  BY GotoKeeps DEF ConnectionError
<1>2. Handling'
  BY <1>1 DEF Inv, Handling, ConnectionError
<1>. QED  BY <1>1, <1>2 DEF Inv

LEMMA RawDoneKeeps ==
    ASSUME Inv, RawDone
    PROVE  Inv'
<1>1. /\ Good(Now)' /\ Server' /\ Setting' /\ pc' = "ext" /\ open' = open /\ alive' = alive
      /\ conf' = conf
  BY GotoKeeps DEF RawDone
<1>2. Handling'
  BY <1>1 DEF Inv, Handling, RawDone
<1>. QED  BY <1>1, <1>2 DEF Inv

(* An extension with listeners exists.                                       *)
LEMMA StrongAlive ==
    ASSUME Inv
    PROVE  strong \subseteq alive
<1>1. /\ Counted(alive, extSigs, extCount) /\ Reads(open, nsignals, reading, connSigs, extSigs, strong)
      /\ Now \in Records
  BY NowFields DEF Inv, Good
<1>2. open \in BOOLEAN /\ strong \in SUBSET Exts
  BY <1>1, RecordFacts, NowFields
<1>. QED  BY <1>1, <1>2 DEF Counted, Reads

LEMMA FindExtKeeps ==
    ASSUME Inv, FindExt
    PROVE  Inv'
<1>1. conf \in Nat
  BY InvFacts
<1>2. CASE ev.ext \in strong
  <2>1. Goto("emit") /\ ev' = ev /\ events' = events /\ pc = "ext"
    BY <1>2 DEF FindExt
  <2>2. /\ Good(Now)' /\ Server' /\ Setting' /\ pc' = "emit" /\ open' = open /\ alive' = alive
        /\ conf' = conf
    BY <2>1, GotoKeeps
  <2>3. ev.ext \in alive
    BY <1>2, StrongAlive
  <2>4. Handling'
    BY <2>1, <2>2, <2>3 DEF Inv, Handling
  <2>. QED  BY <2>2, <2>4 DEF Inv
<1>3. CASE ev.ext \notin strong
  <2>1. Goto("poll") /\ ev' = NoEvent /\ events' = events /\ pc = "ext"
    BY <1>3 DEF FindExt
  <2>2. /\ Good(Now)' /\ Server' /\ Setting' /\ pc' = "poll" /\ open' = open /\ alive' = alive
        /\ conf' = conf
    BY <2>1, GotoKeeps
  <2>3. Handling'
    BY <1>1, <2>1, <2>2, NowInHand DEF Inv, Handling
  <2>. QED  BY <2>2, <2>3 DEF Inv
<1>. QED  BY <1>2, <1>3

(* The next signal of the event in hand.                                     *)
LEMMA NextSignal ==
    ASSUME NEW x \in Events, x.sigs # <<>>
    PROVE  /\ [x EXCEPT !.sigs = Tail(@)] \in Events
           /\ [x EXCEPT !.sigs = Tail(@)].ext = x.ext
           /\ [x EXCEPT !.sigs = Tail(@)].time = x.time
           /\ [x EXCEPT !.sigs = Tail(@)].sigs = Tail(x.sigs)
<1>1. x.sigs \in Seq(Sigs)
  BY DEF Events
<1>2. PICK t : t = Tail(x.sigs)
  OBVIOUS
<1>3. t \in Seq(Sigs)
  BY <1>1, <1>2
<1>4. [x EXCEPT !.sigs = Tail(@)] = [x EXCEPT !.sigs = t]
  BY <1>2
<1>. QED  BY <1>2, <1>3, <1>4 DEF Events

LEMMA EmitKeeps ==
    ASSUME Inv, Emit
    PROVE  Inv'
<1>1. pc = "emit" /\ ev.sigs # <<>> /\ events' = events /\ ev \in Events /\ ev.ext \in alive
  BY DEF Emit, Inv, Handling
<1>2. CASE Head(ev.sigs) \in extSigs[ev.ext]
  <2>1. Goto("handler") /\ ev' = ev
    BY <1>2 DEF Emit
  <2>2. /\ Good(Now)' /\ Server' /\ Setting' /\ pc' = "handler" /\ open' = open /\ alive' = alive
        /\ conf' = conf
    BY <1>1, <2>1, GotoKeeps
  <2>3. Handling'
    BY <1>1, <2>1, <2>2 DEF Inv, Handling
  <2>. QED  BY <2>2, <2>3 DEF Inv
<1>3. CASE Head(ev.sigs) \notin extSigs[ev.ext]
  <2>1. Goto("emit") /\ ev' = [ev EXCEPT !.sigs = Tail(@)]
    BY <1>3 DEF Emit
  <2>2. /\ Good(Now)' /\ Server' /\ Setting' /\ pc' = "emit" /\ open' = open /\ alive' = alive
        /\ conf' = conf
    BY <1>1, <2>1, GotoKeeps
  <2>3. ev' \in Events /\ ev'.ext = ev.ext /\ ev'.time = ev.time
    BY <1>1, <2>1, NextSignal
  <2>4. Handling'
    BY <1>1, <2>2, <2>3 DEF Inv, Handling
  <2>. QED  BY <2>2, <2>4 DEF Inv
<1>. QED  BY <1>2, <1>3

LEMMA EventDoneKeeps ==
    ASSUME Inv, EventDone
    PROVE  Inv'
<1>1. /\ Become(Collected(Now, "poll", None)) /\ UNCHANGED <<broken, conf, view, set>>
      /\ pc = "emit" /\ pc' = "poll" /\ ev' = NoEvent
      /\ cts' = (IF ev.ext = "randr" /\ ev.time # 0 THEN ev.time ELSE cts)
  BY DEF EventDone
<1>2. /\ Good(Now)' /\ Past(events', conf) /\ Len(events') <= MaxEvents /\ open' = Now.open
  BY <1>1, InvFacts, CollectedKeeps
<1>3. ev.time \in Nat /\ ev.time <= conf /\ conf \in Nat /\ cts \in 0 .. conf
  BY <1>1, InvFacts DEF Inv, Handling, Events
<1>4. cts' \in 0 .. conf
  BY <1>1, <1>3
<1>5. Server'
  BY <1>1, <1>2, <1>4 DEF Inv, Server
<1>6. ~DisconnectInHandler => open'
  BY <1>1, <1>2, NowFields DEF Inv, Handling
<1>7. Handling'
  BY <1>1, <1>3, <1>6, NowInHand DEF Inv, Handling
<1>8. Setting'
  BY <1>1, SettingSame DEF Inv
<1>. QED  BY <1>2, <1>5, <1>7, <1>8 DEF Inv

LEMMA HandlerDoneKeeps ==
    ASSUME Inv, HandlerDone
    PROVE  Inv'
<1>1. /\ pc = "handler" /\ Goto("emit") /\ events' = events /\ ev' = [ev EXCEPT !.sigs = Tail(@)]
      /\ ev \in Events /\ ev.ext \in alive /\ ev.sigs # <<>>
  BY DEF HandlerDone, Inv, Handling
<1>2. /\ Good(Now)' /\ Server' /\ Setting' /\ pc' = "emit" /\ open' = open /\ alive' = alive
      /\ conf' = conf
  BY <1>1, GotoKeeps
<1>3. ev' \in Events /\ ev'.ext = ev.ext /\ ev'.time = ev.time
  BY <1>1, NextSignal
<1>4. Handling'
  BY <1>1, <1>2, <1>3 DEF Inv, Handling
<1>. QED  BY <1>2, <1>4 DEF Inv

-----------------------------------------------------------------------------
(* set_view_config and the server.                                           *)

(* A step that leaves objects and di_xorg_ioev alone.                        *)
LEMMA SetStep ==
    ASSUME Inv, UNCHANGED <<connVars, extVars, selected, broken, conf, ioVars, held, cts>>,
           view' \in [outs : Outputs \cup {None}, time : Nat]
    PROVE  Good(Now)' /\ Server' /\ Handling'
<1>1. Good(Now)'
  BY InvFacts, GoodEvents DEF ioVars
<1>2. Server'
  BY DEF Inv, Server, ioVars
<1>3. Handling'
  BY DEF Inv, Handling, ioVars, connVars, extVars
<1>. QED  BY <1>1, <1>2, <1>3

Sets == [at : {"none", "info", "set"}, given : BOOLEAN, outs : Outputs \cup {None}, time : Nat]

LEMMA NoSetTyped == NoSet \in Sets /\ NoSet.at = "none"
  BY DEF NoSet, Sets

LEMMA SetViewConfigKeeps ==
    ASSUME Inv, NEW g \in BOOLEAN, NEW o \in Outputs \cup {None}, SetViewConfig(g, o)
    PROVE  Inv'
<1>1. /\ set' = [at |-> "info", given |-> g, outs |-> o, time |-> 0] /\ view' = view
      /\ UNCHANGED <<connVars, extVars, selected, broken, conf, ioVars, held, cts>>
  BY DEF SetViewConfig, serverVars
<1>2. view \in [outs : Outputs \cup {None}, time : Nat]
  BY DEF Inv, Server
<1>3. Good(Now)' /\ Server' /\ Handling'
  BY <1>1, <1>2, SetStep
<1>4. Setting'
  BY <1>1 DEF Setting
<1>. QED  BY <1>3, <1>4 DEF Inv

LEMMA ReadViewKeeps ==
    ASSUME Inv, ReadView
    PROVE  Inv'
<1>1. /\ set' = GetCrtcInfo(set) /\ view' = view
      /\ UNCHANGED <<connVars, extVars, selected, broken, conf, ioVars, held, cts>>
  BY DEF ReadView, serverVars
<1>2. view \in [outs : Outputs \cup {None}, time : Nat] /\ set \in Sets
  BY DEF Inv, Server, Setting, Sets
<1>3. Good(Now)' /\ Server' /\ Handling'
  BY <1>1, <1>2, SetStep
<1>4. PICK o : o = IF set.given THEN set.outs ELSE view.outs
  OBVIOUS
<1>5. PICK t : t = view.time
  OBVIOUS
<1>6. o \in Outputs \cup {None} /\ t \in Nat
  BY <1>2, <1>4, <1>5 DEF Sets
<1>7. set' = NoSet \/ set' = [set EXCEPT !.at = "set", !.time = t, !.outs = o]
  BY <1>1, <1>4, <1>5 DEF GetCrtcInfo
<1>8. CASE set' = NoSet
  BY <1>3, <1>8, NoSetTyped DEF Inv, Setting, Sets
<1>9. CASE set' = [set EXCEPT !.at = "set", !.time = t, !.outs = o]
  <2>1. set' \in Sets /\ set'.given = set.given /\ set'.time = t /\ set'.outs = o
    BY <1>2, <1>6, <1>9 DEF Sets
  <2>2. t <= t
    BY <1>6
  <2>3. ~set.given => o = view.outs
    BY <1>4
  <2>4. Setting'
    BY <1>1, <1>5, <2>1, <2>2, <2>3 DEF Setting, Sets
  <2>. QED  BY <1>3, <2>4 DEF Inv
<1>. QED  BY <1>7, <1>8, <1>9

LEMMA SetCrtcConfigKeeps ==
    ASSUME Inv, SetCrtcConfig
    PROVE  Inv'
<1>1. /\ UNCHANGED <<connVars, extVars, selected, broken, conf, ioVars, held, cts>>
      /\ \/ set' = NoSet /\ view' = view
         \/ set' = [set EXCEPT !.at = "info"] /\ view' = view
         \/ set' = NoSet /\ view' = [outs |-> set.outs, time |-> set.time]
  BY DEF SetCrtcConfig
<1>2. view \in [outs : Outputs \cup {None}, time : Nat] /\ set \in Sets
  BY DEF Inv, Server, Setting, Sets
<1>3. [set EXCEPT !.at = "info"] \in Sets /\ [set EXCEPT !.at = "info"].at = "info"
  BY <1>2 DEF Sets
<1>4. [outs |-> set.outs, time |-> set.time] \in [outs : Outputs \cup {None}, time : Nat]
  BY <1>2 DEF Sets
<1>5. view' \in [outs : Outputs \cup {None}, time : Nat]
  BY <1>1, <1>2, <1>4
<1>6. Good(Now)' /\ Server' /\ Handling'
  BY <1>1, <1>5, SetStep
<1>7. set' \in Sets /\ set'.at # "set"
  BY <1>1, <1>3, NoSetTyped
<1>8. Setting'
  BY <1>7 DEF Setting, Sets
<1>. QED  BY <1>6, <1>8 DEF Inv

LEMMA OneAppended ==
    ASSUME NEW S, NEW q \in Seq(S), NEW x \in S
    PROVE  /\ Append(q, x) \in Seq(S) /\ Len(Append(q, x)) = Len(q) + 1
           /\ Append(q, x)[Len(q) + 1] = x
           /\ \A i \in 1 .. Len(q) : Append(q, x)[i] = q[i]
  OBVIOUS

LEMMA ShortSequences ==
    ASSUME NEW S, NEW a \in S, NEW b \in S
    PROVE  <<>> \in Seq(S) /\ <<a>> \in Seq(S) /\ <<a, b>> \in Seq(S)
  OBVIOUS

(* An event is sent.                                                         *)
LEMMA SendTyped ==
    ASSUME NEW es \in Seq(Events), NEW e \in Exts, NEW sigs \in Seq(Sigs), NEW t \in Nat,
           NEW old \in Nat, NEW new \in Nat, old <= new, t <= new, Past(es, old),
           Len(es) < MaxEvents, NEW es2,
           es2 \in {es, Append(es, [ext |-> e, sigs |-> sigs, time |-> t])}
    PROVE  es2 \in Seq(Events) /\ Len(es2) <= MaxEvents /\ Past(es2, new)
<1>1. PICK x : x = [ext |-> e, sigs |-> sigs, time |-> t]
  OBVIOUS
<1>2. x \in Events /\ x.time = t
  BY <1>1 DEF Events
<1>3. MaxEvents \in Nat /\ Len(es) \in Nat /\ DOMAIN es = 1 .. Len(es)
  BY XorgAssumption
<1>4. \A i \in 1 .. Len(es) : es[i] \in Events
  OBVIOUS
<1>5. Past(es, new)
  <2>1. ASSUME NEW i \in 1 .. Len(es)
        PROVE  es[i].time <= new
    <3>1. es[i].time \in Nat /\ es[i].time <= old
      BY <1>3, <1>4, <2>1 DEF Past, Events
    <3>. QED  BY <3>1
  <2>. QED  BY <1>3, <2>1 DEF Past
<1>6. CASE es2 = es
  BY <1>3, <1>5, <1>6
<1>7. CASE es2 = Append(es, x)
  <2>1. /\ es2 \in Seq(Events) /\ Len(es2) = Len(es) + 1 /\ DOMAIN es2 = 1 .. Len(es) + 1
        /\ es2[Len(es) + 1] = x /\ \A i \in 1 .. Len(es) : es2[i] = es[i]
    <3>1. /\ es2 \in Seq(Events) /\ Len(es2) = Len(es) + 1 /\ es2[Len(es) + 1] = x
          /\ \A i \in 1 .. Len(es) : es2[i] = es[i]
      BY <1>2, <1>7, OneAppended
    <3>. QED  BY <3>1
  <2>2. Len(es2) <= MaxEvents
    BY <1>3, <2>1
  <2>3. ASSUME NEW i \in 1 .. Len(es) + 1
        PROVE  es2[i].time <= new
    <3>1. CASE i \in 1 .. Len(es)
      BY <1>3, <1>5, <2>1, <3>1 DEF Past
    <3>2. CASE i = Len(es) + 1
      BY <1>2, <2>1, <3>2
    <3>. QED  BY <1>3, <3>1, <3>2
  <2>. QED  BY <2>1, <2>2, <2>3 DEF Past
<1>. QED  BY <1>1, <1>6, <1>7

LEMMA ServerKeeps ==
    ASSUME Inv, ServerStep, NEW e \in Exts, NEW sigs \in Seq(Sigs), NEW t \in Nat,
           events' = Send(e, sigs, t), broken' = broken, conf' \in Nat, conf <= conf', t <= conf',
           view' \in [outs : Outputs \cup {None}, time : Nat],
           view' = view \/ view.time < view'.time
    PROVE  Inv'
<1>1. /\ UNCHANGED <<connVars, extVars, selected, pc, ev, held, cts, set>> /\ Len(events) < MaxEvents
  BY DEF ServerStep
<1>2. events' \in {events, Append(events, [ext |-> e, sigs |-> sigs, time |-> t])}
  BY DEF Send
<1>3. events \in Seq(Events) /\ conf \in Nat /\ cts \in 0 .. conf
  BY InvFacts
<1>4. PICK es : es = events'
  OBVIOUS
<1>5. PICK c : c = conf'
  OBVIOUS
<1>6. Past(events, conf)
  BY DEF Inv, Server
<1>7. es \in Seq(Events) /\ Len(es) <= MaxEvents /\ Past(es, c)
  BY <1>1, <1>2, <1>3, <1>4, <1>5, <1>6, SendTyped
<1>8. Good(Now)'
  BY <1>1, <1>4, <1>7, InvFacts, GoodEvents
<1>9. cts \in 0 .. c
  BY <1>3, <1>5
<1>10. Server'
  BY <1>1, <1>4, <1>5, <1>7, <1>9 DEF Inv, Server
<1>11. ev.time \in Nat /\ ev.time <= conf
  BY NowInHand DEF Inv, Handling, Events
<1>12. ev.time <= conf'
  BY <1>3, <1>11
<1>13. Handling'
  BY <1>1, <1>12 DEF Inv, Handling, connVars, extVars
<1>14. set.time \in Nat /\ view.time \in Nat /\ view'.time \in Nat
  BY DEF Inv, Server, Setting
<1>15. set \in Sets /\ set' = set
  BY <1>1 DEF Inv, Setting, Sets
<1>16. ASSUME set.at = "set" /\ ~set.given
       PROVE  set.time <= view'.time /\ (set.time = view'.time => set.outs = view'.outs)
  <2>1. set.time <= view.time /\ (set.time = view.time => set.outs = view.outs)
    BY <1>16 DEF Inv, Setting
  <2>2. CASE view' = view
    BY <2>1, <2>2
  <2>3. CASE view.time < view'.time
    BY <1>14, <2>1, <2>3
  <2>. QED  BY <2>2, <2>3
<1>17. Setting'
  BY <1>15, <1>16 DEF Setting, Sets
<1>. QED  BY <1>8, <1>10, <1>13, <1>17 DEF Inv

LEMMA ChangeDevicesKeeps ==
    ASSUME Inv, NEW sigs \in Hierarchy, ChangeDevices(sigs)
    PROVE  Inv'
<1>1. /\ ServerStep /\ events' = Send("xinput", sigs, 0) /\ broken' = broken /\ conf' = conf
      /\ view' = view
  BY DEF ChangeDevices
<1>2. sigs \in Seq(Sigs)
  <2>1. InputSignals \subseteq Sigs
    BY DEF Sigs
  <2>2. \A a \in InputSignals, b \in InputSignals : <<a>> \in Seq(Sigs) /\ <<a, b>> \in Seq(Sigs)
    BY <2>1, ShortSequences
  <2>3. \/ \E a \in InputSignals : sigs = <<a>>
        \/ \E a \in InputSignals, b \in InputSignals : sigs = <<a, b>>
    BY DEF Hierarchy
  <2>. QED  BY <2>2, <2>3
<1>3. "xinput" \in Exts /\ 0 \in Nat
  BY DEF Exts
<1>4. conf \in Nat /\ conf' \in Nat /\ conf <= conf' /\ 0 <= conf'
  BY <1>1, InvFacts
<1>5. view' \in [outs : Outputs \cup {None}, time : Nat]
  BY <1>1 DEF Inv, Server
<1>. QED  BY <1>1, <1>2, <1>3, <1>4, <1>5, ServerKeeps

LEMMA ChangeConfigKeeps ==
    ASSUME Inv, NEW sigs \in {<<>>, <<"output-change">>}, ChangeConfig(sigs)
    PROVE  Inv'
<1>1. /\ ServerStep /\ events' = Send("randr", sigs, conf + 1) /\ broken' = broken
      /\ conf' = conf + 1 /\ view' = view
  BY DEF ChangeConfig
<1>2. sigs \in Seq(Sigs)
  <2>1. "output-change" \in Sigs
    BY DEF Sigs
  <2>. QED  BY <2>1, ShortSequences
<1>3. "randr" \in Exts
  BY DEF Exts
<1>4. conf \in Nat /\ conf + 1 \in Nat /\ conf' \in Nat /\ conf <= conf' /\ conf + 1 <= conf'
  BY <1>1, InvFacts
<1>5. view' \in [outs : Outputs \cup {None}, time : Nat]
  BY <1>1 DEF Inv, Server
<1>. QED  BY <1>1, <1>2, <1>3, <1>4, <1>5, ServerKeeps

LEMMA ChangeViewKeeps ==
    ASSUME Inv, NEW o \in Outputs, ChangeView(o)
    PROVE  Inv'
<1>1. /\ ServerStep /\ events' = Send("randr", <<"view-change">>, 0) /\ broken' = broken
      /\ conf' = conf /\ view' = [outs |-> o, time |-> view.time + 1]
  BY DEF ChangeView
<1>2. <<"view-change">> \in Seq(Sigs)
  BY DEF Sigs
<1>3. "randr" \in Exts /\ 0 \in Nat
  BY DEF Exts
<1>4. conf \in Nat /\ conf' \in Nat /\ conf <= conf' /\ 0 <= conf'
  BY <1>1, InvFacts
<1>5. view.time \in Nat
  BY DEF Inv, Server
<1>6. view' \in [outs : Outputs \cup {None}, time : Nat] /\ view.time < view'.time
  BY <1>1, <1>5
<1>. QED  BY <1>1, <1>2, <1>3, <1>4, <1>6, ServerKeeps

LEMMA BreakKeeps ==
    ASSUME Inv, Break
    PROVE  Inv'
<1>1. /\ UNCHANGED <<connVars, extVars, selected, conf, view, ioVars, held, cts, set>>
      /\ broken' = TRUE
  BY DEF Break
<1>2. Good(Now)'
  BY <1>1, InvFacts, GoodEvents DEF ioVars
<1>3. Server'
  BY <1>1 DEF Inv, Server, ioVars
<1>4. Handling'
  BY <1>1 DEF Inv, Handling, ioVars, connVars, extVars
<1>5. Setting'
  BY <1>1, SettingSame DEF Inv
<1>. QED  BY <1>2, <1>3, <1>4, <1>5 DEF Inv

-----------------------------------------------------------------------------
LEMMA InitInv == Init => Inv
<1>. SUFFICES ASSUME Init PROVE Inv
  OBVIOUS
<1>1. /\ open = TRUE /\ held = {"conn"} /\ nsignals = 0 /\ reading = FALSE /\ connSigs = {}
      /\ alive = {} /\ strong = {} /\ cts = 0
      /\ extSigs = [e \in Exts |-> {}] /\ extCount = [e \in Exts |-> 0]
      /\ selected = {} /\ events = <<>> /\ broken = FALSE /\ conf = 0
  BY DEF Init
<1>2. /\ view \in [outs : Outputs, time : {0}] /\ pc = "idle" /\ ev = NoEvent /\ set = NoSet
  BY DEF Init
<1>3. IsFiniteSet({}) /\ Cardinality({}) = 0
  BY FS_EmptySet
<1>4. <<>> \in Seq(Events)
  OBVIOUS
<1>5. Now \in Records
  <2>1. PICK none : none = <<>>
    OBVIOUS
  <2>2. PICK es : es = [e \in Exts |-> {}]
    OBVIOUS
  <2>3. PICK ec : ec = [e \in Exts |-> 0]
    OBVIOUS
  <2>4. none \in Seq(Events) /\ es \in [Exts -> SUBSET Sigs] /\ ec \in [Exts -> Nat]
    BY <1>4, <2>1, <2>2, <2>3
  <2>5. Now = [open |-> TRUE, held |-> {"conn"}, nsignals |-> 0, reading |-> FALSE, connSigs |-> {},
               alive |-> {}, extSigs |-> es, extCount |-> ec, strong |-> {}, selected |-> {},
               events |-> none]
    BY <1>1, <2>1, <2>2, <2>3 DEF Now
  <2>. QED  BY <2>4, <2>5 DEF Records
<1>6. Counted(alive, extSigs, extCount)
  BY <1>1, <1>3 DEF Counted
<1>7. Reads(open, nsignals, reading, connSigs, extSigs, strong)
  BY <1>1, <1>3 DEF Reads
<1>8. held \cap Exts \subseteq alive
  BY <1>1 DEF Exts
<1>9. Good(Now)
  BY <1>5, <1>6, <1>7, <1>8, NowFields DEF Good
<1>10. Server
  <2>1. Len(events) = 0 /\ DOMAIN events = {} /\ MaxEvents \in Nat
    BY <1>1, XorgAssumption
  <2>2. Past(events, conf) /\ Len(events) <= MaxEvents
    BY <2>1 DEF Past
  <2>3. cts \in 0 .. conf /\ conf \in Nat /\ broken \in BOOLEAN
    <3>1. cts = 0 /\ conf = 0
      BY <1>1
    <3>2. broken \in BOOLEAN
      BY <1>1
    <3>. QED  BY <3>1, <3>2
  <2>4. view \in [outs : Outputs \cup {None}, time : Nat]
    BY <1>2
  <2>. QED  BY <2>2, <2>3, <2>4 DEF Server
<1>11. Handling
  BY <1>1, <1>2, NowInHand DEF Handling
<1>12. Setting
  BY <1>2, NoSetTyped DEF Setting, Sets
<1>. QED  BY <1>9, <1>10, <1>11, <1>12 DEF Inv

LEMMA UserInv ==
    ASSUME Inv, UserNext
    PROVE  Inv'
<1>1. CASE \E e \in Exts : GetExt(e)
  BY <1>1, GetExtKeeps
<1>2. CASE \E x \in held : Release(x)
  BY <1>2, ReleaseKeeps
<1>3. CASE \E s \in ConnSignals : ListenConn(s) \/ UnlistenConn(s)
  BY <1>3, ListenConnKeeps, UnlistenConnKeeps
<1>4. CASE \E e \in Exts : \E s \in SignalsOf(e) : ListenExt(e, s) \/ UnlistenExt(e, s)
  BY <1>4, ListenExtKeeps, UnlistenExtKeeps
<1>5. CASE Disconnect
  BY <1>5, DisconnectKeeps
<1>6. CASE \E o \in Outputs : SetViewConfig(TRUE, o)
  BY <1>6, SetViewConfigKeeps
<1>7. CASE SetViewConfig(FALSE, None)
  BY <1>7, SetViewConfigKeeps
<1>. QED  BY <1>1, <1>2, <1>3, <1>4, <1>5, <1>6, <1>7 DEF UserNext

LEMMA IoevInv ==
    ASSUME Inv, Ioev
    PROVE  Inv'
  BY WakeKeeps, PollKeeps, PollEmptyKeeps, ConnectionErrorKeeps, FinalizeBrokenKeeps, RawDoneKeeps,
     FindExtKeeps, EmitKeeps, HandlerDoneKeeps, EventDoneKeeps DEF Ioev

LEMMA ServerInv ==
    ASSUME Inv, ServerNext
    PROVE  Inv'
<1>1. CASE \E sigs \in Hierarchy : ChangeDevices(sigs)
  BY <1>1, ChangeDevicesKeeps
<1>2. CASE ChangeConfig(<<>>) \/ ChangeConfig(<<"output-change">>)
  BY <1>2, ChangeConfigKeeps
<1>3. CASE \E o \in Outputs : ChangeView(o)
  BY <1>3, ChangeViewKeeps
<1>4. CASE Break
  BY <1>4, BreakKeeps
<1>. QED  BY <1>1, <1>2, <1>3, <1>4 DEF ServerNext

LEMMA StutterInv ==
    ASSUME Inv, UNCHANGED vars
    PROVE  Inv'
<1>1. UNCHANGED <<connVars, extVars, selected, conf, view, ioVars, held, cts, set, broken>>
  BY DEF vars, serverVars
<1>2. view \in [outs : Outputs \cup {None}, time : Nat]
  BY DEF Inv, Server
<1>3. Good(Now)' /\ Server' /\ Handling'
  BY <1>1, <1>2, SetStep
<1>4. Setting'
  BY <1>1, SettingSame DEF Inv
<1>. QED  BY <1>3, <1>4 DEF Inv

LEMMA StepInv == Inv /\ [Next]_vars => Inv'
<1>. SUFFICES ASSUME Inv, [Next]_vars PROVE Inv'
  OBVIOUS
<1>1. CASE UserNext
  BY <1>1, UserInv
<1>2. CASE Ioev
  BY <1>2, IoevInv
<1>3. CASE SetView
  BY <1>3, ReadViewKeeps, SetCrtcConfigKeeps DEF SetView
<1>4. CASE ServerNext
  BY <1>4, ServerInv
<1>5. CASE UNCHANGED vars
  BY <1>5, StutterInv
<1>. QED  BY <1>1, <1>2, <1>3, <1>4, <1>5 DEF Next

(* The inductive invariant holds in every reachable state, for any signals,  *)
(* outputs and bounds.                                                       *)
THEOREM Invariant == Spec => []Inv
  BY InitInv, StepInv, PTL DEF Spec

-----------------------------------------------------------------------------
(* What the steps do to the event in hand and to set_view_config.            *)

LEMMA UserLeaves ==
    ASSUME UserNext
    PROVE  /\ ev' = ev /\ view' = view /\ pc' = pc
           /\ set' = set \/ set = NoSet
<1>1. ASSUME NEW m, UserStep(m)
      PROVE  ev' = ev /\ view' = view /\ pc' = pc /\ set' = set
  BY <1>1 DEF UserStep
<1>2. ASSUME NEW g, NEW o, SetViewConfig(g, o)
      PROVE  ev' = ev /\ view' = view /\ pc' = pc /\ set = NoSet
  BY <1>2 DEF SetViewConfig, UserRuns, ioVars, serverVars
<1>3. CASE \E e \in Exts : GetExt(e)
  <2>1. PICK e \in Exts : GetExt(e)
    BY <1>3
  <2>. QED  BY <1>1, <2>1 DEF GetExt
<1>4. CASE \E x \in held : Release(x)
  BY <1>1, <1>4 DEF Release
<1>5. CASE \E s \in ConnSignals : ListenConn(s) \/ UnlistenConn(s)
  BY <1>1, <1>5 DEF ListenConn, UnlistenConn
<1>6. CASE \E e \in Exts : \E s \in SignalsOf(e) : ListenExt(e, s) \/ UnlistenExt(e, s)
  BY <1>1, <1>6 DEF ListenExt, UnlistenExt
<1>7. CASE Disconnect
  BY <1>1, <1>7 DEF Disconnect
<1>8. CASE \E o \in Outputs : SetViewConfig(TRUE, o)
  BY <1>2, <1>8
<1>9. CASE SetViewConfig(FALSE, None)
  BY <1>2, <1>9
<1>. QED  BY <1>3, <1>4, <1>5, <1>6, <1>7, <1>8, <1>9 DEF UserNext

LEMMA IoevLeaves ==
    ASSUME Ioev
    PROVE  set' = set /\ view' = view
  BY DEF Ioev, Wake, Poll, PollEmpty, ConnectionError, FinalizeBroken, RawDone, FindExt, Emit,
         HandlerDone, EventDone, Goto, serverVars

LEMMA SetViewLeaves ==
    ASSUME SetView
    PROVE  ev' = ev /\ pc' = pc
  BY DEF SetView, ReadView, SetCrtcConfig, ioVars

LEMMA ServerLeaves ==
    ASSUME ServerNext
    PROVE  ev' = ev /\ pc' = pc /\ set' = set
<1>1. CASE \E sigs \in Hierarchy : ChangeDevices(sigs)
  BY <1>1 DEF ChangeDevices, ServerStep
<1>2. CASE ChangeConfig(<<>>) \/ ChangeConfig(<<"output-change">>)
  BY <1>2 DEF ChangeConfig, ServerStep
<1>3. CASE \E o \in Outputs : ChangeView(o)
  BY <1>3 DEF ChangeView, ServerStep
<1>4. CASE Break
  BY <1>4 DEF Break, ioVars
<1>. QED  BY <1>1, <1>2, <1>3, <1>4 DEF ServerNext

(* A view that set_view_config sets has the outputs it read, or it is not    *)
(* set: what it read is the view of a time at most the present one.          *)
LEMMA SetsWhatItRead ==
    ASSUME Inv, SetCrtcConfig, set' = NoSet, ~set.given
    PROVE  view'.outs = view.outs
<1>1. set.at = "set"
  BY DEF SetCrtcConfig
<1>2. set.time <= view.time /\ (set.time = view.time => set.outs = view.outs)
  BY <1>1 DEF Inv, Setting
<1>3. set.time \in Nat /\ view.time \in Nat
  BY DEF Inv, Setting, Server
<1>4. CASE broken \/ cts # conf
  BY <1>4 DEF SetCrtcConfig
<1>5. CASE ~(broken \/ cts # conf) /\ set.time < view.time
  <2>1. set' = [set EXCEPT !.at = "info"]
    BY <1>5 DEF SetCrtcConfig
  <2>2. set \in Sets
    BY DEF Inv, Setting, Sets
  <2>3. set'.at = "info"
    BY <2>1, <2>2 DEF Sets
  <2>. QED  BY <2>3, NoSetTyped
<1>6. CASE ~(broken \/ cts # conf) /\ ~(set.time < view.time)
  <2>1. view' = [outs |-> set.outs, time |-> set.time]
    BY <1>6 DEF SetCrtcConfig
  <2>2. set.time = view.time
    BY <1>2, <1>3, <1>6
  <2>. QED  BY <1>2, <2>1, <2>2
<1>. QED  BY <1>4, <1>5, <1>6

LEMMA StepOutputs ==
    Inv /\ [Next]_vars =>
        [(set.at = "set" /\ set' = NoSet /\ ~set.given) => view'.outs = view.outs]_vars
<1>. SUFFICES ASSUME Inv, Next, set.at = "set", set' = NoSet, ~set.given
              PROVE  view'.outs = view.outs
  OBVIOUS
<1>1. set # NoSet
  BY NoSetTyped
<1>2. CASE UserNext
  BY <1>1, <1>2, UserLeaves
<1>3. CASE Ioev
  BY <1>1, <1>3, IoevLeaves
<1>4. CASE ServerNext
  BY <1>1, <1>4, ServerLeaves
<1>5. CASE ReadView
  BY <1>5 DEF ReadView
<1>6. CASE SetCrtcConfig
  BY <1>6, SetsWhatItRead
<1>. QED  BY <1>2, <1>3, <1>4, <1>5, <1>6 DEF Next, SetView

-----------------------------------------------------------------------------
LEMMA FindsListeners ==
    ASSUME Inv, ~DisconnectInHandler, FindExt, ev' # ev
    PROVE  extSigs[ev.ext] = {}
<1>1. pc = "ext" /\ ev.ext \notin strong
  BY DEF FindExt
<1>2. open /\ ev.ext \in Exts
  BY <1>1 DEF Inv, Handling, Events
<1>3. Reads(open, nsignals, reading, connSigs, extSigs, strong)
  BY NowFields DEF Inv, Good
<1>. QED  BY <1>1, <1>2, <1>3 DEF Reads

LEMMA RestOf ==
    ASSUME NEW S, NEW q \in Seq(S), q # <<>>
    PROVE  ToSet(q) \subseteq {Head(q)} \cup ToSet(Tail(q))
<1>1. /\ DOMAIN q = 1 .. Len(q) /\ Len(q) \in Nat /\ Head(q) = q[1]
      /\ Tail(q) \in Seq(S) /\ Len(Tail(q)) = Len(q) - 1
  OBVIOUS
<1>2. DOMAIN Tail(q) = 1 .. (Len(q) - 1)
  BY <1>1
<1>3. ASSUME NEW i \in 1 .. Len(q), i # 1
      PROVE  \E j \in 1 .. (Len(q) - 1) : Tail(q)[j] = q[i]
  <2>1. i - 1 \in 1 .. (Len(q) - 1) /\ (i - 1) + 1 = i
    BY <1>1, <1>3
  <2>2. Tail(q)[i - 1] = q[(i - 1) + 1]
    BY <1>1, <2>1
  <2>. QED  BY <2>1, <2>2
<1>4. ASSUME NEW x \in ToSet(q)
      PROVE  x = Head(q) \/ x \in ToSet(Tail(q))
  <2>1. PICK i \in 1 .. Len(q) : x = q[i]
    BY <1>1, <1>4 DEF ToSet
  <2>2. CASE i = 1
    BY <1>1, <2>1, <2>2
  <2>3. CASE i # 1
    BY <1>2, <1>3, <2>1, <2>3 DEF ToSet
  <2>. QED  BY <2>2, <2>3
<1>. QED  BY <1>4

LEMMA EmitsToListeners ==
    ASSUME Inv, Emit, ev' # ev
    PROVE  ToSet(ev.sigs) \cap extSigs[ev.ext] \subseteq ToSet(ev'.sigs)
<1>1. ev \in Events /\ ev.sigs # <<>> /\ Head(ev.sigs) \notin extSigs[ev.ext]
      /\ ev' = [ev EXCEPT !.sigs = Tail(@)]
  BY DEF Emit, Inv, Handling
<1>2. ev'.sigs = Tail(ev.sigs)
  BY <1>1, NextSignal
<1>3. ev.sigs \in Seq(Sigs)
  BY <1>1 DEF Events
<1>4. ToSet(ev.sigs) \subseteq {Head(ev.sigs)} \cup ToSet(Tail(ev.sigs))
  BY <1>1, <1>3, RestOf
<1>. QED  BY <1>1, <1>2, <1>4

LEMMA EvSteps ==
    ASSUME Next
    PROVE  ev' = ev \/ Poll \/ FindExt \/ Emit \/ HandlerDone \/ EventDone
<1>1. CASE UserNext
  BY <1>1, UserLeaves
<1>2. CASE SetView
  BY <1>2, SetViewLeaves
<1>3. CASE ServerNext
  BY <1>3, ServerLeaves
<1>4. CASE Ioev
  BY <1>4 DEF Ioev, Wake, PollEmpty, ConnectionError, FinalizeBroken, RawDone, Goto
<1>. QED  BY <1>1, <1>2, <1>3, <1>4 DEF Next

LEMMA StepEvents ==
    ~DisconnectInHandler /\ Inv /\ [Next]_vars =>
        [/\ (pc \in {"ext", "emit"} /\ ev' # ev)
               => (ev.ext \notin alive \/ ToSet(ev.sigs) \cap extSigs[ev.ext] \subseteq ToSet(ev'.sigs))
         /\ pc' = "handler" => ev.ext \in alive']_vars
<1>. SUFFICES ASSUME ~DisconnectInHandler, Inv, Next
              PROVE  /\ (pc \in {"ext", "emit"} /\ ev' # ev)
                          => (ev.ext \notin alive \/
                              ToSet(ev.sigs) \cap extSigs[ev.ext] \subseteq ToSet(ev'.sigs))
                     /\ pc' = "handler" => ev.ext \in alive'
  OBVIOUS
<1>1. ASSUME pc \in {"ext", "emit"}, ev' # ev
      PROVE  ToSet(ev.sigs) \cap extSigs[ev.ext] \subseteq ToSet(ev'.sigs)
  <2>1. FindExt \/ Emit \/ EventDone
    BY <1>1, EvSteps DEF Poll, HandlerDone
  <2>2. CASE FindExt
    BY <1>1, <2>2, FindsListeners
  <2>3. CASE Emit
    BY <1>1, <2>3, EmitsToListeners
  <2>4. CASE EventDone
    <3>1. ev.sigs = <<>>
      BY <2>4 DEF EventDone
    <3>2. DOMAIN ev.sigs = {}
      BY <3>1
    <3>3. ToSet(ev.sigs) = {}
      BY <3>2 DEF ToSet
    <3>. QED  BY <3>3
  <2>. QED  BY <2>1, <2>2, <2>3, <2>4
<1>2. ASSUME pc' = "handler"
      PROVE  ev.ext \in alive'
  <2>1. Inv'
    BY StepInv
  <2>2. ev'.ext \in alive'
    BY <1>2, <2>1 DEF Inv, Handling
  <2>3. ev' = ev
    BY <1>2, EvSteps DEF Poll, FindExt, Emit, HandlerDone, EventDone, Goto
  <2>. QED  BY <2>2, <2>3
<1>. QED  BY <1>1, <1>2

-----------------------------------------------------------------------------
(* Every variable has its type, and the time the randr extension knows is    *)
(* never ahead of the server's.                                              *)
THEOREM TypesKept == Spec => []TypeOK
<1>1. Inv => TypeOK
  <2>. SUFFICES ASSUME Inv PROVE TypeOK
    OBVIOUS
  <2>1. Now \in Records /\ Counted(alive, extSigs, extCount)
    BY NowFields DEF Inv, Good
  <2>2. /\ Now.open \in BOOLEAN /\ Now.held \in SUBSET (Exts \cup {"conn"}) /\ Now.nsignals \in Int
        /\ Now.reading \in BOOLEAN /\ Now.connSigs \in SUBSET ConnSignals /\ Now.alive \in SUBSET Exts
        /\ Now.extCount \in [Exts -> Nat]
        /\ Now.strong \in SUBSET Exts /\ Now.selected \in SUBSET Exts
    BY <2>1, RecordFacts
  <2>3. \A e \in Exts : extSigs[e] \subseteq SignalsOf(e) /\ extCount[e] \in Nat
    BY <2>1, <2>2, NowFields DEF Counted
  <2>4. Server /\ Handling
    BY DEF Inv
  <2>. QED  BY <2>2, <2>3, <2>4, NowFields DEF TypeOK, Server, Handling
<1>. QED  BY <1>1, Invariant, PTL

(* The open connection is read exactly while somebody listens to it or to    *)
(* one of its extensions, and holds exactly the extensions with listeners:   *)
(* di_xorg_add_signal and di_xorg_del_signal never lose count, whatever is   *)
(* dropped, disconnected or collected in between.                            *)
THEOREM ReadExactlyWhileListened == Spec => []ReadWhileListened
<1>1. Inv => ReadWhileListened
  <2>. SUFFICES ASSUME Inv, open PROVE
         /\ nsignals = Cardinality(connSigs) + Cardinality(Listened)
         /\ reading <=> nsignals > 0
         /\ strong = Listened
    BY DEF ReadWhileListened
  <2>1. /\ Counted(alive, extSigs, extCount) /\ Reads(open, nsignals, reading, connSigs, extSigs, strong)
        /\ Now \in Records
    BY NowFields DEF Inv, Good
  <2>2. strong \in SUBSET Exts /\ alive \in SUBSET Exts
    BY <2>1, RecordFacts, NowFields
  <2>3. \A e \in Exts : e \in strong <=> extSigs[e] # {}
    BY <2>1 DEF Reads
  <2>4. strong = Listened
    BY <2>2, <2>3, StrongAlive DEF Listened
  <2>5. nsignals = Cardinality(connSigs) + Cardinality(strong) /\ (reading <=> nsignals > 0)
    BY <2>1 DEF Reads
  <2>. QED  BY <2>4, <2>5
<1>. QED  BY <1>1, Invariant, PTL

(* set_view_config without outputs never undoes a change of the outputs that *)
(* another client has made, however often it had to try.                     *)
THEOREM OutputsAreKept == Spec => OutputsKept
<1>1. Inv /\ [Next]_vars =>
        [(set.at = "set" /\ set' = NoSet /\ ~set.given) => view'.outs = view.outs]_vars
  BY StepOutputs
<1>. QED  BY <1>1, Invariant, PTL DEF Spec, OutputsKept

(* An event is dropped only when nobody listens to what it announces, and a  *)
(* handler runs only on an extension that exists, when no handler called     *)
(* from di_xorg_ioev disconnects.                                            *)
THEOREM EventsGetThrough ==
    ASSUME ~DisconnectInHandler
    PROVE  Spec => EventsReachListeners
<1>1. Inv /\ [Next]_vars =>
        [/\ (pc \in {"ext", "emit"} /\ ev' # ev)
               => (ev.ext \notin alive \/ ToSet(ev.sigs) \cap extSigs[ev.ext] \subseteq ToSet(ev'.sigs))
         /\ pc' = "handler" => ev.ext \in alive']_vars
  BY StepEvents
<1>. QED  BY <1>1, Invariant, PTL DEF Spec, EventsReachListeners

-----------------------------------------------------------------------------
(* Key bindings: proofs about XorgKey, the other extension of the plugin     *)
(* with a state of its own, for any combinations of keysyms and modifiers,   *)
(* any keymaps, any number of bindings and any grabs of other clients.       *)

CONSTANTS Combos, Codes, Keymaps, Contested, MaxBindings, MaxKeyEvents

VARIABLES bindings, keyHeld, keySignals, registered, keysyms, keymap, grabs, others, missed,
          frozen, keyEvents, keyPc, evt, pos, intercept

Key == INSTANCE XorgKey
         WITH held <- keyHeld, nsignals <- keySignals, events <- keyEvents, pc <- keyPc,
              MaxEvents <- MaxKeyEvents

Bindings ==
    [keysym : {c.keysym : c \in Combos}, mods : {c.mods : c \in Combos},
     codes : {{}} \cup {m[c.keysym] : m \in Keymaps, c \in Combos}, intercept : BOOLEAN,
     sigs : SUBSET Key!Signals, final : BOOLEAN]

(* Each key that is grabbed is a binding's.                                  *)
Owned(bs, g) == \A k \in g : \E i \in DOMAIN bs : k \in Key!KeysOf(bs, i)

(* The i-th binding has its keys, but for those it missed, if it has a       *)
(* listener.                                                                 *)
Granted(bs, i, g, ms) == bs[i].sigs # {} => Key!KeysOf(bs, i) \subseteq g \cup ms

GoodGrabs(bs, g, ms) ==
    bs \in Seq(Bindings) /\ Owned(bs, g) /\ \A i \in DOMAIN bs : Granted(bs, i, g, ms)

(* A binding has the keycodes of the keymap that the client knows, whether   *)
(* it has listeners or not, unless its turn to be refreshed is still to come. *)
Current(bs, syms) ==
    \A i \in DOMAIN bs :
       \/ keyPc = "crashed" \/ (keyPc = "refresh" /\ i >= pos)
       \/ bs[i].codes = syms[bs[i].keysym]

KeyInv ==
    /\ keysyms \in Keymaps /\ keymap \in Keymaps /\ (keyPc = "refresh" => pos \in Nat \ {0})
    /\ GoodGrabs(bindings, grabs, missed) /\ Current(bindings, keysyms)

LEMMA KeyInitial == Key!Init => KeyInv
BY DEF Key!Init, KeyInv, GoodGrabs, Owned, Granted, Current

(* A binding with other keycodes, other signals or another flag is one.      *)
LEMMA CodesChange ==
    ASSUME NEW b \in Bindings, keysyms \in Keymaps
    PROVE  LET d == [b EXCEPT !.codes = keysyms[b.keysym]]
           IN  /\ d \in Bindings /\ d.codes = keysyms[b.keysym] /\ d.sigs = b.sigs
               /\ d.mods = b.mods /\ d.keysym = b.keysym /\ d.final = b.final
BY DEF Bindings

LEMMA SignalsChange ==
    ASSUME NEW b \in Bindings, NEW ss \in SUBSET Key!Signals
    PROVE  LET d == [b EXCEPT !.sigs = ss]
           IN  /\ d \in Bindings /\ d.sigs = ss /\ d.codes = b.codes /\ d.mods = b.mods
               /\ d.keysym = b.keysym
BY DEF Bindings

LEMMA FlagChange ==
    ASSUME NEW b \in Bindings, NEW f \in BOOLEAN
    PROVE  LET d == [b EXCEPT !.final = f]
           IN  /\ d \in Bindings /\ d.sigs = b.sigs /\ d.codes = b.codes /\ d.mods = b.mods
               /\ d.keysym = b.keysym
BY DEF Bindings

LEMMA FinalChange ==
    ASSUME NEW b \in Bindings, NEW d, d = [b EXCEPT !.sigs = {}, !.final = TRUE]
    PROVE  /\ d \in Bindings /\ d.sigs = {} /\ d.codes = b.codes /\ d.mods = b.mods
           /\ d.keysym = b.keysym
<1>. DEFINE e == [b EXCEPT !.sigs = {}]
<1>1. /\ e \in Bindings /\ e.sigs = {} /\ e.codes = b.codes /\ e.mods = b.mods
      /\ e.keysym = b.keysym
  BY SignalsChange
<1>2. d = [e EXCEPT !.final = TRUE]
  OBVIOUS
<1>. HIDE DEF e
<1>3. PICK f \in BOOLEAN : f = TRUE
  OBVIOUS
<1>4. d = [e EXCEPT !.final = f]
  BY <1>2, <1>3, Zenon
<1>5. /\ [e EXCEPT !.final = f] \in Bindings /\ [e EXCEPT !.final = f].sigs = e.sigs
      /\ [e EXCEPT !.final = f].codes = e.codes /\ [e EXCEPT !.final = f].mods = e.mods
      /\ [e EXCEPT !.final = f].keysym = e.keysym
  BY <1>1, FlagChange
<1>6. d \in Bindings /\ d.sigs = e.sigs /\ d.codes = e.codes /\ d.mods = e.mods
      /\ d.keysym = e.keysym
  BY <1>4, <1>5, Zenon
<1>. QED
  BY <1>1, <1>6

(* The list with other signals of the i-th binding and nothing else changed. *)
Resigned(bs, i, ss) ==
    /\ bs \in Seq(Bindings) /\ DOMAIN bs = DOMAIN bindings /\ bs[i].sigs = ss
    /\ \A j \in DOMAIN bindings :
          /\ bs[j].keysym = bindings[j].keysym /\ bs[j].codes = bindings[j].codes
          /\ Key!KeysOf(bs, j) = Key!KeysOf(bindings, j)
          /\ j # i => bs[j].sigs = bindings[j].sigs

LEMMA Resigning ==
    ASSUME bindings \in Seq(Bindings), NEW i \in DOMAIN bindings,
           NEW ss \in SUBSET Key!Signals
    PROVE  Resigned([bindings EXCEPT ![i].sigs = ss], i, ss)
<1>. DEFINE d == [bindings[i] EXCEPT !.sigs = ss]
            bs == [bindings EXCEPT ![i] = d]
<1>1. bindings[i] \in Bindings
  OBVIOUS
<1>2. /\ d \in Bindings /\ d.sigs = ss /\ d.codes = bindings[i].codes
      /\ d.mods = bindings[i].mods /\ d.keysym = bindings[i].keysym
  BY <1>1, SignalsChange
<1>. HIDE DEF d
<1>3. /\ bs \in Seq(Bindings) /\ DOMAIN bs = DOMAIN bindings /\ bs[i] = d
      /\ \A j \in DOMAIN bindings : j # i => bs[j] = bindings[j]
  BY <1>2
<1>. HIDE DEF bs
<1>4. \A j \in DOMAIN bindings :
        /\ bs[j].keysym = bindings[j].keysym /\ bs[j].codes = bindings[j].codes
        /\ bs[j].mods = bindings[j].mods /\ (j # i => bs[j].sigs = bindings[j].sigs)
  BY <1>2, <1>3
<1>5. \A j \in DOMAIN bindings : Key!KeysOf(bs, j) = Key!KeysOf(bindings, j)
  BY <1>4 DEF Key!KeysOf
<1>6. Resigned(bs, i, ss)
  BY <1>2, <1>3, <1>4, <1>5 DEF Resigned
<1>. QED
  BY <1>6 DEF bs, d

(* refresh_binding of the i-th binding: it has what it wants or has missed   *)
(* it, another binding that loses a key with it has missed that, and what is *)
(* grabbed belongs to a binding.                                             *)
LEMMA RefreshGood ==
    ASSUME NEW bs \in Seq(Bindings), NEW i \in DOMAIN bs, keysyms \in Keymaps,
           Owned(bs, grabs), \A j \in DOMAIN bs \ {i} : Granted(bs, j, grabs, missed)
    PROVE  LET st == Key!Refresh(Key!With(bs), i, keysyms)
           IN  /\ GoodGrabs(st.bindings, st.grabs, st.missed)
               /\ DOMAIN st.bindings = DOMAIN bs
               /\ st.bindings[i].codes = keysyms[bs[i].keysym]
               /\ \A j \in DOMAIN bs :
                     /\ st.bindings[j].keysym = bs[j].keysym
                     /\ j # i => st.bindings[j] = bs[j]
<1>. DEFINE codes == keysyms[bs[i].keysym]
            b == [bs[i] EXCEPT !.codes = codes]
            nb == [bs EXCEPT ![i] = b]
            new == Key!Keys(codes, bs[i].mods)
            g == (grabs \ Key!KeysOf(bs, i)) \cup (new \ others)
            ms == ((missed \cup Key!Shared(bs, i)) \cup (new \cap others)) \ (new \ others)
            st == Key!Refresh(Key!With(bs), i, keysyms)
<1>1. st.bindings = nb /\ st.grabs = g /\ st.missed = ms
  BY DEF Key!Refresh, Key!With, Key!Ungrab
<1>2. bs[i] \in Bindings
  OBVIOUS
<1>3. b \in Bindings /\ b.codes = codes /\ b.mods = bs[i].mods /\ b.keysym = bs[i].keysym
  BY <1>2, CodesChange
<1>. HIDE DEF b
<1>4. /\ nb \in Seq(Bindings) /\ DOMAIN nb = DOMAIN bs /\ nb[i] = b
      /\ \A j \in DOMAIN bs : j # i => nb[j] = bs[j]
  BY <1>3
<1>. HIDE DEF nb, codes
<1>5. Key!KeysOf(nb, i) = new
  BY <1>3, <1>4 DEF Key!KeysOf
<1>6. \A j \in DOMAIN bs : j # i => Key!KeysOf(nb, j) = Key!KeysOf(bs, j)
  BY <1>4 DEF Key!KeysOf
<1>. HIDE DEF new
<1>7. Owned(nb, g)
  <2>. SUFFICES ASSUME NEW k \in g
                PROVE  \E j \in DOMAIN nb : k \in Key!KeysOf(nb, j)
    BY DEF Owned
  <2>1. CASE k \in new
    BY <1>4, <1>5, <2>1
  <2>2. CASE k \notin new
    <3>1. k \in grabs /\ k \notin Key!KeysOf(bs, i)
      BY <2>2
    <3>2. PICK j \in DOMAIN bs : k \in Key!KeysOf(bs, j)
      BY <3>1 DEF Owned
    <3>3. j # i
      BY <3>1, <3>2
    <3>. QED
      BY <1>4, <1>6, <3>2, <3>3
  <2>. QED
    BY <2>1, <2>2
<1>8. ASSUME NEW j \in DOMAIN nb
      PROVE  Granted(nb, j, g, ms)
  <2>1. CASE j = i
    BY <1>5, <2>1 DEF Granted
  <2>2. CASE j # i
    <3>. SUFFICES ASSUME nb[j].sigs # {}, NEW k \in Key!KeysOf(nb, j)
                  PROVE  k \in g \cup ms
      BY DEF Granted
    <3>1. k \in Key!KeysOf(bs, j) /\ j \in DOMAIN bs \ {i} /\ bs[j].sigs # {}
      BY <1>4, <1>6, <2>2
    <3>2. k \in grabs \cup missed
      BY <3>1 DEF Granted
    <3>3. k \in Key!KeysOf(bs, i) => k \in Key!Shared(bs, i)
      BY <3>1 DEF Key!Shared
    <3>. QED
      BY <3>2, <3>3
  <2>. QED
    BY <2>1, <2>2
<1>. HIDE DEF st, g, ms
<1>9. GoodGrabs(nb, g, ms)
  BY <1>4, <1>7, <1>8 DEF GoodGrabs
<1>10. \A j \in DOMAIN bs : nb[j].keysym = bs[j].keysym
  BY <1>3, <1>4
<1>11. nb[i].codes = keysyms[bs[i].keysym]
  BY <1>3, <1>4 DEF codes
<1>12. /\ GoodGrabs(st.bindings, st.grabs, st.missed)
       /\ DOMAIN st.bindings = DOMAIN bs
       /\ st.bindings[i].codes = keysyms[bs[i].keysym]
       /\ \A j \in DOMAIN bs :
             st.bindings[j].keysym = bs[j].keysym /\ (j # i => st.bindings[j] = bs[j])
  BY <1>1, <1>4, <1>9, <1>10, <1>11
<1>. QED
  BY <1>12 DEF st

(* Nothing is left of the grabs when the extension is collected.             *)
LEMMA NothingLeft ==
    ASSUME NEW bs, NEW g, NEW ms, GoodGrabs(bs, g, ms), NEW h, NEW n, NEW p,
           NEW st, st = [bindings |-> bs, grabs |-> g, missed |-> ms]
    PROVE  LET c == Key!Collected(st, h, n, p)
           IN  /\ GoodGrabs(c.bindings, c.grabs, c.missed)
               /\ c.bindings = bs \/ c.bindings = <<>>
<1>. DEFINE c == Key!Collected(st, h, n, p)
            left == g \ UNION {Key!KeysOf(bs, i) : i \in DOMAIN bs}
<1>1. \/ c.bindings = bs /\ c.grabs = g /\ c.missed = ms
      \/ c.bindings = <<>> /\ c.grabs = left /\ c.missed = {}
  BY DEF Key!Collected
<1>2. left = {}
  BY DEF GoodGrabs, Owned
<1>3. GoodGrabs(<<>>, {}, {})
  BY DEF GoodGrabs, Owned, Granted
<1>. HIDE DEF c, left
<1>4. GoodGrabs(c.bindings, c.grabs, c.missed) /\ (c.bindings = bs \/ c.bindings = <<>>)
  BY <1>1, <1>2, <1>3
<1>. QED
  BY <1>4 DEF c

LEMMA NewBindingKeeps ==
    ASSUME KeyInv, NEW c \in Combos, NEW x \in BOOLEAN, Key!NewBinding(c, x)
    PROVE  KeyInv'
<1>. DEFINE z == [keysym |-> c.keysym, mods |-> c.mods, codes |-> {},
                  intercept |-> x, sigs |-> {}, final |-> FALSE]
            n == Len(bindings) + 1
            bs == Append(bindings, z)
            st == Key!Refresh(Key!With(bs), n, keysyms)
<1>1. /\ bindings \in Seq(Bindings) /\ keysyms \in Keymaps /\ keymap \in Keymaps
      /\ Owned(bindings, grabs) /\ Current(bindings, keysyms)
      /\ \A i \in DOMAIN bindings : Granted(bindings, i, grabs, missed)
  BY DEF KeyInv, GoodGrabs
<1>2. /\ bindings' = st.bindings /\ grabs' = st.grabs /\ missed' = st.missed
      /\ keysyms' = keysyms /\ keymap' = keymap /\ keyPc' = keyPc /\ pos' = pos
      /\ keyPc \in {"idle", "handler"}
  BY DEF Key!NewBinding, Key!Become, Key!NoCodes, Key!handleVars, Key!UserRuns
<1>3. z \in Bindings
  BY DEF Bindings
<1>a. z.codes = {}
  OBVIOUS
<1>. HIDE DEF z
<1>4. /\ DOMAIN bs = 1 .. n /\ DOMAIN bindings = 1 .. n - 1 /\ n \in Nat \ {0}
      /\ bs \in Seq(Bindings) /\ bs[n] = z /\ \A i \in 1 .. n - 1 : bs[i] = bindings[i]
  BY <1>1, <1>3
<1>. HIDE DEF bs, n
<1>5. \A i \in 1 .. n - 1 : Key!KeysOf(bs, i) = Key!KeysOf(bindings, i)
  BY <1>4 DEF Key!KeysOf
<1>6. Owned(bs, grabs)
  BY <1>1, <1>4, <1>5 DEF Owned
<1>7. \A j \in DOMAIN bs \ {n} : Granted(bs, j, grabs, missed)
  BY <1>1, <1>4, <1>5 DEF Granted
<1>8. /\ GoodGrabs(st.bindings, st.grabs, st.missed) /\ DOMAIN st.bindings = DOMAIN bs
      /\ st.bindings[n].codes = keysyms[bs[n].keysym]
      /\ \A j \in DOMAIN bs :
            st.bindings[j].keysym = bs[j].keysym /\ (j # n => st.bindings[j] = bs[j])
  BY <1>1, <1>4, <1>6, <1>7, RefreshGood
<1>. HIDE DEF st
<1>9. Current(bindings, keysyms)'
  BY <1>1, <1>2, <1>4, <1>8 DEF Current
<1>10. GoodGrabs(bindings, grabs, missed)'
  BY <1>2, <1>8
<1>11. (keyPc = "refresh" => pos \in Nat \ {0})'
  BY <1>2
<1>. QED
  BY <1>1, <1>2, <1>9, <1>10, <1>11 DEF KeyInv, Current

LEMMA ListenKeeps ==
    ASSUME KeyInv, NEW i \in DOMAIN bindings, NEW s \in Key!Signals, Key!Listen(i, s)
    PROVE  KeyInv'
<1>. DEFINE ss == bindings[i].sigs \cup {s}
            bs == [bindings EXCEPT ![i].sigs = ss]
            first == bindings[i].sigs = {}
            st == Key!Refresh(Key!With(bs), i, keysyms)
            done == IF first THEN st ELSE Key!With(bs)
<1>1. /\ bindings' = done.bindings /\ grabs' = done.grabs /\ missed' = done.missed
      /\ keysyms' = keysyms /\ keymap' = keymap /\ pos' = pos
      /\ keyPc' \in {keyPc, "crashed"} /\ keyPc \in {"idle", "handler"}
  BY DEF Key!Listen, Key!Become, Key!UserRuns
<1>2. /\ bindings \in Seq(Bindings) /\ keysyms \in Keymaps /\ keymap \in Keymaps
      /\ Owned(bindings, grabs) /\ Current(bindings, keysyms)
      /\ \A j \in DOMAIN bindings : Granted(bindings, j, grabs, missed)
  BY DEF KeyInv, GoodGrabs
<1>3. Resigned(bs, i, ss)
  <2>1. ss \in SUBSET Key!Signals
    <3>1. bindings[i] \in Bindings
      BY <1>2
    <3>. QED
      BY <3>1 DEF Bindings
  <2>. QED
    BY <1>2, <2>1, Resigning
<1>. HIDE DEF ss, bs
<1>4. Owned(bs, grabs)
  BY <1>2, <1>3 DEF Owned, Resigned
<1>5. \A j \in DOMAIN bs \ {i} : Granted(bs, j, grabs, missed)
  BY <1>2, <1>3 DEF Granted, Resigned
<1>6. /\ GoodGrabs(st.bindings, st.grabs, st.missed) /\ DOMAIN st.bindings = DOMAIN bs
      /\ st.bindings[i].codes = keysyms[bs[i].keysym]
      /\ \A j \in DOMAIN bs :
            st.bindings[j].keysym = bs[j].keysym /\ (j # i => st.bindings[j] = bs[j])
  BY <1>2, <1>3, <1>4, <1>5, RefreshGood DEF Resigned
<1>. HIDE DEF st
<1>7. GoodGrabs(bindings, grabs, missed)' /\ Current(bindings, keysyms)'
  <2>1. CASE first
    <3>1. bindings' = st.bindings /\ grabs' = st.grabs /\ missed' = st.missed
      BY <1>1, <2>1
    <3>2. Current(bindings, keysyms)'
      BY <1>1, <1>2, <1>3, <1>6, <3>1 DEF Current, Resigned
    <3>. QED
      BY <1>6, <3>1, <3>2
  <2>2. CASE ~first
    <3>1. bindings' = bs /\ grabs' = grabs /\ missed' = missed
      BY <1>1, <2>2 DEF Key!With
    <3>2. Granted(bs, i, grabs, missed)
      BY <1>2, <1>3, <2>2 DEF Granted, Resigned
    <3>3. GoodGrabs(bs, grabs, missed)
      BY <1>3, <1>4, <1>5, <3>2 DEF GoodGrabs, Resigned
    <3>4. Current(bindings, keysyms)'
      BY <1>1, <1>2, <1>3, <3>1 DEF Current, Resigned
    <3>. QED
      BY <3>1, <3>3, <3>4
  <2>. QED
    BY <2>1, <2>2
<1>8. (keyPc = "refresh" => pos \in Nat \ {0})'
  BY <1>1
<1>. QED
  BY <1>1, <1>2, <1>7, <1>8 DEF KeyInv

(* The last listener of a binding ungrabs its keys; another binding that has *)
(* them too has missed them.                                                 *)
LEMMA StopKeeps ==
    ASSUME KeyInv, NEW i \in DOMAIN bindings, NEW s \in Key!Signals, Key!Stop(i, s)
    PROVE  KeyInv'
<1>. DEFINE ss == bindings[i].sigs \ {s}
            bs == [bindings EXCEPT ![i].sigs = ss]
            last == bindings[i].sigs = {s}
            g == IF last THEN grabs \ Key!KeysOf(bs, i) ELSE grabs
            ms == IF last THEN missed \cup Key!Shared(bs, i) ELSE missed
            n == IF last THEN keySignals - 1 ELSE keySignals
            st == [bindings |-> bs, grabs |-> g, missed |-> ms]
            c == Key!Collected(st, keyHeld, n, keyPc)
<1>1. /\ bindings' = c.bindings /\ grabs' = c.grabs /\ missed' = c.missed
      /\ keysyms' = keysyms /\ keymap' = keymap /\ pos' = pos /\ keyPc' = keyPc
      /\ keyPc \in {"idle", "handler"}
  <2>1. (IF last THEN Key!Ungrab(Key!With(bs), i) ELSE Key!With(bs)) = st
    BY DEF Key!Ungrab, Key!With
  <2>. QED
    BY <2>1 DEF Key!Stop, Key!Become, Key!LastSignal, Key!UserRuns, Key!handleVars
<1>2. /\ bindings \in Seq(Bindings) /\ keysyms \in Keymaps /\ keymap \in Keymaps
      /\ Owned(bindings, grabs) /\ Current(bindings, keysyms)
      /\ \A j \in DOMAIN bindings : Granted(bindings, j, grabs, missed)
  BY DEF KeyInv, GoodGrabs
<1>3. Resigned(bs, i, ss)
  <2>1. ss \in SUBSET Key!Signals
    <3>1. bindings[i] \in Bindings
      BY <1>2
    <3>. QED
      BY <3>1 DEF Bindings
  <2>. QED
    BY <1>2, <2>1, Resigning
<1>4. last => ss = {}
  OBVIOUS
<1>5. ss # {} => bindings[i].sigs # {}
  OBVIOUS
<1>. HIDE DEF ss, bs, last, c
<1>6. Owned(bs, g)
  <2>. SUFFICES ASSUME NEW k \in g
                PROVE  \E j \in DOMAIN bs : k \in Key!KeysOf(bs, j)
    BY DEF Owned
  <2>. QED
    BY <1>2, <1>3 DEF Owned, Resigned
<1>7. ASSUME NEW j \in DOMAIN bs
      PROVE  Granted(bs, j, g, ms)
  <2>1. CASE j = i
    BY <1>2, <1>3, <1>4, <1>5, <2>1 DEF Granted, Resigned
  <2>2. CASE j # i
    <3>. SUFFICES ASSUME bs[j].sigs # {}, NEW k \in Key!KeysOf(bs, j)
                  PROVE  k \in g \cup ms
      BY DEF Granted
    <3>1. k \in grabs \cup missed
      BY <1>2, <1>3, <2>2 DEF Granted, Resigned
    <3>2. k \in Key!KeysOf(bs, i) => k \in Key!Shared(bs, i)
      BY <2>2 DEF Key!Shared
    <3>. QED
      BY <3>1, <3>2
  <2>. QED
    BY <2>1, <2>2
<1>8. GoodGrabs(bs, g, ms)
  BY <1>3, <1>6, <1>7 DEF GoodGrabs, Resigned
<1>. HIDE DEF g, ms, n
<1>9. GoodGrabs(c.bindings, c.grabs, c.missed) /\ (c.bindings = bs \/ c.bindings = <<>>)
  BY <1>8, NothingLeft DEF c
<1>10. GoodGrabs(bindings, grabs, missed)'
  BY <1>1, <1>9
<1>11. Current(bindings, keysyms)'
  <2>1. CASE c.bindings = bs
    BY <1>1, <1>2, <1>3, <2>1 DEF Current, Resigned
  <2>2. CASE c.bindings = <<>>
    BY <1>1, <2>2 DEF Current
  <2>. QED
    BY <1>9, <2>1, <2>2
<1>12. (keyPc = "refresh" => pos \in Nat \ {0})'
  BY <1>1
<1>. QED
  BY <1>1, <1>2, <1>10, <1>11, <1>12 DEF KeyInv

(* A change of the keymap makes every binding stale; each is refreshed in    *)
(* its turn, and finalized when its keysym is on no key.                     *)
LEMMA RefreshOneKeeps ==
    ASSUME KeyInv, Key!RefreshOne
    PROVE  KeyInv'
<1>1. /\ bindings \in Seq(Bindings) /\ keysyms \in Keymaps /\ keymap \in Keymaps
      /\ Owned(bindings, grabs) /\ Current(bindings, keysyms)
      /\ \A j \in DOMAIN bindings : Granted(bindings, j, grabs, missed)
  BY DEF KeyInv, GoodGrabs
<1>2. /\ keyPc = "refresh" /\ pos \in Nat \ {0} /\ pos \in DOMAIN bindings
      /\ keysyms' = keysyms /\ keymap' = keymap
  BY <1>1 DEF KeyInv, Key!RefreshOne
<1>3. CASE bindings[pos].final
  <2>1. /\ keyPc' = "crashed" /\ bindings' = bindings /\ grabs' = grabs /\ missed' = missed
    BY <1>3 DEF Key!RefreshOne, Key!grabVars
  <2>. QED
    BY <1>2, <2>1 DEF KeyInv, Current
<1>4. CASE ~bindings[pos].final
  <2>. DEFINE st == Key!Refresh(Key!With(bindings), pos, keysyms)
              d == [st.bindings[pos] EXCEPT !.sigs = {}, !.final = TRUE]
              fin == [st.bindings EXCEPT ![pos] = d]
              nb == IF st.bindings[pos].codes = {} THEN fin ELSE st.bindings
  <2>1. /\ GoodGrabs(st.bindings, st.grabs, st.missed)
        /\ DOMAIN st.bindings = DOMAIN bindings
        /\ st.bindings[pos].codes = keysyms[bindings[pos].keysym]
        /\ \A j \in DOMAIN bindings :
              /\ st.bindings[j].keysym = bindings[j].keysym
              /\ j # pos => st.bindings[j] = bindings[j]
    BY <1>1, <1>2, RefreshGood
  <2>2. /\ keyPc' = "refresh" /\ pos' = pos + 1 /\ bindings' = nb
        /\ grabs' = st.grabs /\ missed' = st.missed
    <3>1. /\ Key!Finalized(st, pos).grabs = st.grabs /\ Key!Finalized(st, pos).missed = st.missed
          /\ Key!Finalized(st, pos).bindings = fin
      BY DEF Key!Finalized, Key!Refresh
    <3>2. /\ keyPc' = keyPc /\ pos' = pos + 1
          /\ Key!Become(IF st.bindings[pos].codes = {} THEN Key!Finalized(st, pos) ELSE st)
      BY <1>4 DEF Key!RefreshOne, Key!NoCodes
    <3>. HIDE DEF st, fin
    <3>. QED
      BY <1>2, <3>1, <3>2 DEF Key!Become
  <2>. HIDE DEF st
  <2>3. st.bindings \in Seq(Bindings) /\ st.bindings[pos] \in Bindings
    BY <1>2, <2>1 DEF GoodGrabs
  <2>a. d = [st.bindings[pos] EXCEPT !.sigs = {}, !.final = TRUE]
    OBVIOUS
  <2>. HIDE DEF d
  <2>4. /\ d \in Bindings /\ d.sigs = {} /\ d.codes = st.bindings[pos].codes
        /\ d.mods = st.bindings[pos].mods /\ d.keysym = st.bindings[pos].keysym
    BY <2>3, <2>a, FinalChange, Zenon
  <2>5. /\ fin \in Seq(Bindings) /\ DOMAIN fin = DOMAIN bindings /\ fin[pos] = d
        /\ \A j \in DOMAIN bindings : j # pos => fin[j] = st.bindings[j]
    BY <1>2, <2>1, <2>3, <2>4
  <2>. HIDE DEF fin
  <2>6. \A j \in DOMAIN bindings : Key!KeysOf(fin, j) = Key!KeysOf(st.bindings, j)
    BY <2>4, <2>5 DEF Key!KeysOf
  <2>7. GoodGrabs(fin, st.grabs, st.missed)
    <3>1. Owned(fin, st.grabs)
      BY <2>1, <2>5, <2>6 DEF GoodGrabs, Owned
    <3>2. \A j \in DOMAIN fin : Granted(fin, j, st.grabs, st.missed)
      BY <2>1, <2>4, <2>5, <2>6 DEF GoodGrabs, Granted
    <3>. QED
      BY <2>5, <3>1, <3>2 DEF GoodGrabs
  <2>8. /\ GoodGrabs(nb, st.grabs, st.missed) /\ DOMAIN nb = DOMAIN bindings
        /\ nb[pos].codes = keysyms[nb[pos].keysym]
        /\ \A j \in DOMAIN bindings : j # pos => nb[j] = bindings[j]
    BY <1>2, <2>1, <2>4, <2>5, <2>7
  <2>. HIDE DEF nb
  <2>9. \A j \in DOMAIN bindings : ~(j >= pos + 1) => j = pos \/ ~(j >= pos)
    BY <1>1, <1>2
  <2>10. Current(bindings, keysyms)'
    BY <1>1, <1>2, <2>2, <2>8, <2>9 DEF Current
  <2>11. GoodGrabs(bindings, grabs, missed)'
    BY <2>2, <2>8
  <2>. QED
    BY <1>1, <1>2, <2>2, <2>10, <2>11 DEF KeyInv
<1>. QED
  BY <1>3, <1>4

LEMMA ReadMappingKeeps ==
    ASSUME KeyInv, Key!ReadMapping
    PROVE  KeyInv'
<1>1. /\ bindings' = bindings /\ grabs' = grabs /\ missed' = missed /\ keysyms' = keymap
      /\ keymap' = keymap /\ keyPc' = "refresh" /\ pos' = 1
  BY DEF Key!ReadMapping, Key!grabVars
<1>2. \A i \in DOMAIN bindings : i >= 1
  BY DEF KeyInv, GoodGrabs
<1>. QED
  BY <1>1, <1>2 DEF KeyInv, Current

(* The extension may be collected when handle_key returns and when user code *)
(* lets it go.                                                               *)
LEMMA CollectionKeeps ==
    ASSUME KeyInv, Key!RefreshDone \/ Key!Allow \/ Key!Release
    PROVE  KeyInv'
<1>1. PICK h, p : LET c == Key!Collected(Key!With(bindings), h, keySignals, p) IN
        bindings' = c.bindings /\ grabs' = c.grabs /\ missed' = c.missed
  BY DEF Key!RefreshDone, Key!Allow, Key!Release, Key!Become
<1>2. /\ keysyms' = keysyms /\ keymap' = keymap /\ keyPc' \in {"idle", "handler"}
      /\ \A i \in DOMAIN bindings : ~(keyPc = "crashed" \/ (keyPc = "refresh" /\ i >= pos))
  <2>1. bindings \in Seq(Bindings) /\ (keyPc = "refresh" => pos \in Nat)
    BY DEF KeyInv, GoodGrabs
  <2>2. CASE Key!RefreshDone
    BY <2>1, <2>2 DEF Key!RefreshDone
  <2>3. CASE Key!Allow \/ Key!Release
    BY <2>3 DEF Key!Allow, Key!Release, Key!UserRuns, Key!handleVars
  <2>. QED
    BY <2>2, <2>3
<1>. DEFINE c == Key!Collected(Key!With(bindings), h, keySignals, p)
<1>3. /\ GoodGrabs(c.bindings, c.grabs, c.missed)
      /\ c.bindings = bindings \/ c.bindings = <<>>
  BY NothingLeft DEF KeyInv, Key!With
<1>4. bindings' = c.bindings /\ grabs' = c.grabs /\ missed' = c.missed
  BY <1>1
<1>. HIDE DEF c
<1>5. Current(bindings, keysyms)'
  <2>1. CASE c.bindings = bindings
    BY <1>2, <1>4, <2>1 DEF KeyInv, Current
  <2>2. CASE c.bindings = <<>>
    BY <1>4, <2>2 DEF Current
  <2>. QED
    BY <1>3, <2>1, <2>2
<1>. QED
  BY <1>2, <1>3, <1>4, <1>5 DEF KeyInv

(* The other steps change neither list nor grabs.                            *)
LEMMA RestKeeps ==
    ASSUME KeyInv,
           \/ Key!GetKey \/ Key!ReadUnheard \/ Key!ReadKey \/ Key!Scan \/ Key!HandlerDone
           \/ (\E k \in grabs : Key!Press(k[1], k[2]))
           \/ (\E m \in Keymaps : Key!ChangeKeymap(m))
           \/ (\E k \in Contested : Key!OtherGrabs(k) \/ Key!OtherUngrabs(k))
           \/ UNCHANGED Key!vars
    PROVE  KeyInv'
<1>1. /\ bindings' = bindings /\ grabs' = grabs /\ missed' = missed
      /\ keysyms' = keysyms \/ (keysyms' = keymap /\ bindings = <<>>)
      /\ keymap' \in Keymaps
      /\ \/ keyPc' = keyPc /\ pos' = pos
         \/ keyPc \notin {"crashed", "refresh"} /\ keyPc' # "refresh"
  <2>1. keymap \in Keymaps
    BY DEF KeyInv
  <2>3. CASE Key!GetKey
    BY <2>1, <2>3 DEF Key!GetKey, Key!serverVars, Key!grabVars, Key!handleVars
  <2>4. CASE Key!ReadUnheard \/ Key!ReadKey
    BY <2>1, <2>4 DEF Key!ReadUnheard, Key!ReadKey, Key!keyVars, Key!grabVars, Key!handleVars
  <2>5. CASE Key!Scan \/ Key!HandlerDone
    BY <2>1, <2>5 DEF Key!Scan, Key!HandlerDone, Key!keyVars, Key!serverVars, Key!grabVars
  <2>6. CASE (\E k \in grabs : Key!Press(k[1], k[2]))
    BY <2>1, <2>6 DEF Key!Press, Key!ServerStep, Key!keyVars, Key!grabVars, Key!handleVars
  <2>7. CASE (\E m \in Keymaps : Key!ChangeKeymap(m))
    BY <2>7 DEF Key!ChangeKeymap, Key!ServerStep, Key!keyVars, Key!grabVars, Key!handleVars
  <2>8. CASE (\E k \in Contested : Key!OtherGrabs(k) \/ Key!OtherUngrabs(k))
    BY <2>1, <2>8 DEF Key!OtherGrabs, Key!OtherUngrabs, Key!keyVars, Key!grabVars,
                      Key!handleVars
  <2>9. CASE UNCHANGED Key!vars
    BY <2>1, <2>9 DEF Key!vars, Key!keyVars, Key!serverVars, Key!grabVars, Key!handleVars
  <2>. QED
    BY <2>3, <2>4, <2>5, <2>6, <2>7, <2>8, <2>9
<1>2. GoodGrabs(bindings, grabs, missed)'
  BY <1>1 DEF KeyInv
<1>3. Current(bindings, keysyms)'
  BY <1>1 DEF KeyInv, Current
<1>. QED
  BY <1>1, <1>2, <1>3 DEF KeyInv

LEMMA KeyStep == KeyInv /\ [Key!Next]_Key!vars => KeyInv'
<1>. SUFFICES ASSUME KeyInv, [Key!Next]_Key!vars
              PROVE  KeyInv'
  OBVIOUS
<1>1. CASE \E c \in Combos, x \in BOOLEAN : Key!NewBinding(c, x)
  BY <1>1, NewBindingKeeps
<1>2. CASE \E i \in DOMAIN bindings : \E s \in Key!Signals : Key!Listen(i, s)
  BY <1>2, ListenKeeps
<1>3. CASE \E i \in DOMAIN bindings : \E s \in Key!Signals : Key!Stop(i, s)
  BY <1>3, StopKeeps
<1>4. CASE Key!ReadMapping
  BY <1>4, ReadMappingKeeps
<1>5. CASE Key!RefreshOne
  BY <1>5, RefreshOneKeeps
<1>6. CASE Key!RefreshDone \/ Key!Allow \/ Key!Release
  BY <1>6, CollectionKeeps
<1>7. CASE \/ Key!GetKey \/ Key!ReadUnheard \/ Key!ReadKey \/ Key!Scan \/ Key!HandlerDone
           \/ (\E k \in grabs : Key!Press(k[1], k[2]))
           \/ (\E m \in Keymaps : Key!ChangeKeymap(m))
           \/ (\E k \in Contested : Key!OtherGrabs(k) \/ Key!OtherUngrabs(k))
           \/ UNCHANGED Key!vars
  BY <1>7, RestKeeps
<1>. QED
  BY <1>1, <1>2, <1>3, <1>4, <1>5, <1>6, <1>7 DEF Key!Next, Key!UserNext, Key!HandleKey

(* No key is grabbed that no binding is on, and between two events every     *)
(* binding with a listener has the keys its keysym is on in the keymap the   *)
(* client knows, but for those the server refused and those that an ungrab   *)
(* of another binding took away (key.c: ungrab, refresh_binding), whatever   *)
(* the keymaps exchange and whatever is bound twice.                         *)
THEOREM GrabsAreThoseOfTheKeymap == Key!Spec => []Key!GrabsFollowKeymap
<1>1. KeyInv => Key!GrabsFollowKeymap
  <2>. SUFFICES ASSUME KeyInv PROVE Key!GrabsFollowKeymap
    OBVIOUS
  <2>1. grabs \subseteq UNION {Key!KeysOf(bindings, i) : i \in DOMAIN bindings}
    BY DEF KeyInv, GoodGrabs, Owned
  <2>2. ASSUME keyPc \notin {"refresh", "crashed"}, NEW i \in Key!Listened
        PROVE  Key!Keys(keysyms[bindings[i].keysym], bindings[i].mods) \subseteq grabs \cup missed
    <3>1. i \in DOMAIN bindings /\ bindings[i].sigs # {}
      BY DEF Key!Listened
    <3>2. Key!KeysOf(bindings, i) \subseteq grabs \cup missed
      BY <3>1 DEF KeyInv, GoodGrabs, Granted
    <3>3. bindings[i].codes = keysyms[bindings[i].keysym]
      BY <2>2, <3>1 DEF KeyInv, Current
    <3>. QED
      BY <3>2, <3>3 DEF Key!KeysOf
  <2>. QED
    BY <2>1, <2>2 DEF Key!GrabsFollowKeymap
<1>. QED
  BY <1>1, KeyInitial, KeyStep, PTL DEF Key!Spec
=============================================================================
