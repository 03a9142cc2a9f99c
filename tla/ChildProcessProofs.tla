------------------------- MODULE ChildProcessProofs -------------------------
(***************************************************************************)
(* Proofs about ChildProcess, for buffers and outputs of any length and    *)
(* handlers of any number of operations.                                   *)
(***************************************************************************)
EXTENDS ChildProcess, WellFoundedInduction, TLAPS

(* What is asked of user code: it stops listening for "exit" before it calls *)
(* di:exit(), and listens to nothing after.                                  *)
StopsBeforeExit == ~QuitListening

-----------------------------------------------------------------------------
(* The inductive invariant: listeners and callbacks.                         *)

(* While the object lives, a stream has its buffer and fdevent, and "exit"   *)
(* its watcher and root, exactly if it is listened to; di:exit() has taken   *)
(* the roots and fdevents.  Nothing is left of an object that does not live. *)
Serves(obj, h, r, w, sig, bufs, cw, c, e) ==
    /\ obj = "live" =>
        /\ bufs = sig \cap Stream
        /\ "exit" \in sig <=> cw # "off"
        /\ IF e THEN w = {} /\ ~r /\ "exit" \notin sig
                ELSE w = bufs /\ (r <=> "exit" \in sig)
    /\ obj # "live" =>
        sig = {} /\ bufs = {} /\ w = {} /\ ~r /\ ~h /\ cw = "off" /\ c = NoCallback

Served ==
    /\ ~aborted
    /\ Serves(object, held, root, watching, signals, buffers, childw, cb, exited)

(* The steps of output_cb and of sigchld_handler: no step comes twice, the   *)
(* rest of a stream after it has been drained, and "exit" after every drain. *)
Ordered(todo) ==
    /\ \A i, j \in DOMAIN todo : todo[i] = todo[j] => i = j
    /\ \A i \in DOMAIN todo : todo[i][1] \in {"rest", "exit"} => Last(todo)[1] = "end"
    /\ \A i, j \in DOMAIN todo : i < j /\ todo[i][1] = "exit" => todo[j][1] # "drain"
    /\ \A s \in Stream, i \in DOMAIN todo :
        todo[i] = <<"drain", s>> /\ Last(todo)[1] = "end" =>
            \E j \in DOMAIN todo : i < j /\ todo[j] = <<"rest", s>>

(* A chunk is the end of what has been read of the stream that is drained,   *)
(* and the stream has a buffer unless a handler is running.                  *)
ChunkRead(c, bufs, r) ==
    c.chunk # <<>> =>
        /\ c.todo # <<>> /\ Head(c.todo)[1] = "drain"
        /\ c.chunk[2] = r[Head(c.todo)[2]]
        /\ 1 <= c.chunk[1] /\ c.chunk[1] <= c.chunk[2] + 1
        /\ ~c.calling => Head(c.todo)[2] \in bufs

(* Handlers are called with a line by the steps that emit one.               *)
CallsHandlers(c) ==
    c.calling =>
        /\ c.todo # <<>> /\ Head(c.todo)[1] # "end"
        /\ Head(c.todo)[1] \in {"drain", "rest"} <=> c.line # <<>>
        /\ Head(c.todo)[1] = "drain" => c.chunk # <<>>

Callbacks == [todo : Seq(Step), chunk : {<<>>} \cup Piece, line : Seq(Piece),
              calling : BOOLEAN, left : 0 .. MaxOps]

Shaped(c, bufs, r) ==
    /\ c \in Callbacks
    /\ c = NoCallback <=> c.todo = <<>>
    /\ Ordered(c.todo)
    /\ ChunkRead(c, bufs, r)
    /\ CallsHandlers(c)

CallbackShaped == Shaped(cb, buffers, rd)

-----------------------------------------------------------------------------
(* The inductive invariant: lines.                                           *)

(* line is a run of pieces of the text o that starts after a, ends at b and  *)
(* has no newline.                                                           *)
Spans(o, line, a, b) ==
    /\ a \in Nat /\ b \in Nat /\ b <= Len(o)
    /\ line = <<>> => a = b
    /\ line # <<>> => line[1][1] = a + 1 /\ line[Len(line)][2] = b
    /\ \A i \in 1 .. Len(line) - 1 : line[i + 1][1] = line[i][2] + 1
    /\ \A i \in 1 .. Len(line) :
        /\ 1 <= line[i][1] /\ line[i][1] <= line[i][2] + 1 /\ line[i][2] <= b
        /\ \A p \in line[i][1] .. line[i][2] : o[p] # "newline"

CallingFor(c, s) == c.calling /\ Head(c.todo)[2] = s
SigchldRuns(c) == c.todo # <<>> /\ Last(c.todo)[1] = "end"
Pending(c, step) == \E i \in DOMAIN c.todo : c.todo[i] = step

(* How far the lines of s have been taken out of what has been read.         *)
Position(s, c, r) == IF c.chunk # <<>> /\ Head(c.todo)[2] = s THEN c.chunk[1] - 1 ELSE r

(* The buffer of a stream spans what has not been delivered yet, until       *)
(* sigchld_handler has emitted the rest.                                     *)
BufferSpans(s, c, bufs, o, txt, a, r) ==
    s \in bufs /\ ~CallingFor(c, s) /\ (SigchldRuns(c) => Pending(c, <<"rest", s>>)) =>
        Spans(o, txt, a, Position(s, c, r))

(* And so does the line handlers are called with, up to its newline or to    *)
(* all that has been read.                                                   *)
LineSpans(s, c, o, txt, a, r) ==
    CallingFor(c, s) =>
        /\ txt = <<>>
        /\ Head(c.todo)[1] = "drain" =>
            /\ c.chunk[1] >= 2
            /\ Spans(o, c.line, a, c.chunk[1] - 2)
            /\ o[c.chunk[1] - 1] = "newline"
        /\ Head(c.todo)[1] = "rest" => Spans(o, c.line, a, r)

KeepsLines(s, c, bufs, o, txt, a, r) ==
    BufferSpans(s, c, bufs, o, txt, a, r) /\ LineSpans(s, c, o, txt, a, r)

LinesSpan ==
    \A s \in Stream : KeepsLines(s, cb, buffers, out[s], pieces[s], from[s], rd[s])

-----------------------------------------------------------------------------
(* The inductive invariant: the end of the process.                          *)

ReapedFirst ==
    /\ childw = "pending" \/ SigchldRuns(cb) => proc = "reaped"
    /\ \A s \in Stream : atDeath[s] <= Len(out[s])

NoNewline(o, a, b) == \A p \in a + 1 .. b : o[p] # "newline"

(* A stream whose listeners have been stopped has been read to its end.      *)
AtEnd(s, op, o, a, r) == s \notin op /\ r = Len(o) /\ NoNewline(o, a, Len(o))

EndReached ==
    /\ object = "none" => heard = {}
    /\ object = "live" => \A s \in (heard \cap Stream) \ buffers :
        AtEnd(s, open, out[s], from[s], rd[s])

(* What sigchld_handler has drained has no line left in it.                  *)
NoLineLeft(o, a, r, d) == r >= d /\ NoNewline(o, a, d)

Drained ==
    \A s \in heard \cap Stream : SigchldRuns(cb) /\ ~Pending(cb, <<"drain", s>>) =>
        NoLineLeft(out[s], from[s], rd[s], atDeath[s])

Inv ==
    /\ TypeOK
    /\ Served
    /\ CallbackShaped
    /\ LinesSpan
    /\ ReapedFirst
    /\ EndReached
    /\ Drained

-----------------------------------------------------------------------------
(* The steps of a callback.                                                  *)

LEMMA MinFacts ==
    ASSUME NEW T \in SUBSET Nat, T # {}
    PROVE  Min(T) \in T /\ \A y \in T : Min(T) <= y
<1>1. PICK x \in T : \A y \in T : ~(<<y, x>> \in OpToRel(<, Nat))
  BY NatLessThanWellFounded, WFMin
<1>2. \A y \in T : ~(y < x)
  BY <1>1 DEF OpToRel
<1>3. \A y \in T : x <= y
  BY <1>2
<1>. QED
  BY <1>3 DEF Min

LEMMA StepFacts ==
    ASSUME NEW step \in Step
    PROVE  /\ step = <<step[1], step[2]>>
           /\ step[1] \in {"drain", "rest", "exit", "end"}
           /\ step[1] \in {"drain", "rest"} => step[2] \in Stream
           /\ step[1] \in {"exit", "end"} => step[2] = "exit"
  BY DEF Step

LEMMA TailFacts ==
    ASSUME NEW todo \in Seq(Step), todo # <<>>, Ordered(todo)
    PROVE  /\ Tail(todo) \in Seq(Step) /\ Ordered(Tail(todo))
           /\ Head(todo) \in Step
           /\ Tail(todo) # <<>> => Last(Tail(todo)) = Last(todo)
           /\ Tail(todo) = <<>> => Last(todo) = Head(todo)
           /\ \A x : (\E i \in DOMAIN todo : todo[i] = x) <=>
                x = Head(todo) \/ \E i \in DOMAIN Tail(todo) : Tail(todo)[i] = x
           /\ ~\E i \in DOMAIN Tail(todo) : Tail(todo)[i] = Head(todo)
<1>. DEFINE t == Tail(todo)
            n == Len(todo)
<1>1. /\ n \in Nat /\ n >= 1 /\ DOMAIN todo = 1 .. n
      /\ t \in Seq(Step) /\ Len(t) = n - 1 /\ DOMAIN t = 1 .. n - 1
      /\ \A i \in 1 .. n - 1 : t[i] = todo[i + 1]
      /\ Head(todo) = todo[1] /\ Head(todo) \in Step
  OBVIOUS
<1>2. t # <<>> => Len(t) >= 1
  OBVIOUS
<1>. HIDE DEF t, n
<1>3. Last(todo) = todo[n]
  BY DEF Last, n
<1>4. t # <<>> => Last(t) = Last(todo)
  <2>1. t # <<>> => Last(t) = t[n - 1] /\ n - 1 \in 1 .. n - 1
    BY <1>1, <1>2 DEF Last
  <2>. QED
    BY <1>1, <1>3, <2>1
<1>5. t = <<>> => Last(todo) = Head(todo)
  <2>1. t = <<>> => n = 1
    BY <1>1
  <2>. QED
    BY <1>1, <1>3, <2>1
<1>6. \A i \in 1 .. n - 1 : i + 1 \in 1 .. n /\ t[i] = todo[i + 1] /\ t # <<>>
  BY <1>1
<1>7. \A i \in 1 .. n : i = 1 \/ (i - 1 \in 1 .. n - 1 /\ t[i - 1] = todo[i])
  BY <1>1
<1>8. ASSUME NEW x
      PROVE  (\E i \in DOMAIN todo : todo[i] = x) <=>
                x = Head(todo) \/ \E i \in DOMAIN t : t[i] = x
  <2>1. 1 \in DOMAIN todo
    BY <1>1
  <2>2. ASSUME NEW i \in DOMAIN todo, todo[i] = x
        PROVE  x = Head(todo) \/ \E k \in DOMAIN t : t[k] = x
    <3>1. i = 1 \/ (i - 1 \in DOMAIN t /\ t[i - 1] = todo[i])
      BY <1>1, <1>7
    <3>. QED
      BY <1>1, <2>2, <3>1
  <2>3. ASSUME NEW i \in DOMAIN t, t[i] = x
        PROVE  \E k \in DOMAIN todo : todo[k] = x
    <3>1. i + 1 \in DOMAIN todo /\ t[i] = todo[i + 1]
      BY <1>1, <1>6
    <3>. QED
      BY <2>3, <3>1
  <2>. QED
    BY <1>1, <2>1, <2>2, <2>3
<1>9. ~\E i \in DOMAIN t : t[i] = Head(todo)
  <2>1. \A i \in DOMAIN t : i + 1 \in DOMAIN todo /\ 1 \in DOMAIN todo /\ i + 1 # 1
    BY <1>1
  <2>. QED
    BY <1>1, <1>6, <2>1 DEF Ordered
<1>10. Ordered(t)
  <2>1. \A i, j \in DOMAIN t : t[i] = t[j] => i = j
    <3>1. \A i, j \in DOMAIN t : todo[i + 1] = todo[j + 1] => i + 1 = j + 1
      BY <1>1, <1>6 DEF Ordered
    <3>. QED
      BY <1>1, <3>1
  <2>2. \A i \in DOMAIN t : t[i][1] \in {"rest", "exit"} => Last(t)[1] = "end"
    BY <1>1, <1>4, <1>6 DEF Ordered
  <2>3. \A i, j \in DOMAIN t : i < j /\ t[i][1] = "exit" => t[j][1] # "drain"
    <3>. SUFFICES ASSUME NEW i \in DOMAIN t, NEW j \in DOMAIN t, i < j, t[i][1] = "exit"
                  PROVE  t[j][1] # "drain"
      OBVIOUS
    <3>1. /\ i + 1 \in DOMAIN todo /\ j + 1 \in DOMAIN todo /\ i + 1 < j + 1
          /\ t[i] = todo[i + 1] /\ t[j] = todo[j + 1]
      BY <1>1, <1>6
    <3>. QED
      BY <3>1 DEF Ordered
  <2>4. ASSUME NEW s \in Stream, NEW i \in DOMAIN t, t[i] = <<"drain", s>>, Last(t)[1] = "end"
        PROVE  \E j \in DOMAIN t : i < j /\ t[j] = <<"rest", s>>
    <3>1. i + 1 \in DOMAIN todo /\ todo[i + 1] = <<"drain", s>> /\ Last(todo)[1] = "end"
      BY <1>1, <1>4, <1>6, <2>4
    <3>2. PICK j \in DOMAIN todo : i + 1 < j /\ todo[j] = <<"rest", s>>
      BY <3>1 DEF Ordered
    <3>3. j - 1 \in DOMAIN t /\ i < j - 1 /\ t[j - 1] = todo[j]
      BY <1>1, <1>7, <3>2
    <3>. QED
      BY <3>2, <3>3
  <2>. QED
    BY <2>1, <2>2, <2>3, <2>4 DEF Ordered
<1>. QED
  BY <1>1, <1>4, <1>5, <1>8, <1>9, <1>10 DEF t

LEMMA NoCallbackFacts ==
    /\ NoCallback \in Callbacks
    /\ NoCallback.todo = <<>> /\ NoCallback.chunk = <<>> /\ ~NoCallback.calling
<1>1. <<>> \in Seq(Step) /\ <<>> \in Seq(Piece)
  OBVIOUS
<1>2. 0 \in 0 .. MaxOps
  BY ChildAssumption
<1>. QED
  BY <1>1, <1>2 DEF NoCallback, Callbacks

(* A callback that has just begun or ended a step.                           *)
LEMMA FreshStep ==
    ASSUME NEW todo \in Seq(Step), Ordered(todo),
           NEW c, c = [NoCallback EXCEPT !.todo = todo]
    PROVE  /\ c.todo = todo /\ c.chunk = <<>> /\ ~c.calling
           /\ \A bufs, r : Shaped(c, bufs, r)
<1>1. c \in Callbacks /\ c.todo = todo /\ c.chunk = <<>> /\ ~c.calling
  BY NoCallbackFacts DEF NoCallback, Callbacks
<1>2. c = NoCallback <=> todo = <<>>
  BY <1>1, NoCallbackFacts DEF NoCallback
<1>3. \A bufs, r : ChunkRead(c, bufs, r)
  BY <1>1 DEF ChunkRead
<1>4. CallsHandlers(c)
  BY <1>1 DEF CallsHandlers
<1>. QED
  BY <1>1, <1>2, <1>3, <1>4 DEF Shaped

LEMMA StepDoneFacts ==
    ASSUME CallbackShaped, cb.todo # <<>>
    PROVE  /\ StepDone.todo = Tail(cb.todo) /\ StepDone.chunk = <<>> /\ ~StepDone.calling
           /\ \A bufs, r : Shaped(StepDone, bufs, r)
<1>1. cb.todo \in Seq(Step) /\ Ordered(cb.todo)
  BY DEF CallbackShaped, Shaped, Callbacks
<1>2. Tail(cb.todo) \in Seq(Step) /\ Ordered(Tail(cb.todo))
  BY <1>1, TailFacts
<1>3. StepDone = [NoCallback EXCEPT !.todo = Tail(cb.todo)]
  BY DEF StepDone, NoCallback
<1>. QED
  BY <1>2, <1>3, FreshStep

LEMMA AfterOpFacts ==
    ASSUME CallbackShaped, UserCode
    PROVE  /\ AfterOp.todo = cb.todo /\ AfterOp.chunk = cb.chunk
           /\ AfterOp.calling = cb.calling /\ AfterOp.line = cb.line
           /\ AfterOp = NoCallback <=> cb = NoCallback
           /\ \A bufs : Shaped(AfterOp, bufs, rd)
<1>1. cb \in Callbacks /\ cb.left \in 0 .. MaxOps
  BY DEF CallbackShaped, Shaped, Callbacks
<1>2. CASE cb = NoCallback
  <2>1. AfterOp = cb
    BY <1>2 DEF AfterOp
  <2>2. \A bufs : Shaped(cb, bufs, rd)
    BY <1>2, NoCallbackFacts DEF CallbackShaped, Shaped, ChunkRead
  <2>. QED
    BY <2>1, <2>2
<1>3. CASE cb # NoCallback
  <2>1. cb.calling /\ cb.left > 0
    BY <1>3 DEF UserCode
  <2>2. cb.left - 1 \in 0 .. MaxOps
    BY <1>1, <2>1, ChildAssumption
  <2>3. AfterOp = [cb EXCEPT !.left = @ - 1]
    BY <1>3 DEF AfterOp
  <2>4. /\ AfterOp \in Callbacks
        /\ AfterOp.todo = cb.todo /\ AfterOp.chunk = cb.chunk
        /\ AfterOp.calling = cb.calling /\ AfterOp.line = cb.line
    BY <1>1, <2>2, <2>3 DEF Callbacks
  <2>5. AfterOp # NoCallback
    BY <2>1, <2>4, NoCallbackFacts
  <2>6. \A bufs : ChunkRead(AfterOp, bufs, rd)
    BY <2>1, <2>4 DEF ChunkRead, CallbackShaped, Shaped
  <2>7. CallsHandlers(AfterOp)
    BY <2>4 DEF CallsHandlers, CallbackShaped, Shaped
  <2>. QED
    BY <1>3, <2>4, <2>5, <2>6, <2>7 DEF CallbackShaped, Shaped
<1>. QED
  BY <1>2, <1>3

-----------------------------------------------------------------------------
(* Every step keeps the listeners served and the callback in shape.          *)

Base == TypeOK /\ Served /\ CallbackShaped

(* The types of what SetObject does not set.                                 *)
OtherTypes ==
    /\ proc \in {"none", "running", "zombie", "reaped"}
    /\ out \in [Stream -> Seq({"text", "newline"})]
    /\ open \subseteq Stream
    /\ rd \in [Stream -> Nat] /\ \A s \in Stream : rd[s] <= Len(out[s])
    /\ from \in [Stream -> Nat] /\ atDeath \in [Stream -> Nat]
    /\ piped \in BOOLEAN /\ exited \in BOOLEAN
    /\ heard \subseteq Sig
    /\ childw \in {"off", "on", "pending"}

LEMMA OtherTypesKept == TypeOK => OtherTypes
  BY DEF TypeOK, OtherTypes

LEMMA Settles ==
    ASSUME Base, NEW h \in BOOLEAN, NEW r \in BOOLEAN, NEW w \in SUBSET Stream,
           NEW sig \in SUBSET Sig, NEW bufs \in SUBSET Stream,
           NEW txt \in [Stream -> Seq(Piece)], NEW c,
           SetObject(h, r, w, sig, bufs, txt, c),
           Serves(object, h, r, w, sig, bufs, childw', c, exited'),
           Shaped(c, bufs, rd'), OtherTypes', aborted' = aborted
    PROVE  /\ Base'
           /\ buffers' \subseteq bufs /\ cb' = c
           /\ object' = "live" => buffers' = bufs /\ signals' = sig /\ pieces' = txt
           /\ object' = "live" => object = "live"
           /\ object # "none" => object' # "none"
<1>. DEFINE dies == object = "live" /\ ~Referenced(h, r, w, c)
<1>1. /\ object' = IF dies THEN "dead" ELSE object
      /\ held' = h /\ root' = r /\ watching' = w /\ cb' = c
      /\ signals' = IF dies THEN {} ELSE sig
      /\ buffers' = IF dies THEN {} ELSE bufs
      /\ pieces' = IF dies THEN [s \in Stream |-> <<>>] ELSE txt
  BY DEF SetObject
<1>. HIDE DEF dies
<1>2. object \in {"none", "live", "dead"} /\ aborted = FALSE
  BY DEF Base, TypeOK, Served
<1>3. [s \in Stream |-> <<>>] \in [Stream -> Seq(Piece)]
  <2>1. <<>> \in Seq(Piece)
    OBVIOUS
  <2>. QED
    BY <2>1
<1>4. TypeOK'
  BY <1>1, <1>2, <1>3 DEF TypeOK, OtherTypes, Shaped, Callbacks
<1>5. Serves(object', held', root', watching', signals', buffers', childw', cb', exited')
  <2>1. CASE dies
    <3>1. object' = "dead" /\ object = "live" /\ ~h /\ ~r /\ w = {} /\ c = NoCallback
      BY <1>1, <2>1 DEF dies, Referenced
    <3>2. childw' = "off"
      BY <3>1 DEF Serves
    <3>. QED
      BY <1>1, <2>1, <3>1, <3>2 DEF Serves
  <2>2. CASE ~dies
    BY <1>1, <2>2
  <2>. QED
    BY <2>1, <2>2
<1>6. Served'
  BY <1>2, <1>5 DEF Served, Serves, NoCallback
<1>7. Shaped(cb', buffers', rd')
  <2>1. CASE dies
    <3>1. c = NoCallback
      BY <2>1 DEF dies, Referenced
    <3>. QED
      BY <1>1, <3>1, NoCallbackFacts DEF Shaped, ChunkRead
  <2>2. CASE ~dies
    BY <1>1, <2>2
  <2>. QED
    BY <2>1, <2>2
<1>8. CallbackShaped'
  BY <1>7 DEF CallbackShaped, Shaped, Callbacks, Ordered, ChunkRead, CallsHandlers,
              NoCallback, Step, Stream, Piece
<1>. QED
  BY <1>1, <1>2, <1>4, <1>6, <1>8 DEF Base, dies

(* A step that leaves the object alone, with the callback c.                 *)
LEMMA SameObject ==
    ASSUME Base, NEW c, cb' = c, UNCHANGED <<objectVars, exited, aborted>>,
           object = "live" \/ c = NoCallback,
           childw' = "off" <=> childw = "off",
           pieces' \in [Stream -> Seq(Piece)],
           Shaped(c, buffers, rd'), OtherTypes'
    PROVE  Base'
<1>1. UNCHANGED <<object, held, root, watching, signals, buffers, exited, aborted>>
  BY DEF objectVars
<1>2. TypeOK'
  BY <1>1 DEF Base, TypeOK, OtherTypes, Shaped, Callbacks
<1>3. Served'
  BY <1>1 DEF Base, Served, Serves, NoCallback
<1>4. Shaped(cb', buffers', rd')
  BY <1>1
<1>5. CallbackShaped'
  BY <1>4 DEF CallbackShaped, Shaped, Callbacks, Ordered, ChunkRead, CallsHandlers,
              NoCallback, Step, Stream, Piece
<1>. QED
  BY <1>2, <1>3, <1>5 DEF Base

LEMMA InitBase == Init => Base
<1>. SUFFICES ASSUME Init PROVE Base
  OBVIOUS
<1>1. <<>> \in Seq(Piece) /\ <<>> \in Seq({"text", "newline"}) /\ Len(<<>>) = 0
  OBVIOUS
<1>2. OtherTypes
  <2>1. out \in [Stream -> Seq({"text", "newline"})] /\ \A s \in Stream : Len(out[s]) = 0
    BY <1>1 DEF Init
  <2>2. rd \in [Stream -> Nat] /\ \A s \in Stream : rd[s] = 0
    BY DEF Init
  <2>3. \A s \in Stream : rd[s] <= Len(out[s])
    BY <2>1, <2>2
  <2>4. from \in [Stream -> Nat] /\ atDeath \in [Stream -> Nat]
    BY DEF Init
  <2>5. /\ proc = "none" /\ open = {} /\ piped = FALSE /\ exited = FALSE /\ heard = {}
        /\ childw = "off"
    BY DEF Init
  <2>. QED
    BY <2>1, <2>2, <2>3, <2>4, <2>5 DEF OtherTypes
<1>3. TypeOK
  BY <1>1, <1>2, NoCallbackFacts DEF Init, TypeOK, OtherTypes, Callbacks
<1>4. Served
  BY DEF Init, Served, Serves
<1>5. <<>> \in Seq(Step) /\ Ordered(<<>>)
  BY DEF Ordered
<1>6. NoCallback = [NoCallback EXCEPT !.todo = <<>>]
  BY DEF NoCallback
<1>7. CallbackShaped
  BY <1>5, <1>6, FreshStep DEF Init, CallbackShaped
<1>. QED
  BY <1>3, <1>4, <1>7 DEF Base

LEMMA ProcessBase ==
    ASSUME Base, Process \/ Reap
    PROVE  Base'
<1>. USE DEF Base
<1>1. /\ OtherTypes /\ pieces \in [Stream -> Seq(Piece)] /\ Shaped(cb, buffers, rd)
      /\ object = "live" \/ cb = NoCallback
  BY OtherTypesKept DEF TypeOK, CallbackShaped, Served, Serves
<1>2. ASSUME NEW s \in Stream, NEW c \in {"text", "newline"}, Write(s, c)
      PROVE  Base'
  <2>1. out[s] \in Seq({"text", "newline"}) /\ Len(Append(out[s], c)) = Len(out[s]) + 1
        /\ Append(out[s], c) \in Seq({"text", "newline"})
    BY <1>1 DEF OtherTypes
  <2>2. /\ out' \in [Stream -> Seq({"text", "newline"})]
        /\ \A t \in Stream : rd[t] <= Len(out'[t])
    BY <1>1, <1>2, <2>1 DEF OtherTypes, Write
  <2>3. OtherTypes'
    BY <1>1, <1>2, <2>2 DEF OtherTypes, Write, flags
  <2>. QED
    BY <1>1, <1>2, <2>3, SameObject DEF Write, flags
<1>3. ASSUME NEW s \in Stream, Close(s)
      PROVE  Base'
  <2>1. OtherTypes'
    BY <1>1, <1>3 DEF OtherTypes, Close, flags
  <2>. QED
    BY <1>1, <1>3, <2>1, SameObject DEF Close, flags
<1>4. CASE Die
  <2>1. atDeath' \in [Stream -> Nat]
    BY <1>1, <1>4 DEF Die, OtherTypes
  <2>2. OtherTypes'
    BY <1>1, <1>4, <2>1 DEF OtherTypes, Die, flags
  <2>. QED
    BY <1>1, <1>4, <2>2, SameObject DEF Die, flags
<1>5. CASE Reap
  <2>1. OtherTypes'
    BY <1>1, <1>5 DEF OtherTypes, Reap, flags
  <2>. QED
    BY <1>1, <1>5, <2>1, SameObject DEF Reap, flags
<1>. QED
  BY <1>2, <1>3, <1>4, <1>5 DEF Process

LEMMA RunBase ==
    ASSUME Base, NEW ignore \in BOOLEAN, Run(ignore)
    PROVE  Base'
<1>. USE DEF Base
<1>1. TypeOK'
  BY DEF TypeOK, Run
<1>2. Served'
  BY DEF Served, Serves, Run, NoCallback
<1>3. Shaped(cb', buffers', rd')
  BY DEF Run, CallbackShaped
<1>4. CallbackShaped'
  BY <1>3 DEF CallbackShaped, Shaped, Callbacks, Ordered, ChunkRead, CallsHandlers,
              NoCallback, Step, Stream, Piece
<1>. QED
  BY <1>1, <1>2, <1>4

(* The references and listeners, as they are.                                *)
LEMMA ServesNow ==
    ASSUME Base
    PROVE  /\ Serves(object, held, root, watching, signals, buffers, childw, cb, exited)
           /\ held \in BOOLEAN /\ root \in BOOLEAN /\ exited \in BOOLEAN
           /\ watching \in SUBSET Stream /\ signals \in SUBSET Sig
           /\ buffers \in SUBSET Stream /\ pieces \in [Stream -> Seq(Piece)]
           /\ OtherTypes /\ ~aborted
  BY OtherTypesKept DEF Base, TypeOK, Served

LEMMA ListenBase ==
    ASSUME Base, StopsBeforeExit, NEW x \in Sig, Listen(x)
    PROVE  Base'
<1>1. /\ UserCode /\ object = "live" /\ held /\ x \notin signals /\ ~exited
      /\ UNCHANGED external
  BY DEF Listen, StopsBeforeExit
<1>2. \A bufs : Shaped(AfterOp, bufs, rd)
  BY <1>1, AfterOpFacts DEF Base
<1>. USE ServesNow
<1>3. CASE x \in Stream /\ ListenOutput(x)
  <2>1. SetObject(held, root, watching \cup {x}, signals \cup {x}, buffers \cup {x},
                  [pieces EXCEPT ![x] = <<>>], AfterOp)
        /\ from' = [from EXCEPT ![x] = ReadFrom(x)] /\ heard' = heard \cup ({x} \ Ending)
        /\ UNCHANGED <<rd, childw, flags>>
    BY <1>1, <1>3 DEF ListenOutput
  <2>2. [pieces EXCEPT ![x] = <<>>] \in [Stream -> Seq(Piece)]
    <3>1. <<>> \in Seq(Piece)
      OBVIOUS
    <3>. QED
      BY <3>1
  <2>3. ReadFrom(x) \in Nat
    BY <1>3 DEF ReadFrom, OtherTypes
  <2>4. OtherTypes'
    BY <1>1, <1>3, <2>1, <2>3 DEF OtherTypes, flags, external
  <2>5. Serves(object, held, root, watching \cup {x}, signals \cup {x}, buffers \cup {x},
               childw', AfterOp, exited')
    BY <1>1, <1>3, <2>1 DEF Serves, flags, Stream
  <2>6. aborted' = aborted /\ rd' = rd /\ childw' = childw /\ exited' = exited
    BY <2>1 DEF flags
  <2>7. /\ watching \cup {x} \in SUBSET Stream /\ signals \cup {x} \in SUBSET Sig
        /\ buffers \cup {x} \in SUBSET Stream /\ Shaped(AfterOp, buffers \cup {x}, rd')
    BY <1>2, <1>3, <2>6
  <2>. QED
    BY <2>1, <2>2, <2>4, <2>5, <2>6, <2>7, Settles
<1>4. CASE x \in Stream /\ ListenIgnored(x)
  <2>1. SetObject(held, root, watching, signals, buffers, pieces, AfterOp)
        /\ UNCHANGED <<rd, childw, from, heard, flags>>
    BY <1>4 DEF ListenIgnored
  <2>2. OtherTypes'
    BY <1>1, <2>1 DEF OtherTypes, flags, external
  <2>3. Serves(object, held, root, watching, signals, buffers, childw', AfterOp, exited')
    BY <1>1, <2>1 DEF Serves, flags
  <2>. QED
    BY <1>2, <2>1, <2>2, <2>3, Settles DEF flags
<1>5. CASE x = "exit" /\ ListenExit
  <2>1. SetObject(held, TRUE, watching, signals \cup {"exit"}, buffers, pieces, AfterOp)
        /\ childw' = "on" /\ heard' = heard \cup ({"exit"} \ Ending)
        /\ UNCHANGED <<rd, from, flags>>
    BY <1>1, <1>5 DEF ListenExit
  <2>2. OtherTypes'
    BY <1>1, <2>1 DEF OtherTypes, flags, external, Sig
  <2>3. Serves(object, held, TRUE, watching, signals \cup {"exit"}, buffers, childw', AfterOp,
               exited')
    BY <1>1, <2>1 DEF Serves, flags, Stream
  <2>. QED
    BY <1>2, <2>1, <2>2, <2>3, Settles DEF flags, Sig
<1>. QED
  BY <1>3, <1>4, <1>5 DEF Listen

LEMMA DeleteBase ==
    ASSUME Base, NEW xs \in SUBSET Sig, NEW c, \A bufs : Shaped(c, bufs, rd),
           object = "live" \/ c = NoCallback,
           DeleteSignals(xs, c), heard' \subseteq Sig, UNCHANGED external
    PROVE  /\ Base'
           /\ SetObject(held, root /\ "exit" \notin xs, watching \ xs, signals \ xs, buffers \ xs,
                        [s \in Stream |-> IF s \in xs THEN <<>> ELSE pieces[s]], c)
           /\ childw' = IF "exit" \in xs \cap signals THEN "off" ELSE childw
           /\ UNCHANGED <<rd, from, flags>>
<1>. USE ServesNow
<1>. DEFINE txt == [s \in Stream |-> IF s \in xs THEN <<>> ELSE pieces[s]]
<1>1. ~("exit" \in xs \cap signals /\ exited)
  BY DEF Serves
<1>2. /\ SetObject(held, root /\ "exit" \notin xs, watching \ xs, signals \ xs, buffers \ xs, txt, c)
      /\ childw' = IF "exit" \in xs \cap signals THEN "off" ELSE childw
      /\ UNCHANGED <<rd, from, flags>>
  BY <1>1 DEF DeleteSignals
<1>3. txt \in [Stream -> Seq(Piece)]
  <2>1. <<>> \in Seq(Piece)
    OBVIOUS
  <2>. QED
    BY <2>1
<1>. HIDE DEF txt
<1>4. OtherTypes'
  BY <1>2 DEF OtherTypes, flags, external
<1>5. exited' = exited /\ aborted' = aborted /\ rd' = rd
  BY <1>2 DEF flags
<1>6. Serves(object, held, root /\ "exit" \notin xs, watching \ xs, signals \ xs, buffers \ xs,
             childw', c, exited')
  <2>1. "exit" \notin Stream
    BY DEF Stream
  <2>. QED
    BY <1>2, <1>5, <2>1 DEF Serves
<1>7. /\ (root /\ "exit" \notin xs) \in BOOLEAN /\ watching \ xs \in SUBSET Stream
      /\ signals \ xs \in SUBSET Sig /\ buffers \ xs \in SUBSET Stream
      /\ Shaped(c, buffers \ xs, rd')
  BY <1>5
<1>8. Base'
  BY <1>2, <1>3, <1>4, <1>5, <1>6, <1>7, Settles
<1>. QED
  BY <1>2, <1>8 DEF txt

LEMMA StopBase ==
    ASSUME Base, NEW x \in Sig, Stop(x)
    PROVE  Base'
<1>1. \A bufs : Shaped(AfterOp, bufs, rd)
  BY AfterOpFacts DEF Base, Stop
<1>2. object = "live"
  BY ServesNow DEF Stop, Serves
<1>3. heard' \subseteq Sig /\ {x} \in SUBSET Sig
  BY ServesNow DEF Stop, OtherTypes
<1>. QED
  BY <1>1, <1>2, <1>3, DeleteBase DEF Stop

LEMMA LetGoBase ==
    ASSUME Base, StopsBeforeExit, Drop \/ Exit
    PROVE  Base'
<1>. USE ServesNow
<1>1. UserCode
  BY DEF Drop, Exit
<1>2. Shaped(AfterOp, buffers, rd) /\ (AfterOp = NoCallback <=> cb = NoCallback)
  BY <1>1, AfterOpFacts DEF Base
<1>3. CASE Drop
  <2>1. /\ SetObject(FALSE, root, watching, signals, buffers, pieces, AfterOp)
        /\ UNCHANGED <<rd, childw, from, heard, external, flags>>
    BY <1>3 DEF Drop
  <2>2. OtherTypes' /\ aborted' = aborted /\ rd' = rd /\ childw' = childw /\ exited' = exited
    BY <2>1 DEF OtherTypes, external, flags
  <2>3. Serves(object, FALSE, root, watching, signals, buffers, childw', AfterOp, exited')
    BY <1>2, <2>2 DEF Serves
  <2>. QED
    BY <1>2, <2>1, <2>2, <2>3, Settles
<1>4. CASE Exit
  <2>1. /\ SetObject(held, FALSE, {}, signals, buffers, pieces, AfterOp) /\ exited' = TRUE
        /\ UNCHANGED <<rd, piped, childw, aborted, from, heard, external>>
        /\ "exit" \notin signals
    BY <1>4 DEF Exit, StopsBeforeExit
  <2>2. OtherTypes'
    BY <2>1 DEF OtherTypes, external
  <2>3. Serves(object, held, FALSE, {}, signals, buffers, childw', AfterOp, exited')
    BY <1>2, <2>1 DEF Serves
  <2>4. {} \in SUBSET Stream
    OBVIOUS
  <2>. QED
    BY <1>2, <2>1, <2>2, <2>3, <2>4, Settles
<1>. QED
  BY <1>3, <1>4

(* The steps a callback begins with.                                         *)
LEMMA BeginFacts ==
    /\ \A s \in Stream : /\ <<<<"drain", s>>>> \in Seq(Step) /\ Ordered(<<<<"drain", s>>>>)
                         /\ Last(<<<<"drain", s>>>>) = <<"drain", s>>
    /\ SigchldSteps \in Seq(Step) /\ Ordered(SigchldSteps) /\ SigchldSteps # <<>>
    /\ Last(SigchldSteps) = <<"end", "exit">>
    /\ \A s \in Stream : \E i \in DOMAIN SigchldSteps : SigchldSteps[i] = <<"drain", s>>
<1>1. ASSUME NEW s \in Stream
      PROVE  /\ <<<<"drain", s>>>> \in Seq(Step) /\ Ordered(<<<<"drain", s>>>>)
             /\ Last(<<<<"drain", s>>>>) = <<"drain", s>>
  <2>. DEFINE t == <<<<"drain", s>>>>
  <2>1. <<"drain", s>> \in Step
    BY DEF Step
  <2>2. t \in Seq(Step) /\ Len(t) = 1 /\ DOMAIN t = {1} /\ t[1] = <<"drain", s>>
    BY <2>1
  <2>. HIDE DEF t
  <2>3. Last(t) = <<"drain", s>>
    BY <2>2 DEF Last
  <2>4. Ordered(t)
    BY <2>2, <2>3 DEF Ordered
  <2>. QED
    BY <2>2, <2>3, <2>4 DEF t
<1>2. /\ SigchldSteps \in Seq(Step) /\ SigchldSteps # <<>> /\ Len(SigchldSteps) = 6
      /\ DOMAIN SigchldSteps = 1 .. 6
      /\ SigchldSteps[1] = <<"drain", "stdout_line">>
      /\ SigchldSteps[2] = <<"rest", "stdout_line">>
      /\ SigchldSteps[3] = <<"drain", "stderr_line">>
      /\ SigchldSteps[4] = <<"rest", "stderr_line">>
      /\ SigchldSteps[5] = <<"exit", "exit">>
      /\ SigchldSteps[6] = <<"end", "exit">>
  <2>1. /\ <<"drain", "stdout_line">> \in Step /\ <<"rest", "stdout_line">> \in Step
        /\ <<"drain", "stderr_line">> \in Step /\ <<"rest", "stderr_line">> \in Step
        /\ <<"exit", "exit">> \in Step /\ <<"end", "exit">> \in Step
    BY DEF Step, Stream
  <2>. QED
    BY <2>1 DEF SigchldSteps
<1>3. Last(SigchldSteps) = <<"end", "exit">>
  BY <1>2 DEF Last
<1>4. \A i \in DOMAIN SigchldSteps : i = 1 \/ i = 2 \/ i = 3 \/ i = 4 \/ i = 5 \/ i = 6
  BY <1>2
<1>5. Ordered(SigchldSteps)
  <2>1. \A i, j \in DOMAIN SigchldSteps : SigchldSteps[i] = SigchldSteps[j] => i = j
    BY <1>2, <1>4
  <2>2. \A i, j \in DOMAIN SigchldSteps :
          i < j /\ SigchldSteps[i][1] = "exit" => SigchldSteps[j][1] # "drain"
    BY <1>2, <1>4
  <2>3. \A s \in Stream, i \in DOMAIN SigchldSteps : SigchldSteps[i] = <<"drain", s>> =>
          \E j \in DOMAIN SigchldSteps : i < j /\ SigchldSteps[j] = <<"rest", s>>
    <3>1. 2 \in DOMAIN SigchldSteps /\ 4 \in DOMAIN SigchldSteps
      BY <1>2
    <3>2. \A s \in Stream, i \in DOMAIN SigchldSteps : SigchldSteps[i] = <<"drain", s>> =>
            (i = 1 /\ s = "stdout_line") \/ (i = 3 /\ s = "stderr_line")
      BY <1>2, <1>4
    <3>. QED
      BY <1>2, <3>1, <3>2
  <2>. QED
    BY <1>3, <2>1, <2>2, <2>3 DEF Ordered
<1>6. \A s \in Stream : \E i \in DOMAIN SigchldSteps : SigchldSteps[i] = <<"drain", s>>
  <2>1. 1 \in DOMAIN SigchldSteps /\ 3 \in DOMAIN SigchldSteps
    BY <1>2
  <2>. QED
    BY <1>2, <2>1 DEF Stream
<1>. QED
  BY <1>1, <1>2, <1>3, <1>5, <1>6

LEMMA BeginBase ==
    ASSUME Base, Sigchld \/ \E s \in Stream : OutputReady(s)
    PROVE  Base'
<1>. USE ServesNow
<1>1. CASE Sigchld
  <2>1. Shaped(cb', buffers, rd')
    BY <1>1, BeginFacts, FreshStep DEF Sigchld
  <2>2. OtherTypes'
    BY <1>1 DEF Sigchld, OtherTypes, external, flags
  <2>3. object = "live"
    BY <1>1 DEF Sigchld, Serves
  <2>. QED
    BY <1>1, <2>1, <2>2, <2>3, SameObject DEF Sigchld, flags
<1>2. ASSUME NEW s \in Stream, OutputReady(s)
      PROVE  Base'
  <2>1. object = "live" /\ s \in buffers
    BY <1>2 DEF OutputReady, Serves
  <2>2. /\ cb' = [NoCallback EXCEPT !.todo = <<<<"drain", s>>>>]
        /\ UNCHANGED <<rd, pieces, childw, from, heard, objectVars, flags, external>>
    BY <1>2, <2>1 DEF OutputReady
  <2>3. Shaped(cb', buffers, rd')
    BY <2>2, BeginFacts, FreshStep
  <2>4. OtherTypes'
    BY <2>2 DEF OtherTypes, external, flags
  <2>. QED
    BY <2>1, <2>2, <2>3, <2>4, SameObject DEF flags
<1>. QED
  BY <1>1, <1>2

LEMMA AtFacts ==
    ASSUME Base, NEW step, NEW s, At(step, s)
    PROVE  /\ object = "live" /\ cb.todo # <<>> /\ ~cb.calling /\ ~aborted
           /\ Head(cb.todo) = <<step, s>> /\ Head(cb.todo)[1] = step /\ Head(cb.todo)[2] = s
           /\ Head(cb.todo) \in Step /\ cb \in Callbacks /\ Ordered(cb.todo)
           /\ ChunkRead(cb, buffers, rd)
<1>1. cb.todo # <<>> /\ Head(cb.todo) = <<step, s>> /\ ~cb.calling /\ ~aborted
  BY DEF At
<1>2. /\ cb \in Callbacks /\ Ordered(cb.todo) /\ ChunkRead(cb, buffers, rd)
      /\ cb # NoCallback
  BY <1>1 DEF Base, CallbackShaped, Shaped
<1>3. Head(cb.todo) \in Step
  BY <1>1, <1>2 DEF Callbacks
<1>4. object = "live"
  BY <1>2 DEF Base, Served, Serves
<1>. QED
  BY <1>1, <1>2, <1>3, <1>4

LEMMA ChunkEndFacts ==
    ASSUME OtherTypes, NEW s \in Stream, rd[s] < Len(out[s])
    PROVE  /\ ChunkEnd(s) \in Nat /\ rd[s] < ChunkEnd(s) /\ ChunkEnd(s) <= Len(out[s])
<1>1. /\ rd[s] \in Nat /\ out[s] \in Seq({"text", "newline"})
      /\ BufSize \in Nat /\ BufSize > 0
  BY ChildAssumption DEF OtherTypes
<1>2. Len(out[s]) \in Nat
  BY <1>1
<1>3. {rd[s] + BufSize, Len(out[s])} \in SUBSET Nat
  BY <1>1, <1>2
<1>4. ChunkEnd(s) \in {rd[s] + BufSize, Len(out[s])} /\ ChunkEnd(s) <= Len(out[s])
  BY <1>3, MinFacts DEF ChunkEnd
<1>. QED
  BY <1>1, <1>2, <1>4

LEMMA ReadChunkBase ==
    ASSUME Base, NEW s \in Stream, ReadChunk(s)
    PROVE  Base'
<1>. USE ServesNow
<1>1. At("drain", s) /\ UNCHANGED external
  BY DEF ReadChunk
<1>2. /\ object = "live" /\ cb.todo # <<>> /\ Head(cb.todo) = <<"drain", s>>
      /\ Head(cb.todo)[2] = s /\ Head(cb.todo)[1] = "drain" /\ cb \in Callbacks /\ ~cb.calling
      /\ Ordered(cb.todo)
  BY <1>1, AtFacts
<1>3. \A bufs, r : Shaped(StepDone, bufs, r)
  BY <1>2, StepDoneFacts DEF Base
<1>4. CASE /\ s \in buffers /\ rd[s] < Len(out[s])
           /\ rd' = [rd EXCEPT ![s] = ChunkEnd(s)]
           /\ cb' = [cb EXCEPT !.chunk = <<rd[s] + 1, ChunkEnd(s)>>]
           /\ UNCHANGED <<pieces, childw, from, heard, objectVars, flags>>
  <2>1. ChunkEnd(s) \in Nat /\ rd[s] < ChunkEnd(s) /\ ChunkEnd(s) <= Len(out[s])
    BY <1>4, ChunkEndFacts
  <2>2. /\ rd' \in [Stream -> Nat] /\ rd'[s] = ChunkEnd(s)
        /\ \A t \in Stream : rd'[t] <= Len(out[t])
    BY <1>4, <2>1 DEF OtherTypes
  <2>3. OtherTypes'
    BY <1>1, <1>4, <2>2 DEF OtherTypes, external, flags
  <2>4. rd[s] + 1 \in Nat /\ <<rd[s] + 1, ChunkEnd(s)>> \in Piece
    BY <2>1 DEF OtherTypes, Piece
  <2>5. /\ cb' \in Callbacks /\ cb'.todo = cb.todo /\ cb'.chunk = <<rd[s] + 1, ChunkEnd(s)>>
        /\ ~cb'.calling
    BY <1>2, <1>4, <2>4 DEF Callbacks
  <2>6. ChunkRead(cb', buffers, rd')
    <3>1. cb'.chunk[1] = rd[s] + 1 /\ cb'.chunk[2] = ChunkEnd(s) /\ rd[s] \in Nat
      BY <2>5 DEF OtherTypes
    <3>. QED
      BY <1>2, <1>4, <2>1, <2>2, <2>5, <3>1 DEF ChunkRead
  <2>7. CallsHandlers(cb') /\ cb' # NoCallback
    BY <1>2, <2>5, NoCallbackFacts DEF CallsHandlers
  <2>8. Shaped(cb', buffers, rd')
    BY <1>2, <2>5, <2>6, <2>7 DEF Shaped
  <2>. QED
    BY <1>2, <1>4, <2>3, <2>8, SameObject DEF flags
<1>5. CASE /\ SetObject(held, root, watching, signals, buffers, pieces, StepDone)
           /\ UNCHANGED <<rd, childw, from, heard, flags>>
  <2>1. OtherTypes' /\ rd' = rd /\ childw' = childw /\ exited' = exited /\ aborted' = aborted
    BY <1>1, <1>5 DEF OtherTypes, external, flags
  <2>2. Serves(object, held, root, watching, signals, buffers, childw', StepDone, exited')
    BY <1>2, <2>1 DEF Serves
  <2>. QED
    BY <1>3, <1>5, <2>1, <2>2, Settles
<1>6. CASE DeleteSignals({s}, StepDone) /\ UNCHANGED heard
  <2>1. {s} \in SUBSET Sig /\ heard' \subseteq Sig
    BY <1>6 DEF Sig, OtherTypes
  <2>. QED
    BY <1>1, <1>2, <1>3, <1>6, <2>1, DeleteBase
<1>. QED
  BY <1>4, <1>5, <1>6 DEF ReadChunk

(* di_emit to a signal that has listeners.                                   *)
LEMMA CallFacts ==
    ASSUME NEW x \in signals, NEW line \in Seq(Piece), cb \in Callbacks, NEW c,
           c = Call(x, line)
    PROVE  /\ c \in Callbacks /\ c.todo = cb.todo /\ c.chunk = cb.chunk /\ c.line = line
           /\ c.calling = TRUE
<1>1. MaxOps \in 0 .. MaxOps
  BY ChildAssumption
<1>. QED
  BY <1>1 DEF Call, Callbacks

LEMMA NewlinesIn ==
    ASSUME NEW s, NEW piece \in Piece, Newlines(s, piece) # {}
    PROVE  LET eol == Min(Newlines(s, piece))
           IN  /\ eol \in Nat /\ piece[1] <= eol /\ eol <= piece[2]
               /\ out[s][eol] = "newline"
               /\ \A p \in piece[1] .. eol - 1 : out[s][p] # "newline"
<1>. DEFINE T == Newlines(s, piece)
            eol == Min(T)
<1>1. piece[1] \in Nat /\ piece[2] \in Nat
  BY DEF Piece
<1>2. T \in SUBSET Nat
  BY <1>1 DEF Newlines
<1>3. eol \in T /\ \A y \in T : eol <= y
  BY <1>2, MinFacts
<1>. HIDE DEF eol
<1>4. eol \in Nat /\ piece[1] <= eol /\ eol <= piece[2] /\ out[s][eol] = "newline"
  BY <1>1, <1>3 DEF Newlines
<1>5. \A p \in piece[1] .. eol - 1 : out[s][p] # "newline"
  BY <1>1, <1>3, <1>4 DEF Newlines
<1>. QED
  BY <1>4, <1>5 DEF eol

(* What EmitLine does.                                                       *)
LEMMA EmitLineFacts ==
    ASSUME Base, NEW s \in Stream, EmitLine(s)
    PROVE  LET eol == Min(Newlines(s, cb.chunk))
           IN  /\ s \in buffers /\ s \in signals /\ cb.chunk \in Piece
               /\ eol \in Nat /\ cb.chunk[1] <= eol /\ eol <= cb.chunk[2]
               /\ cb.chunk[1] >= 1 /\ cb.chunk[2] = rd[s]
               /\ cb' \in Callbacks /\ cb'.todo = cb.todo /\ cb'.calling = TRUE
               /\ cb'.line = LineUpTo(s, eol) /\ cb'.chunk = <<eol + 1, cb.chunk[2]>>
               /\ pieces' = [pieces EXCEPT ![s] = <<>>]
               /\ UNCHANGED <<rd, childw, from, objectVars, flags, heard, external>>
<1>. USE ServesNow
<1>. DEFINE eol == Min(Newlines(s, cb.chunk))
<1>1. /\ object = "live" /\ cb.todo # <<>> /\ Head(cb.todo)[2] = s /\ cb \in Callbacks
      /\ ~cb.calling /\ ChunkRead(cb, buffers, rd)
      /\ cb.chunk # <<>> /\ Newlines(s, cb.chunk) # {}
  BY AtFacts DEF EmitLine, HasLine
<1>2. s \in buffers /\ cb.chunk \in Piece /\ cb.chunk[1] >= 1 /\ cb.chunk[2] = rd[s]
  BY <1>1 DEF ChunkRead, Callbacks, Piece
<1>3. s \in signals
  BY <1>1, <1>2 DEF Serves
<1>4. eol \in Nat /\ cb.chunk[1] <= eol /\ eol <= cb.chunk[2]
  BY <1>1, <1>2, NewlinesIn
<1>5. /\ cb' = [Call(s, LineUpTo(s, eol)) EXCEPT !.chunk[1] = eol + 1]
      /\ pieces' = [pieces EXCEPT ![s] = <<>>]
      /\ UNCHANGED <<rd, childw, from, objectVars, flags, heard, external>>
  BY <1>2 DEF EmitLine
<1>. HIDE DEF eol
<1>6. LineUpTo(s, eol) \in Seq(Piece)
  <2>1. cb.chunk[1] \in Nat /\ eol - 1 \in Nat
    BY <1>2, <1>4 DEF Piece
  <2>2. <<cb.chunk[1], eol - 1>> \in Piece /\ pieces[s] \in Seq(Piece)
    BY <2>1 DEF Piece
  <2>. QED
    BY <2>2 DEF LineUpTo
<1>. DEFINE c == Call(s, LineUpTo(s, eol))
<1>. HIDE DEF c
<1>7. /\ c \in Callbacks /\ c.todo = cb.todo /\ c.chunk = cb.chunk
      /\ c.line = LineUpTo(s, eol) /\ c.calling = TRUE
  <2>1. c = Call(s, LineUpTo(s, eol)) /\ cb \in Callbacks
    BY <1>1 DEF c
  <2>. QED
    BY <1>3, <1>6, <2>1, CallFacts
<1>8. cb' = [c EXCEPT !.chunk = [cb.chunk EXCEPT ![1] = eol + 1]]
  BY <1>5, <1>7 DEF c
<1>9. [cb.chunk EXCEPT ![1] = eol + 1] = <<eol + 1, cb.chunk[2]>>
  BY <1>2 DEF Piece
<1>10. <<eol + 1, cb.chunk[2]>> \in Piece
  BY <1>2, <1>4 DEF Piece
<1>11. /\ cb' \in Callbacks /\ cb'.todo = cb.todo /\ cb'.calling = TRUE
       /\ cb'.line = LineUpTo(s, eol) /\ cb'.chunk = <<eol + 1, cb.chunk[2]>>
  BY <1>7, <1>8, <1>9, <1>10 DEF Callbacks
<1>. QED
  BY <1>2, <1>3, <1>4, <1>5, <1>11 DEF eol

(* The emissions keep the callback at its step.                              *)
LEMMA EmitBase ==
    ASSUME Base, NEW s \in Sig, NEW step \in {"drain", "rest", "exit"}, At(step, s),
           cb' \in Callbacks, cb'.todo = cb.todo, ChunkRead(cb', buffers, rd), CallsHandlers(cb'),
           pieces' \in [Stream -> Seq(Piece)],
           UNCHANGED <<rd, childw, from, heard, external, objectVars, flags>>
    PROVE  Base'
<1>. USE ServesNow
<1>1. object = "live" /\ cb.todo # <<>> /\ Ordered(cb.todo)
  BY AtFacts
<1>2. cb' # NoCallback
  BY <1>1, NoCallbackFacts
<1>3. Shaped(cb', buffers, rd')
  BY <1>1, <1>2 DEF Shaped
<1>4. OtherTypes'
  BY DEF OtherTypes, external, flags
<1>. QED
  BY <1>1, <1>3, <1>4, SameObject DEF flags

LEMMA NoPieces ==
    ASSUME pieces \in [Stream -> Seq(Piece)], NEW s \in Stream,
           pieces' = [pieces EXCEPT ![s] = <<>>]
    PROVE  /\ pieces' \in [Stream -> Seq(Piece)] /\ pieces'[s] = <<>>
           /\ \A t \in Stream : t # s => pieces'[t] = pieces[t]
<1>1. <<>> \in Seq(Piece)
  OBVIOUS
<1>. QED
  BY <1>1

LEMMA EmitLineBase ==
    ASSUME Base, NEW s \in Stream, EmitLine(s)
    PROVE  Base'
<1>. USE ServesNow
<1>. DEFINE eol == Min(Newlines(s, cb.chunk))
<1>1. /\ s \in buffers /\ cb.chunk \in Piece
      /\ eol \in Nat /\ cb.chunk[1] <= eol /\ eol <= cb.chunk[2]
      /\ cb.chunk[2] = rd[s]
      /\ cb' \in Callbacks /\ cb'.todo = cb.todo /\ cb'.calling = TRUE
      /\ cb'.line = LineUpTo(s, eol) /\ cb'.chunk = <<eol + 1, cb.chunk[2]>>
      /\ pieces' = [pieces EXCEPT ![s] = <<>>]
      /\ UNCHANGED <<rd, childw, from, objectVars, flags, heard, external>>
  BY EmitLineFacts
<1>. HIDE DEF eol
<1>2. /\ At("drain", s) /\ cb.todo # <<>> /\ Head(cb.todo)[1] = "drain" /\ Head(cb.todo)[2] = s
  BY AtFacts DEF EmitLine
<1>3. cb.chunk[2] \in Nat
  BY <1>1 DEF Piece
<1>4. ChunkRead(cb', buffers, rd)
  <2>1. cb'.chunk[1] = eol + 1 /\ cb'.chunk[2] = cb.chunk[2]
    BY <1>1
  <2>. QED
    BY <1>1, <1>2, <1>3, <2>1 DEF ChunkRead
<1>5. cb'.line # <<>> /\ cb'.chunk # <<>>
  <2>1. pieces[s] \in Seq(Piece)
    OBVIOUS
  <2>2. \A x : Append(pieces[s], x) # <<>>
    BY <2>1
  <2>. QED
    BY <1>1, <2>2 DEF LineUpTo
<1>6. CallsHandlers(cb')
  BY <1>1, <1>2, <1>5 DEF CallsHandlers
<1>7. pieces' \in [Stream -> Seq(Piece)]
  BY <1>1, NoPieces
<1>. QED
  BY <1>1, <1>2, <1>4, <1>6, <1>7, EmitBase DEF Sig

LEMMA PushRestBase ==
    ASSUME Base, NEW s \in Stream, PushRest(s)
    PROVE  Base'
<1>. USE ServesNow
<1>1. /\ At("drain", s) /\ cb.chunk # <<>>
      /\ pieces' = [pieces EXCEPT ![s] = Append(@, cb.chunk)]
      /\ cb' = [cb EXCEPT !.chunk = <<>>]
      /\ UNCHANGED <<rd, childw, from, heard, external, objectVars, flags>>
  BY DEF PushRest
<1>2. cb \in Callbacks /\ ~cb.calling
  BY <1>1, AtFacts
<1>3. cb' \in Callbacks /\ cb'.todo = cb.todo /\ cb'.chunk = <<>> /\ ~cb'.calling
  BY <1>1, <1>2 DEF Callbacks
<1>4. ChunkRead(cb', buffers, rd) /\ CallsHandlers(cb')
  BY <1>3 DEF ChunkRead, CallsHandlers
<1>5. Append(pieces[s], cb.chunk) \in Seq(Piece)
  BY <1>1, <1>2 DEF Callbacks
<1>6. pieces' \in [Stream -> Seq(Piece)]
  BY <1>1, <1>5
<1>. QED
  BY <1>1, <1>3, <1>4, <1>6, EmitBase DEF Sig

(* A step is over, and the object is as it was.                              *)
LEMMA StepOverBase ==
    ASSUME Base, cb.todo # <<>>, cb' = StepDone, StepDone # NoCallback \/ object = "live",
           UNCHANGED <<rd, pieces, childw, from, heard, external, objectVars, flags>>
    PROVE  Base'
<1>. USE ServesNow
<1>1. \A bufs, r : Shaped(StepDone, bufs, r)
  BY StepDoneFacts DEF Base
<1>2. OtherTypes'
  BY DEF OtherTypes, external, flags
<1>3. object = "live" \/ cb = NoCallback
  BY DEF Serves
<1>4. cb # NoCallback
  BY NoCallbackFacts
<1>. QED
  BY <1>1, <1>2, <1>3, <1>4, SameObject DEF flags

LEMMA EmitRestBase ==
    ASSUME Base, NEW s \in Stream, EmitRest(s)
    PROVE  Base'
<1>. USE ServesNow
<1>1. /\ At("rest", s)
      /\ UNCHANGED <<rd, childw, from, heard, external, objectVars, flags>>
  BY DEF EmitRest
<1>2. /\ cb \in Callbacks /\ ~cb.calling /\ cb.todo # <<>> /\ object = "live"
      /\ Head(cb.todo)[1] = "rest" /\ ChunkRead(cb, buffers, rd)
  BY <1>1, AtFacts
<1>3. CASE s \in buffers /\ pieces[s] # <<>>
  <2>1. cb' = Call(s, pieces[s]) /\ pieces' = [pieces EXCEPT ![s] = <<>>]
    BY <1>3 DEF EmitRest
  <2>2. s \in signals /\ pieces[s] \in Seq(Piece)
    BY <1>2, <1>3 DEF Serves
  <2>3. /\ cb' \in Callbacks /\ cb'.todo = cb.todo /\ cb'.chunk = cb.chunk
        /\ cb'.line = pieces[s] /\ cb'.calling = TRUE
    <3>1. cb \in Callbacks /\ cb' = Call(s, pieces[s])
      BY <1>2, <2>1
    <3>. QED
      BY <2>2, <3>1, CallFacts
  <2>4. ChunkRead(cb', buffers, rd) /\ CallsHandlers(cb')
    BY <1>2, <1>3, <2>3 DEF ChunkRead, CallsHandlers
  <2>5. pieces' \in [Stream -> Seq(Piece)]
    BY <2>1, NoPieces
  <2>. QED
    BY <1>1, <2>3, <2>4, <2>5, EmitBase DEF Sig
<1>4. CASE ~(s \in buffers /\ pieces[s] # <<>>)
  <2>1. cb' = StepDone /\ UNCHANGED pieces
    BY <1>4 DEF EmitRest
  <2>. QED
    BY <1>1, <1>2, <2>1, StepOverBase
<1>. QED
  BY <1>3, <1>4

LEMMA EmitExitBase ==
    ASSUME Base, EmitExit
    PROVE  Base'
<1>. USE ServesNow
<1>1. /\ At("exit", "exit")
      /\ UNCHANGED <<rd, pieces, childw, from, heard, external, objectVars, flags>>
  BY DEF EmitExit
<1>2. /\ cb \in Callbacks /\ ~cb.calling /\ cb.todo # <<>> /\ object = "live"
      /\ Head(cb.todo)[1] = "exit" /\ ChunkRead(cb, buffers, rd)
  BY <1>1, AtFacts
<1>3. CASE "exit" \in signals
  <2>1. cb' = Call("exit", <<>>) /\ <<>> \in Seq(Piece)
    BY <1>3 DEF EmitExit
  <2>2. /\ cb' \in Callbacks /\ cb'.todo = cb.todo /\ cb'.chunk = cb.chunk
        /\ cb'.line = <<>> /\ cb'.calling = TRUE
    <3>1. cb \in Callbacks /\ cb' = Call("exit", <<>>)
      BY <1>2, <2>1
    <3>. QED
      BY <1>3, <2>1, <3>1, CallFacts
  <2>3. ChunkRead(cb', buffers, rd) /\ CallsHandlers(cb')
    BY <1>2, <1>3, <2>2 DEF ChunkRead, CallsHandlers
  <2>. QED
    BY <1>1, <2>2, <2>3, EmitBase DEF Sig
<1>4. CASE "exit" \notin signals
  <2>1. cb' = StepDone
    BY <1>4 DEF EmitExit
  <2>. QED
    BY <1>1, <1>2, <2>1, StepOverBase
<1>. QED
  BY <1>3, <1>4

LEMMA SigchldEndsBase ==
    ASSUME Base, SigchldEnds
    PROVE  Base'
<1>1. object = "live" /\ cb.todo # <<>>
  BY AtFacts DEF SigchldEnds
<1>2. \A bufs, r : Shaped(StepDone, bufs, r)
  BY <1>1, StepDoneFacts DEF Base
<1>3. heard' \subseteq Sig /\ Sig \in SUBSET Sig
  BY ServesNow DEF SigchldEnds, OtherTypes
<1>. QED
  BY <1>1, <1>2, <1>3, DeleteBase DEF SigchldEnds

(* The callback after its handlers have returned.                            *)
Resumed(s) == IF AfterHandlerDone(s) THEN StepDone
              ELSE [cb EXCEPT !.line = <<>>, !.calling = FALSE, !.left = 0]

LEMMA CallingFacts ==
    ASSUME Base, cb.calling
    PROVE  /\ object = "live" /\ cb.todo # <<>> /\ cb \in Callbacks
           /\ Head(cb.todo) \in Step /\ Head(cb.todo)[1] # "end" /\ Head(cb.todo)[2] \in Sig
           /\ Head(cb.todo)[1] \in {"drain", "rest"} <=> cb.line # <<>>
           /\ Head(cb.todo)[1] \in {"drain", "rest"} <=> Head(cb.todo)[2] \in Stream
           /\ Head(cb.todo)[1] = "drain" => cb.chunk # <<>>
           /\ Ordered(cb.todo) /\ ChunkRead(cb, buffers, rd)
<1>1. /\ cb.todo # <<>> /\ cb \in Callbacks /\ cb # NoCallback /\ Ordered(cb.todo)
      /\ ChunkRead(cb, buffers, rd)
      /\ Head(cb.todo)[1] # "end" /\ (Head(cb.todo)[1] \in {"drain", "rest"} <=> cb.line # <<>>)
      /\ Head(cb.todo)[1] = "drain" => cb.chunk # <<>>
  BY DEF Base, CallbackShaped, Shaped, CallsHandlers
<1>2. object = "live"
  BY <1>1 DEF Base, Served, Serves
<1>3. Head(cb.todo) \in Step
  BY <1>1 DEF Callbacks
<1>4. /\ Head(cb.todo)[2] \in Sig
      /\ Head(cb.todo)[1] \in {"drain", "rest"} <=> Head(cb.todo)[2] \in Stream
  BY <1>1, <1>3, StepFacts DEF Sig, Stream
<1>. QED
  BY <1>1, <1>2, <1>3, <1>4

LEMMA ResumedFacts ==
    ASSUME Base, cb.calling, NEW s, s = Head(cb.todo)[2]
    PROVE  /\ Shaped(Resumed(s), buffers, rd) /\ ~Resumed(s).calling
           /\ AfterHandlerDone(s) => Resumed(s) = StepDone
           /\ ~AfterHandlerDone(s) => /\ s \in buffers /\ Head(cb.todo)[1] = "drain"
                                      /\ Resumed(s).todo = cb.todo
                                      /\ Resumed(s).chunk = cb.chunk
<1>1. /\ cb.todo # <<>> /\ cb \in Callbacks /\ Ordered(cb.todo) /\ ChunkRead(cb, buffers, rd)
      /\ Head(cb.todo)[1] = "drain" => cb.chunk # <<>>
  BY CallingFacts
<1>2. CASE AfterHandlerDone(s)
  BY <1>1, <1>2, StepDoneFacts DEF Resumed, Base
<1>3. CASE ~AfterHandlerDone(s)
  <2>1. s \in buffers /\ Head(cb.todo)[1] = "drain"
    BY <1>3 DEF AfterHandlerDone
  <2>. DEFINE c == [cb EXCEPT !.line = <<>>, !.calling = FALSE, !.left = 0]
  <2>2. Resumed(s) = c
    BY <1>3 DEF Resumed
  <2>3. <<>> \in Seq(Piece) /\ 0 \in 0 .. MaxOps
    BY ChildAssumption
  <2>4. c \in Callbacks /\ c.todo = cb.todo /\ c.chunk = cb.chunk /\ c.calling = FALSE
    BY <1>1, <2>3 DEF Callbacks
  <2>. HIDE DEF c
  <2>5. ChunkRead(c, buffers, rd) /\ CallsHandlers(c) /\ c # NoCallback
    BY <1>1, <2>1, <2>4, NoCallbackFacts DEF ChunkRead, CallsHandlers
  <2>6. Shaped(c, buffers, rd)
    BY <1>1, <2>4, <2>5 DEF Shaped
  <2>. QED
    BY <1>3, <2>1, <2>2, <2>4, <2>6
<1>. QED
  BY <1>2, <1>3

LEMMA HandlersReturnFacts ==
    ASSUME Base, HandlersReturn, NEW s, s = Head(cb.todo)[2]
    PROVE  /\ SetObject(held, root, watching, signals, buffers, pieces, Resumed(s))
           /\ from' = IF s \in signals \cap Stream
                      THEN [from EXCEPT ![s] = LineEnd(cb.line)] ELSE from
           /\ UNCHANGED <<rd, childw, heard, external, flags>>
           /\ cb.calling
  BY DEF HandlersReturn, Resumed

LEMMA LineEndType ==
    ASSUME Base, cb.calling, Head(cb.todo)[2] \in Stream
    PROVE  LineEnd(cb.line) \in Nat
<1>1. cb.line \in Seq(Piece) /\ cb.line # <<>>
  BY CallingFacts DEF Callbacks
<1>2. cb.line[Len(cb.line)] \in Piece
  BY <1>1
<1>. QED
  BY <1>2 DEF LineEnd, Last, Piece

LEMMA HandlersReturnBase ==
    ASSUME Base, HandlersReturn
    PROVE  Base'
<1>. USE ServesNow
<1>. DEFINE s == Head(cb.todo)[2]
<1>1. /\ SetObject(held, root, watching, signals, buffers, pieces, Resumed(s))
      /\ from' = IF s \in signals \cap Stream
                 THEN [from EXCEPT ![s] = LineEnd(cb.line)] ELSE from
      /\ UNCHANGED <<rd, childw, heard, external, flags>>
      /\ cb.calling
  BY HandlersReturnFacts
<1>2. from' \in [Stream -> Nat]
  BY <1>1, LineEndType DEF OtherTypes
<1>3. OtherTypes' /\ rd' = rd /\ childw' = childw /\ exited' = exited /\ aborted' = aborted
  BY <1>1, <1>2 DEF OtherTypes, external, flags
<1>4. object = "live"
  BY <1>1, CallingFacts
<1>5. Shaped(Resumed(s), buffers, rd)
  BY <1>1, ResumedFacts
<1>6. Serves(object, held, root, watching, signals, buffers, childw', Resumed(s), exited')
  BY <1>3, <1>4 DEF Serves
<1>. QED
  BY <1>1, <1>3, <1>5, <1>6, Settles

LEMMA StepBase ==
    ASSUME Base, StopsBeforeExit, [Next]_vars
    PROVE  Base'
<1>1. CASE User
  BY <1>1, RunBase, ListenBase, StopBase, LetGoBase DEF User
<1>2. CASE Callback
  BY <1>2, ReadChunkBase, EmitLineBase, PushRestBase, EmitRestBase, EmitExitBase,
     SigchldEndsBase, HandlersReturnBase DEF Callback
<1>3. CASE UNCHANGED vars
  <2>1. OtherTypes' /\ UNCHANGED <<objectVars, exited, aborted>>
    BY <1>3, ServesNow DEF vars, OtherTypes, objectVars
  <2>2. cb' = cb /\ rd' = rd /\ pieces' = pieces /\ childw' = childw
    BY <1>3 DEF vars
  <2>3. Shaped(cb, buffers, rd') /\ (object = "live" \/ cb = NoCallback)
    BY <2>2, ServesNow DEF Base, CallbackShaped, Serves
  <2>. QED
    BY <2>1, <2>2, <2>3, ServesNow, SameObject
<1>. QED
  BY <1>1, <1>2, <1>3, ProcessBase, BeginBase DEF Next

-----------------------------------------------------------------------------
(* Runs of pieces.                                                           *)

Text == Seq({"text", "newline"})
Grown(o, p) == p \in Text /\ Len(o) <= Len(p) /\ \A i \in 1 .. Len(o) : p[i] = o[i]

LEMMA SpansEmpty ==
    ASSUME NEW o \in Text, NEW a \in Nat, a <= Len(o)
    PROVE  Spans(o, <<>>, a, a)
  BY DEF Spans

LEMMA SpansGrow ==
    ASSUME NEW o \in Text, NEW p, Grown(o, p), NEW line \in Seq(Piece), NEW a, NEW b,
           Spans(o, line, a, b)
    PROVE  Spans(p, line, a, b)
<1>1. Len(o) \in Nat /\ Len(p) \in Nat /\ b \in Nat /\ b <= Len(o) /\ Len(o) <= Len(p)
  BY DEF Spans, Grown, Text
<1>2. ASSUME NEW i \in 1 .. Len(line), NEW q \in line[i][1] .. line[i][2]
      PROVE  p[q] # "newline"
  <2>1. line[i] \in Piece /\ line[i][1] \in Nat /\ line[i][2] \in Nat
    BY DEF Piece
  <2>2. 1 <= line[i][1] /\ line[i][2] <= b
    BY DEF Spans
  <2>3. q \in 1 .. Len(o)
    BY <1>1, <2>1, <2>2
  <2>. QED
    BY <2>3 DEF Spans, Grown
<1>3. b <= Len(p)
  BY <1>1
<1>. QED
  BY <1>2, <1>3 DEF Spans

LEMMA SpansAppend ==
    ASSUME NEW o \in Text, NEW line \in Seq(Piece), NEW a, NEW b, Spans(o, line, a, b),
           NEW e \in Nat, b <= e, e <= Len(o), \A q \in b + 1 .. e : o[q] # "newline"
    PROVE  Spans(o, Append(line, <<b + 1, e>>), a, e)
<1>. DEFINE t == Append(line, <<b + 1, e>>)
            n == Len(line)
<1>1. a \in Nat /\ b \in Nat /\ n \in Nat
  BY DEF Spans
<1>2. <<b + 1, e>> \in Piece
  BY <1>1 DEF Piece
<1>3. /\ t \in Seq(Piece) /\ Len(t) = n + 1 /\ t # <<>>
      /\ \A i \in 1 .. n : t[i] = line[i] /\ t[n + 1] = <<b + 1, e>>
      /\ t[n + 1] = <<b + 1, e>>
  BY <1>2
<1>4. \A i \in 1 .. n : line[i] \in Piece /\ line[i][1] \in Nat /\ line[i][2] \in Nat
  BY DEF Piece
<1>5. line # <<>> => n >= 1
  OBVIOUS
<1>6. line = <<>> => n = 0
  OBVIOUS
<1>. HIDE DEF t, n
<1>7. t[1][1] = a + 1
  <2>1. CASE line = <<>>
    BY <1>1, <1>3, <1>6, <2>1 DEF Spans
  <2>2. CASE line # <<>>
    <3>1. 1 \in 1 .. n
      BY <1>1, <1>5, <2>2
    <3>. QED
      BY <1>3, <2>2, <3>1 DEF Spans
  <2>. QED
    BY <2>1, <2>2
<1>8. t[Len(t)][2] = e
  BY <1>3
<1>9. ASSUME NEW i \in 1 .. Len(t) - 1
      PROVE  t[i + 1][1] = t[i][2] + 1
  <2>1. CASE i = n
    <3>1. line # <<>> /\ n \in 1 .. n
      BY <1>1, <1>3, <1>6, <2>1
    <3>2. line[n][2] = b
      BY <3>1 DEF Spans, n
    <3>. QED
      BY <1>1, <1>3, <2>1, <3>1, <3>2
  <2>2. CASE i # n
    <3>1. i \in 1 .. n - 1 /\ i \in 1 .. n /\ i + 1 \in 1 .. n
      BY <1>1, <1>3, <2>2
    <3>2. line[i + 1][1] = line[i][2] + 1
      BY <3>1 DEF Spans, n
    <3>. QED
      BY <1>3, <3>1, <3>2
  <2>. QED
    BY <2>1, <2>2
<1>10. ASSUME NEW i \in 1 .. Len(t)
       PROVE  /\ 1 <= t[i][1] /\ t[i][1] <= t[i][2] + 1 /\ t[i][2] <= e
              /\ \A q \in t[i][1] .. t[i][2] : o[q] # "newline"
  <2>1. CASE i = n + 1
    BY <1>1, <1>3, <2>1
  <2>2. CASE i # n + 1
    <3>1. i \in 1 .. n /\ t[i] = line[i]
      BY <1>1, <1>3, <2>2
    <3>2. /\ 1 <= line[i][1] /\ line[i][1] <= line[i][2] + 1 /\ line[i][2] <= b
          /\ \A q \in line[i][1] .. line[i][2] : o[q] # "newline"
      BY <3>1 DEF Spans, n
    <3>. QED
      BY <1>1, <1>4, <3>1, <3>2
  <2>. QED
    BY <2>1, <2>2
<1>. QED
  BY <1>1, <1>3, <1>7, <1>8, <1>9, <1>10 DEF Spans, t

(* No position of the span is a newline: it is in the first piece that ends  *)
(* at or after it.                                                           *)
LEMMA SpansClean ==
    ASSUME NEW o \in Text, NEW line \in Seq(Piece), NEW a, NEW b, Spans(o, line, a, b),
           NEW q \in a + 1 .. b
    PROVE  o[q] # "newline"
<1>. DEFINE n == Len(line)
            T == {i \in 1 .. n : line[i][2] >= q}
<1>1. a \in Nat /\ b \in Nat /\ q \in Nat /\ n \in Nat
  BY DEF Spans
<1>2. line # <<>>
  BY <1>1 DEF Spans
<1>3. n \in 1 .. n /\ line[n][2] = b /\ 1 \in 1 .. n /\ line[1][1] = a + 1
  BY <1>2 DEF Spans
<1>4. \A i \in 1 .. n : line[i] \in Piece /\ line[i][1] \in Nat /\ line[i][2] \in Nat
  BY DEF Piece
<1>5. n \in T
  BY <1>1, <1>3
<1>6. T \in SUBSET Nat
  OBVIOUS
<1>. DEFINE k == Min(T)
<1>7. k \in T /\ \A i \in T : k <= i
  BY <1>5, <1>6, MinFacts
<1>. HIDE DEF k
<1>8. line[k][1] <= q
  <2>1. CASE k = 1
    BY <1>1, <1>3, <2>1
  <2>2. CASE k # 1
    <3>1. k - 1 \in 1 .. n - 1 /\ k - 1 \in 1 .. n /\ (k - 1) + 1 = k /\ ~(k <= k - 1)
      BY <1>1, <1>7, <2>2
    <3>2. line[k][1] = line[k - 1][2] + 1
      BY <3>1 DEF Spans
    <3>3. ~(line[k - 1][2] >= q)
      BY <1>7, <3>1
    <3>. QED
      BY <1>1, <1>4, <3>1, <3>2, <3>3
  <2>. QED
    BY <2>1, <2>2
<1>9. k \in 1 .. n /\ q \in line[k][1] .. line[k][2]
  BY <1>1, <1>4, <1>7, <1>8
<1>. QED
  BY <1>9 DEF Spans

-----------------------------------------------------------------------------
(* Every step keeps the lines.                                               *)

LEMMA LinesPrimed ==
    (\A s \in Stream : KeepsLines(s, cb', buffers', out'[s], pieces'[s], from'[s], rd'[s]))
        => LinesSpan'
  BY DEF LinesSpan, KeepsLines, BufferSpans, LineSpans, Position, CallingFor, SigchldRuns,
         Pending, Spans, Stream, Last

(* The text of a stream, what has been read of it and the pieces of it.      *)
LEMMA StreamTypes ==
    ASSUME Base, NEW s \in Stream
    PROVE  /\ out[s] \in Text /\ Len(out[s]) \in Nat
           /\ rd[s] \in Nat /\ rd[s] <= Len(out[s]) /\ from[s] \in Nat /\ atDeath[s] \in Nat
           /\ pieces[s] \in Seq(Piece)
           /\ cb \in Callbacks /\ cb.todo \in Seq(Step) /\ cb.line \in Seq(Piece)
           /\ cb.calling \in BOOLEAN
<1>1. out[s] \in Text
  BY DEF Base, TypeOK, Text
<1>2. Len(out[s]) \in Nat
  BY <1>1 DEF Text
<1>3. cb \in Callbacks
  BY DEF Base, CallbackShaped, Shaped
<1>. QED
  BY <1>1, <1>2, <1>3 DEF Base, TypeOK, Callbacks

(* A stream without a buffer and without a handler.                          *)
LEMMA NothingToKeep ==
    ASSUME NEW s, NEW c, NEW bufs, s \notin bufs, ~CallingFor(c, s)
    PROVE  \A o, txt, a, r : KeepsLines(s, c, bufs, o, txt, a, r)
  BY DEF KeepsLines, BufferSpans, LineSpans

(* The same callback goes on, and more may have been written.                *)
LEMMA KeptLines ==
    ASSUME NEW s \in Stream, NEW c, NEW d, NEW bufs, NEW bufs2, NEW o \in Text, NEW p,
           NEW txt \in Seq(Piece), NEW txt2, NEW a, NEW r,
           c.line \in Seq(Piece),
           KeepsLines(s, c, bufs, o, txt, a, r), Grown(o, p),
           d.todo = c.todo, d.chunk = c.chunk, d.calling = c.calling, d.line = c.line,
           s \in bufs2 => s \in bufs \/ CallingFor(c, s),
           txt2 = txt \/ (txt2 = <<>> /\ s \notin bufs2),
           CallingFor(c, s) /\ Head(c.todo)[1] = "drain" =>
               c.chunk[1] \in Nat /\ c.chunk[1] - 1 <= Len(o)
    PROVE  KeepsLines(s, d, bufs2, p, txt2, a, r)
<1>1. /\ CallingFor(d, s) <=> CallingFor(c, s)
      /\ SigchldRuns(d) <=> SigchldRuns(c)
      /\ Pending(d, <<"rest", s>>) <=> Pending(c, <<"rest", s>>)
      /\ Position(s, d, r) = Position(s, c, r)
  BY DEF CallingFor, SigchldRuns, Pending, Position
<1>2. BufferSpans(s, d, bufs2, p, txt2, a, r)
  <2>1. SUFFICES ASSUME s \in bufs2, ~CallingFor(c, s),
                        SigchldRuns(c) => Pending(c, <<"rest", s>>)
                 PROVE  Spans(p, txt, a, Position(s, c, r))
    BY <1>1 DEF BufferSpans
  <2>2. Spans(o, txt, a, Position(s, c, r))
    BY <2>1 DEF KeepsLines, BufferSpans
  <2>. QED
    BY <2>2, SpansGrow
<1>3. LineSpans(s, d, p, txt2, a, r)
  <2>1. SUFFICES ASSUME CallingFor(c, s)
                 PROVE  LineSpans(s, d, p, txt2, a, r)
    BY <1>1 DEF LineSpans
  <2>2. txt = <<>> /\ txt2 = <<>>
    BY <2>1 DEF KeepsLines, LineSpans
  <2>3. ASSUME Head(c.todo)[1] = "drain"
        PROVE  /\ c.chunk[1] >= 2 /\ Spans(p, c.line, a, c.chunk[1] - 2)
               /\ p[c.chunk[1] - 1] = "newline"
    <3>1. /\ c.chunk[1] >= 2 /\ Spans(o, c.line, a, c.chunk[1] - 2)
          /\ o[c.chunk[1] - 1] = "newline" /\ c.chunk[1] - 1 <= Len(o)
          /\ c.chunk[1] \in Nat
      BY <2>1, <2>3 DEF KeepsLines, LineSpans
    <3>2. Spans(p, c.line, a, c.chunk[1] - 2)
      BY <3>1, SpansGrow
    <3>3. c.chunk[1] - 1 \in 1 .. Len(o)
      <4>1. Len(o) \in Nat
        BY DEF Text
      <4>. QED
        BY <3>1, <4>1
    <3>. QED
      BY <3>1, <3>2, <3>3 DEF Grown
  <2>4. ASSUME Head(c.todo)[1] = "rest"
        PROVE  Spans(p, c.line, a, r)
    BY <2>1, <2>4, SpansGrow DEF KeepsLines, LineSpans
  <2>. QED
    BY <2>2, <2>3, <2>4 DEF LineSpans
<1>. QED
  BY <1>2, <1>3 DEF KeepsLines

LEMMA Unwritten ==
    ASSUME Base, NEW s \in Stream
    PROVE  Grown(out[s], out[s])
  BY StreamTypes DEF Grown

(* The end of a line is a position of the stream.                            *)
LEMMA ChunkInText ==
    ASSUME Base, NEW s \in Stream, CallingFor(cb, s), Head(cb.todo)[1] = "drain"
    PROVE  cb.chunk[1] \in Nat /\ cb.chunk[1] - 1 <= Len(out[s])
<1>1. cb.calling /\ Head(cb.todo)[2] = s
  BY DEF CallingFor
<1>2. cb.chunk # <<>> /\ ChunkRead(cb, buffers, rd) /\ cb \in Callbacks
  BY <1>1, CallingFacts
<1>3. cb.chunk[1] \in Nat /\ cb.chunk[2] \in Nat
  BY <1>2 DEF Callbacks, Piece
<1>4. cb.chunk[2] = rd[s] /\ cb.chunk[1] <= cb.chunk[2] + 1
  BY <1>1, <1>2 DEF ChunkRead
<1>. QED
  BY <1>3, <1>4, StreamTypes

(* The callback that runs stays at its step.                                 *)
LEMMA SameStep ==
    ASSUME Base, LinesSpan, NEW s \in Stream, NEW d, NEW bufs, NEW p, NEW txt,
           Grown(out[s], p),
           d.todo = cb.todo, d.chunk = cb.chunk, d.calling = cb.calling, d.line = cb.line,
           s \in bufs => s \in buffers \/ CallingFor(cb, s),
           txt = pieces[s] \/ (txt = <<>> /\ s \notin bufs)
    PROVE  KeepsLines(s, d, bufs, p, txt, from[s], rd[s])
<1>1. KeepsLines(s, cb, buffers, out[s], pieces[s], from[s], rd[s])
  BY DEF LinesSpan
<1>. QED
  BY <1>1, StreamTypes, ChunkInText, KeptLines

(* A step is over that did not take lines from the stream.                   *)
LEMMA StepOverLines ==
    ASSUME Base, LinesSpan, NEW s \in Stream, cb.todo # <<>>, Head(cb.todo)[1] # "end",
           ~CallingFor(cb, s), Position(s, cb, rd[s]) = rd[s],
           NEW bufs, s \in bufs => s \in buffers
    PROVE  KeepsLines(s, StepDone, bufs, out[s], pieces[s], from[s], rd[s])
<1>1. KeepsLines(s, cb, buffers, out[s], pieces[s], from[s], rd[s])
  BY DEF LinesSpan
<1>2. cb.todo \in Seq(Step) /\ Ordered(cb.todo)
  BY DEF Base, CallbackShaped, Shaped, Callbacks
<1>3. StepDone.todo = Tail(cb.todo) /\ StepDone.chunk = <<>> /\ ~StepDone.calling
  BY StepDoneFacts DEF Base
<1>4. ~CallingFor(StepDone, s) /\ Position(s, StepDone, rd[s]) = rd[s]
  BY <1>3 DEF CallingFor, Position
<1>5. Pending(StepDone, <<"rest", s>>) => Pending(cb, <<"rest", s>>)
  BY <1>2, <1>3, TailFacts DEF Pending
<1>6. SigchldRuns(StepDone) <=> SigchldRuns(cb)
  <2>1. CASE Tail(cb.todo) = <<>>
    BY <1>2, <1>3, <2>1, TailFacts DEF SigchldRuns
  <2>2. CASE Tail(cb.todo) # <<>>
    BY <1>2, <1>3, <2>2, TailFacts DEF SigchldRuns
  <2>. QED
    BY <2>1, <2>2
<1>. QED
  BY <1>1, <1>4, <1>5, <1>6 DEF KeepsLines, BufferSpans, LineSpans

(* What SetObject leaves, be the object freed or not.                        *)
LEMMA SettlesLines ==
    ASSUME Base, NEW h, NEW r, NEW w, NEW sig, NEW bufs, NEW txt, NEW c,
           SetObject(h, r, w, sig, bufs, txt, c),
           \A s \in Stream : KeepsLines(s, c, bufs, out'[s], txt[s], from'[s], rd'[s])
    PROVE  LinesSpan'
<1>. DEFINE dies == object = "live" /\ ~Referenced(h, r, w, c)
<1>1. /\ cb' = c
      /\ buffers' = IF dies THEN {} ELSE bufs
      /\ pieces' = IF dies THEN [s \in Stream |-> <<>>] ELSE txt
  BY DEF SetObject
<1>2. dies => c = NoCallback
  BY DEF Referenced
<1>. HIDE DEF dies
<1>3. CASE dies
  <2>1. \A s \in Stream : s \notin buffers' /\ ~CallingFor(cb', s)
    BY <1>1, <1>2, <1>3, NoCallbackFacts DEF CallingFor
  <2>. QED
    BY <2>1, NothingToKeep, LinesPrimed
<1>4. CASE ~dies
  BY <1>1, <1>4, LinesPrimed
<1>. QED
  BY <1>3, <1>4

LEMMA InitLines == Init => LinesSpan
<1>. SUFFICES ASSUME Init, NEW s \in Stream
              PROVE  KeepsLines(s, cb, buffers, out[s], pieces[s], from[s], rd[s])
  BY DEF LinesSpan
<1>1. s \notin buffers /\ cb = NoCallback
  BY DEF Init
<1>. QED
  BY <1>1, NothingToKeep, NoCallbackFacts DEF CallingFor

LEMMA QuietLines ==
    ASSUME Base, LinesSpan, UNCHANGED <<cb, buffers, pieces, from, rd>>,
           \A s \in Stream : Grown(out[s], out'[s])
    PROVE  LinesSpan'
<1>1. ASSUME NEW s \in Stream
      PROVE  KeepsLines(s, cb', buffers', out'[s], pieces'[s], from'[s], rd'[s])
  <2>1. Grown(out[s], out'[s])
    OBVIOUS
  <2>2. KeepsLines(s, cb, buffers, out'[s], pieces[s], from[s], rd[s])
    BY <2>1, SameStep
  <2>. QED
    BY <2>2
<1>. QED
  BY <1>1, LinesPrimed

LEMMA WrittenMore ==
    ASSUME Base, NEW t \in Stream, NEW c \in {"text", "newline"}, Write(t, c)
    PROVE  \A s \in Stream : /\ Grown(out[s], out'[s])
                             /\ s # t => out'[s] = out[s]
<1>1. out' = [out EXCEPT ![t] = Append(@, c)] /\ out \in [Stream -> Seq({"text", "newline"})]
  BY DEF Write, Base, TypeOK
<1>2. ASSUME NEW s \in Stream
      PROVE  Grown(out[s], out'[s])
  <2>1. CASE s = t
    <3>1. out[s] \in Text /\ out'[s] = Append(out[s], c)
      BY <1>1, <2>1, StreamTypes
    <3>2. /\ Append(out[s], c) \in Text /\ Len(Append(out[s], c)) = Len(out[s]) + 1
          /\ \A i \in 1 .. Len(out[s]) : Append(out[s], c)[i] = out[s][i]
      BY <3>1 DEF Text
    <3>. QED
      BY <3>1, <3>2, StreamTypes DEF Grown
  <2>2. CASE s # t
    BY <1>1, <2>2, Unwritten
  <2>. QED
    BY <2>1, <2>2
<1>. QED
  BY <1>1, <1>2

LEMMA ProcessLines ==
    ASSUME Base, LinesSpan,
           Process \/ Reap \/ (\E ignore \in BOOLEAN : Run(ignore)) \/ UNCHANGED vars
    PROVE  LinesSpan'
<1>1. ASSUME NEW t \in Stream, NEW c \in {"text", "newline"}, Write(t, c)
      PROVE  LinesSpan'
  <2>1. UNCHANGED <<cb, buffers, pieces, from, rd>>
    BY <1>1 DEF Write, objectVars
  <2>. QED
    BY <1>1, <2>1, WrittenMore, QuietLines
<1>2. CASE UNCHANGED <<cb, buffers, pieces, from, rd, out>>
  BY <1>2, Unwritten, QuietLines
<1>. QED
  BY <1>1, <1>2 DEF Process, Close, Die, Reap, Run, objectVars, vars

LEMMA ListenLines ==
    ASSUME Base, LinesSpan, StopsBeforeExit, NEW x \in Sig, Listen(x)
    PROVE  LinesSpan'
<1>1. UserCode /\ ~exited /\ out' = out
  BY DEF Listen, StopsBeforeExit, external
<1>2. /\ AfterOp.todo = cb.todo /\ AfterOp.chunk = cb.chunk
      /\ AfterOp.calling = cb.calling /\ AfterOp.line = cb.line
  BY <1>1, AfterOpFacts DEF Base
<1>3. CASE x \in Stream /\ ListenOutput(x)
  <2>. DEFINE txt == [pieces EXCEPT ![x] = <<>>]
  <2>1. /\ SetObject(held, root, watching \cup {x}, signals \cup {x}, buffers \cup {x}, txt,
                     AfterOp)
        /\ from' = [from EXCEPT ![x] = ReadFrom(x)] /\ rd' = rd
    BY <1>1, <1>3 DEF ListenOutput
  <2>2. /\ txt[x] = <<>> /\ from'[x] = ReadFrom(x)
        /\ \A s \in Stream : s # x => txt[s] = pieces[s] /\ from'[s] = from[s]
    BY <1>3, <2>1 DEF Base, TypeOK
  <2>. HIDE DEF txt
  <2>3. KeepsLines(x, AfterOp, buffers \cup {x}, out[x], <<>>, ReadFrom(x), rd[x])
    <3>1. CASE CallingFor(cb, x)
      <4>1. ReadFrom(x) = from[x] /\ pieces[x] = <<>>
        BY <1>3, <3>1 DEF ReadFrom, CallingFor, LinesSpan, KeepsLines, LineSpans
      <4>2. KeepsLines(x, AfterOp, buffers \cup {x}, out[x], pieces[x], from[x], rd[x])
        BY <1>2, <1>3, <3>1, Unwritten, SameStep
      <4>. QED
        BY <4>1, <4>2
    <3>2. CASE ~CallingFor(cb, x)
      <4>1. ReadFrom(x) = rd[x] /\ ~CallingFor(AfterOp, x)
        BY <1>2, <3>2 DEF ReadFrom, CallingFor
      <4>2. Position(x, AfterOp, rd[x]) = rd[x]
        BY <1>1, <1>2, <3>2, NoCallbackFacts DEF Position, CallingFor, UserCode
      <4>3. Spans(out[x], <<>>, rd[x], rd[x])
        BY <1>3, StreamTypes, SpansEmpty
      <4>. QED
        BY <4>1, <4>2, <4>3 DEF KeepsLines, BufferSpans, LineSpans
    <3>. QED
      BY <3>1, <3>2
  <2>4. ASSUME NEW s \in Stream, s # x
        PROVE  KeepsLines(s, AfterOp, buffers \cup {x}, out[s], pieces[s], from[s], rd[s])
    BY <1>2, <2>4, Unwritten, SameStep
  <2>5. \A s \in Stream :
          KeepsLines(s, AfterOp, buffers \cup {x}, out'[s], txt[s], from'[s], rd'[s])
    BY <1>1, <2>1, <2>2, <2>3, <2>4
  <2>. QED
    BY <2>1, <2>5, SettlesLines
<1>4. CASE (x \in Stream /\ ListenIgnored(x)) \/ (x = "exit" /\ ListenExit)
  <2>1. /\ \E r, sig : SetObject(held, r, watching, sig, buffers, pieces, AfterOp)
        /\ from' = from /\ rd' = rd
    BY <1>1, <1>4 DEF ListenIgnored, ListenExit
  <2>2. \A s \in Stream : KeepsLines(s, AfterOp, buffers, out'[s], pieces[s], from'[s], rd'[s])
    BY <1>1, <1>2, <2>1, Unwritten, SameStep
  <2>. QED
    BY <2>1, <2>2, SettlesLines
<1>. QED
  BY <1>3, <1>4 DEF Listen

LEMMA StopLines ==
    ASSUME Base, LinesSpan, NEW x \in Sig, Stop(x)
    PROVE  LinesSpan'
<1>1. UserCode /\ out' = out
  BY DEF Stop, external
<1>2. /\ AfterOp.todo = cb.todo /\ AfterOp.chunk = cb.chunk
      /\ AfterOp.calling = cb.calling /\ AfterOp.line = cb.line
      /\ \A bufs : Shaped(AfterOp, bufs, rd)
  BY <1>1, AfterOpFacts DEF Base
<1>3. object = "live" /\ heard' \subseteq Sig /\ {x} \in SUBSET Sig
  BY ServesNow DEF Stop, Serves, OtherTypes
<1>. DEFINE txt == [s \in Stream |-> IF s \in {x} THEN <<>> ELSE pieces[s]]
<1>4. /\ SetObject(held, root /\ "exit" \notin {x}, watching \ {x}, signals \ {x}, buffers \ {x},
                   txt, AfterOp)
      /\ UNCHANGED <<rd, from, flags>>
  BY <1>2, <1>3, DeleteBase DEF Stop
<1>5. ASSUME NEW s \in Stream
      PROVE  KeepsLines(s, AfterOp, buffers \ {x}, out'[s], txt[s], from'[s], rd'[s])
  <2>1. txt[s] = pieces[s] \/ (txt[s] = <<>> /\ s \notin buffers \ {x})
    OBVIOUS
  <2>. HIDE DEF txt
  <2>. QED
    BY <1>1, <1>2, <1>4, <2>1, Unwritten, SameStep
<1>. HIDE DEF txt
<1>. QED
  BY <1>4, <1>5, SettlesLines

LEMMA LetGoLines ==
    ASSUME Base, LinesSpan, Drop \/ Exit
    PROVE  LinesSpan'
<1>1. UserCode /\ out' = out /\ from' = from /\ rd' = rd
  BY DEF Drop, Exit, external
<1>2. /\ AfterOp.todo = cb.todo /\ AfterOp.chunk = cb.chunk
      /\ AfterOp.calling = cb.calling /\ AfterOp.line = cb.line
  BY <1>1, AfterOpFacts DEF Base
<1>3. \E h, r, w : SetObject(h, r, w, signals, buffers, pieces, AfterOp)
  BY DEF Drop, Exit
<1>4. \A s \in Stream : KeepsLines(s, AfterOp, buffers, out'[s], pieces[s], from'[s], rd'[s])
  BY <1>1, <1>2, Unwritten, SameStep
<1>. QED
  BY <1>3, <1>4, SettlesLines

LEMMA BeginLines ==
    ASSUME Base, LinesSpan, Sigchld \/ \E s \in Stream : OutputReady(s)
    PROVE  LinesSpan'
<1>1. /\ cb = NoCallback /\ buffers' = buffers /\ pieces' = pieces
      /\ out' = out /\ from' = from /\ rd' = rd
      /\ \E todo \in Seq(Step) : Ordered(todo) /\ cb' = [NoCallback EXCEPT !.todo = todo]
  <2>1. CASE Sigchld
    BY <2>1, BeginFacts DEF Sigchld, objectVars, external
  <2>2. ASSUME NEW s \in Stream, OutputReady(s)
        PROVE  <1>1!:
    <3>1. object = "live" /\ s \in buffers
      BY <2>2, ServesNow DEF OutputReady, Serves
    <3>. QED
      BY <2>2, <3>1, BeginFacts DEF OutputReady, objectVars, external
  <2>. QED
    BY <2>1, <2>2
<1>2. cb'.chunk = <<>> /\ ~cb'.calling
  BY <1>1, FreshStep
<1>3. ASSUME NEW s \in Stream
      PROVE  KeepsLines(s, cb', buffers, out[s], pieces[s], from[s], rd[s])
  <2>1. KeepsLines(s, cb, buffers, out[s], pieces[s], from[s], rd[s])
    BY DEF LinesSpan
  <2>2. ~CallingFor(cb, s) /\ ~SigchldRuns(cb) /\ Position(s, cb, rd[s]) = rd[s]
    BY <1>1, NoCallbackFacts DEF CallingFor, SigchldRuns, Position
  <2>3. ~CallingFor(cb', s) /\ Position(s, cb', rd[s]) = rd[s]
    BY <1>2 DEF CallingFor, Position
  <2>. QED
    BY <2>1, <2>2, <2>3 DEF KeepsLines, BufferSpans, LineSpans
<1>. QED
  BY <1>1, <1>3, LinesPrimed

(* While a stream is drained, its rest is still to come.                     *)
LEMMA RestToCome ==
    ASSUME Base, NEW s \in Stream, cb.todo # <<>>, Head(cb.todo) = <<"drain", s>>
    PROVE  SigchldRuns(cb) => Pending(cb, <<"rest", s>>)
<1>1. cb.todo \in Seq(Step) /\ Ordered(cb.todo)
  BY DEF Base, CallbackShaped, Shaped, Callbacks
<1>2. 1 \in DOMAIN cb.todo /\ cb.todo[1] = <<"drain", s>>
  BY <1>1
<1>. QED
  BY <1>1, <1>2 DEF Ordered, SigchldRuns, Pending

(* What is in the buffer when output_handler or sigchld_handler looks at it. *)
LEMMA BufferAt ==
    ASSUME Base, LinesSpan, NEW s \in Stream, NEW step \in {"drain", "rest"}, At(step, s),
           s \in buffers
    PROVE  Spans(out[s], pieces[s], from[s], Position(s, cb, rd[s]))
<1>1. cb.todo # <<>> /\ Head(cb.todo) = <<step, s>> /\ ~cb.calling /\ cb \in Callbacks
  BY AtFacts
<1>2. cb.todo \in Seq(Step)
  BY <1>1 DEF Callbacks
<1>3. 1 \in DOMAIN cb.todo /\ cb.todo[1] = <<step, s>>
  BY <1>1, <1>2
<1>4. SigchldRuns(cb) => Pending(cb, <<"rest", s>>)
  BY <1>1, <1>3, RestToCome DEF Pending
<1>. QED
  BY <1>1, <1>4 DEF LinesSpan, KeepsLines, BufferSpans, CallingFor

LEMMA ReadChunkLines ==
    ASSUME Base, LinesSpan, NEW s \in Stream, ReadChunk(s)
    PROVE  LinesSpan'
<1>1. At("drain", s) /\ out' = out /\ cb.chunk = <<>>
  BY DEF ReadChunk, external
<1>2. /\ object = "live" /\ cb.todo # <<>> /\ Head(cb.todo) = <<"drain", s>>
      /\ Head(cb.todo)[2] = s /\ Head(cb.todo)[1] = "drain" /\ cb \in Callbacks /\ ~cb.calling
      /\ Ordered(cb.todo)
  BY <1>1, AtFacts
<1>3. \A t \in Stream : ~CallingFor(cb, t) /\ Position(t, cb, rd[t]) = rd[t]
  BY <1>1, <1>2 DEF CallingFor, Position
<1>4. \A bufs \in SUBSET buffers, t \in Stream :
        KeepsLines(t, StepDone, bufs, out[t], pieces[t], from[t], rd[t])
  BY <1>2, <1>3, StepOverLines
<1>5. CASE /\ s \in buffers /\ rd[s] < Len(out[s])
           /\ rd' = [rd EXCEPT ![s] = ChunkEnd(s)]
           /\ cb' = [cb EXCEPT !.chunk = <<rd[s] + 1, ChunkEnd(s)>>]
           /\ UNCHANGED <<pieces, childw, from, heard, objectVars, flags>>
  <2>1. /\ cb'.todo = cb.todo /\ cb'.chunk = <<rd[s] + 1, ChunkEnd(s)>>
        /\ ~cb'.calling
    BY <1>2, <1>5 DEF Callbacks
  <2>2. buffers' = buffers /\ pieces' = pieces /\ from' = from
    BY <1>5 DEF objectVars
  <2>3. ASSUME NEW t \in Stream
        PROVE  KeepsLines(t, cb', buffers, out[t], pieces[t], from[t], rd'[t])
    <3>1. KeepsLines(t, cb, buffers, out[t], pieces[t], from[t], rd[t])
      BY DEF LinesSpan
    <3>2. Position(t, cb', rd'[t]) = rd[t]
      <4>1. CASE t = s
        <5>1. cb'.chunk # <<>> /\ cb'.chunk[1] = rd[s] + 1 /\ rd[s] \in Nat
          BY <2>1, StreamTypes
        <5>2. cb'.chunk[1] - 1 = rd[s]
          BY <5>1
        <5>. QED
          BY <1>2, <2>1, <4>1, <5>1, <5>2 DEF Position
      <4>2. CASE t # s
        BY <1>2, <1>5, <2>1, <4>2 DEF Position, Base, TypeOK
      <4>. QED
        BY <4>1, <4>2
    <3>3. /\ ~CallingFor(cb', t) /\ (SigchldRuns(cb') <=> SigchldRuns(cb))
          /\ Pending(cb', <<"rest", t>>) <=> Pending(cb, <<"rest", t>>)
      BY <2>1 DEF CallingFor, SigchldRuns, Pending
    <3>. QED
      BY <1>3, <3>1, <3>2, <3>3 DEF KeepsLines, BufferSpans, LineSpans
  <2>. QED
    BY <1>1, <2>2, <2>3, LinesPrimed
<1>6. CASE /\ SetObject(held, root, watching, signals, buffers, pieces, StepDone)
           /\ UNCHANGED <<rd, childw, from, heard, flags>>
  <2>1. \A t \in Stream : KeepsLines(t, StepDone, buffers, out'[t], pieces[t], from'[t], rd'[t])
    BY <1>1, <1>4, <1>6
  <2>. QED
    BY <1>6, <2>1, SettlesLines
<1>7. CASE DeleteSignals({s}, StepDone) /\ UNCHANGED heard
  <2>1. {s} \in SUBSET Sig /\ heard' \subseteq Sig /\ \A bufs : Shaped(StepDone, bufs, rd)
        /\ ~StepDone.calling /\ UNCHANGED external
    BY <1>2, <1>7, ServesNow, StepDoneFacts DEF Sig, OtherTypes, Base, ReadChunk
  <2>. DEFINE txt == [t \in Stream |-> IF t \in {s} THEN <<>> ELSE pieces[t]]
  <2>2. /\ SetObject(held, root /\ "exit" \notin {s}, watching \ {s}, signals \ {s},
                     buffers \ {s}, txt, StepDone)
        /\ UNCHANGED <<rd, from, flags>>
    BY <1>2, <1>7, <2>1, DeleteBase
  <2>3. ASSUME NEW t \in Stream
        PROVE  KeepsLines(t, StepDone, buffers \ {s}, out'[t], txt[t], from'[t], rd'[t])
    <3>1. CASE t = s
      <4>1. t \notin buffers \ {s} /\ ~CallingFor(StepDone, t)
        BY <2>1, <3>1 DEF CallingFor
      <4>. QED
        BY <4>1, NothingToKeep
    <3>2. CASE t # s
      <4>1. txt[t] = pieces[t]
        BY <3>2
      <4>2. KeepsLines(t, StepDone, buffers \ {s}, out[t], pieces[t], from[t], rd[t])
        BY <1>4
      <4>. QED
        BY <1>1, <2>2, <4>1, <4>2
    <3>. QED
      BY <3>1, <3>2
  <2>. HIDE DEF txt
  <2>. QED
    BY <2>2, <2>3, SettlesLines
<1>. QED
  BY <1>5, <1>6, <1>7 DEF ReadChunk

(* A step of one stream leaves the lines of the other alone.                 *)
LEMMA OtherLines ==
    ASSUME Base, LinesSpan, NEW s \in Stream, cb.todo # <<>>, Head(cb.todo)[2] # s,
           NEW d, d.todo = cb.todo
    PROVE  KeepsLines(s, d, buffers, out[s], pieces[s], from[s], rd[s])
<1>1. KeepsLines(s, cb, buffers, out[s], pieces[s], from[s], rd[s])
  BY DEF LinesSpan
<1>2. ~CallingFor(cb, s) /\ ~CallingFor(d, s)
  BY DEF CallingFor
<1>3. Position(s, cb, rd[s]) = rd[s] /\ Position(s, d, rd[s]) = rd[s]
  BY DEF Position
<1>4. /\ SigchldRuns(d) <=> SigchldRuns(cb)
      /\ Pending(d, <<"rest", s>>) <=> Pending(cb, <<"rest", s>>)
  BY DEF SigchldRuns, Pending
<1>. QED
  BY <1>1, <1>2, <1>3, <1>4 DEF KeepsLines, BufferSpans, LineSpans

LEMMA EmitLineLines ==
    ASSUME Base, LinesSpan, NEW s \in Stream, EmitLine(s)
    PROVE  LinesSpan'
<1>. DEFINE eol == Min(Newlines(s, cb.chunk))
<1>1. /\ s \in buffers /\ cb.chunk \in Piece
      /\ eol \in Nat /\ cb.chunk[1] <= eol /\ eol <= cb.chunk[2]
      /\ cb.chunk[1] >= 1 /\ cb.chunk[2] = rd[s]
      /\ cb'.todo = cb.todo /\ cb'.calling = TRUE
      /\ cb'.line = LineUpTo(s, eol) /\ cb'.chunk = <<eol + 1, cb.chunk[2]>>
      /\ pieces' = [pieces EXCEPT ![s] = <<>>]
      /\ UNCHANGED <<rd, from, buffers, out>>
  BY EmitLineFacts DEF objectVars, external
<1>2. out[s][eol] = "newline" /\ \A p \in cb.chunk[1] .. eol - 1 : out[s][p] # "newline"
  <2>1. Newlines(s, cb.chunk) # {}
    BY DEF EmitLine, HasLine
  <2>. QED
    BY <1>1, <2>1, NewlinesIn
<1>. HIDE DEF eol
<1>3. /\ At("drain", s) /\ cb.todo # <<>> /\ Head(cb.todo)[1] = "drain" /\ Head(cb.todo)[2] = s
      /\ cb.chunk # <<>>
  BY AtFacts DEF EmitLine, HasLine
<1>4. cb.chunk[1] \in Nat /\ cb.chunk[2] \in Nat
  BY <1>1 DEF Piece
<1>5. Spans(out[s], pieces[s], from[s], cb.chunk[1] - 1)
  BY <1>1, <1>3, BufferAt DEF Position
<1>6. Spans(out[s], LineUpTo(s, eol), from[s], eol - 1)
  <2>1. /\ eol - 1 \in Nat /\ cb.chunk[1] - 1 <= eol - 1 /\ eol - 1 <= Len(out[s])
        /\ (cb.chunk[1] - 1) + 1 = cb.chunk[1]
    BY <1>1, <1>4, StreamTypes
  <2>2. Spans(out[s], Append(pieces[s], <<(cb.chunk[1] - 1) + 1, eol - 1>>), from[s], eol - 1)
    BY <1>2, <1>5, <2>1, StreamTypes, SpansAppend
  <2>. QED
    BY <2>1, <2>2 DEF LineUpTo
<1>7. pieces'[s] = <<>> /\ \A t \in Stream : t # s => pieces'[t] = pieces[t]
  BY <1>1, NoPieces DEF Base, TypeOK
<1>8. cb'.chunk[1] >= 2 /\ cb'.chunk[1] - 2 = eol - 1 /\ cb'.chunk[1] - 1 = eol
  <2>1. cb'.chunk[1] = eol + 1
    BY <1>1
  <2>. QED
    BY <1>1, <1>4, <2>1
<1>9. KeepsLines(s, cb', buffers, out[s], pieces'[s], from[s], rd[s])
  BY <1>1, <1>2, <1>3, <1>6, <1>7, <1>8 DEF KeepsLines, BufferSpans, LineSpans, CallingFor
<1>10. ASSUME NEW t \in Stream, t # s
       PROVE  KeepsLines(t, cb', buffers, out[t], pieces'[t], from[t], rd[t])
  BY <1>1, <1>3, <1>7, <1>10, OtherLines
<1>. QED
  BY <1>1, <1>9, <1>10, LinesPrimed

LEMMA PushRestLines ==
    ASSUME Base, LinesSpan, NEW s \in Stream, PushRest(s)
    PROVE  LinesSpan'
<1>1. /\ At("drain", s) /\ cb.chunk # <<>> /\ Newlines(s, cb.chunk) = {}
      /\ pieces' = [pieces EXCEPT ![s] = Append(@, cb.chunk)]
      /\ cb' = [cb EXCEPT !.chunk = <<>>]
      /\ UNCHANGED <<rd, from, buffers, out>>
  BY DEF PushRest, HasLine, objectVars, external
<1>2. /\ cb.todo # <<>> /\ Head(cb.todo)[1] = "drain" /\ Head(cb.todo)[2] = s /\ ~cb.calling
      /\ cb \in Callbacks /\ ChunkRead(cb, buffers, rd)
  BY <1>1, AtFacts
<1>3. cb'.todo = cb.todo /\ cb'.chunk = <<>> /\ ~cb'.calling
  BY <1>1, <1>2 DEF Callbacks
<1>4. /\ s \in buffers /\ cb.chunk \in Piece /\ cb.chunk[2] = rd[s]
      /\ 1 <= cb.chunk[1] /\ cb.chunk[1] <= cb.chunk[2] + 1
  BY <1>1, <1>2 DEF ChunkRead, Callbacks
<1>5. cb.chunk[1] \in Nat /\ cb.chunk[2] \in Nat /\ cb.chunk = <<cb.chunk[1], cb.chunk[2]>>
  BY <1>4 DEF Piece
<1>6. Spans(out[s], pieces[s], from[s], cb.chunk[1] - 1)
  BY <1>1, <1>2, <1>4, BufferAt DEF Position
<1>7. Spans(out[s], Append(pieces[s], cb.chunk), from[s], rd[s])
  <2>1. /\ cb.chunk[1] - 1 <= rd[s] /\ rd[s] <= Len(out[s]) /\ rd[s] \in Nat
        /\ (cb.chunk[1] - 1) + 1 = cb.chunk[1]
    BY <1>4, <1>5, StreamTypes
  <2>2. \A p \in cb.chunk[1] .. rd[s] : out[s][p] # "newline"
    BY <1>1, <1>4 DEF Newlines
  <2>3. Spans(out[s], Append(pieces[s], <<(cb.chunk[1] - 1) + 1, rd[s]>>), from[s], rd[s])
    BY <1>6, <2>1, <2>2, StreamTypes, SpansAppend
  <2>. QED
    BY <1>4, <1>5, <2>1, <2>3
<1>8. pieces'[s] = Append(pieces[s], cb.chunk)
      /\ \A t \in Stream : t # s => pieces'[t] = pieces[t]
  BY <1>1 DEF Base, TypeOK
<1>9. KeepsLines(s, cb', buffers, out[s], pieces'[s], from[s], rd[s])
  BY <1>3, <1>7, <1>8 DEF KeepsLines, BufferSpans, LineSpans, CallingFor, Position
<1>10. ASSUME NEW t \in Stream, t # s
       PROVE  KeepsLines(t, cb', buffers, out[t], pieces'[t], from[t], rd[t])
  BY <1>2, <1>3, <1>8, <1>10, OtherLines
<1>. QED
  BY <1>1, <1>9, <1>10, LinesPrimed

(* A step is over, and the object is as it was.                              *)
LEMMA StepOverQuiet ==
    ASSUME Base, LinesSpan, cb.todo # <<>>, Head(cb.todo)[1] # "end", ~cb.calling,
           cb.chunk = <<>>, cb' = StepDone, UNCHANGED <<rd, pieces, from, buffers, out>>
    PROVE  LinesSpan'
<1>1. \A s \in Stream : ~CallingFor(cb, s) /\ Position(s, cb, rd[s]) = rd[s]
  BY DEF CallingFor, Position
<1>2. \A s \in Stream : KeepsLines(s, StepDone, buffers, out[s], pieces[s], from[s], rd[s])
  BY <1>1, StepOverLines
<1>. QED
  BY <1>2, LinesPrimed

LEMMA EmitRestLines ==
    ASSUME Base, LinesSpan, NEW s \in Stream, EmitRest(s)
    PROVE  LinesSpan'
<1>1. At("rest", s) /\ UNCHANGED <<rd, from, buffers, out>>
  BY DEF EmitRest, objectVars, external
<1>2. /\ cb \in Callbacks /\ ~cb.calling /\ cb.todo # <<>> /\ object = "live"
      /\ Head(cb.todo)[1] = "rest" /\ Head(cb.todo)[2] = s /\ cb.chunk = <<>>
  BY <1>1, AtFacts DEF ChunkRead
<1>3. CASE s \in buffers /\ pieces[s] # <<>>
  <2>1. cb' = Call(s, pieces[s]) /\ pieces' = [pieces EXCEPT ![s] = <<>>]
    BY <1>3 DEF EmitRest
  <2>2. s \in signals /\ pieces[s] \in Seq(Piece) /\ cb \in Callbacks
    BY <1>2, <1>3, ServesNow DEF Serves
  <2>3. cb'.todo = cb.todo /\ cb'.line = pieces[s] /\ cb'.calling = TRUE
    BY <2>1, <2>2, CallFacts
  <2>4. Spans(out[s], pieces[s], from[s], rd[s])
    BY <1>1, <1>2, <1>3, BufferAt DEF Position
  <2>5. pieces'[s] = <<>> /\ \A t \in Stream : t # s => pieces'[t] = pieces[t]
    BY <2>1, NoPieces DEF Base, TypeOK
  <2>6. KeepsLines(s, cb', buffers, out[s], pieces'[s], from[s], rd[s])
    BY <1>2, <2>3, <2>4, <2>5 DEF KeepsLines, BufferSpans, LineSpans, CallingFor
  <2>7. ASSUME NEW t \in Stream, t # s
        PROVE  KeepsLines(t, cb', buffers, out[t], pieces'[t], from[t], rd[t])
    BY <1>2, <2>3, <2>5, <2>7, OtherLines
  <2>. QED
    BY <1>1, <2>6, <2>7, LinesPrimed
<1>4. CASE ~(s \in buffers /\ pieces[s] # <<>>)
  <2>1. cb' = StepDone /\ UNCHANGED pieces
    BY <1>4 DEF EmitRest
  <2>. QED
    BY <1>1, <1>2, <2>1, StepOverQuiet
<1>. QED
  BY <1>3, <1>4

LEMMA EmitExitLines ==
    ASSUME Base, LinesSpan, EmitExit
    PROVE  LinesSpan'
<1>1. At("exit", "exit") /\ UNCHANGED <<rd, pieces, from, buffers, out>>
  BY DEF EmitExit, objectVars, external
<1>2. /\ cb \in Callbacks /\ ~cb.calling /\ cb.todo # <<>>
      /\ Head(cb.todo)[1] = "exit" /\ Head(cb.todo)[2] = "exit" /\ cb.chunk = <<>>
  BY <1>1, AtFacts DEF ChunkRead
<1>3. CASE "exit" \in signals
  <2>1. cb' = Call("exit", <<>>) /\ <<>> \in Seq(Piece) /\ cb \in Callbacks
    BY <1>2, <1>3 DEF EmitExit
  <2>2. cb'.todo = cb.todo
    BY <1>3, <2>1, CallFacts
  <2>3. \A t \in Stream : t # "exit"
    BY DEF Stream
  <2>4. \A t \in Stream : KeepsLines(t, cb', buffers, out[t], pieces[t], from[t], rd[t])
    BY <1>2, <2>2, <2>3, OtherLines
  <2>. QED
    BY <1>1, <2>4, LinesPrimed
<1>4. CASE "exit" \notin signals
  <2>1. cb' = StepDone
    BY <1>4 DEF EmitExit
  <2>. QED
    BY <1>1, <1>2, <2>1, StepOverQuiet
<1>. QED
  BY <1>3, <1>4

LEMMA SigchldEndsLines ==
    ASSUME Base, LinesSpan, SigchldEnds
    PROVE  LinesSpan'
<1>1. object = "live" /\ cb.todo # <<>>
  BY AtFacts DEF SigchldEnds
<1>2. (\A bufs, r : Shaped(StepDone, bufs, r)) /\ ~StepDone.calling
  BY <1>1, StepDoneFacts DEF Base
<1>3. heard' \subseteq Sig /\ Sig \in SUBSET Sig
  BY ServesNow DEF SigchldEnds, OtherTypes
<1>. DEFINE txt == [t \in Stream |-> IF t \in Sig THEN <<>> ELSE pieces[t]]
<1>4. SetObject(held, root /\ "exit" \notin Sig, watching \ Sig, signals \ Sig, buffers \ Sig,
                txt, StepDone)
  BY <1>1, <1>2, <1>3, DeleteBase DEF SigchldEnds
<1>. HIDE DEF txt
<1>5. \A s \in Stream : s \notin buffers \ Sig /\ ~CallingFor(StepDone, s)
  BY <1>2 DEF CallingFor, Sig
<1>. QED
  BY <1>4, <1>5, NothingToKeep, SettlesLines

LEMMA HandlersReturnLines ==
    ASSUME Base, LinesSpan, HandlersReturn
    PROVE  LinesSpan'
<1>. DEFINE s == Head(cb.todo)[2]
<1>1. /\ SetObject(held, root, watching, signals, buffers, pieces, Resumed(s))
      /\ from' = IF s \in signals \cap Stream
                 THEN [from EXCEPT ![s] = LineEnd(cb.line)] ELSE from
      /\ rd' = rd /\ out' = out /\ cb.calling
  BY HandlersReturnFacts DEF external
<1>2. /\ object = "live" /\ cb.todo # <<>> /\ cb \in Callbacks /\ Ordered(cb.todo)
      /\ Head(cb.todo) \in Step /\ Head(cb.todo)[1] # "end" /\ s \in Sig
      /\ Head(cb.todo)[1] \in {"drain", "rest"} <=> cb.line # <<>>
      /\ Head(cb.todo)[1] \in {"drain", "rest"} <=> s \in Stream
      /\ Head(cb.todo)[1] = "drain" => cb.chunk # <<>>
  BY <1>1, CallingFacts
<1>3. /\ ~Resumed(s).calling
      /\ AfterHandlerDone(s) => Resumed(s) = StepDone
      /\ ~AfterHandlerDone(s) => /\ s \in buffers /\ Head(cb.todo)[1] = "drain"
                                 /\ Resumed(s).todo = cb.todo
                                 /\ Resumed(s).chunk = cb.chunk
  BY <1>1, ResumedFacts
<1>4. ASSUME NEW t \in Stream, t # s
      PROVE  KeepsLines(t, Resumed(s), buffers, out[t], pieces[t], from'[t], rd[t])
  <2>1. from'[t] = from[t]
    BY <1>1, <1>4 DEF Base, TypeOK
  <2>2. CASE AfterHandlerDone(s)
    <3>1. ~CallingFor(cb, t) /\ Position(t, cb, rd[t]) = rd[t]
      BY <1>4 DEF CallingFor, Position
    <3>2. KeepsLines(t, StepDone, buffers, out[t], pieces[t], from[t], rd[t])
      BY <1>2, <3>1, StepOverLines
    <3>. QED
      BY <1>3, <2>1, <2>2, <3>2
  <2>3. CASE ~AfterHandlerDone(s)
    <3>1. KeepsLines(t, Resumed(s), buffers, out[t], pieces[t], from[t], rd[t])
      BY <1>2, <1>3, <1>4, <2>3, OtherLines
    <3>. QED
      BY <2>1, <3>1
  <2>. QED
    BY <2>2, <2>3
<1>5. ASSUME s \in Stream
      PROVE  KeepsLines(s, Resumed(s), buffers, out[s], pieces[s], from'[s], rd[s])
  <2>1. CallingFor(cb, s) /\ ~CallingFor(Resumed(s), s)
    BY <1>1, <1>3 DEF CallingFor
  <2>2. CASE Head(cb.todo)[1] = "drain" /\ s \in buffers
    <3>1. ~AfterHandlerDone(s)
      BY <2>2 DEF AfterHandlerDone
    <3>2. /\ pieces[s] = <<>> /\ cb.chunk[1] >= 2
          /\ Spans(out[s], cb.line, from[s], cb.chunk[1] - 2)
      BY <1>5, <2>1, <2>2 DEF LinesSpan, KeepsLines, LineSpans
    <3>3. LineEnd(cb.line) = cb.chunk[1] - 1
      <4>1. cb.line # <<>> /\ cb.line[Len(cb.line)][2] = cb.chunk[1] - 2
        BY <1>2, <2>2, <3>2 DEF Spans
      <4>2. cb.chunk[1] \in Nat
        BY <1>5, <2>1, <2>2, ChunkInText
      <4>. QED
        BY <4>1, <4>2 DEF LineEnd, Last
    <3>4. from'[s] = cb.chunk[1] - 1
      <4>1. s \in signals
        BY <1>2, <2>2, ServesNow DEF Serves
      <4>2. from \in [Stream -> Nat]
        BY DEF Base, TypeOK
      <4>. QED
        BY <1>1, <1>5, <3>3, <4>1, <4>2
    <3>5. Position(s, Resumed(s), rd[s]) = cb.chunk[1] - 1
      BY <1>2, <1>3, <2>2, <3>1 DEF Position
    <3>6. Spans(out[s], <<>>, cb.chunk[1] - 1, cb.chunk[1] - 1)
      <4>1. cb.chunk[1] \in Nat /\ cb.chunk[1] - 1 <= Len(out[s])
        BY <1>5, <2>1, <2>2, ChunkInText
      <4>2. cb.chunk[1] - 1 \in Nat
        BY <3>2, <4>1
      <4>. QED
        BY <1>5, <4>1, <4>2, StreamTypes, SpansEmpty
    <3>. HIDE DEF s
    <3>. QED
      BY <2>1, <3>2, <3>4, <3>5, <3>6 DEF KeepsLines, BufferSpans, LineSpans
  <2>3. CASE s \notin buffers
    BY <2>1, <2>3, NothingToKeep
  <2>4. CASE Head(cb.todo)[1] # "drain"
    <3>1. AfterHandlerDone(s) /\ Resumed(s) = StepDone /\ Head(cb.todo)[1] = "rest"
      BY <1>2, <1>3, <1>5, <2>4 DEF AfterHandlerDone
    <3>2. cb.todo \in Seq(Step)
      BY <1>2 DEF Callbacks
    <3>3. Head(cb.todo) = <<"rest", s>>
      BY <1>2, <3>1, StepFacts
    <3>4. Last(cb.todo)[1] = "end"
      <4>1. 1 \in DOMAIN cb.todo /\ cb.todo[1] = Head(cb.todo)
        BY <1>2, <3>2
      <4>. QED
        BY <1>2, <3>1, <4>1 DEF Ordered
    <3>5. StepDone.todo = Tail(cb.todo)
      BY <1>2, StepDoneFacts DEF Base
    <3>. HIDE DEF s
    <3>6. SigchldRuns(StepDone) /\ ~Pending(StepDone, <<"rest", s>>)
      BY <1>2, <3>2, <3>3, <3>4, <3>5, TailFacts DEF SigchldRuns, Pending
    <3>. QED
      BY <2>1, <3>1, <3>6 DEF KeepsLines, BufferSpans, LineSpans
  <2>. QED
    BY <2>2, <2>3, <2>4
<1>. HIDE DEF s
<1>6. \A t \in Stream :
        KeepsLines(t, Resumed(s), buffers, out'[t], pieces[t], from'[t], rd'[t])
  BY <1>1, <1>4, <1>5
<1>. QED
  BY <1>1, <1>6, SettlesLines

LEMMA StepLines ==
    ASSUME Base, LinesSpan, StopsBeforeExit, [Next]_vars
    PROVE  LinesSpan'
<1>1. CASE User
  BY <1>1, ProcessLines, ListenLines, StopLines, LetGoLines DEF User
<1>2. CASE Callback
  BY <1>2, ReadChunkLines, EmitLineLines, PushRestLines, EmitRestLines, EmitExitLines,
     SigchldEndsLines, HandlersReturnLines DEF Callback
<1>. QED
  BY <1>1, <1>2, ProcessLines, BeginLines DEF Next

-----------------------------------------------------------------------------
(* Every step keeps what is known of the end of the process.                 *)

(* The callback stays at its step, goes on to the next, or begins.           *)
LEMMA StepTodo ==
    ASSUME Base, StopsBeforeExit, [Next]_vars
    PROVE  \/ cb'.todo = cb.todo
           \/ cb.todo # <<>> /\ cb' = StepDone
           \/ Sigchld
           \/ \E s \in Stream : OutputReady(s)
<1>1. CASE Process \/ Reap \/ (\E ignore \in BOOLEAN : Run(ignore)) \/ UNCHANGED vars
  BY <1>1 DEF Process, Write, Close, Die, Reap, Run, vars
<1>2. CASE (\E x \in Sig : Listen(x) \/ Stop(x)) \/ Drop \/ Exit
  <2>1. UserCode
    BY <1>2 DEF Listen, Stop, Drop, Exit
  <2>2. AfterOp.todo = cb.todo
    BY <2>1, AfterOpFacts DEF Base
  <2>3. cb' = AfterOp
    <3>1. ASSUME NEW x \in Sig, Listen(x)
          PROVE  cb' = AfterOp
      <4>1. ~exited
        BY <3>1 DEF Listen, StopsBeforeExit
      <4>. QED
        BY <3>1, <4>1 DEF Listen, ListenOutput, ListenIgnored, ListenExit, SetObject
    <3>2. ASSUME NEW x \in Sig, Stop(x)
          PROVE  cb' = AfterOp
      <4>1. ~("exit" \in {x} \cap signals /\ exited)
        BY <3>2, ServesNow DEF Stop, Serves
      <4>. QED
        BY <3>2, <4>1 DEF Stop, DeleteSignals, SetObject
    <3>3. CASE Drop \/ Exit
      BY <3>3 DEF Drop, Exit, SetObject
    <3>. QED
      BY <1>2, <3>1, <3>2, <3>3
  <2>. QED
    BY <2>2, <2>3
<1>3. ASSUME NEW s \in Stream, ReadChunk(s)
      PROVE  cb'.todo = cb.todo \/ (cb.todo # <<>> /\ cb' = StepDone)
  <2>1. cb.todo # <<>> /\ cb \in Callbacks /\ object = "live"
    BY <1>3, AtFacts DEF ReadChunk
  <2>2. CASE cb' = [cb EXCEPT !.chunk = <<rd[s] + 1, ChunkEnd(s)>>]
    BY <2>1, <2>2 DEF Callbacks
  <2>3. CASE SetObject(held, root, watching, signals, buffers, pieces, StepDone)
    BY <2>1, <2>3 DEF SetObject
  <2>4. CASE DeleteSignals({s}, StepDone)
    <3>1. ~("exit" \in {s} \cap signals /\ exited)
      BY DEF Stream
    <3>. QED
      BY <2>1, <2>4, <3>1 DEF DeleteSignals, SetObject
  <2>. QED
    BY <1>3, <2>2, <2>3, <2>4 DEF ReadChunk
<1>4. ASSUME NEW s \in Stream, EmitLine(s)
      PROVE  cb'.todo = cb.todo
  BY <1>4, EmitLineFacts
<1>5. ASSUME NEW s \in Stream, PushRest(s)
      PROVE  cb'.todo = cb.todo
  BY <1>5, AtFacts DEF PushRest, Callbacks
<1>6. ASSUME NEW s \in Stream, EmitRest(s)
      PROVE  cb'.todo = cb.todo \/ (cb.todo # <<>> /\ cb' = StepDone)
  <2>1. cb \in Callbacks /\ cb.todo # <<>>
    BY <1>6, AtFacts DEF EmitRest
  <2>. QED
    BY <1>6, <2>1 DEF EmitRest, Call, Callbacks
<1>7. ASSUME EmitExit
      PROVE  cb'.todo = cb.todo \/ (cb.todo # <<>> /\ cb' = StepDone)
  <2>1. cb \in Callbacks /\ cb.todo # <<>>
    BY <1>7, AtFacts DEF EmitExit
  <2>. QED
    BY <1>7, <2>1 DEF EmitExit, Call, Callbacks
<1>8. ASSUME SigchldEnds
      PROVE  cb.todo # <<>> /\ cb' = StepDone
  <2>1. cb.todo # <<>> /\ object = "live"
    BY <1>8, AtFacts DEF SigchldEnds
  <2>2. ~("exit" \in Sig \cap signals /\ exited)
    BY <2>1, ServesNow DEF Serves
  <2>. QED
    BY <1>8, <2>1, <2>2 DEF SigchldEnds, DeleteSignals, SetObject
<1>9. ASSUME HandlersReturn
      PROVE  cb'.todo = cb.todo \/ (cb.todo # <<>> /\ cb' = StepDone)
  <2>. DEFINE s == Head(cb.todo)[2]
  <2>1. SetObject(held, root, watching, signals, buffers, pieces, Resumed(s)) /\ cb.calling
    BY <1>9, HandlersReturnFacts
  <2>2. cb.todo # <<>>
    BY <2>1, CallingFacts
  <2>3. cb' = Resumed(s)
    BY <2>1 DEF SetObject
  <2>. QED
    BY <2>1, <2>2, <2>3, ResumedFacts
<1>. QED
  BY <1>1, <1>2, <1>3, <1>4, <1>5, <1>6, <1>7, <1>8, <1>9 DEF Next, User, Callback

(* A step that is still to come has always been.                             *)
LEMMA StillToCome ==
    ASSUME Base, StopsBeforeExit, [Next]_vars, SigchldRuns(cb'), ~Sigchld
    PROVE  /\ SigchldRuns(cb)
           /\ \A x : Pending(cb', x) => Pending(cb, x)
           /\ \A x : Pending(cb, x) /\ x # Head(cb.todo) => Pending(cb', x)
           /\ cb' # StepDone => \A x : Pending(cb, x) => Pending(cb', x)
<1>1. CASE cb'.todo = cb.todo
  BY <1>1 DEF SigchldRuns, Pending
<1>2. CASE cb.todo # <<>> /\ cb' = StepDone
  <2>1. cb.todo \in Seq(Step) /\ Ordered(cb.todo)
    BY DEF Base, CallbackShaped, Shaped, Callbacks
  <2>2. cb'.todo = Tail(cb.todo)
    BY <1>2, StepDoneFacts DEF Base
  <2>3. SigchldRuns(cb)
    BY <1>2, <2>1, <2>2, TailFacts DEF SigchldRuns
  <2>4. \A x : (\E i \in DOMAIN cb.todo : cb.todo[i] = x) <=>
                x = Head(cb.todo) \/ \E i \in DOMAIN Tail(cb.todo) : Tail(cb.todo)[i] = x
    BY <1>2, <2>1, TailFacts
  <2>5. \A x : Pending(cb, x) <=> x = Head(cb.todo) \/ Pending(cb', x)
    BY <2>2, <2>4 DEF Pending
  <2>. QED
    BY <1>2, <2>3, <2>5
<1>3. ASSUME NEW s \in Stream, OutputReady(s)
      PROVE  FALSE
  <2>1. s \in buffers
    BY <1>3, ServesNow DEF OutputReady, Serves
  <2>2. cb' = [NoCallback EXCEPT !.todo = <<<<"drain", s>>>>]
    BY <1>3, <2>1 DEF OutputReady
  <2>3. cb'.todo = <<<<"drain", s>>>>
    BY <2>2, BeginFacts, FreshStep
  <2>4. Last(cb'.todo) = <<"drain", s>>
    BY <2>3, BeginFacts
  <2>. QED
    BY <2>4 DEF SigchldRuns
<1>. QED
  BY <1>1, <1>2, <1>3, StepTodo

LEMMA StepExternal ==
    ASSUME [Next]_vars
    PROVE  \/ UNCHANGED external
           \/ Process \/ Reap \/ \E ignore \in BOOLEAN : Run(ignore)
  BY DEF Next, User, Callback, Listen, Stop, Drop, Exit, Sigchld, OutputReady, ReadChunk,
         EmitLine, PushRest, EmitRest, EmitExit, SigchldEnds, HandlersReturn, vars, external

LEMMA StepWatcher ==
    ASSUME Base, StopsBeforeExit, [Next]_vars, childw' = "pending"
    PROVE  childw = "pending" \/ (Reap /\ proc' = "reaped")
<1>1. CASE User
  BY <1>1 DEF User, Run, Listen, ListenOutput, ListenIgnored, ListenExit, Abort, Stop,
              DeleteSignals, Drop, Exit
<1>2. CASE Callback
  BY <1>2 DEF Callback, ReadChunk, EmitLine, PushRest, EmitRest, EmitExit, SigchldEnds,
              HandlersReturn, DeleteSignals, Abort
<1>. QED
  BY <1>1, <1>2 DEF Next, Process, Write, Close, Die, Reap, Sigchld, OutputReady, Abort, vars

LEMMA StepReaped ==
    ASSUME Base, StopsBeforeExit, ReapedFirst, [Next]_vars
    PROVE  ReapedFirst'
<1>1. ASSUME NEW s \in Stream
      PROVE  atDeath'[s] <= Len(out'[s])
  <2>1. /\ atDeath[s] \in Nat /\ Len(out[s]) \in Nat /\ atDeath[s] <= Len(out[s])
    BY StreamTypes DEF ReapedFirst
  <2>2. ASSUME NEW t \in Stream, NEW c \in {"text", "newline"}, Write(t, c)
        PROVE  atDeath'[s] <= Len(out'[s])
    <3>1. Len(out[s]) <= Len(out'[s]) /\ Len(out'[s]) \in Nat
      BY <2>2, WrittenMore DEF Grown, Text
    <3>2. atDeath' = atDeath
      BY <2>2 DEF Write
    <3>. QED
      BY <2>1, <3>1, <3>2
  <2>3. CASE Die
    <3>1. atDeath'[s] = Len(out[s]) /\ out' = out
      BY <2>3 DEF Die
    <3>. QED
      BY <2>1, <3>1
  <2>4. CASE atDeath' = atDeath /\ out' = out
    BY <2>1, <2>4
  <2>. QED
    BY <2>2, <2>3, <2>4, StepExternal DEF Process, Close, Reap, Run, external
<1>2. ASSUME childw' = "pending" \/ SigchldRuns(cb')
      PROVE  proc' = "reaped"
  <2>1. CASE Reap
    BY <2>1 DEF Reap
  <2>2. CASE ~Reap
    <3>1. childw = "pending" \/ SigchldRuns(cb)
      BY <1>2, <2>2, StepWatcher, StillToCome DEF Sigchld
    <3>2. proc = "reaped" /\ object = "live"
      <4>1. childw # "off" \/ cb # NoCallback
        BY <3>1, NoCallbackFacts DEF SigchldRuns
      <4>. QED
        BY <3>1, <4>1, ServesNow DEF ReapedFirst, Serves, OtherTypes, Base, TypeOK
    <3>. QED
      BY <2>2, <3>2, StepExternal DEF Process, Write, Close, Die, Run, external
  <2>. QED
    BY <2>1, <2>2
<1>. QED
  BY <1>1, <1>2 DEF ReapedFirst, SigchldRuns

(* What is drained stays drained when more is written or read, and lines are *)
(* delivered.                                                                *)
LEMMA DrainKept ==
    ASSUME Base, Drained, ReapedFirst, NEW s \in heard \cap Stream,
           SigchldRuns(cb), ~Pending(cb, <<"drain", s>>),
           NEW o, Grown(out[s], o), NEW a \in Nat, a = from[s] \/ a >= rd[s],
           NEW r \in Nat, r >= rd[s]
    PROVE  NoLineLeft(o, a, r, atDeath[s])
<1>1. /\ rd[s] \in Nat /\ atDeath[s] \in Nat /\ from[s] \in Nat /\ Len(out[s]) \in Nat
      /\ atDeath[s] <= Len(out[s])
  BY StreamTypes DEF ReapedFirst
<1>2. rd[s] >= atDeath[s] /\ \A p \in from[s] + 1 .. atDeath[s] : out[s][p] # "newline"
  BY DEF Drained, NoLineLeft, NoNewline
<1>3. ASSUME NEW p \in a + 1 .. atDeath[s]
      PROVE  o[p] # "newline"
  <2>1. a = from[s]
    BY <1>1, <1>2
  <2>2. p \in 1 .. Len(out[s])
    BY <1>1, <2>1
  <2>. QED
    BY <1>2, <2>1, <2>2 DEF Grown
<1>. QED
  BY <1>1, <1>2, <1>3 DEF NoLineLeft, NoNewline

(* What has been read to its end has no line left.                           *)
LEMMA EndIsDrained ==
    ASSUME Base, ReapedFirst, NEW s \in Stream, rd[s] = Len(out[s]),
           NoNewline(out[s], from[s], Len(out[s]))
    PROVE  NoLineLeft(out[s], from[s], rd[s], atDeath[s])
<1>1. /\ atDeath[s] \in Nat /\ from[s] \in Nat /\ Len(out[s]) \in Nat
      /\ atDeath[s] <= Len(out[s])
  BY StreamTypes DEF ReapedFirst
<1>. QED
  BY <1>1 DEF NoLineLeft, NoNewline

(* A stream other than the one whose drain is over.                          *)
LEMMA DrainedBefore ==
    ASSUME Base, StopsBeforeExit, [Next]_vars, SigchldRuns(cb'), ~Sigchld, NEW s,
           ~Pending(cb', <<"drain", s>>),
           cb'.todo = cb.todo \/ Head(cb.todo) # <<"drain", s>>
    PROVE  SigchldRuns(cb) /\ ~Pending(cb, <<"drain", s>>)
<1>1. CASE cb'.todo = cb.todo
  BY <1>1 DEF SigchldRuns, Pending
<1>2. CASE Head(cb.todo) # <<"drain", s>>
  BY <1>2, StillToCome
<1>. QED
  BY <1>1, <1>2

(* What is to be shown of a stream after a step.                             *)
StreamEnds(s) ==
    /\ object' = "live" /\ s \notin buffers' => AtEnd(s, open', out'[s], from'[s], rd'[s])
    /\ SigchldRuns(cb') /\ ~Pending(cb', <<"drain", s>>) =>
        NoLineLeft(out'[s], from'[s], rd'[s], atDeath'[s])

LEMMA EndsPrimed ==
    ASSUME object' = "none" => heard' = {}, \A s \in heard' \cap Stream : StreamEnds(s)
    PROVE  EndReached' /\ Drained'
  BY DEF StreamEnds, EndReached, Drained, AtEnd, NoLineLeft, NoNewline, SigchldRuns, Pending,
         Stream, Last

Ends == ReapedFirst /\ EndReached /\ Drained

LEMMA InitEnds == Init => Ends
<1>. SUFFICES ASSUME Init PROVE Ends
  OBVIOUS
<1>1. ~SigchldRuns(cb) /\ childw = "off"
  BY NoCallbackFacts DEF Init, SigchldRuns
<1>2. \A s \in Stream : atDeath[s] = 0 /\ Len(out[s]) = 0
  BY DEF Init
<1>3. ReapedFirst
  BY <1>1, <1>2 DEF ReapedFirst
<1>4. object = "none" /\ heard = {}
  BY DEF Init
<1>. QED
  BY <1>3, <1>4 DEF Ends, EndReached, Drained

LEMMA ProcessEnds ==
    ASSUME Base, StopsBeforeExit, Ends, [Next]_vars,
           Process \/ Reap \/ (\E ignore \in BOOLEAN : Run(ignore)) \/ UNCHANGED vars
    PROVE  EndReached' /\ Drained'
<1>. USE DEF Ends
<1>1. ASSUME NEW t \in Stream, NEW c \in {"text", "newline"}, Write(t, c)
      PROVE  EndReached' /\ Drained'
  <2>1. /\ UNCHANGED <<object, buffers, open, from, rd, heard, cb, atDeath>> /\ t \in open
        /\ object = "live"
    BY <1>1 DEF Write, objectVars
  <2>2. ASSUME NEW s \in heard \cap Stream
        PROVE  StreamEnds(s)
    <3>1. s \notin buffers => AtEnd(s, open, out'[s], from[s], rd[s])
      BY <1>1, <2>1, WrittenMore DEF EndReached, AtEnd
    <3>2. SigchldRuns(cb) /\ ~Pending(cb, <<"drain", s>>) =>
            NoLineLeft(out'[s], from[s], rd[s], atDeath[s])
      <4>1. Grown(out[s], out'[s])
        BY <1>1, WrittenMore
      <4>2. from[s] \in Nat /\ rd[s] \in Nat /\ rd[s] >= rd[s]
        BY StreamTypes
      <4>. QED
        BY <4>1, <4>2, DrainKept
    <3>. QED
      BY <2>1, <3>1, <3>2 DEF StreamEnds
  <2>. QED
    BY <2>1, <2>2, EndsPrimed
<1>2. ASSUME NEW t \in Stream, Close(t)
      PROVE  EndReached' /\ Drained'
  <2>1. UNCHANGED <<object, buffers, out, from, rd, heard, cb, atDeath>> /\ open' \subseteq open
    BY <1>2 DEF Close, objectVars
  <2>2. \A s \in heard \cap Stream : StreamEnds(s)
    BY <2>1 DEF StreamEnds, EndReached, Drained, AtEnd
  <2>. QED
    BY <2>1, <2>2, EndsPrimed DEF EndReached
<1>3. CASE Die
  <2>1. UNCHANGED <<object, buffers, open, out, from, rd, heard, cb>> /\ proc = "running"
    BY <1>3 DEF Die, objectVars
  <2>2. ~SigchldRuns(cb)
    BY <2>1 DEF ReapedFirst
  <2>3. \A s \in heard \cap Stream : StreamEnds(s)
    BY <2>1, <2>2 DEF StreamEnds, EndReached
  <2>. QED
    BY <2>1, <2>3, EndsPrimed DEF EndReached
<1>4. CASE Reap \/ UNCHANGED vars
  <2>1. UNCHANGED <<object, buffers, open, out, from, rd, heard, cb, atDeath>>
    BY <1>4 DEF Reap, objectVars, vars
  <2>2. \A s \in heard \cap Stream : StreamEnds(s)
    BY <2>1 DEF StreamEnds, EndReached, Drained
  <2>. QED
    BY <2>1, <2>2, EndsPrimed DEF EndReached
<1>5. ASSUME NEW ignore \in BOOLEAN, Run(ignore)
      PROVE  EndReached' /\ Drained'
  <2>1. heard' = {} /\ object' = "live"
    BY <1>5 DEF Run, EndReached
  <2>. QED
    BY <2>1, EndsPrimed
<1>. QED
  BY <1>1, <1>2, <1>3, <1>4, <1>5 DEF Process

LEMMA BeginEnds ==
    ASSUME Base, Ends, Sigchld \/ \E s \in Stream : OutputReady(s)
    PROVE  EndReached' /\ Drained'
<1>. USE DEF Ends
<1>1. CASE Sigchld
  <2>1. /\ UNCHANGED <<object, buffers, open, out, from, rd, heard, atDeath>>
        /\ cb' = [NoCallback EXCEPT !.todo = SigchldSteps]
    BY <1>1 DEF Sigchld, objectVars, external
  <2>2. cb'.todo = SigchldSteps
    BY <2>1, BeginFacts, FreshStep
  <2>3. \A s \in Stream : Pending(cb', <<"drain", s>>)
    BY <2>2, BeginFacts DEF Pending
  <2>4. \A s \in heard \cap Stream : StreamEnds(s)
    BY <2>1, <2>3 DEF StreamEnds, EndReached
  <2>. QED
    BY <2>1, <2>4, EndsPrimed DEF EndReached
<1>2. ASSUME NEW t \in Stream, OutputReady(t)
      PROVE  EndReached' /\ Drained'
  <2>1. t \in buffers
    BY <1>2, ServesNow DEF OutputReady, Serves
  <2>2. /\ UNCHANGED <<object, buffers, open, out, from, rd, heard, atDeath>>
        /\ cb' = [NoCallback EXCEPT !.todo = <<<<"drain", t>>>>]
    BY <1>2, <2>1 DEF OutputReady, objectVars, external
  <2>3. Last(cb'.todo) = <<"drain", t>>
    BY <2>2, BeginFacts, FreshStep
  <2>4. ~SigchldRuns(cb')
    BY <2>3 DEF SigchldRuns
  <2>5. \A s \in heard \cap Stream : StreamEnds(s)
    BY <2>2, <2>4 DEF StreamEnds, EndReached
  <2>. QED
    BY <2>2, <2>5, EndsPrimed DEF EndReached
<1>. QED
  BY <1>1, <1>2

(* A stream the step does not take to its end.                               *)
LEMMA OtherEnds ==
    ASSUME Base, StopsBeforeExit, Ends, [Next]_vars, ~Sigchld, NEW s \in heard \cap Stream,
           object' = "live" => object = "live" /\ (s \notin buffers' => s \notin buffers),
           UNCHANGED <<open, out, atDeath>>, s \notin buffers => rd'[s] = rd[s],
           rd'[s] \in Nat, rd'[s] >= rd[s], from'[s] \in Nat,
           from'[s] = from[s] \/ (from'[s] >= rd[s] /\ (object' = "live" => s \in buffers')),
           cb'.todo = cb.todo \/ Head(cb.todo) # <<"drain", s>>
    PROVE  StreamEnds(s)
<1>. USE DEF Ends
<1>1. ASSUME object' = "live", s \notin buffers'
      PROVE  AtEnd(s, open', out'[s], from'[s], rd'[s])
  BY <1>1 DEF EndReached
<1>2. ASSUME SigchldRuns(cb'), ~Pending(cb', <<"drain", s>>)
      PROVE  NoLineLeft(out'[s], from'[s], rd'[s], atDeath'[s])
  <2>1. SigchldRuns(cb) /\ ~Pending(cb, <<"drain", s>>)
    BY <1>2, DrainedBefore
  <2>2. Grown(out[s], out[s])
    BY Unwritten
  <2>3. from'[s] = from[s] \/ from'[s] >= rd[s]
    OBVIOUS
  <2>4. NoLineLeft(out[s], from'[s], rd'[s], atDeath[s])
    BY <2>1, <2>2, <2>3, DrainKept
  <2>. QED
    BY <2>4
<1>. QED
  BY <1>1, <1>2 DEF StreamEnds

LEMMA SetObjectFacts ==
    ASSUME NEW h, NEW r, NEW w, NEW sig, NEW bufs, NEW txt, NEW c,
           SetObject(h, r, w, sig, bufs, txt, c)
    PROVE  /\ object' = "live" => object = "live" /\ buffers' = bufs
           /\ object' = "none" => object = "none"
           /\ cb' = c
  BY DEF SetObject

LEMMA ListenEnds ==
    ASSUME Base, StopsBeforeExit, Ends, NEW x \in Sig, Listen(x)
    PROVE  EndReached' /\ Drained'
<1>1. /\ UserCode /\ ~exited /\ object = "live" /\ x \notin signals
      /\ UNCHANGED <<open, out, atDeath>>
  BY DEF Listen, StopsBeforeExit, external
<1>2. AfterOp.todo = cb.todo
  BY <1>1, AfterOpFacts DEF Base
<1>3. [Next]_vars /\ ~Sigchld
  <2>1. [Next]_vars
    BY DEF Next, User
  <2>2. rd' = rd /\ cb'.todo = cb.todo
    BY <1>1, <1>2 DEF Listen, ListenOutput, ListenIgnored, ListenExit, SetObject
  <2>3. Sigchld => cb.todo = <<>> /\ cb'.todo = SigchldSteps
    BY NoCallbackFacts, BeginFacts, FreshStep DEF Sigchld
  <2>. QED
    BY <2>1, <2>2, <2>3, BeginFacts
<1>4. CASE x \in Stream /\ ListenOutput(x)
  <2>1. /\ SetObject(held, root, watching \cup {x}, signals \cup {x}, buffers \cup {x},
                     [pieces EXCEPT ![x] = <<>>], AfterOp)
        /\ from' = [from EXCEPT ![x] = ReadFrom(x)] /\ heard' = heard \cup ({x} \ Ending)
        /\ rd' = rd
    BY <1>1, <1>4 DEF ListenOutput
  <2>2. /\ object' = "live" => buffers' = buffers \cup {x}
        /\ object' # "none" /\ cb'.todo = cb.todo
    BY <1>1, <1>2, <2>1, SetObjectFacts
  <2>3. ASSUME NEW s \in heard \cap Stream
        PROVE  StreamEnds(s)
    <3>1. rd[s] \in Nat /\ from[s] \in Nat /\ from \in [Stream -> Nat] /\ rd[s] >= rd[s]
      BY StreamTypes DEF Base, TypeOK
    <3>2. /\ from'[s] \in Nat
          /\ from'[s] = from[s] \/ (from'[s] >= rd[s] /\ (object' = "live" => s \in buffers'))
      <4>1. CASE s = x
        BY <2>1, <2>2, <3>1, <4>1 DEF ReadFrom
      <4>2. CASE s # x
        BY <2>1, <3>1, <4>2
      <4>. QED
        BY <4>1, <4>2
    <3>3. object' = "live" => object = "live" /\ (s \notin buffers' => s \notin buffers)
      BY <1>1, <2>2
    <3>. QED
      BY <1>1, <1>3, <2>1, <2>2, <3>1, <3>2, <3>3, OtherEnds
  <2>4. ASSUME x \in heard', x \notin heard
        PROVE  StreamEnds(x)
    <3>1. x \notin Ending
      BY <2>1, <2>4
    <3>2. ~SigchldRuns(cb)
      BY <1>4, <3>1, NoCallbackFacts DEF Ending, SigchldRuns, Sig
    <3>3. ~SigchldRuns(cb')
      BY <2>2, <3>2 DEF SigchldRuns
    <3>. QED
      BY <2>2, <3>3 DEF StreamEnds
  <2>5. \A s \in heard' \cap Stream : StreamEnds(s)
    BY <2>1, <2>3, <2>4
  <2>. QED
    BY <2>2, <2>5, EndsPrimed
<1>5. CASE (x \in Stream /\ ListenIgnored(x)) \/ (x = "exit" /\ ListenExit)
  <2>1. /\ \E r, sig : SetObject(held, r, watching, sig, buffers, pieces, AfterOp)
        /\ from' = from /\ rd' = rd /\ heard' \cap Stream = heard \cap Stream
    <3>1. "exit" \notin Stream
      BY DEF Stream
    <3>. QED
      BY <1>1, <1>5, <3>1 DEF ListenIgnored, ListenExit
  <2>2. /\ object' = "live" => buffers' = buffers
        /\ object' # "none" /\ cb'.todo = cb.todo
    BY <1>1, <1>2, <2>1, SetObjectFacts
  <2>3. ASSUME NEW s \in heard \cap Stream
        PROVE  StreamEnds(s)
    <3>1. rd[s] \in Nat /\ from[s] \in Nat /\ rd[s] >= rd[s]
      BY StreamTypes
    <3>. QED
      BY <1>1, <1>3, <2>1, <2>2, <3>1, OtherEnds
  <2>. QED
    BY <2>1, <2>2, <2>3, EndsPrimed
<1>. QED
  BY <1>4, <1>5 DEF Listen

LEMMA StopEnds ==
    ASSUME Base, StopsBeforeExit, Ends, NEW x \in Sig, Stop(x)
    PROVE  EndReached' /\ Drained'
<1>1. UserCode /\ UNCHANGED <<open, out, atDeath>> /\ heard' = heard \ {x} /\ x \in signals
  BY DEF Stop, external
<1>2. AfterOp.todo = cb.todo /\ \A bufs : Shaped(AfterOp, bufs, rd)
  BY <1>1, AfterOpFacts DEF Base
<1>3. object = "live" /\ heard' \subseteq Sig /\ {x} \in SUBSET Sig
  BY <1>1, ServesNow DEF Serves, OtherTypes
<1>4. /\ SetObject(held, root /\ "exit" \notin {x}, watching \ {x}, signals \ {x}, buffers \ {x},
                   [s \in Stream |-> IF s \in {x} THEN <<>> ELSE pieces[s]], AfterOp)
      /\ rd' = rd /\ from' = from
  BY <1>2, <1>3, DeleteBase DEF Stop
<1>5. /\ object' = "live" => buffers' = buffers \ {x}
      /\ object' # "none" /\ cb'.todo = cb.todo
  BY <1>2, <1>3, <1>4, SetObjectFacts
<1>6. [Next]_vars /\ ~Sigchld
  <2>1. Sigchld => cb.todo = <<>> /\ cb'.todo = SigchldSteps
    BY NoCallbackFacts, BeginFacts, FreshStep DEF Sigchld
  <2>. QED
    BY <1>5, <2>1, BeginFacts DEF Next, User
<1>7. ASSUME NEW s \in heard \cap Stream, s # x
      PROVE  StreamEnds(s)
  <2>1. rd[s] \in Nat /\ from[s] \in Nat /\ rd[s] >= rd[s]
    BY StreamTypes
  <2>2. object' = "live" => object = "live" /\ (s \notin buffers' => s \notin buffers)
    BY <1>3, <1>5, <1>7
  <2>. QED
    BY <1>1, <1>4, <1>5, <1>6, <2>1, <2>2, OtherEnds
<1>. QED
  BY <1>1, <1>5, <1>7, EndsPrimed

LEMMA LetGoEnds ==
    ASSUME Base, StopsBeforeExit, Ends, Drop \/ Exit
    PROVE  EndReached' /\ Drained'
<1>1. UserCode /\ UNCHANGED <<open, out, atDeath, rd, from, heard>>
  BY DEF Drop, Exit, external
<1>2. AfterOp.todo = cb.todo
  BY <1>1, AfterOpFacts DEF Base
<1>3. \E h, r, w : SetObject(h, r, w, signals, buffers, pieces, AfterOp)
  BY DEF Drop, Exit
<1>4. /\ object' = "live" => object = "live" /\ buffers' = buffers
      /\ object' = "none" => object = "none"
      /\ cb'.todo = cb.todo
  BY <1>2, <1>3, SetObjectFacts
<1>5. [Next]_vars /\ ~Sigchld
  <2>1. Sigchld => cb.todo = <<>> /\ cb'.todo = SigchldSteps
    BY NoCallbackFacts, BeginFacts, FreshStep DEF Sigchld
  <2>. QED
    BY <1>4, <2>1, BeginFacts DEF Next, User
<1>6. ASSUME NEW s \in heard \cap Stream
      PROVE  StreamEnds(s)
  <2>1. rd[s] \in Nat /\ from[s] \in Nat /\ rd[s] >= rd[s]
    BY StreamTypes
  <2>. QED
    BY <1>1, <1>4, <1>5, <2>1, OtherEnds
<1>. QED
  BY <1>1, <1>4, <1>6, EndsPrimed DEF Ends, EndReached

LEMMA CallbackNotSigchld == cb.todo # <<>> => ~Sigchld
  BY NoCallbackFacts DEF Sigchld

(* A stream that a step of a callback leaves alone.                          *)
LEMMA QuietEnds ==
    ASSUME Base, StopsBeforeExit, Ends, Next, cb.todo # <<>>, NEW s \in heard \cap Stream,
           object' = "live" => object = "live" /\ (s \notin buffers' => s \notin buffers),
           UNCHANGED <<open, out, atDeath>>, from'[s] = from[s], rd'[s] = rd[s],
           cb'.todo = cb.todo \/ Head(cb.todo) # <<"drain", s>>
    PROVE  StreamEnds(s)
<1>1. rd[s] \in Nat /\ from[s] \in Nat /\ rd[s] >= rd[s]
  BY StreamTypes
<1>. QED
  BY <1>1, CallbackNotSigchld, OtherEnds

(* Where a stream is at its end.                                             *)
LEMMA EndOfStream ==
    ASSUME Base, LinesSpan, Ends, NEW s \in heard \cap Stream, At("drain", s), cb.chunk = <<>>,
           s \notin buffers \/ rd[s] = Len(out[s])
    PROVE  rd[s] = Len(out[s]) /\ NoNewline(out[s], from[s], Len(out[s]))
<1>1. CASE s \notin buffers
  BY <1>1, AtFacts DEF Ends, EndReached, AtEnd
<1>2. CASE s \in buffers /\ rd[s] = Len(out[s])
  <2>1. Spans(out[s], pieces[s], from[s], rd[s])
    BY <1>2, BufferAt DEF Position
  <2>2. \A q \in from[s] + 1 .. rd[s] : out[s][q] # "newline"
    BY <2>1, StreamTypes, SpansClean
  <2>. QED
    BY <1>2, <2>2 DEF NoNewline
<1>. QED
  BY <1>1, <1>2

LEMMA ReadChunkEnds ==
    ASSUME Base, LinesSpan, StopsBeforeExit, Ends, NEW t \in Stream, ReadChunk(t)
    PROVE  EndReached' /\ Drained'
<1>1. At("drain", t) /\ UNCHANGED <<open, out, atDeath>> /\ cb.chunk = <<>> /\ Next
  BY DEF ReadChunk, external, Next, Callback
<1>2. /\ object = "live" /\ cb.todo # <<>> /\ Head(cb.todo) = <<"drain", t>>
      /\ cb \in Callbacks
  BY <1>1, AtFacts
<1>3. CASE /\ t \in buffers /\ rd[t] < Len(out[t])
           /\ rd' = [rd EXCEPT ![t] = ChunkEnd(t)]
           /\ cb' = [cb EXCEPT !.chunk = <<rd[t] + 1, ChunkEnd(t)>>]
           /\ UNCHANGED <<pieces, childw, from, heard, objectVars, flags>>
  <2>1. cb'.todo = cb.todo /\ UNCHANGED <<object, buffers, from, heard>>
    BY <1>2, <1>3 DEF Callbacks, objectVars
  <2>2. ASSUME NEW s \in heard \cap Stream
        PROVE  StreamEnds(s)
    <3>1. rd[s] \in Nat /\ from[s] \in Nat /\ rd \in [Stream -> Nat]
      BY StreamTypes DEF Base, TypeOK
    <3>2. ChunkEnd(t) \in Nat /\ rd[t] < ChunkEnd(t)
      BY <1>3, ServesNow, ChunkEndFacts
    <3>3. rd'[s] \in Nat /\ rd'[s] >= rd[s] /\ (s \notin buffers => rd'[s] = rd[s])
      BY <1>3, <3>1, <3>2
    <3>. QED
      BY <1>1, <1>2, <2>1, <3>1, <3>3, CallbackNotSigchld, OtherEnds
  <2>. QED
    BY <1>2, <2>1, <2>2, EndsPrimed
<1>4. CASE /\ t \notin buffers \/ (rd[t] = Len(out[t]) /\ t \in open)
           /\ SetObject(held, root, watching, signals, buffers, pieces, StepDone)
           /\ UNCHANGED <<rd, childw, from, heard, flags>>
  <2>1. (object' = "live" => buffers' = buffers) /\ object' # "none"
    BY <1>2, <1>4, SetObjectFacts
  <2>2. ASSUME NEW s \in heard \cap Stream, s # t
        PROVE  StreamEnds(s)
    BY <1>1, <1>2, <1>4, <2>1, <2>2, QuietEnds
  <2>3. ASSUME t \in heard
        PROVE  StreamEnds(t)
    <3>1. rd[t] = Len(out[t]) /\ NoNewline(out[t], from[t], Len(out[t]))
      BY <1>1, <1>4, <2>3, EndOfStream
    <3>2. NoLineLeft(out[t], from[t], rd[t], atDeath[t])
      BY <3>1, EndIsDrained DEF Ends
    <3>3. t \notin buffers => AtEnd(t, open, out[t], from[t], rd[t])
      BY <1>2, <2>3 DEF Ends, EndReached
    <3>. QED
      BY <1>1, <1>4, <2>1, <3>2, <3>3 DEF StreamEnds
  <2>. QED
    BY <1>4, <2>1, <2>2, <2>3, EndsPrimed
<1>5. CASE /\ t \in buffers /\ rd[t] = Len(out[t]) /\ t \notin open
           /\ DeleteSignals({t}, StepDone)
           /\ UNCHANGED heard
  <2>1. {t} \in SUBSET Sig /\ heard' \subseteq Sig /\ \A bufs : Shaped(StepDone, bufs, rd)
        /\ UNCHANGED external
    BY <1>2, <1>5, ServesNow, StepDoneFacts DEF Sig, OtherTypes, Base, ReadChunk
  <2>2. /\ SetObject(held, root /\ "exit" \notin {t}, watching \ {t}, signals \ {t}, buffers \ {t},
                     [s \in Stream |-> IF s \in {t} THEN <<>> ELSE pieces[s]], StepDone)
        /\ rd' = rd /\ from' = from
    BY <1>2, <1>5, <2>1, DeleteBase
  <2>3. (object' = "live" => buffers' = buffers \ {t}) /\ object' # "none"
    BY <1>2, <2>2, SetObjectFacts
  <2>4. ASSUME NEW s \in heard \cap Stream, s # t
        PROVE  StreamEnds(s)
    <3>1. object' = "live" => object = "live" /\ (s \notin buffers' => s \notin buffers)
      BY <1>2, <2>3, <2>4
    <3>. QED
      BY <1>1, <1>2, <2>2, <2>4, <3>1, QuietEnds
  <2>5. ASSUME t \in heard
        PROVE  StreamEnds(t)
    <3>1. rd[t] = Len(out[t]) /\ NoNewline(out[t], from[t], Len(out[t]))
      BY <1>1, <1>5, <2>5, EndOfStream
    <3>2. NoLineLeft(out[t], from[t], rd[t], atDeath[t])
      BY <3>1, EndIsDrained DEF Ends
    <3>3. AtEnd(t, open, out[t], from[t], rd[t])
      BY <1>5, <3>1 DEF AtEnd
    <3>. QED
      BY <1>1, <2>2, <3>2, <3>3 DEF StreamEnds
  <2>. QED
    BY <1>5, <2>3, <2>4, <2>5, EndsPrimed
<1>. QED
  BY <1>3, <1>4, <1>5 DEF ReadChunk

LEMMA EmitEnds ==
    ASSUME Base, StopsBeforeExit, Ends, EmitExit \/ \E s \in Stream :
               EmitLine(s) \/ PushRest(s) \/ EmitRest(s)
    PROVE  EndReached' /\ Drained'
<1>1. Next /\ cb.todo # <<>> /\ object = "live"
  BY AtFacts DEF EmitExit, EmitLine, PushRest, EmitRest, Next, Callback
<1>2. UNCHANGED <<object, buffers, open, out, from, rd, heard, atDeath>>
  <2>1. ASSUME NEW s \in Stream, EmitLine(s)
        PROVE  UNCHANGED <<object, buffers, open, out, from, rd, heard, atDeath>>
    BY <2>1, EmitLineFacts DEF objectVars, external
  <2>. QED
    BY <2>1 DEF EmitExit, PushRest, EmitRest, objectVars, external
<1>3. \A s \in Stream : cb'.todo = cb.todo \/ Head(cb.todo) # <<"drain", s>>
  <2>1. ASSUME NEW t \in Stream, EmitLine(t)
        PROVE  cb'.todo = cb.todo
    BY <2>1, EmitLineFacts
  <2>2. ASSUME NEW t \in Stream, PushRest(t)
        PROVE  cb'.todo = cb.todo
    BY <2>2, AtFacts DEF PushRest, Callbacks
  <2>3. ASSUME NEW t \in Stream, EmitRest(t)
        PROVE  Head(cb.todo)[1] = "rest"
    BY <2>3, AtFacts DEF EmitRest
  <2>4. ASSUME EmitExit
        PROVE  Head(cb.todo)[1] = "exit"
    BY <2>4, AtFacts DEF EmitExit
  <2>. QED
    BY <2>1, <2>2, <2>3, <2>4
<1>4. \A s \in heard \cap Stream : StreamEnds(s)
  BY <1>1, <1>2, <1>3, QuietEnds
<1>. QED
  BY <1>1, <1>2, <1>4, EndsPrimed

LEMMA SigchldEndsEnds ==
    ASSUME Base, SigchldEnds
    PROVE  EndReached' /\ Drained'
<1>1. object = "live" /\ cb.todo # <<>>
  BY AtFacts DEF SigchldEnds
<1>2. \A bufs, r : Shaped(StepDone, bufs, r)
  BY <1>1, StepDoneFacts DEF Base
<1>3. heard' \subseteq Sig /\ Sig \in SUBSET Sig /\ heard' \cap Stream = {}
  BY ServesNow DEF SigchldEnds, OtherTypes, Stream
<1>4. SetObject(held, root /\ "exit" \notin Sig, watching \ Sig, signals \ Sig, buffers \ Sig,
                [t \in Stream |-> IF t \in Sig THEN <<>> ELSE pieces[t]], StepDone)
  BY <1>1, <1>2, <1>3, DeleteBase DEF SigchldEnds
<1>5. object' # "none"
  BY <1>1, <1>4, SetObjectFacts
<1>. QED
  BY <1>3, <1>5, EndsPrimed

LEMMA HandlersReturnEnds ==
    ASSUME Base, LinesSpan, StopsBeforeExit, Ends, HandlersReturn
    PROVE  EndReached' /\ Drained'
<1>. DEFINE t == Head(cb.todo)[2]
<1>1. /\ SetObject(held, root, watching, signals, buffers, pieces, Resumed(t))
      /\ from' = IF t \in signals \cap Stream
                 THEN [from EXCEPT ![t] = LineEnd(cb.line)] ELSE from
      /\ rd' = rd /\ heard' = heard /\ UNCHANGED <<open, out, atDeath>> /\ cb.calling
  BY HandlersReturnFacts DEF external
<1>2. /\ object = "live" /\ cb.todo # <<>>
      /\ Head(cb.todo) \in Step
      /\ Head(cb.todo)[1] \in {"drain", "rest"} <=> cb.line # <<>>
      /\ Head(cb.todo)[1] \in {"drain", "rest"} <=> t \in Stream
  BY <1>1, CallingFacts
<1>3. /\ AfterHandlerDone(t) => Resumed(t) = StepDone
      /\ ~AfterHandlerDone(t) => Resumed(t).todo = cb.todo
  BY <1>1, ResumedFacts
<1>4. /\ object' = "live" => buffers' = buffers
      /\ object' # "none" /\ cb' = Resumed(t)
  BY <1>1, <1>2, SetObjectFacts
<1>5. Next /\ ~Sigchld
  BY <1>2, CallbackNotSigchld DEF Next, Callback
<1>6. ASSUME NEW s \in heard \cap Stream, s # t
      PROVE  StreamEnds(s)
  <2>1. from'[s] = from[s]
    BY <1>1, <1>6 DEF Base, TypeOK
  <2>2. Head(cb.todo) # <<"drain", s>>
    BY <1>6
  <2>. QED
    BY <1>1, <1>2, <1>4, <1>5, <2>1, <2>2, QuietEnds
<1>7. ASSUME t \in heard \cap Stream
      PROVE  StreamEnds(t)
  <2>1. t \in buffers <=> t \in signals
    BY <1>2, <1>7, ServesNow DEF Serves
  <2>2. Head(cb.todo) = <<Head(cb.todo)[1], t>>
    BY <1>2, StepFacts
  <2>3. from \in [Stream -> Nat] /\ rd[t] \in Nat /\ from[t] \in Nat /\ rd[t] >= rd[t]
    BY <1>7, StreamTypes DEF Base, TypeOK
  <2>4. CASE t \notin buffers
    <3>1. from' = from
      BY <1>1, <2>1, <2>4
    <3>2. AtEnd(t, open, out[t], from[t], rd[t])
      BY <1>2, <1>7, <2>4 DEF Ends, EndReached
    <3>3. NoLineLeft(out[t], from[t], rd[t], atDeath[t])
      BY <1>7, <3>2, EndIsDrained DEF AtEnd, Ends
    <3>. QED
      BY <1>1, <3>1, <3>2, <3>3 DEF StreamEnds
  <2>5. CASE t \in buffers /\ Head(cb.todo)[1] = "drain"
    <3>1. cb'.todo = cb.todo
      BY <1>3, <1>4, <2>5 DEF AfterHandlerDone
    <3>2. cb.todo \in Seq(Step)
      BY <1>7, StreamTypes
    <3>3. 1 \in DOMAIN cb.todo /\ cb.todo[1] = Head(cb.todo)
      BY <1>2, <3>2
    <3>4. Pending(cb', <<"drain", t>>)
      BY <2>2, <2>5, <3>1, <3>3 DEF Pending
    <3>. QED
      BY <1>4, <2>5, <3>4 DEF StreamEnds
  <2>6. CASE t \in buffers /\ Head(cb.todo)[1] = "rest"
    <3>1. Spans(out[t], cb.line, from[t], rd[t])
      BY <1>1, <1>7, <2>6 DEF LinesSpan, KeepsLines, LineSpans, CallingFor
    <3>2. LineEnd(cb.line) = rd[t] + 1
      BY <1>2, <2>6, <3>1 DEF Spans, LineEnd, Last
    <3>3. from'[t] = rd[t] + 1
      BY <1>1, <1>7, <2>1, <2>3, <2>6, <3>2
    <3>4. from'[t] \in Nat /\ from'[t] >= rd[t]
      BY <2>3, <3>3
    <3>5. Head(cb.todo) # <<"drain", t>>
      BY <2>6
    <3>6. rd'[t] = rd[t] /\ (object' = "live" => t \in buffers')
      BY <1>1, <1>4, <2>6
    <3>. HIDE DEF t
    <3>. QED
      BY <1>1, <1>2, <1>4, <1>5, <1>7, <2>3, <3>4, <3>5, <3>6, OtherEnds
  <2>. QED
    BY <1>2, <1>7, <2>4, <2>5, <2>6
<1>. HIDE DEF t
<1>8. \A s \in heard' \cap Stream : StreamEnds(s)
  BY <1>1, <1>6, <1>7
<1>. QED
  BY <1>4, <1>8, EndsPrimed

LEMMA StepEnds ==
    ASSUME Base, LinesSpan, StopsBeforeExit, Ends, [Next]_vars
    PROVE  Ends'
<1>1. ReapedFirst'
  BY StepReaped DEF Ends
<1>2. CASE User
  BY <1>1, <1>2, ProcessEnds, ListenEnds, StopEnds, LetGoEnds DEF User, Ends
<1>3. CASE Callback
  BY <1>1, <1>3, ReadChunkEnds, EmitEnds, SigchldEndsEnds, HandlersReturnEnds DEF Callback, Ends
<1>. QED
  BY <1>1, <1>2, <1>3, ProcessEnds, BeginEnds DEF Next, Ends

-----------------------------------------------------------------------------
(* The results.                                                              *)

LEMMA InvParts == Inv <=> Base /\ LinesSpan /\ Ends
  BY DEF Inv, Base, Ends

LEMMA InitInv == Init => Inv
  BY InitBase, InitLines, InitEnds, InvParts

LEMMA StepInv ==
    ASSUME Inv, StopsBeforeExit, [Next]_vars
    PROVE  Inv'
<1>1. Base /\ LinesSpan /\ Ends
  BY InvParts
<1>2. Base' /\ LinesSpan' /\ Ends'
  BY <1>1, StepBase, StepLines, StepEnds
<1>. QED
  BY <1>2 DEF Inv, Base, Ends

(* Inv is an invariant: what libev calls back and user code does, in any     *)
(* order, keeps the listeners of spawn.c served, the buffers holding what    *)
(* has not been delivered, and what has been drained without a line left.    *)
THEOREM Invariant ==
    ASSUME StopsBeforeExit
    PROVE  Spec => []Inv
<1>1. Init => Inv
  BY InitInv
<1>2. Inv /\ [Next]_vars => Inv'
  BY StepInv
<1>. QED
  BY <1>1, <1>2, PTL DEF Spec

(* The variables of the child process keep their types.                      *)
THEOREM TypesKept ==
    ASSUME StopsBeforeExit
    PROVE  Spec => []TypeOK
<1>1. Inv => TypeOK
  BY DEF Inv
<1>. QED
  BY <1>1, Invariant, PTL

(* Listeners have what serves them exactly while they listen, and an object  *)
(* that is freed leaves no watcher behind (di_child_start_output_listener,   *)
(* di_child_process_new_exit_signal, their deleters and child_destroy).      *)
THEOREM ListenersAreServed ==
    ASSUME StopsBeforeExit
    PROVE  Spec => []ListenersServed
<1>1. Inv => ListenersServed
  BY DEF Inv, Served, Serves, ListenersServed
<1>. QED
  BY <1>1, Invariant, PTL

LEMMA SpansJoined ==
    ASSUME NEW s, NEW line \in Seq(Piece), NEW a, NEW b, Spans(out[s], line, a, b), line # <<>>
    PROVE  Joined(s, line)
<1>1. \A i \in 1 .. Len(line) : Newlines(s, line[i]) = {}
  BY DEF Spans, Newlines
<1>. QED
  BY <1>1 DEF Spans, Joined

(* Every line emitted is whole (output_handler, string_buf_dump), whatever   *)
(* the size of the reads and the length of the lines, and whoever listens,   *)
(* stops or listens again while lines are emitted.                           *)
THEOREM LinesAreWhole ==
    ASSUME StopsBeforeExit
    PROVE  Spec => []LinesWhole
<1>1. ASSUME Inv, cb.calling, cb.line # <<>>
      PROVE  LET s == Head(cb.todo)[2]
             IN  /\ Joined(s, cb.line)
                 /\ Head(cb.todo)[1] = "drain" => out[s][LineEnd(cb.line)] = "newline"
                 /\ Head(cb.todo)[1] = "rest" => Last(cb.line)[2] = rd[s]
                 /\ cb.line[1][1] = from[s] + 1
  <2>. DEFINE s == Head(cb.todo)[2]
  <2>1. Base /\ LinesSpan
    BY <1>1, InvParts
  <2>2. Head(cb.todo)[1] \in {"drain", "rest"} /\ s \in Stream /\ CallingFor(cb, s)
    BY <1>1, <2>1, CallingFacts DEF CallingFor
  <2>3. cb.line \in Seq(Piece)
    BY <2>1, <2>2, StreamTypes
  <2>4. LineSpans(s, cb, out[s], pieces[s], from[s], rd[s])
    BY <2>1, <2>2 DEF LinesSpan, KeepsLines
  <2>5. CASE Head(cb.todo)[1] = "drain"
    <3>1. Spans(out[s], cb.line, from[s], cb.chunk[1] - 2) /\ out[s][cb.chunk[1] - 1] = "newline"
      BY <2>2, <2>4, <2>5 DEF LineSpans
    <3>2. Joined(s, cb.line) /\ cb.line[1][1] = from[s] + 1 /\ Last(cb.line)[2] = cb.chunk[1] - 2
      <4>. HIDE DEF s
      <4>1. Joined(s, cb.line)
        BY <1>1, <2>3, <3>1, SpansJoined
      <4>. QED
        BY <1>1, <3>1, <4>1 DEF Spans, Last
    <3>3. LineEnd(cb.line) = cb.chunk[1] - 1
      <4>1. cb.chunk[1] \in Nat
        BY <2>1, <2>2, <2>5, ChunkInText
      <4>. QED
        BY <3>2, <4>1 DEF LineEnd
    <3>. QED
      BY <2>5, <3>1, <3>2, <3>3
  <2>6. CASE Head(cb.todo)[1] = "rest"
    <3>1. Spans(out[s], cb.line, from[s], rd[s])
      BY <2>2, <2>4, <2>6 DEF LineSpans
    <3>2. Joined(s, cb.line) /\ cb.line[1][1] = from[s] + 1 /\ Last(cb.line)[2] = rd[s]
      <4>. HIDE DEF s
      <4>1. Joined(s, cb.line)
        BY <1>1, <2>3, <3>1, SpansJoined
      <4>. QED
        BY <1>1, <3>1, <4>1 DEF Spans, Last
    <3>. QED
      BY <2>6, <3>2
  <2>. QED
    BY <2>2, <2>5, <2>6
<1>2. Inv => LinesWhole
  BY <1>1 DEF LinesWhole
<1>. QED
  BY <1>2, Invariant, PTL

(* sigchld_handler emits "exit" when no line that the process had written by *)
(* its end is left to deliver to those who listen.                           *)
THEOREM ExitIsLast ==
    ASSUME StopsBeforeExit
    PROVE  Spec => []ExitComesLast
<1>1. ASSUME Inv, At("exit", "exit"), NEW s \in heard \cap Stream
      PROVE  Newlines(s, <<from[s] + 1, atDeath[s]>>) = {}
  <2>1. Base /\ Drained
    BY <1>1, InvParts DEF Ends
  <2>2. /\ cb.todo # <<>> /\ Head(cb.todo) = <<"exit", "exit">> /\ Ordered(cb.todo)
        /\ cb \in Callbacks
    BY <1>1, <2>1, AtFacts
  <2>3. cb.todo \in Seq(Step)
    BY <2>2 DEF Callbacks
  <2>4. 1 \in DOMAIN cb.todo /\ cb.todo[1] = <<"exit", "exit">>
        /\ \A j \in DOMAIN cb.todo : j = 1 \/ 1 < j
    BY <2>2, <2>3
  <2>5. SigchldRuns(cb)
    BY <2>2, <2>4 DEF Ordered, SigchldRuns
  <2>6. \A j \in DOMAIN cb.todo : cb.todo[j][1] # "drain"
    BY <2>2, <2>4 DEF Ordered
  <2>7. ~Pending(cb, <<"drain", s>>)
    BY <2>6 DEF Pending
  <2>8. NoNewline(out[s], from[s], atDeath[s])
    BY <2>1, <2>5, <2>7 DEF Drained, NoLineLeft
  <2>. QED
    BY <2>8 DEF NoNewline, Newlines
<1>2. Inv => ExitComesLast
  BY <1>1 DEF ExitComesLast
<1>. QED
  BY <1>2, Invariant, PTL
=============================================================================
