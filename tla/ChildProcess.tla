---------------------------- MODULE ChildProcess ----------------------------
(***************************************************************************)
(* A child process object (spawn.c) with its line buffers (string_buf.c).  *)
(*                                                                         *)
(* The object reads the two pipes of the process while there are listeners *)
(* for their lines, and watches for its end while there are listeners for  *)
(* "exit".  libev calls it back when a pipe is readable and when it has    *)
(* reaped the process.  Handlers run in the middle of reading: they listen *)
(* and stop, let go of the object and call di:exit().  The process and its *)
(* own children write, close the pipes and end whenever they like.         *)
(*                                                                         *)
(* What is written on a stream is a sequence of "text" and "newline"; a    *)
(* piece of it is an interval <<first, last>> of positions.                *)
(***************************************************************************)
EXTENDS Naturals, Sequences, SequencesExt, FiniteSets, FiniteSetsExt

CONSTANTS
    BufSize,        \* what one read takes at most (4096 in the code)
    MaxOut,         \* bound: what is written on each stream
    MaxOps,         \* bound: operations of one handler
    QuitListening   \* may user code call di:exit() with a listener for "exit"

Stream == {"stdout_line", "stderr_line"}
Sig == Stream \cup {"exit"}

ASSUME ChildAssumption ==
    /\ BufSize \in Nat \ {0}
    /\ MaxOut \in [Stream -> Nat]
    /\ MaxOps \in Nat
    /\ QuitListening \in BOOLEAN

VARIABLES
    proc,      \* the process: "none", "running", "zombie" or "reaped"
    out,       \* what has been written on each stream
    open,      \* the streams that somebody can still write to
    rd,        \* how much of each stream has been read
    piped,     \* the output goes to pipes (ignore_output is false)
    object,    \* the object: "none", "live" or "dead"
    held,      \* user code has a reference to it
    signals,   \* its signal members
    buffers,   \* the streams that have an output_buf
    pieces,    \* the pieces in each output_buf
    watching,  \* the streams whose fdevent, an anonymous root, is running
    childw,    \* the ev_child watcher: "off", "on" or "pending"
    root,      \* the object is a named root
    exited,    \* di:exit() has finalized the roots
    aborted,   \* a DI_CHECK or an assertion has failed
    cb,        \* the callback that runs: the steps it has yet to take, the rest
               \* of the chunk it has read, and the handlers it is calling
    from,      \* history: the end of the last line delivered
    heard,     \* history: the signals listened to before sigchld_handler runs, which
               \* deletes all of them, and not stopped by user code
    atDeath    \* history: what each stream had when the process ended

external == <<proc, out, open, atDeath>>
objectVars == <<object, held, root, watching, signals, buffers>>
flags == <<piped, exited, aborted>>
vars == <<proc, out, open, rd, piped, object, held, signals, buffers, pieces, watching,
          childw, root, exited, aborted, cb, from, heard, atDeath>>

NoCallback == [todo |-> <<>>, chunk |-> <<>>, line |-> <<>>, calling |-> FALSE, left |-> 0]
UserCode == ~aborted /\ (cb = NoCallback \/ (cb.calling /\ cb.left > 0))
AfterOp == IF cb = NoCallback THEN cb ELSE [cb EXCEPT !.left = @ - 1]

Newlines(s, piece) == {p \in piece[1] .. piece[2] : out[s][p] = "newline"}

(* Mutant: the closure that listens to an fdevent has a weak reference.      *)
ReferencedWeakly(h, r, w, c) == h \/ r \/ c # NoCallback

(* The object is alive while user code, the roots, an fdevent (through the   *)
(* closure that listens to it) or a running callback refers to it.           *)
Referenced(h, r, w, c) == h \/ r \/ w # {} \/ c # NoCallback

(* The state after a step that leaves these references.  child_destroy frees *)
(* the buffers and leaves the ev_child watcher alone.                        *)
SetObject(h, r, w, sig, bufs, txt, c) ==
    LET dies == object = "live" /\ ~Referenced(h, r, w, c)
    IN  /\ object' = IF dies THEN "dead" ELSE object
        /\ held' = h /\ root' = r /\ watching' = w /\ cb' = c
        /\ signals' = IF dies THEN {} ELSE sig
        /\ buffers' = IF dies THEN {} ELSE bufs
        /\ pieces' = IF dies THEN [s \in Stream |-> <<>>] ELSE txt

Abort ==
    /\ aborted' = TRUE
    /\ UNCHANGED <<rd, piped, pieces, childw, exited, cb, from, objectVars>>

Init ==
    /\ proc = "none"
    /\ out = [s \in Stream |-> <<>>] /\ open = {} /\ rd = [s \in Stream |-> 0]
    /\ piped = FALSE
    /\ object = "none" /\ held = FALSE /\ signals = {}
    /\ buffers = {} /\ pieces = [s \in Stream |-> <<>>]
    /\ watching = {} /\ childw = "off" /\ root = FALSE /\ exited = FALSE /\ aborted = FALSE
    /\ cb = NoCallback
    /\ from = [s \in Stream |-> 0] /\ heard = {} /\ atDeath = [s \in Stream |-> 0]

-----------------------------------------------------------------------------
(* The process, and whoever has inherited its pipes, for as long as there is *)
(* an object to see it.                                                      *)

Write(s, c) ==
    /\ object = "live" /\ s \in open /\ Len(out[s]) < MaxOut[s]
    /\ out' = [out EXCEPT ![s] = Append(@, c)]
    /\ UNCHANGED <<proc, open, atDeath, rd, pieces, childw, cb, from, heard, objectVars, flags>>

Close(s) ==
    /\ object = "live" /\ s \in open
    /\ open' = open \ {s}
    /\ UNCHANGED <<proc, out, rd, pieces, childw, cb, from, heard, atDeath, objectVars, flags>>

Die ==
    /\ object = "live" /\ proc = "running"
    /\ proc' = "zombie"
    /\ atDeath' = [s \in Stream |-> Len(out[s])]
    /\ UNCHANGED <<out, open, rd, pieces, childw, cb, from, heard, objectVars, flags>>

(* libev waits for the process whether or not it is watched.                 *)
Reap ==
    /\ ~aborted /\ cb = NoCallback
    /\ proc = "zombie"
    /\ proc' = "reaped"
    /\ childw' = IF childw = "on" THEN "pending" ELSE childw
    /\ UNCHANGED <<out, open, rd, pieces, cb, from, heard, atDeath, objectVars, flags>>

-----------------------------------------------------------------------------
(* User code.                                                                *)

(* di_spawn_run, when the pipes and the process can be made.                 *)
Run(ignore) ==
    /\ UserCode /\ object = "none"
    /\ object' = "live" /\ held' = TRUE /\ proc' = "running"
    /\ piped' = ~ignore
    /\ open' = IF ignore THEN {} ELSE Stream
    /\ UNCHANGED <<out, rd, signals, buffers, pieces, watching, childw, root, exited, aborted,
                   cb, from, heard, atDeath>>

(* Where the lines of a new listener start: those of a handler that listens  *)
(* again start after the line it was called with.                            *)
ReadFrom(s) == IF cb.calling /\ Head(cb.todo)[2] = s THEN from[s] ELSE rd[s]

(* What sigchld_handler is about to delete.                                  *)
Ending == IF cb # NoCallback /\ Last(cb.todo)[1] = "end" THEN Sig ELSE {}

(* di_child_process_new_stdout_signal, _new_stderr_signal and                *)
(* di_child_start_output_listener, whose fdevent cannot start without roots. *)
ListenOutput(s) ==
    /\ piped
    /\ IF exited
       THEN Abort /\ UNCHANGED heard
       ELSE /\ SetObject(held, root, watching \cup {s}, signals \cup {s}, buffers \cup {s},
                         [pieces EXCEPT ![s] = <<>>], AfterOp)
            /\ from' = [from EXCEPT ![s] = ReadFrom(s)] /\ heard' = heard \cup ({s} \ Ending)
            /\ UNCHANGED <<rd, childw, flags>>

(* The listener of a stream that is ignored is never called.                 *)
ListenIgnored(s) ==
    /\ ~piped
    /\ SetObject(held, root, watching, signals, buffers, pieces, AfterOp)
    /\ UNCHANGED <<rd, childw, from, heard, flags>>

(* Mutant: the object does not become a root.                                *)
ListenExitUnrooted ==
    /\ SetObject(held, root, watching, signals \cup {"exit"}, buffers, pieces, AfterOp)
    /\ childw' = "on"
    /\ heard' = heard \cup ({"exit"} \ Ending)
    /\ UNCHANGED <<rd, from, flags>>

(* di_child_process_new_exit_signal                                          *)
ListenExit ==
    IF exited
    THEN Abort /\ UNCHANGED heard
    ELSE /\ SetObject(held, TRUE, watching, signals \cup {"exit"}, buffers, pieces, AfterOp)
         /\ childw' = "on"
         /\ heard' = heard \cup ({"exit"} \ Ending)
         /\ UNCHANGED <<rd, from, flags>>

(* di_listen_to on a signal without listeners.                               *)
Listen(x) ==
    /\ UserCode /\ object = "live" /\ held /\ x \notin signals
    /\ exited => QuitListening
    /\ \/ x \in Stream /\ (ListenOutput(x) \/ ListenIgnored(x))
       \/ x = "exit" /\ ListenExit
    /\ UNCHANGED external

(* The deleters, for the members that exist among xs:                        *)
(* di_child_process_stop_output_listener drops the fdevent and the buffer,   *)
(* di_child_process_delete_exit_signal the watcher and the root, which it    *)
(* expects to find.                                                          *)
DeleteSignals(xs, c) ==
    IF "exit" \in xs \cap signals /\ exited
    THEN Abort
    ELSE /\ SetObject(held, root /\ "exit" \notin xs, watching \ xs, signals \ xs,
                      buffers \ xs, [s \in Stream |-> IF s \in xs THEN <<>> ELSE pieces[s]], c)
         /\ childw' = IF "exit" \in xs \cap signals THEN "off" ELSE childw
         /\ UNCHANGED <<rd, from, flags>>

(* The last listener of a signal stops.                                      *)
Stop(x) ==
    /\ UserCode /\ x \in signals
    /\ DeleteSignals({x}, AfterOp)
    /\ heard' = heard \ {x}
    /\ UNCHANGED external

Drop ==
    /\ UserCode /\ held
    /\ SetObject(FALSE, root, watching, signals, buffers, pieces, AfterOp)
    /\ UNCHANGED <<rd, childw, from, heard, external, flags>>

(* di_prepare_exit: the named roots go, and the fdevents are destroyed.      *)
Exit ==
    /\ UserCode /\ ~exited
    /\ "exit" \in signals => QuitListening
    /\ exited' = TRUE
    /\ SetObject(held, FALSE, {}, signals, buffers, pieces, AfterOp)
    /\ UNCHANGED <<rd, piped, childw, aborted, from, heard, external>>

-----------------------------------------------------------------------------
(* The callbacks.                                                            *)

(* output_cb: the fdevent of s is readable.                                  *)
OutputReady(s) ==
    /\ ~aborted /\ cb = NoCallback
    /\ s \in watching /\ (rd[s] < Len(out[s]) \/ s \notin open)
    /\ IF s \in buffers
       THEN /\ cb' = [NoCallback EXCEPT !.todo = <<<<"drain", s>>>>]
            /\ UNCHANGED <<rd, pieces, childw, from, heard, objectVars, flags>>
       ELSE Abort /\ UNCHANGED heard
    /\ UNCHANGED external

(* Mutant: "exit" is emitted before the output is read.                      *)
SigchldStepsExitFirst ==
    <<<<"exit", "exit">>, <<"drain", "stdout_line">>, <<"rest", "stdout_line">>,
      <<"drain", "stderr_line">>, <<"rest", "stderr_line">>, <<"end", "exit">>>>

(* sigchld_handler, which keeps the object alive.                            *)
SigchldSteps ==
    <<<<"drain", "stdout_line">>, <<"rest", "stdout_line">>,
      <<"drain", "stderr_line">>, <<"rest", "stderr_line">>,
      <<"exit", "exit">>, <<"end", "exit">>>>

Sigchld ==
    /\ ~aborted /\ cb = NoCallback
    /\ childw = "pending"
    /\ childw' = "on"
    /\ cb' = [NoCallback EXCEPT !.todo = SigchldSteps]
    /\ UNCHANGED <<rd, pieces, from, heard, external, objectVars, flags>>

(* The next step of the callback, and what it is about.                      *)
At(step, s) == ~aborted /\ cb.todo # <<>> /\ ~cb.calling /\ Head(cb.todo) = <<step, s>>
StepDone == LET rest == Tail(cb.todo)
            IN  IF rest = <<>> THEN NoCallback ELSE [NoCallback EXCEPT !.todo = rest]

(* di_emit from the callback.                                                *)
Call(x, line) == [cb EXCEPT !.line = line, !.calling = x \in signals,
                            !.left = IF x \in signals THEN MaxOps ELSE 0]

(* read(): as much as there is and fits.                                     *)
ChunkEnd(s) == Min({rd[s] + BufSize, Len(out[s])})

(* output_handler reads the next chunk, or is done: there is no more to read *)
(* now, or never (which stops the listeners), or nobody listens.             *)
ReadChunk(s) ==
    /\ At("drain", s) /\ cb.chunk = <<>>
    /\ \/ /\ s \in buffers /\ rd[s] < Len(out[s])
          /\ rd' = [rd EXCEPT ![s] = ChunkEnd(s)]
          /\ cb' = [cb EXCEPT !.chunk = <<rd[s] + 1, ChunkEnd(s)>>]
          /\ UNCHANGED <<pieces, childw, from, heard, objectVars, flags>>
       \/ /\ s \notin buffers \/ (rd[s] = Len(out[s]) /\ s \in open)
          /\ SetObject(held, root, watching, signals, buffers, pieces, StepDone)
          /\ UNCHANGED <<rd, childw, from, heard, flags>>
       \/ /\ s \in buffers /\ rd[s] = Len(out[s]) /\ s \notin open
          /\ DeleteSignals({s}, StepDone)
          /\ UNCHANGED heard
    /\ UNCHANGED external

HasLine(s) == cb.chunk # <<>> /\ Newlines(s, cb.chunk) # {}

(* Mutant: what the last chunk left in the buffer is not part of the line.   *)
LineUpToUnbuffered(s, eol) == <<<<cb.chunk[1], eol - 1>>>>

(* The line that ends at eol, after what earlier chunks have left.           *)
LineUpTo(s, eol) == Append(pieces[s], <<cb.chunk[1], eol - 1>>)

(* The chunk has a whole line.  It is emitted with what the buffer holds;    *)
(* without a buffer this is a null pointer.                                  *)
EmitLine(s) ==
    /\ At("drain", s) /\ HasLine(s)
    /\ IF s \in buffers
       THEN /\ LET eol == Min(Newlines(s, cb.chunk))
               IN  cb' = [Call(s, LineUpTo(s, eol)) EXCEPT !.chunk[1] = eol + 1]
            /\ pieces' = [pieces EXCEPT ![s] = <<>>]
            /\ UNCHANGED <<rd, childw, from, objectVars, flags>>
       ELSE Abort
    /\ UNCHANGED <<heard, external>>

(* The chunk has no more line: what is left of it, be it nothing, is pushed. *)
PushRest(s) ==
    /\ At("drain", s) /\ cb.chunk # <<>> /\ ~HasLine(s)
    /\ pieces' = [pieces EXCEPT ![s] = Append(@, cb.chunk)]
    /\ cb' = [cb EXCEPT !.chunk = <<>>]
    /\ UNCHANGED <<rd, childw, from, heard, external, objectVars, flags>>

(* sigchld_handler emits what output_handler has left in the buffer.         *)
EmitRest(s) ==
    /\ At("rest", s)
    /\ IF s \in buffers /\ pieces[s] # <<>>
       THEN /\ cb' = Call(s, pieces[s])
            /\ pieces' = [pieces EXCEPT ![s] = <<>>]
       ELSE cb' = StepDone /\ UNCHANGED pieces
    /\ UNCHANGED <<rd, childw, from, heard, external, objectVars, flags>>

EmitExit ==
    /\ At("exit", "exit")
    /\ cb' = IF "exit" \in signals THEN Call("exit", <<>>) ELSE StepDone
    /\ UNCHANGED <<rd, pieces, childw, from, heard, external, objectVars, flags>>

(* "Proactively stop all signal listeners."                                  *)
SigchldEnds ==
    /\ At("end", "exit")
    /\ DeleteSignals(Sig, StepDone)
    /\ heard' = heard \cap {"exit"}
    /\ UNCHANGED external

LineEnd(line) == Last(line)[2] + 1

(* The handlers of a line have returned: output_handler goes on while its    *)
(* buffer is there, and the other steps are done.                            *)
AfterHandlerDone(s) == Head(cb.todo)[1] # "drain" \/ s \notin buffers

(* The handlers that the callback has called return.                         *)
HandlersReturn ==
    /\ ~aborted /\ cb.calling
    /\ LET s == Head(cb.todo)[2]
       IN  /\ SetObject(held, root, watching, signals, buffers, pieces,
                        IF AfterHandlerDone(s) THEN StepDone
                        ELSE [cb EXCEPT !.line = <<>>, !.calling = FALSE, !.left = 0])
           /\ from' = IF s \in signals \cap Stream
                      THEN [from EXCEPT ![s] = LineEnd(cb.line)] ELSE from
    /\ UNCHANGED <<rd, childw, heard, external, flags>>

Process ==
    \/ \E s \in Stream : Close(s) \/ \E c \in {"text", "newline"} : Write(s, c)
    \/ Die

User ==
    \/ \E ignore \in BOOLEAN : Run(ignore)
    \/ \E x \in Sig : Listen(x) \/ Stop(x)
    \/ Drop \/ Exit

Callback ==
    \/ \E s \in Stream : ReadChunk(s) \/ EmitLine(s) \/ PushRest(s) \/ EmitRest(s)
    \/ EmitExit \/ SigchldEnds \/ HandlersReturn

Next == Process \/ User \/ Reap \/ Sigchld \/ (\E s \in Stream : OutputReady(s)) \/ Callback

Spec == Init /\ [][Next]_vars

(* Callbacks go on until they return, and libev comes to every watcher that  *)
(* is pending, also when others become pending again and again.              *)
FairSpec ==
    /\ Spec
    /\ WF_vars(Callback)
    /\ SF_vars(Reap) /\ SF_vars(Sigchld)
    /\ \A s \in Stream : SF_vars(OutputReady(s))

-----------------------------------------------------------------------------
(* Properties.                                                               *)

Piece == Nat \X Nat
Step == ({"drain", "rest"} \X Stream) \cup ({"exit", "end"} \X {"exit"})

(* The type invariant.                                                       *)
TypeOK ==
    /\ proc \in {"none", "running", "zombie", "reaped"}
    /\ out \in [Stream -> Seq({"text", "newline"})]
    /\ open \subseteq Stream
    /\ rd \in [Stream -> Nat] /\ \A s \in Stream : rd[s] <= Len(out[s])
    /\ from \in [Stream -> Nat] /\ atDeath \in [Stream -> Nat]
    /\ object \in {"none", "live", "dead"}
    /\ {piped, held, root, exited, aborted} \subseteq BOOLEAN
    /\ signals \subseteq Sig /\ buffers \subseteq Stream /\ watching \subseteq Stream
    /\ heard \subseteq Sig
    /\ pieces \in [Stream -> Seq(Piece)]
    /\ childw \in {"off", "on", "pending"}
    /\ cb \in [todo : Seq(Step), chunk : {<<>>} \cup Piece, line : Seq(Piece),
               calling : BOOLEAN, left : 0 .. MaxOps]

(* Every listener is served, and nothing is kept for listeners that are      *)
(* gone: a stream has its buffer and its fdevent, "exit" its watcher and its *)
(* root, exactly while they are listened to (di_child_start_output_listener, *)
(* di_child_process_new_exit_signal and their counterparts, none of whose    *)
(* DI_CHECKs and assertions fails).  libev has no watcher in an object that  *)
(* is freed, which child_destroy does not stop.                              *)
ListenersServed ==
    /\ ~aborted
    /\ object = "dead" => childw = "off" /\ watching = {}
    /\ object = "live" =>
        /\ buffers = signals \cap Stream
        /\ ~exited => watching = buffers
        /\ "exit" \in signals <=> childw # "off"
        /\ ~exited => (root <=> "exit" \in signals)

(* The pieces of a line are consecutive and hold no newline.                 *)
Joined(s, line) ==
    /\ \A i \in 1 .. Len(line) - 1 : line[i + 1][1] = line[i][2] + 1
    /\ \A i \in 1 .. Len(line) : Newlines(s, line[i]) = {}

(* A line that is emitted starts where the last one has ended, or where      *)
(* reading has begun, and goes on to its newline or to the end of the        *)
(* output: no part of a line is lost or repeated between chunks              *)
(* (output_handler, string_buf_dump).                                        *)
LinesWhole ==
    cb.calling /\ cb.line # <<>> =>
        LET s == Head(cb.todo)[2]
        IN  /\ Joined(s, cb.line)
            /\ Head(cb.todo)[1] = "drain" => out[s][LineEnd(cb.line)] = "newline"
            /\ Head(cb.todo)[1] = "rest" => Last(cb.line)[2] = rd[s]
            /\ cb.line[1][1] = from[s] + 1

(* When "exit" is emitted, every line that the process has written before it *)
(* ended has been delivered to those that listen to it (sigchld_handler      *)
(* reads the pipes first).                                                   *)
ExitComesLast ==
    At("exit", "exit") =>
        \A s \in heard \cap Stream : Newlines(s, <<from[s] + 1, atDeath[s]>>) = {}

(* The end of a process that is listened to before it is reaped is reported, *)
(* unless the listeners stop or the program exits; also when user code keeps *)
(* no reference to the object (di_child_process_new_exit_signal roots it).   *)
ExitReported ==
    (proc = "zombie" /\ "exit" \in heard) ~>
        ((cb.calling /\ Head(cb.todo)[1] = "exit") \/ "exit" \notin heard \/ exited)
=============================================================================
