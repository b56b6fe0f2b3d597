---------------------------- MODULE ExecPumpProofs ----------------------------
(***************************************************************************)
(* Theorems about `exec`, for any child, any output, pipes of any capacity *)
(* and any number of probes: the look of --warn-unsealed at the child,     *)
(* what the pumps of --redact bring to the sinks, and that they use their  *)
(* streams as RedactStream says.                                           *)
(***************************************************************************)
EXTENDS ExecPump, RedactStreamProofs

\* What the poll knows.  Its window ends after ATTEMPTS probes, of which the first
\* Inconclusive may say nothing: the environment of a child that runs unsealed to
\* this moment was readable all the time, so one of the later ones has seen it.
PollInv ==
    /\ attempt \in 0 .. ATTEMPTS
    /\ saw_readable \in BOOLEAN
    /\ main = "start" => attempt = 0 /\ child = "none"
    /\ main = "poll" /\ child = "running" /\ ~sealed /\ attempt > Inconclusive => saw_readable

IInv == PollInv /\ UnsealedChildIsNamed

-----------------------------------------------------------------------------

LEMMA InitIInv == Init => IInv
<1> SUFFICES ASSUME Init PROVE IInv
  OBVIOUS
<1>1. /\ main = "start" /\ child = "none"
      /\ attempt = 0 /\ saw_readable = FALSE
  BY Zenon DEF Init
<1>2. attempt \in 0 .. ATTEMPTS
  BY <1>1, PumpAssumption
<1> QED  BY <1>1, <1>2, Zenon DEF IInv, PollInv, UnsealedChildIsNamed

\* A probe that says Readable is remembered; after Inconclusive probes, one of a
\* child that runs unsealed says nothing else.
LEMMA ProbeIInv ==
    ASSUME IInv, Poll
    PROVE  IInv'
<1> USE PumpAssumption DEF Poll
<1>1. PICK answer \in probe_seal_status :
        IF EndsPoll(answer)
        THEN main' = AfterPoll /\ attempt' = 0 /\ UNCHANGED saw_readable
        ELSE /\ saw_readable' = (saw_readable \/ answer = "Readable")
             /\ attempt' = attempt + 1 /\ UNCHANGED main
  OBVIOUS
<1>2. CASE EndsPoll(answer)
  <2>1. ~(child = "running" /\ ~sealed)
    BY <1>1, <1>2 DEF EndsPoll, probe_seal_status, EnvironOwner
  <2>2. main' \in {"spawn", "wait"} /\ attempt' = 0 /\ saw_readable' = saw_readable
    BY <1>1, <1>2 DEF AfterPoll
  <2> QED  BY <2>1, <2>2 DEF IInv, PollInv, UnsealedChildIsNamed
<1>3. CASE ~EndsPoll(answer)
  <2>1. main' = "poll" /\ attempt' = attempt + 1
    BY <1>1, <1>3
  <2>2. saw_readable' = (saw_readable \/ answer = "Readable")
    BY <1>1, <1>3
  <2>3. attempt' \in 0 .. ATTEMPTS
    BY <2>1 DEF IInv, PollInv
  <2>4. ASSUME child = "running", ~sealed, attempt' > Inconclusive
        PROVE  saw_readable'
    <3>1. ~(attempt < Inconclusive)
      BY <2>1, <2>4 DEF IInv, PollInv
    <3>2. answer = "Readable"
      BY <2>4, <3>1 DEF probe_seal_status, EnvironOwner
    <3> QED  BY <2>2, <3>2
  <2>5. saw_readable' \in BOOLEAN
    BY <2>2 DEF IInv, PollInv
  <2> QED  BY <2>1, <2>3, <2>4, <2>5 DEF IInv, PollInv, UnsealedChildIsNamed
<1> QED  BY <1>2, <1>3

\* The window is over: a child that is unsealed now was seen.
LEMMA WarnIInv ==
    ASSUME Inconclusive < ATTEMPTS, IInv, WarnUnsealed
    PROVE  IInv'
  BY PumpAssumption DEF IInv, PollInv, UnsealedChildIsNamed, WarnUnsealed, AfterPoll

\* A child that starts is looked at before anything else, if that was asked for.
LEMMA StartIInv ==
    ASSUME IInv, StartChild
    PROVE  IInv'
<1>1. /\ attempt = 0 /\ child = "none" /\ saw_readable \in BOOLEAN
      /\ attempt' = attempt /\ saw_readable' = saw_readable /\ asked' = asked
  BY DEF IInv, PollInv, StartChild, pollVars
<1>2. attempt' \in 0 .. ATTEMPTS /\ ~(attempt' > Inconclusive)
  BY <1>1, PumpAssumption
<1>3. \/ main' = "error" /\ child' = child
      \/ "warn" \in asked /\ main' = "poll"
      \/ "warn" \notin asked /\ main' \in {"replaced", "spawn", "wait"}
  BY Zenon DEF StartChild, AfterPoll
<1> QED  BY <1>1, <1>2, <1>3, Zenon DEF IInv, PollInv, UnsealedChildIsNamed

\* A child that seals itself or exits needs no warning.
LEMMA ChildIInv ==
    ASSUME IInv, ChildExit \/ ChildSeals
    PROVE  IInv'
  BY DEF IInv, PollInv, UnsealedChildIsNamed, ChildExit, ChildSeals, pollVars, pumpVars

\* The pipes, the pumps and the joins come after the poll, and leave alone what it
\* has found.
LEMMA PumpsIInv ==
    ASSUME IInv,
           \/ \E s \in Stream : PumpStep(s) \/ ChildClose(s) \/ \E b \in Byte : ChildWrite(s, b)
           \/ Spawn \/ JoinOut \/ JoinErr \/ Wait
    PROVE  IInv'
<1>1. /\ UNCHANGED <<asked, child, sealed, pollVars>>
      /\ main' = main \/ (main \notin {"start", "poll"} /\ main' \notin {"start", "poll"})
  <2>1. CASE \E s \in Stream :
               PumpStep(s) \/ ChildClose(s) \/ \E b \in Byte : ChildWrite(s, b)
    BY <2>1 DEF PumpStep, PumpRead, PumpEof, PumpWrite, PumpFails, ChildClose, ChildWrite,
                ChildVars
  <2>2. CASE Spawn \/ JoinOut \/ JoinErr \/ Wait
    BY <2>2 DEF Spawn, JoinOut, JoinErr, Wait, ChildVars
  <2> QED  BY <2>1, <2>2
<1> QED  BY <1>1 DEF IInv, PollInv, UnsealedChildIsNamed, pollVars

LEMMA NextIInv ==
    ASSUME Inconclusive < ATTEMPTS, IInv, [Next]_vars
    PROVE  IInv'
<1>1. CASE StartChild    BY <1>1, StartIInv
<1>2. CASE Poll          BY <1>2, ProbeIInv
<1>3. CASE WarnUnsealed  BY <1>3, WarnIInv
<1>4. CASE ChildExit \/ ChildSeals
  BY <1>4, ChildIInv
<1>5. CASE \/ \E s \in Stream :
                PumpStep(s) \/ ChildClose(s) \/ \E b \in Byte : ChildWrite(s, b)
           \/ Spawn \/ JoinOut \/ JoinErr \/ Wait
  BY <1>5, PumpsIInv
<1>6. CASE UNCHANGED vars
  BY <1>6 DEF vars, pollVars, IInv, PollInv, UnsealedChildIsNamed
<1> QED  BY <1>1, <1>2, <1>3, <1>4, <1>5, <1>6 DEF Next, MainStep

\* If some probe of the window is conclusive, the poll of poll_seal_and_warn is
\* silent only about a child that sealed itself or is gone.
THEOREM SilentIsSealed ==
    ASSUME Inconclusive < ATTEMPTS
    PROVE  Spec => []UnsealedChildIsNamed
<1>1. Init => IInv
  BY InitIInv
<1>2. IInv /\ [Next]_vars => IInv'
  BY NextIInv
<1>3. IInv => UnsealedChildIsNamed
  BY DEF IInv
<1> QED  BY <1>1, <1>2, <1>3, PTL DEF Spec

-----------------------------------------------------------------------------
(* The pumps.                                                              *)

\* A pump that has not failed has fed all that the child wrote but what is in the
\* pipe, and written all that process returned but what is ready; one that failed
\* has written the beginning of it.
PumpInv(s) ==
    /\ sent[s] \in Seq(Byte) /\ pipe[s] \in Seq(Byte)
    /\ ready[s] \in Seq(Symbol) /\ sink[s] \in Seq(Symbol)
    /\ pump[s] \in {"unborn", "read", "write", "flush", "done", "failed"}
    /\ IF pump[s] = "failed" THEN \E lost \in Seq(Symbol) : out[s] = sink[s] \o lost
       ELSE sent[s] = input[s] \o pipe[s] /\ out[s] = sink[s] \o ready[s]
    /\ pump[s] \in {"flush", "done"} => eof[s] /\ pipe[s] = <<>> /\ s \notin ends
    /\ pump[s] \notin {"flush", "done", "failed"} => ~ eof[s]
    /\ pump[s] \notin {"write", "flush"} => ready[s] = <<>>

\* Where the main thread is says where the pumps are.  Without --redact there are
\* no pipes.
MainInv ==
    /\ main \in {"start", "poll", "spawn"} => \A s \in Stream : pump[s] = "unborn"
    /\ "redact" \notin asked =>
          /\ main \notin {"spawn", "join_out", "join_err"} /\ ends = {}
          /\ \A s \in Stream : pump[s] = "unborn" /\ sent[s] = <<>> /\ sink[s] = <<>>
    /\ main = "join_err" => Ended("stdout")
    /\ main \in {"wait", "returned"} /\ "redact" \in asked =>
          \A s \in Stream : pump[s] = "done"

OnStreams == \A v \in {sent, pipe, pump, ready, sink} : DOMAIN v = Stream

OutInv ==
    /\ StreamsInv
    /\ OnStreams
    /\ \A s \in Stream : PumpInv(s)
    /\ MainInv

LEMMA InitOutInv == Init => OutInv
<1> SUFFICES ASSUME Init PROVE OutInv
  OBVIOUS
<1>1. StreamsInv
  BY StreamsInvInit DEF Init
<1>2. OnStreams
  BY DEF Init, OnStreams
<1>3. ASSUME NEW s \in Stream
      PROVE  PumpInv(s)
  <2>1. /\ sent[s] = <<>> /\ pipe[s] = <<>> /\ ready[s] = <<>> /\ sink[s] = <<>>
        /\ pump[s] = "unborn" /\ input[s] = <<>> /\ out[s] = <<>> /\ eof[s] = FALSE
    BY DEF Init, StreamInit
  <2>2. <<>> \o <<>> = <<>> /\ <<>> \in Seq(Byte) /\ <<>> \in Seq(Symbol)
    BY EmptySeq, ConcatEmptySeq
  <2> QED
    BY <2>1, <2>2 DEF PumpInv
<1>4. MainInv
  BY DEF Init, MainInv
<1> QED
  BY <1>1, <1>2, <1>3, <1>4 DEF OutInv

\* A step that leaves a pump alone, and does not open a pipe that was closed.
LEMMA PumpKept ==
  ASSUME NEW s \in Stream, PumpInv(s), s \in ends' => s \in ends \/ pump[s] = "unborn",
         sent'[s] = sent[s], pipe'[s] = pipe[s], ready'[s] = ready[s],
         sink'[s] = sink[s], pump'[s] = pump[s], input'[s] = input[s],
         out'[s] = out[s], eof'[s] = eof[s]
  PROVE  PumpInv(s)'
  BY DEF PumpInv

LEMMA StreamsKept ==
  ASSUME StreamsInv, UNCHANGED streamVars
  PROVE  StreamsInv'
  BY DEF streamVars, StreamsInv, StreamInv, LittleWithheld

\* The main thread and the child, when they leave the pumps alone.
LEMMA PumpsKept ==
  ASSUME OutInv, ends' \in SUBSET ends \/ \A s \in Stream : pump[s] = "unborn",
         UNCHANGED <<sent, pipe, pump, streamVars, ready, sink>>
  PROVE  StreamsInv' /\ OnStreams' /\ \A s \in Stream : PumpInv(s)'
<1>1. StreamsInv'
  BY StreamsKept DEF OutInv
<1>2. OnStreams'
  BY DEF OutInv, OnStreams
<1>3. ASSUME NEW s \in Stream
      PROVE  PumpInv(s)'
  BY PumpKept DEF OutInv, streamVars
<1> QED
  BY <1>1, <1>2, <1>3

LEMMA StartOutInv ==
  ASSUME OutInv, StartChild
  PROVE  OutInv'
<1>1. \A s \in Stream : pump[s] = "unborn"
  BY DEF OutInv, MainInv, StartChild
<1>2. StreamsInv' /\ OnStreams' /\ \A s \in Stream : PumpInv(s)'
  BY <1>1, PumpsKept DEF StartChild
<1>3. /\ pump' = pump /\ sent' = sent /\ sink' = sink /\ asked' = asked
      /\ \/ main' = "error" /\ ends' = ends
         \/ /\ main' \in {"replaced", "poll", "spawn", "wait"}
            /\ "redact" \notin asked => ends' = {} /\ main' # "spawn"
            /\ "redact" \in asked => main' # "wait"
  BY DEF StartChild, AfterPoll
<1>4. MainInv'
  BY <1>1, <1>3 DEF OutInv, MainInv
<1> QED
  BY <1>2, <1>4 DEF OutInv

LEMMA ChildOutInv ==
  ASSUME OutInv,
         ChildExit \/ ChildSeals \/ \E s \in Stream : ChildClose(s)
  PROVE  OutInv'
<1>1. /\ ends' \in SUBSET ends
      /\ UNCHANGED <<sent, pipe, pump, streamVars, ready, sink, main, asked>>
  BY DEF ChildExit, ChildSeals, ChildClose, pumpVars
<1>2. StreamsInv' /\ OnStreams' /\ \A s \in Stream : PumpInv(s)'
  BY <1>1, PumpsKept
<1>3. MainInv'
  BY <1>1 DEF OutInv, MainInv, Ended
<1> QED
  BY <1>2, <1>3 DEF OutInv

LEMMA MainOutInv ==
  ASSUME OutInv, Poll \/ WarnUnsealed \/ JoinOut \/ JoinErr \/ Wait
  PROVE  OutInv'
<1>1. UNCHANGED <<ends, sent, pipe, pump, streamVars, ready, sink, asked>>
  BY DEF Poll, WarnUnsealed, JoinOut, JoinErr, Wait, pumpVars, ChildVars
<1>2. StreamsInv' /\ OnStreams' /\ \A s \in Stream : PumpInv(s)'
  BY <1>1, PumpsKept
<1>3. MainInv'
  <2>1. CASE Poll \/ WarnUnsealed
    <3>1. main = "poll" /\ main' \in {"poll", AfterPoll}
      BY <2>1 DEF Poll, WarnUnsealed
    <3> QED
      BY <1>1, <3>1 DEF OutInv, MainInv, AfterPoll
  <2>2. CASE JoinOut
    BY <1>1, <2>2 DEF JoinOut, OutInv, MainInv, Ended
  <2>3. CASE JoinErr
    <3>1. main = "join_err" /\ Ended("stdout") /\ Ended("stderr") /\ "redact" \in asked
      BY <2>3 DEF JoinErr, CanLeaveJoin, OutInv, MainInv
    <3>2. main' = "error" \/ (main' = "wait" /\ \A s \in Stream : pump[s] # "failed")
      BY <2>3 DEF JoinErr
    <3>3. main' = "wait" => \A s \in Stream : pump[s] = "done"
      BY <3>1, <3>2, PumpAssumption DEF Ended
    <3> QED
      BY <1>1, <3>1, <3>2, <3>3 DEF MainInv
  <2>4. CASE Wait
    BY <1>1, <2>4 DEF Wait, OutInv, MainInv
  <2> QED
    BY <2>1, <2>2, <2>3, <2>4
<1> QED
  BY <1>2, <1>3 DEF OutInv

LEMMA SpawnOutInv ==
  ASSUME OutInv, Spawn
  PROVE  OutInv'
<1>1. \A s \in Stream : pump[s] = "unborn"
  BY DEF OutInv, MainInv, Spawn
<1>2. /\ pump' = [s \in Stream |-> "read"] /\ main' = "join_out"
      /\ UNCHANGED <<ends, sent, pipe, streamVars, ready, sink, asked>>
      /\ "redact" \in asked
  BY DEF Spawn, ChildVars, OutInv, MainInv
<1>3. ASSUME NEW s \in Stream
      PROVE  PumpInv(s)'
  <2>1. PumpInv(s) /\ pump[s] = "unborn" /\ pump'[s] = "read"
    BY <1>1, <1>2 DEF OutInv
  <2> QED
    BY <1>2, <2>1 DEF PumpInv, streamVars
<1>4. OnStreams' /\ StreamsInv'
  <2>1. StreamsInv'
    BY <1>2, StreamsKept DEF OutInv
  <2>2. OnStreams'
    BY <1>2 DEF OutInv, OnStreams
  <2> QED
    BY <2>1, <2>2
<1>5. MainInv'
  BY <1>2 DEF MainInv
<1> QED
  BY <1>3, <1>4, <1>5 DEF OutInv

\* A step of one pump, or of the child on one pipe: what it has to keep.
LEMMA OnePump ==
  ASSUME OutInv, NEW s \in Stream, PumpInv(s)', StreamsInv', OnStreams',
         UNCHANGED <<ends, main, asked>>, pump'[s] # "unborn",
         "redact" \in asked, pump[s] # "unborn",
         pump[s] \in {"done", "failed"} => pump'[s] = pump[s],
         \A t \in Stream \ {s} :
            /\ sent'[t] = sent[t] /\ pipe'[t] = pipe[t] /\ ready'[t] = ready[t]
            /\ sink'[t] = sink[t] /\ pump'[t] = pump[t] /\ input'[t] = input[t]
            /\ out'[t] = out[t] /\ eof'[t] = eof[t]
  PROVE  OutInv'
<1>1. ASSUME NEW t \in Stream
      PROVE  PumpInv(t)'
  <2>1. CASE t = s
    BY <2>1
  <2>2. CASE t # s
    BY <2>2, PumpKept DEF OutInv
  <2> QED
    BY <2>1, <2>2
<1>2. \A t \in Stream : pump[t] \in {"done", "failed"} => pump'[t] = pump[t]
  OBVIOUS
<1>3. main \notin {"start", "poll", "spawn"}
  BY DEF OutInv, MainInv
<1>4. Stream = {"stdout", "stderr"}
  BY PumpAssumption
<1>5. main' = "join_err" => Ended("stdout")'
  BY <1>2, <1>4 DEF OutInv, MainInv, Ended
<1>6. main' \in {"wait", "returned"} => \A t \in Stream : pump'[t] = "done"
  BY <1>2 DEF OutInv, MainInv
<1>7. MainInv'
  BY <1>3, <1>5, <1>6 DEF MainInv
<1> QED
  BY <1>1, <1>7 DEF OutInv

LEMMA WriteEndOutInv ==
  ASSUME OutInv, NEW s \in Stream, NEW b \in Byte, ChildWrite(s, b)
  PROVE  OutInv'
<1>1. /\ s \in ends /\ pump[s] # "failed"
      /\ sent' = [sent EXCEPT ![s] = Append(@, b)]
      /\ pipe' = [pipe EXCEPT ![s] = Append(@, b)]
      /\ UNCHANGED <<asked, ends, pump, streamVars, ready, sink, main>>
  BY DEF ChildWrite, ReadEndOpen
<1>2. DOMAIN sent = Stream /\ DOMAIN pipe = Stream /\ PumpInv(s) /\ StreamsInv /\ MainInv
  BY DEF OutInv, OnStreams
<1>3. /\ sent'[s] = Append(sent[s], b) /\ pipe'[s] = Append(pipe[s], b)
      /\ \A t \in Stream \ {s} : sent'[t] = sent[t] /\ pipe'[t] = pipe[t]
  BY <1>1, <1>2
<1>4. /\ sent[s] \in Seq(Byte) /\ pipe[s] \in Seq(Byte) /\ input[s] \in Seq(Byte)
      /\ sent[s] = input[s] \o pipe[s]
  BY <1>1, <1>2 DEF PumpInv, StreamsInv, StreamInv
<1>5. Append(sent[s], b) = input[s] \o Append(pipe[s], b)
  <2>1. Append(sent[s], b) = sent[s] \o <<b>> /\ Append(pipe[s], b) = pipe[s] \o <<b>>
    BY <1>4, AppendIsConcat
  <2> DEFINE fed == input[s]
             rest == pipe[s]
             new == <<b>>
  <2>2. fed \in Seq(Byte) /\ rest \in Seq(Byte) /\ new \in Seq(Byte)
    BY <1>4
  <2> HIDE DEF fed, rest, new
  <2>3. (fed \o rest) \o new = fed \o (rest \o new)
    BY <2>2, Associative
  <2> QED
    BY <1>4, <2>1, <2>3 DEF fed, rest, new
<1>6. Append(sent[s], b) \in Seq(Byte) /\ Append(pipe[s], b) \in Seq(Byte)
  BY <1>4, AppendProperties
<1>7. pump[s] \notin {"flush", "done", "failed"}
  BY <1>1, <1>2 DEF PumpInv
<1>8. PumpInv(s)'
  BY <1>1, <1>2, <1>3, <1>5, <1>6, <1>7 DEF PumpInv, streamVars
<1>9. OnStreams' /\ StreamsInv' /\ "redact" \in asked
  <2>1. StreamsInv'
    BY <1>1, <1>2, StreamsKept
  <2>2. OnStreams'
    BY <1>1, <1>2 DEF OutInv, OnStreams
  <2>3. "redact" \in asked
    BY <1>1, <1>2 DEF MainInv
  <2> QED
    BY <2>1, <2>2, <2>3
<1>10. CASE pump[s] = "unborn"
  <2>1. \A t \in Stream : PumpInv(t)'
    <3>1. ASSUME NEW t \in Stream, t # s
          PROVE  PumpInv(t)'
      BY <1>1, <1>3, <3>1, PumpKept DEF OutInv, streamVars
    <3> QED
      BY <1>8, <3>1
  <2>2. MainInv'
    BY <1>1, <1>2, <1>9 DEF MainInv, Ended
  <2> QED
    BY <1>9, <2>1, <2>2 DEF OutInv
<1>11. CASE pump[s] # "unborn"
  BY <1>1, <1>3, <1>8, <1>9, <1>11, OnePump DEF streamVars
<1> QED
  BY <1>10, <1>11

\* What Feed leaves alone, and what it makes of its stream.
LEMMA FeedOne ==
  ASSUME OutInv, NEW s \in Stream, NEW chunk \in Seq(Byte), NEW last \in BOOLEAN,
         last => chunk = <<>>, Feed(s, chunk, last)
  PROVE  /\ StreamsInv'
         /\ input'[s] = input[s] \o chunk /\ eof'[s] = last
         /\ out'[s] = out[s] \o Process(carry[s], chunk, last).out
         /\ Process(carry[s], chunk, last).out \in Seq(Symbol)
         /\ \A t \in Stream \ {s} :
               input'[t] = input[t] /\ out'[t] = out[t] /\ eof'[t] = eof[t]
<1>1. StreamsInv /\ StreamInv(s)
  BY DEF OutInv, StreamsInv
<1>2. StreamsInv' /\ out'[s] = out[s] \o Process(carry[s], chunk, last).out
  BY <1>1, StreamsInvFeed
<1>3. DOMAIN input = Stream /\ DOMAIN out = Stream /\ DOMAIN eof = Stream
  BY <1>1 DEF StreamsInv
<1>4. /\ input' = [input EXCEPT ![s] = @ \o chunk]
      /\ out' = [out EXCEPT ![s] = @ \o Process(carry[s], chunk, last).out]
      /\ eof' = [eof EXCEPT ![s] = last]
  BY DEF Feed
<1>5. carry[s] \in Seq(Byte)
  BY <1>1 DEF StreamInv
<1>6. Process(carry[s], chunk, last).out \in Seq(Symbol)
  BY <1>5, ProcessSplits
<1> QED
  BY <1>2, <1>3, <1>4, <1>6

LEMMA ReadOutInv ==
  ASSUME OutInv, NEW s \in Stream, PumpRead(s)
  PROVE  OutInv'
<1>1. /\ pump[s] = "read" /\ pipe[s] # <<>>
      /\ UNCHANGED <<asked, ends, sent, sink, main>>
  BY DEF PumpRead, MayRead, ChildVars
<1>2. PICK n \in 1 .. Len(pipe[s]) :
        LET chunk == SubSeq(pipe[s], 1, n)
            new   == Process(carry[s], chunk, FALSE).out
        IN  /\ pipe' = [pipe EXCEPT ![s] = SubSeq(@, n + 1, Len(@))]
            /\ Feed(s, chunk, FALSE)
            /\ ready' = [ready EXCEPT ![s] = new]
            /\ Goto(s, IF new = <<>> THEN "read" ELSE "write")
  BY DEF PumpRead
<1> DEFINE chunk == SubSeq(pipe[s], 1, n)
           left  == SubSeq(pipe[s], n + 1, Len(pipe[s]))
           new   == Process(carry[s], chunk, FALSE).out
<1>3. /\ DOMAIN pipe = Stream /\ DOMAIN pump = Stream /\ DOMAIN ready = Stream
      /\ PumpInv(s) /\ StreamInv(s) /\ MainInv
  BY DEF OutInv, OnStreams, StreamsInv
<1>4. /\ pipe'[s] = left /\ ready'[s] = new
      /\ pump'[s] = IF new = <<>> THEN "read" ELSE "write"
      /\ \A t \in Stream \ {s} :
            pipe'[t] = pipe[t] /\ ready'[t] = ready[t] /\ pump'[t] = pump[t]
  BY <1>2, <1>3 DEF Goto
<1>5. Feed(s, chunk, FALSE)
  BY <1>2
<1>6. pipe[s] \in Seq(Byte) /\ chunk \in Seq(Byte) /\ left \in Seq(Byte) /\ pipe[s] = chunk \o left
  <2>1. pipe[s] \in Seq(Byte) /\ Len(pipe[s]) \in Nat
    BY <1>3, LenProperties DEF PumpInv
  <2> DEFINE k == Len(pipe[s]) - n
  <2>2. k \in 0 .. Len(pipe[s]) /\ Len(pipe[s]) - k = n
    BY <2>1
  <2> HIDE DEF k
  <2> QED
    BY <2>1, <2>2, LastElements
<1> HIDE DEF left, chunk
<1>7. /\ StreamsInv'
      /\ input'[s] = input[s] \o chunk /\ eof'[s] = FALSE /\ out'[s] = out[s] \o new
      /\ new \in Seq(Symbol)
      /\ \A t \in Stream \ {s} :
            input'[t] = input[t] /\ out'[t] = out[t] /\ eof'[t] = eof[t]
  BY <1>5, <1>6, FeedOne
<1> HIDE DEF new
<1>8. /\ input[s] \in Seq(Byte) /\ out[s] \in Seq(Symbol) /\ sink[s] \in Seq(Symbol)
      /\ sent[s] \in Seq(Byte)
      /\ sent[s] = input[s] \o pipe[s] /\ out[s] = sink[s] \o ready[s] /\ ready[s] = <<>>
  BY <1>1, <1>3 DEF PumpInv, StreamInv
<1>9. sent[s] = input'[s] \o left
  <2> DEFINE fed == input[s]
  <2>1. fed \in Seq(Byte)
    BY <1>8
  <2> HIDE DEF fed
  <2>2. (fed \o chunk) \o left = fed \o (chunk \o left)
    BY <1>6, <2>1, Associative
  <2> QED
    BY <1>6, <1>7, <1>8, <2>2 DEF fed
<1>10. out'[s] = sink[s] \o new
  <2>1. sink[s] \o <<>> = sink[s]
    BY <1>8, ConcatEmptySeq
  <2> QED
    BY <1>7, <1>8, <2>1
<1>11. PumpInv(s)'
  BY <1>1, <1>4, <1>6, <1>7, <1>8, <1>9, <1>10 DEF PumpInv
<1>12. OnStreams' /\ "redact" \in asked
  <2>1. OnStreams'
    BY <1>1, <1>2 DEF OutInv, OnStreams, Goto
  <2>2. "redact" \in asked
    BY <1>1, <1>3 DEF MainInv
  <2> QED
    BY <2>1, <2>2
<1>13. pump[s] = "read" /\ pump'[s] \in {"read", "write"}
  BY <1>1, <1>4
<1> QED
  BY <1>1, <1>4, <1>7, <1>11, <1>12, <1>13, OnePump

LEMMA EofOutInv ==
  ASSUME OutInv, NEW s \in Stream, PumpEof(s)
  PROVE  OutInv'
<1> DEFINE new == Process(carry[s], <<>>, TRUE).out
<1>1. /\ pump[s] = "read" /\ pipe[s] = <<>> /\ s \notin ends
      /\ Feed(s, <<>>, TRUE)
      /\ ready' = [ready EXCEPT ![s] = new]
      /\ pump' = [pump EXCEPT ![s] = "flush"]
      /\ UNCHANGED <<asked, ends, sent, pipe, sink, main>>
  BY DEF PumpEof, MayRead, AtEof, ChildVars, Goto
<1>2. /\ DOMAIN pump = Stream /\ DOMAIN ready = Stream
      /\ PumpInv(s) /\ StreamInv(s) /\ MainInv
  BY DEF OutInv, OnStreams, StreamsInv
<1>3. /\ ready'[s] = new /\ pump'[s] = "flush"
      /\ \A t \in Stream \ {s} : ready'[t] = ready[t] /\ pump'[t] = pump[t]
  BY <1>1, <1>2
<1>4. /\ StreamsInv'
      /\ input'[s] = input[s] \o <<>> /\ eof'[s] = TRUE /\ out'[s] = out[s] \o new
      /\ new \in Seq(Symbol)
      /\ \A t \in Stream \ {s} :
            input'[t] = input[t] /\ out'[t] = out[t] /\ eof'[t] = eof[t]
  BY <1>1, FeedOne, EmptySeq
<1> HIDE DEF new
<1>5. /\ input[s] \in Seq(Byte) /\ out[s] \in Seq(Symbol) /\ sink[s] \in Seq(Symbol)
      /\ sent[s] \in Seq(Byte)
      /\ sent[s] = input[s] \o pipe[s] /\ out[s] = sink[s] \o ready[s] /\ ready[s] = <<>>
  BY <1>1, <1>2 DEF PumpInv, StreamInv
<1>6. input'[s] = input[s] /\ out'[s] = sink[s] \o new
  <2>1. sink[s] \o <<>> = sink[s] /\ input[s] \o <<>> = input[s]
    BY <1>5, ConcatEmptySeq
  <2> QED
    BY <1>4, <1>5, <2>1
<1>7. PumpInv(s)'
  BY <1>1, <1>2, <1>3, <1>4, <1>5, <1>6 DEF PumpInv
<1>8. OnStreams' /\ "redact" \in asked
  <2>1. OnStreams'
    BY <1>1 DEF OutInv, OnStreams
  <2>2. "redact" \in asked
    BY <1>1, <1>2 DEF MainInv
  <2> QED
    BY <2>1, <2>2
<1> QED
  BY <1>1, <1>3, <1>4, <1>7, <1>8, OnePump

LEMMA WriteOutInv ==
  ASSUME OutInv, NEW s \in Stream, PumpWrite(s)
  PROVE  OutInv'
<1>1. /\ pump[s] \in {"write", "flush"}
      /\ sink' = [sink EXCEPT ![s] = @ \o ready[s]]
      /\ ready' = [ready EXCEPT ![s] = <<>>]
      /\ pump' = [pump EXCEPT ![s] = IF pump[s] = "write" THEN "read" ELSE "done"]
      /\ UNCHANGED <<asked, ends, sent, pipe, streamVars, main>>
  BY DEF PumpWrite, ChildVars, Goto
<1>2. /\ DOMAIN pump = Stream /\ DOMAIN ready = Stream /\ DOMAIN sink = Stream
      /\ PumpInv(s) /\ StreamsInv /\ MainInv
  BY DEF OutInv, OnStreams
<1>3. /\ sink'[s] = sink[s] \o ready[s] /\ ready'[s] = <<>>
      /\ pump'[s] = IF pump[s] = "write" THEN "read" ELSE "done"
      /\ \A t \in Stream \ {s} :
            sink'[t] = sink[t] /\ ready'[t] = ready[t] /\ pump'[t] = pump[t]
  BY <1>1, <1>2
<1>4. ready[s] \in Seq(Symbol) /\ sink[s] \in Seq(Symbol) /\ out[s] = sink[s] \o ready[s]
  BY <1>1, <1>2 DEF PumpInv
<1>5. sink'[s] \in Seq(Symbol) /\ out[s] = sink'[s] \o ready'[s] /\ <<>> \in Seq(Symbol)
  <2>1. sink[s] \o ready[s] \in Seq(Symbol)
    BY <1>4, ConcatProperties
  <2>2. (sink[s] \o ready[s]) \o <<>> = sink[s] \o ready[s]
    BY <2>1, ConcatEmptySeq
  <2> QED
    BY <1>3, <1>4, <2>1, <2>2, EmptySeq
<1>6. PumpInv(s)'
  BY <1>1, <1>2, <1>3, <1>5 DEF PumpInv, streamVars
<1>7. OnStreams' /\ StreamsInv' /\ "redact" \in asked
  <2>1. OnStreams'
    BY <1>1 DEF OutInv, OnStreams
  <2>2. "redact" \in asked
    BY <1>1, <1>2 DEF MainInv
  <2>3. StreamsInv'
    BY <1>1, <1>2, StreamsKept
  <2> QED
    BY <2>1, <2>2, <2>3
<1> QED
  BY <1>1, <1>3, <1>6, <1>7, OnePump DEF streamVars

\* The thread that loses its sink has written the beginning of what was ready.
LEMMA FailOutInv ==
  ASSUME OutInv, NEW s \in Stream, PumpFails(s)
  PROVE  OutInv'
<1>1. PICK n \in 0 .. Len(ready[s]) : sink' = [sink EXCEPT ![s] = @ \o SubSeq(ready[s], 1, n)]
  BY DEF PumpFails
<1> DEFINE gone == SubSeq(ready[s], 1, n)
           lost == SubSeq(ready[s], n + 1, Len(ready[s]))
<1>2. /\ pump[s] \in {"write", "flush"}
      /\ ready' = [ready EXCEPT ![s] = <<>>]
      /\ pipe' = [pipe EXCEPT ![s] = <<>>]
      /\ pump' = [pump EXCEPT ![s] = "failed"]
      /\ UNCHANGED <<asked, ends, sent, streamVars, main>>
  BY DEF PumpFails, ChildVars, Goto
<1>3. /\ DOMAIN pump = Stream /\ DOMAIN ready = Stream /\ DOMAIN sink = Stream
      /\ DOMAIN pipe = Stream
      /\ PumpInv(s) /\ StreamsInv /\ MainInv
  BY DEF OutInv, OnStreams
<1>4. /\ sink'[s] = sink[s] \o gone /\ ready'[s] = <<>> /\ pump'[s] = "failed"
      /\ pipe'[s] = <<>>
      /\ \A t \in Stream \ {s} : /\ sink'[t] = sink[t] /\ ready'[t] = ready[t]
                                 /\ pump'[t] = pump[t] /\ pipe'[t] = pipe[t]
  BY <1>1, <1>2, <1>3
<1>5. ready[s] \in Seq(Symbol) /\ sink[s] \in Seq(Symbol) /\ out[s] = sink[s] \o ready[s]
  BY <1>2, <1>3 DEF PumpInv
<1>6. gone \in Seq(Symbol) /\ lost \in Seq(Symbol) /\ ready[s] = gone \o lost
  <2>1. ready[s] \in Seq(Symbol) /\ Len(ready[s]) \in Nat
    BY <1>5, LenProperties
  <2> DEFINE k == Len(ready[s]) - n
  <2>2. k \in 0 .. Len(ready[s]) /\ Len(ready[s]) - k = n
    BY <2>1
  <2> HIDE DEF k
  <2> QED
    BY <2>1, <2>2, LastElements
<1> HIDE DEF gone, lost
<1>7. sink'[s] \in Seq(Symbol) /\ out[s] = sink'[s] \o lost
  <2> DEFINE before == sink[s]
  <2>1. before \in Seq(Symbol)
    BY <1>5
  <2> HIDE DEF before
  <2>2. (before \o gone) \o lost = before \o (gone \o lost) /\ before \o gone \in Seq(Symbol)
    BY <1>6, <2>1, Associative, ConcatProperties
  <2> QED
    BY <1>4, <1>5, <1>6, <2>2 DEF before
<1>8. PumpInv(s)'
  <2>1. out'[s] = out[s] /\ sent'[s] = sent[s] /\ eof' = eof
    BY <1>2 DEF streamVars
  <2>2. \E rest \in Seq(Symbol) : out'[s] = sink'[s] \o rest
    BY <1>6, <1>7, <2>1
  <2>3. <<>> \in Seq(Byte) /\ <<>> \in Seq(Symbol)
    BY EmptySeq
  <2> QED
    BY <1>3, <1>4, <1>7, <2>1, <2>2, <2>3 DEF PumpInv
<1>9. OnStreams' /\ StreamsInv' /\ "redact" \in asked
  <2>1. OnStreams'
    BY <1>1, <1>2 DEF OutInv, OnStreams
  <2>2. "redact" \in asked
    BY <1>2, <1>3 DEF MainInv
  <2>3. StreamsInv'
    BY <1>2, <1>3, StreamsKept
  <2> QED
    BY <2>1, <2>2, <2>3
<1> QED
  BY <1>2, <1>4, <1>8, <1>9, OnePump DEF streamVars

LEMMA NextOutInv ==
  ASSUME OutInv, [Next]_vars
  PROVE  OutInv'
<1>1. CASE \E s \in Stream : PumpStep(s)
  BY <1>1, ReadOutInv, EofOutInv, WriteOutInv, FailOutInv DEF PumpStep
<1>2. CASE \E s \in Stream, b \in Byte : ChildWrite(s, b)
  BY <1>2, WriteEndOutInv
<1>3. CASE ChildExit \/ ChildSeals \/ \E s \in Stream : ChildClose(s)
  BY <1>3, ChildOutInv
<1>4. CASE MainStep
  BY <1>4, StartOutInv, MainOutInv, SpawnOutInv DEF MainStep
<1>5. CASE UNCHANGED vars
  <2>1. UNCHANGED <<ends, sent, pipe, pump, streamVars, ready, sink, asked, main>>
    BY <1>5 DEF vars, pumpVars
  <2>2. StreamsInv' /\ OnStreams' /\ \A s \in Stream : PumpInv(s)'
    BY <2>1, PumpsKept
  <2>3. MainInv'
    BY <2>1 DEF OutInv, MainInv, Ended
  <2> QED
    BY <2>2, <2>3 DEF OutInv
<1> QED
  BY <1>1, <1>2, <1>3, <1>4, <1>5 DEF Next

LEMMA OutInvariant == Spec => []OutInv
  BY InitOutInv, NextOutInv, PTL DEF Spec

LEMMA OutInvReturns == OutInv => ReturnsWithAllOutput
<1> SUFFICES ASSUME OutInv, main = "returned", NEW s \in Stream
             PROVE  sink[s] = Redacted(sent[s])
  BY DEF ReturnsWithAllOutput
<1>1. PumpInv(s) /\ StreamInv(s) /\ MainInv
  BY DEF OutInv, StreamsInv
<1>2. CASE "redact" \notin asked
  BY <1>1, <1>2, RedactedEmpty DEF MainInv
<1>3. CASE "redact" \in asked
  <2>1. pump[s] = "done"
    BY <1>1, <1>3 DEF MainInv
  <2>2. /\ eof[s] /\ pipe[s] = <<>> /\ ready[s] = <<>>
        /\ sent[s] = input[s] \o pipe[s] /\ out[s] = sink[s] \o ready[s]
        /\ input[s] \in Seq(Byte) /\ sink[s] \in Seq(Symbol)
        /\ out[s] = Redacted(input[s])
    BY <1>1, <2>1 DEF PumpInv, StreamInv
  <2>3. input[s] \o <<>> = input[s] /\ sink[s] \o <<>> = sink[s]
    BY <2>2, ConcatEmptySeq
  <2> QED
    BY <2>2, <2>3
<1> QED
  BY <1>2, <1>3

LEMMA OutInvClean == OutInv => SinksAreClean
<1> SUFFICES ASSUME OutInv, NEW s \in Stream
             PROVE  Clean(sink[s])
  BY DEF SinksAreClean, Clean
<1>1. PumpInv(s)
  BY DEF OutInv
<1>2. PICK rest \in Seq(Symbol) : out[s] = sink[s] \o rest
  BY <1>1 DEF PumpInv
<1>3. Clean(out[s])
  BY StreamsInvImplies DEF OutInv, NothingLeaks, Clean
<1> QED
  BY <1>1, <1>2, <1>3, PrefixClean DEF PumpInv

\* When run_redacted returns the exit code of the child, all the child wrote on
\* both streams has reached the sinks, redacted as a whole and in order.
THEOREM ReturnIsComplete == Spec => []ReturnsWithAllOutput
  BY OutInvariant, OutInvReturns, PTL

\* At no time does a pattern stand in a sink, also not when the sink breaks in the
\* middle of a write.
THEOREM SinksStayClean == Spec => []SinksAreClean
  BY OutInvariant, OutInvClean, PTL

-----------------------------------------------------------------------------
(* What the pumps feed is what RedactStream says of any stream.            *)

\* MaxBytes bounds what the child writes on both streams, so also each of them.
BytesInv ==
    /\ \A s \in Stream : sent[s] \in Seq(Byte)
    /\ Len(sent["stdout"]) + Len(sent["stderr"]) <= MaxBytes

LEMMA BytesInvNext ==
  ASSUME OutInv, BytesInv, [Next]_vars
  PROVE  BytesInv'
<1>1. \A s \in Stream : sent'[s] \in Seq(Byte)
  BY NextOutInv DEF OutInv, PumpInv
<1>2. CASE sent' = sent
  BY <1>1, <1>2 DEF BytesInv
<1>3. ASSUME NEW s \in Stream, NEW b \in Byte, ChildWrite(s, b)
      PROVE  BytesInv'
  <2>1. /\ Len(sent["stdout"]) + Len(sent["stderr"]) < MaxBytes
        /\ sent' = [sent EXCEPT ![s] = Append(@, b)]
    BY <1>3 DEF ChildWrite
  <2>2. Stream = {"stdout", "stderr"} /\ DOMAIN sent = Stream
    BY PumpAssumption DEF OutInv, OnStreams
  <2>3. \A t \in Stream : sent[t] \in Seq(Byte) /\ Len(sent[t]) \in Nat
    BY LenProperties DEF BytesInv
  <2>4. sent'[s] = Append(sent[s], b) /\ \A t \in Stream \ {s} : sent'[t] = sent[t]
    BY <2>1, <2>2
  <2>5. Len(sent'[s]) = Len(sent[s]) + 1
    BY <2>3, <2>4, AppendProperties
  <2>6. Len(sent'["stdout"]) + Len(sent'["stderr"]) <= MaxBytes
    <3>1. CASE s = "stdout"
      BY <2>1, <2>2, <2>3, <2>4, <2>5, <3>1, StreamAssumption
    <3>2. CASE s = "stderr"
      BY <2>1, <2>2, <2>3, <2>4, <2>5, <3>2, StreamAssumption
    <3> QED
      BY <2>2, <3>1, <3>2
  <2> QED
    BY <1>1, <2>6 DEF BytesInv
<1>4. CASE \E s \in Stream : PumpStep(s) \/ ChildClose(s)
  <2>1. sent' = sent
    BY <1>4 DEF PumpStep, PumpRead, PumpEof, PumpWrite, PumpFails, ChildClose, ChildVars
  <2> QED
    BY <1>2, <2>1
<1>5. CASE ChildExit \/ ChildSeals \/ MainStep \/ UNCHANGED vars
  <2>1. sent' = sent
    BY <1>5 DEF ChildExit, ChildSeals, MainStep, StartChild, Poll, WarnUnsealed, Spawn,
                JoinOut, JoinErr, Wait, ChildVars, pumpVars, vars
  <2> QED
    BY <1>2, <2>1
<1> QED
  BY <1>3, <1>4, <1>5 DEF Next

LEMMA PumpFeeds ==
  ASSUME OutInv, BytesInv, NEW s \in Stream, PumpStep(s)
  PROVE  [StreamNext]_streamVars
<1>1. CASE PumpRead(s)
  <2>1. PICK n \in 1 .. Len(pipe[s]) : Feed(s, SubSeq(pipe[s], 1, n), FALSE)
    BY <1>1 DEF PumpRead
  <2>2. /\ sent[s] = input[s] \o pipe[s]
        /\ input[s] \in Seq(Byte) /\ pipe[s] \in Seq(Byte) /\ sent[s] \in Seq(Byte)
    BY <1>1 DEF PumpRead, MayRead, OutInv, PumpInv, StreamsInv, StreamInv
  <2>3. Len(sent[s]) = Len(input[s]) + Len(pipe[s])
    BY <2>2, ConcatProperties
  <2>4. Len(input[s]) \in Nat /\ Len(pipe[s]) \in Nat
    BY <2>2, LenProperties
  <2>5. Len(sent[s]) <= MaxBytes
    <3>1. s = "stdout" \/ s = "stderr"
      BY PumpAssumption
    <3>2. Len(sent["stdout"]) \in Nat /\ Len(sent["stderr"]) \in Nat
      BY PumpAssumption, LenProperties DEF BytesInv
    <3>3. Len(sent["stdout"]) + Len(sent["stderr"]) <= MaxBytes
      BY DEF BytesInv
    <3> DEFINE a == Len(sent["stdout"])
               c == Len(sent["stderr"])
    <3>4. a \in Nat /\ c \in Nat /\ a + c <= MaxBytes
      BY <3>2, <3>3
    <3> HIDE DEF a, c
    <3>5. a <= MaxBytes /\ c <= MaxBytes
      BY <3>4, StreamAssumption
    <3> QED
      BY <3>1, <3>5 DEF a, c
  <2>6. n \in 1 .. MaxBytes - Len(input[s])
    <3> DEFINE fed == Len(input[s])
               more == Len(pipe[s])
    <3>1. fed \in Nat /\ more \in Nat /\ fed + more <= MaxBytes /\ n \in 1 .. more
      BY <2>3, <2>4, <2>5
    <3> HIDE DEF fed, more
    <3>2. n \in 1 .. MaxBytes - fed
      BY <3>1, StreamAssumption
    <3> QED
      BY <3>2 DEF fed
  <2>7. SubSeq(pipe[s], 1, n) \in Chunk(n)
    <3>1. \A i \in 1 .. n : pipe[s][i] \in Byte
      BY <2>2, <2>4, ElementOfSeq
    <3>2. SubSeq(pipe[s], 1, n) \in Seq(Byte) /\ Len(SubSeq(pipe[s], 1, n)) = n
      BY <2>4, <3>1, SubSeqProperties
    <3> QED
      BY <3>2, LenProperties DEF Chunk
  <2> QED
    BY <2>1, <2>6, <2>7 DEF StreamNext
<1>2. CASE PumpEof(s)
  BY <1>2 DEF PumpEof, StreamNext
<1>3. CASE PumpWrite(s) \/ PumpFails(s)
  BY <1>3 DEF PumpWrite, PumpFails
<1> QED
  BY <1>1, <1>2, <1>3 DEF PumpStep

\* The pumps of run_redacted use their streams as RedactStream says: each of them
\* is fed pieces of what the child wrote, and once, at the end, without any.  What
\* is proved there of every stream holds of both.
THEOREM PumpsFeedStreams == Spec => StreamSpec
<1>1. Init => StreamInit /\ BytesInv
  <2> SUFFICES ASSUME Init PROVE StreamInit /\ BytesInv
    OBVIOUS
  <2>1. \A s \in Stream : sent[s] = <<>>
    BY DEF Init
  <2>2. sent["stdout"] = <<>> /\ sent["stderr"] = <<>>
    BY <2>1, PumpAssumption
  <2>3. <<>> \in Seq(Byte) /\ Len(<<>>) = 0
    BY EmptySeq
  <2>4. BytesInv
    <3>1. Len(sent["stdout"]) = 0 /\ Len(sent["stderr"]) = 0
      BY <2>2, <2>3
    <3>2. Len(sent["stdout"]) + Len(sent["stderr"]) <= MaxBytes
      BY <3>1, StreamAssumption
    <3> QED
      BY <2>1, <2>3, <3>2 DEF BytesInv
  <2> QED
    BY <2>4 DEF Init
<1>2. OutInv /\ BytesInv /\ [Next]_vars => BytesInv'
  BY BytesInvNext
<1>3. OutInv /\ BytesInv /\ [Next]_vars => [StreamNext]_streamVars
  <2> SUFFICES ASSUME OutInv, BytesInv, [Next]_vars PROVE [StreamNext]_streamVars
    OBVIOUS
  <2>1. CASE \E s \in Stream : PumpStep(s)
    BY <2>1, PumpFeeds
  <2>2. CASE \/ \E s \in Stream : ChildClose(s) \/ \E b \in Byte : ChildWrite(s, b)
             \/ ChildExit \/ ChildSeals \/ MainStep \/ UNCHANGED vars
    <3>1. UNCHANGED streamVars
      BY <2>2 DEF ChildClose, ChildWrite, ChildExit, ChildSeals, MainStep, StartChild, Poll,
                  WarnUnsealed, Spawn, JoinOut, JoinErr, Wait, pumpVars, vars
    <3> QED
      BY <3>1
  <2> QED
    BY <2>1, <2>2 DEF Next
<1> QED
  BY <1>1, <1>2, <1>3, OutInvariant, PTL DEF Spec, StreamSpec
=============================================================================
