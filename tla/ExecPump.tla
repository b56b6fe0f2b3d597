------------------------------ MODULE ExecPump -------------------------------
(***************************************************************************)
(* `exec` of main.rs (cmd_exec), from the moment it has something to       *)
(* inject.  Without options the child takes the place of the process.      *)
(* With --redact (run_redacted, pump_redacted) the stdout and stderr of    *)
(* the child are pipes, one thread per pipe redacts it into the sink of    *)
(* the parent, and the main thread joins them and waits for the child.     *)
(* With --warn-unsealed (poll_seal_and_warn) the main thread first looks   *)
(* whether the child seals its environment.                                *)
(*                                                                         *)
(* The child stands for every process that holds the write ends.  A sink   *)
(* in Fragile may break (its reader went away).                            *)
(***************************************************************************)
EXTENDS RedactStream

CONSTANTS
    Capacity,       \* of a pipe, in bytes
    Fragile,        \* the sinks that may break
    ATTEMPTS,       \* of poll_seal_and_warn
    Inconclusive    \* how many first probes may be: all of them where there is
                    \* no /proc, or for root

VARIABLES
    asked,      \* the options: "redact", "warn"
    child,      \* "none", "running" or "exited"
    sealed,     \* whether the child sealed its environment
    attempt,    \* probes so far
    saw_readable,
    warned,     \* whether the warning was printed
    ends,       \* the streams whose write end is open
    sent,       \* sent[s]: all the child wrote on s
    pipe,       \* pipe[s]: what is in the pipe
    pump,       \* pump[s]: where the thread of s is
    ready,      \* ready[s]: what it is about to write
    sink,       \* sink[s]: what reached the sink
    main        \* where run_redacted is

pollVars == <<attempt, saw_readable, warned>>
pumpVars == <<ends, sent, pipe, pump, streamVars, ready, sink>>
vars == <<asked, child, sealed, pollVars, pumpVars, main>>

ASSUME PumpAssumption ==
    /\ Stream = {"stdout", "stderr"} /\ Fragile \subseteq Stream
    /\ Capacity \in Nat \ {0}
    /\ ATTEMPTS \in Nat \ {0} /\ Inconclusive \in 0 .. ATTEMPTS

\* An option is a flag of the command line or a variable of the shell.
Option == {"redact", "warn"}
Requested(flag, variable) == flag \/ variable \notin {"unset", "", "0"}

Init ==
    /\ \E flags \in SUBSET Option, variables \in [Option -> {"unset", "", "0", "1"}] :
          asked = {o \in Option : Requested(o \in flags, variables[o])}
    /\ child = "none" /\ sealed = FALSE
    /\ attempt = 0 /\ saw_readable = FALSE /\ warned = FALSE
    /\ ends = {}
    /\ sent = [s \in Stream |-> <<>>]
    /\ pipe = [s \in Stream |-> <<>>]
    /\ pump = [s \in Stream |-> "unborn"]
    /\ StreamInit
    /\ ready = [s \in Stream |-> <<>>]
    /\ sink = [s \in Stream |-> <<>>]
    /\ main = "start"

Goto(s, label) == pump' = [pump EXCEPT ![s] = label]
ChildVars == <<asked, child, sealed, ends, sent>>

-----------------------------------------------------------------------------
(* cmd_exec *)

\* When the main thread need not look at the child any more.
AfterPoll == IF "redact" \in asked THEN "spawn" ELSE "wait"

\* The program starts, or cannot.  Without --redact it has our own stdout and
\* stderr, and there are no pipes; without any option it is what we were.
StartChild ==
    /\ main = "start"
    /\ \/ /\ child' = "running"
          /\ ends' = IF "redact" \in asked THEN Stream ELSE {}
          /\ main' = IF asked = {} THEN "replaced"
                     ELSE IF "warn" \in asked THEN "poll" ELSE AfterPoll
       \/ main' = "error" /\ UNCHANGED <<child, ends>>
    /\ UNCHANGED <<asked, sealed, pollVars, sent, pipe, pump, streamVars, ready, sink>>

-----------------------------------------------------------------------------
(* The child: external. *)

ReadEndOpen(s) == pump[s] # "failed"

\* It blocks when the pipe is full.
ChildWrite(s, b) ==
    /\ child = "running" /\ s \in ends
    /\ Len(sent["stdout"]) + Len(sent["stderr"]) < MaxBytes
    /\ ReadEndOpen(s) /\ Len(pipe[s]) < Capacity
    /\ sent' = [sent EXCEPT ![s] = Append(@, b)]
    /\ pipe' = [pipe EXCEPT ![s] = Append(@, b)]
    /\ UNCHANGED <<asked, child, sealed, pollVars, ends, pump, streamVars, ready, sink, main>>

ChildClose(s) ==
    /\ child = "running" /\ s \in ends
    /\ ends' = ends \ {s}
    /\ UNCHANGED <<asked, child, sealed, pollVars, sent, pipe, pump, streamVars, ready, sink, main>>

ChildExit ==
    /\ child = "running"
    /\ child' = "exited" /\ ends' = {}
    /\ UNCHANGED <<asked, sealed, pollVars, sent, pipe, pump, streamVars, ready, sink, main>>

\* prctl(PR_SET_DUMPABLE, 0)
ChildSeals ==
    /\ child = "running" /\ ~sealed
    /\ sealed' = TRUE
    /\ UNCHANGED <<asked, child, pollVars, pumpVars, main>>

-----------------------------------------------------------------------------
(* pump_redacted *)

\* Faulty variant: the two pipes are drained one after the other.
MayReadInTurn(s) == pump[s] = "read" /\ (s = "stderr" => pump["stdout"] = "done")

MayRead(s) == pump[s] = "read"

\* read returns some of what is in the pipe; what `process` makes of it is written,
\* if it is anything.
PumpRead(s) ==
    /\ MayRead(s) /\ pipe[s] # <<>>
    /\ \E n \in 1 .. Len(pipe[s]) :
          LET chunk == SubSeq(pipe[s], 1, n)
              new   == Process(carry[s], chunk, FALSE).out
          IN  /\ pipe' = [pipe EXCEPT ![s] = SubSeq(@, n + 1, Len(@))]
              /\ Feed(s, chunk, FALSE)
              /\ ready' = [ready EXCEPT ![s] = new]
              /\ Goto(s, IF new = <<>> THEN "read" ELSE "write")
    /\ UNCHANGED <<ChildVars, pollVars, sink, main>>

\* Faulty variant: the end is not seen while something is held back.
AtEofEmpty(s) == pipe[s] = <<>> /\ s \notin ends /\ carry[s] = <<>>

\* read returns 0: everybody closed the write end, and the pipe is empty.
AtEof(s) == pipe[s] = <<>> /\ s \notin ends

PumpEof(s) ==
    /\ MayRead(s) /\ AtEof(s)
    /\ Feed(s, <<>>, TRUE)
    /\ ready' = [ready EXCEPT ![s] = Process(carry[s], <<>>, TRUE).out]
    /\ Goto(s, "flush")
    /\ UNCHANGED <<ChildVars, pollVars, pipe, sink, main>>

\* write_all, and at the end of the stream flush.
PumpWrite(s) ==
    /\ pump[s] \in {"write", "flush"}
    /\ sink' = [sink EXCEPT ![s] = @ \o ready[s]]
    /\ ready' = [ready EXCEPT ![s] = <<>>]
    /\ Goto(s, IF pump[s] = "write" THEN "read" ELSE "done")
    /\ UNCHANGED <<ChildVars, pollVars, pipe, streamVars, main>>

\* The sink broke, perhaps in the middle of what is ready; the thread ends
\* with an error and drops the read end.
PumpFails(s) ==
    /\ s \in Fragile /\ pump[s] \in {"write", "flush"}
    /\ \E n \in 0 .. Len(ready[s]) : sink' = [sink EXCEPT ![s] = @ \o SubSeq(ready[s], 1, n)]
    /\ ready' = [ready EXCEPT ![s] = <<>>]
    /\ pipe' = [pipe EXCEPT ![s] = <<>>]
    /\ Goto(s, "failed")
    /\ UNCHANGED <<ChildVars, pollVars, streamVars, main>>

-----------------------------------------------------------------------------
(* poll_seal_and_warn *)

\* Whose /proc/<pid>/environ is: a process that sealed itself, or that has exited
\* and was not waited for, is listed as root's.
EnvironOwner == IF child = "running" /\ ~sealed THEN "user" ELSE "root"

probe_seal_status ==
    {IF EnvironOwner = "user" THEN "Readable" ELSE "Sealed"}
    \cup (IF attempt < Inconclusive THEN {"Unknown"} ELSE {})

\* Faulty variant: nothing is concluded from an inconclusive probe but to stop.
EndsPollEarly(answer) == answer \in {"Sealed", "Unknown"}

EndsPoll(answer) == answer = "Sealed"

Poll ==
    /\ main = "poll" /\ attempt < ATTEMPTS
    /\ \E answer \in probe_seal_status :
          IF EndsPoll(answer)
          THEN main' = AfterPoll /\ attempt' = 0 /\ UNCHANGED saw_readable
          ELSE /\ saw_readable' = (saw_readable \/ answer = "Readable")
               /\ attempt' = attempt + 1 /\ UNCHANGED main
    /\ UNCHANGED <<asked, child, sealed, warned, pumpVars>>

\* The window is over.
WarnUnsealed ==
    /\ main = "poll" /\ attempt = ATTEMPTS
    /\ warned' = saw_readable
    /\ main' = AfterPoll /\ attempt' = 0
    /\ UNCHANGED <<asked, child, sealed, saw_readable, pumpVars>>

-----------------------------------------------------------------------------
(* run_redacted, and the wait that both ways end with *)

Spawn ==
    /\ main = "spawn"
    /\ pump' = [s \in Stream |-> "read"]
    /\ main' = "join_out"
    /\ UNCHANGED <<ChildVars, pollVars, pipe, streamVars, ready, sink>>

Ended(s) == pump[s] \in {"done", "failed"}

JoinOut ==
    /\ main = "join_out" /\ Ended("stdout")
    /\ main' = "join_err"
    /\ UNCHANGED <<ChildVars, pollVars, pipe, pump, streamVars, ready, sink>>

\* Faulty variant: the thread of stderr is left behind.
CanLeaveJoinAlways == TRUE

CanLeaveJoin == Ended("stderr")

\* Both results are looked at only when both threads have ended.
JoinErr ==
    /\ main = "join_err" /\ CanLeaveJoin
    /\ main' = IF \E s \in Stream : pump[s] = "failed" THEN "error" ELSE "wait"
    /\ UNCHANGED <<ChildVars, pollVars, pipe, pump, streamVars, ready, sink>>

Wait ==
    /\ main = "wait" /\ child = "exited"
    /\ main' = "returned"
    /\ UNCHANGED <<ChildVars, pollVars, pipe, pump, streamVars, ready, sink>>

-----------------------------------------------------------------------------

PumpStep(s) == PumpRead(s) \/ PumpEof(s) \/ PumpWrite(s) \/ PumpFails(s)
MainStep    == StartChild \/ Poll \/ WarnUnsealed \/ Spawn \/ JoinOut \/ JoinErr \/ Wait

Next ==
    \/ \E s \in Stream : \/ PumpStep(s) \/ ChildClose(s)
                         \/ \E b \in Byte : ChildWrite(s, b)
    \/ ChildExit \/ ChildSeals \/ MainStep

Spec == Init /\ [][Next]_vars

\* The threads run, and a sink takes what it is given or breaks.  The child
\* writes, closes and exits as it likes.
FairSpec == Spec /\ WF_vars(MainStep) /\ \A s \in Stream : WF_vars(PumpStep(s))

-----------------------------------------------------------------------------
(* Properties. *)

\* When run_redacted returns the exit code of the child, all the child wrote on
\* both streams has reached the sinks, redacted as a whole and in order.
ReturnsWithAllOutput ==
    main = "returned" => \A s \in Stream : sink[s] = Redacted(sent[s])

\* At no time does a secret stand in a sink, also not when it breaks half way.
SinksAreClean ==
    \A s \in Stream : \A i \in DOMAIN sink[s] : PatternsAt(sink[s], i) = {}

\* A child that filled one of its pipes gets room again, whatever it does with
\* the other one: parent and child never wait for each other.
PipesDrain ==
    \A s \in Stream : (Len(pipe[s]) = Capacity) ~> (Len(pipe[s]) < Capacity)

\* The poll is silent only about a child that sealed itself or is gone: a child
\* whose environment can be read is named, also when the first probes say nothing.
\* (A child that was readable and exits within the window looks sealed: README.)
UnsealedChildIsNamed ==
    "warn" \in asked /\ main \notin {"start", "poll"} /\ child = "running" /\ ~sealed => warned

\* Once the child is gone, exec ends.
EndsWithChild == (child = "exited") ~> (main \in {"returned", "error", "replaced"})
=============================================================================
