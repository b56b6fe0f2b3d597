---------------------------- MODULE RedactStream ----------------------------
(* The streams of one Redactor, each fed with output of a child in pieces of *)
(* any size.                                                                 *)
EXTENDS Redaction

CONSTANTS
    Stream,
    MaxBytes        \* bound on the bytes of a stream

VARIABLES
    input,      \* input[s]: the bytes fed so far
    carry,      \* carry[s]: RedactStream.carry
    out,        \* out[s]: what `process` returned so far
    eof         \* eof[s]: the last call was made

streamVars == <<input, carry, out, eof>>

ASSUME StreamAssumption == MaxBytes \in Nat

StreamInit ==
    /\ input = [s \in Stream |-> <<>>]
    /\ carry = [s \in Stream |-> <<>>]
    /\ out = [s \in Stream |-> <<>>]
    /\ eof = [s \in Stream |-> FALSE]

\* process(chunk, last)
Feed(s, chunk, last) ==
    /\ ~eof[s]
    /\ input' = [input EXCEPT ![s] = @ \o chunk]
    /\ LET r == Process(carry[s], chunk, last)
       IN  out' = [out EXCEPT ![s] = @ \o r.out] /\ carry' = [carry EXCEPT ![s] = r.carry]
    /\ eof' = [eof EXCEPT ![s] = last]

Chunk(n) == [1 .. n -> Byte]

StreamNext ==
    \E s \in Stream :
       \/ \E n \in 1 .. MaxBytes - Len(input[s]) : \E chunk \in Chunk(n) : Feed(s, chunk, FALSE)
       \/ Feed(s, <<>>, TRUE)

StreamSpec == StreamInit /\ [][StreamNext]_streamVars

-----------------------------------------------------------------------------
(* Properties. *)

\* However the child's output is cut into reads, what has been forwarded and
\* what is withheld make up the redaction of the whole: no secret is missed at
\* a boundary, none is shredded by a shorter one, and no byte is lost.
StreamsAsAWhole ==
    \A s \in Stream : /\ out[s] \o Redacted(carry[s]) = Redacted(input[s])
                      /\ eof[s] => carry[s] = <<>>

\* No secret that is long enough, nor its percent-encoded form, stands in what
\* was forwarded, also not in pieces that were forwarded by different calls.
NothingLeaks == \A s \in Stream : \A i \in DOMAIN out[s] : PatternsAt(out[s], i) = {}

\* A line that is complete is not withheld (unless a secret spans lines), and
\* the withheld part never grows beyond two patterns.
WithholdsLittle ==
    \A s \in Stream :
       /\ line_safe => \A i \in DOMAIN carry[s] : carry[s][i] # Newline
       /\ Len(carry[s]) <= 2 * hold_back
=============================================================================
