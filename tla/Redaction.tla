------------------------------ MODULE Redaction ------------------------------
(***************************************************************************)
(* Streaming redaction of redact.rs, as operators: `Redactor::new`, and    *)
(* what one call of `RedactStream::process` returns and keeps.             *)
(*                                                                         *)
(* A byte is a member of a small alphabet, and a placeholder <vault:NAME>  *)
(* is one symbol of the output, NAME.  `percent_encode` is given by the    *)
(* escape of each byte; an unreserved byte is its own escape.              *)
(***************************************************************************)
EXTENDS Naturals, Sequences, FiniteSets

CONSTANTS
    Byte,
    Newline,            \* the byte \n
    Escape,             \* Escape[b]: what percent_encode writes for b
    Secret,             \* names of the injected variables
    ValueOf,            \* ValueOf[n]: the value of n, a sequence of bytes
    MIN_REDACTABLE_LEN

ASSUME RedactionAssumption ==
    /\ Newline \in Byte
    /\ Escape \in [Byte -> Seq(Byte) \ {<<>>}]
    /\ ValueOf \in [Secret -> Seq(Byte)]
    /\ MIN_REDACTABLE_LEN \in Nat \ {0}
    /\ IsFiniteSet(Secret) /\ Secret \cap Byte = {}

-----------------------------------------------------------------------------
(* Redactor::new *)

MaxOf(S) == CHOOSE m \in S : \A n \in S : n <= m

percent_encode(s) ==
    LET Upto[i \in 0 .. Len(s)] == IF i = 0 THEN <<>> ELSE Upto[i - 1] \o Escape[s[i]]
    IN  Upto[Len(s)]

Redactable == {n \in Secret : Len(ValueOf[n]) >= MIN_REDACTABLE_LEN}

\* The values that are long enough, and their percent-encoded forms.
Patterns == UNION {{ValueOf[n], percent_encode(ValueOf[n])} : n \in Redactable}

NameOf(p) == CHOOSE n \in Redactable : p \in {ValueOf[n], percent_encode(ValueOf[n])}

\* Faulty variant: one byte short.
hold_back_short ==
    IF Patterns = {} THEN 0
    ELSE LET longest == MaxOf({Len(p) : p \in Patterns}) IN IF longest < 2 THEN 0 ELSE longest - 2

\* Faulty variant: the percent-encoded forms are forgotten.
hold_back_values ==
    IF Patterns = {} THEN 0 ELSE MaxOf({Len(ValueOf[n]) : n \in Redactable}) - 1

\* The longest pattern's length minus one.
hold_back == IF Patterns = {} THEN 0 ELSE MaxOf({Len(p) : p \in Patterns}) - 1

\* Faulty variant: lines are flushed whatever the secrets contain.
line_safe_always == TRUE

\* No pattern contains a newline: no match spans one.
line_safe == \A p \in Patterns : \A i \in DOMAIN p : p[i] # Newline

-----------------------------------------------------------------------------
(* Matches: leftmost, and of those the longest (AhoCorasick with            *)
(* LeftmostLongest), then on from the end of it.  A search that has k bytes *)
(* of a text left is at place Len - k + 1.                                  *)

PatternsAt(buf, i) ==
    {p \in Patterns : i + Len(p) - 1 <= Len(buf) /\ SubSeq(buf, i, i + Len(p) - 1) = p}

Longest(S) == CHOOSE p \in S : \A q \in S : Len(q) <= Len(p)

MatchAt(buf, i) == Longest(PatternsAt(buf, i))

\* The last k bytes of s, every match in its place replaced.
Redactions(s) ==
    LET Red[k \in 0 .. Len(s)] ==
            LET i == Len(s) - k + 1 IN
            IF k = 0 THEN <<>>
            ELSE IF PatternsAt(s, i) = {} THEN <<s[i]>> \o Red[k - 1]
            ELSE <<NameOf(MatchAt(s, i))>> \o Red[k - Len(MatchAt(s, i))]
    IN  Red

\* What the whole output becomes when it is redacted at once.
Redacted(s) == Redactions(s)[Len(s)]

-----------------------------------------------------------------------------
(* RedactStream::process *)

\* Faulty variant: a complete line waits for its hold-back.
SafeLenPlain(buf, eof) ==
    LET hold == IF eof THEN 0 ELSE hold_back
    IN  IF Len(buf) > hold THEN Len(buf) - hold ELSE 0

\* How many bytes of the buffer are safe to forward, matches apart.
SafeLen(buf, eof) ==
    LET hold  == IF eof THEN 0 ELSE hold_back
        lines == {i \in DOMAIN buf : line_safe /\ buf[i] = Newline}
    IN  MaxOf({0} \cup lines \cup (IF Len(buf) > hold THEN {Len(buf) - hold} ELSE {}))

\* What follows is withheld: the withheld tail, or a match that ends in it, from
\* its start on.
Stops(buf, i, safe) ==
    i > safe \/ (PatternsAt(buf, i) # {} /\ i + Len(MatchAt(buf, i)) - 1 > safe)

\* What the loop over the matches makes of the last k bytes: what it forwards, and
\* how many bytes it keeps.
Scan(buf, safe) ==
    LET From[k \in 0 .. Len(buf)] ==
            LET i == Len(buf) - k + 1
                On(symbol, rest) == [out |-> <<symbol>> \o rest.out, kept |-> rest.kept]
            IN  IF k = 0 \/ Stops(buf, i, safe) THEN [out |-> <<>>, kept |-> k]
                ELSE IF PatternsAt(buf, i) = {} THEN On(buf[i], From[k - 1])
                ELSE On(NameOf(MatchAt(buf, i)), From[k - Len(MatchAt(buf, i))])
    IN  From

Process(carry, chunk, eof) ==
    LET buf  == carry \o chunk
        scan == Scan(buf, SafeLen(buf, eof))[Len(buf)]
    IN  [out   |-> scan.out,
         carry |-> SubSeq(buf, Len(buf) - scan.kept + 1, Len(buf))]
=============================================================================
