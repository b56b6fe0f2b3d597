--------------------------- MODULE MCRedactStream ---------------------------
(* Small alphabets and secrets: one that contains another, one that overlaps *)
(* itself, one with a reserved byte, one too short.                           *)
EXTENDS RedactStream

Bytes == {"a", "b", "@", "%", "nl"}
EscapeOf == [c \in Bytes |-> IF c = "@" THEN <<"%", "b", "a">> ELSE
                             IF c = "%" THEN <<"%", "b", "b">> ELSE
                             IF c = "nl" THEN <<"%", "a", "b">> ELSE <<c>>]

LineNames  == {"SHORT", "TOKEN", "LONG", "DSN"}
LineValues == [n \in LineNames |->
    CASE n = "SHORT" -> <<"b">>
      [] n = "TOKEN" -> <<"a", "b">>
      [] n = "LONG"  -> <<"a", "b", "a">>
      [] n = "DSN"   -> <<"b", "@">>]
=============================================================================
