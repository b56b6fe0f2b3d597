----------------------------- MODULE MCExecPump -----------------------------
(* One secret of three bytes with a newline in it, pipes of two bytes. *)
EXTENDS ExecPump

Bytes    == {"a", "b", "nl"}
EscapeOf == [c \in Bytes |-> IF c = "nl" THEN <<"a", "b">> ELSE <<c>>]
Values   == [n \in {"TOKEN"} |-> <<"a", "nl", "b">>]
=============================================================================
