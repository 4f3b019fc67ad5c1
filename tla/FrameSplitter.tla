---------------------------- MODULE FrameSplitter ----------------------------
(***************************************************************************)
(* What a frame parser promises, whatever its states and buffers: it cuts  *)
(* the stream into consecutive pieces of at least one byte, and hands on   *)
(* as a frame only a piece that is one.  The other pieces are discarded.   *)
(***************************************************************************)
EXTENDS FrameGrammar

CONSTANT Input

VARIABLES
    stream,   \* what the device delivers
    cut,      \* where the last piece ended
    pieces    \* the pieces so far

vars == <<stream, cut, pieces>>

\* The piece from f up to t, handed on as tp or discarded ("ERROR").
Piece(tp, f, t) == [type |-> tp, from |-> f, to |-> t]

Init ==
    /\ stream \in Input
    /\ cut = 0
    /\ pieces = <<>>

Cut(t, tp) ==
    /\ tp \in FrameTypes => IsFrame(tp, SubSeq(stream, cut + 1, t))
    /\ pieces' = Append(pieces, Piece(tp, cut, t))
    /\ cut' = t
    /\ UNCHANGED stream

Next == \E t \in (cut + 1)..Len(stream), tp \in FrameTypes \cup {"ERROR"} : Cut(t, tp)

Spec == Init /\ [][Next]_vars

=============================================================================
