----------------------------- MODULE MCReceive -----------------------------
(***************************************************************************)
(* Messages with the cells that mislead a careless parser: a blank line    *)
(* and a dollar sign inside a body and inside an interleaved frame, and    *)
(* every kind of Content-Length.  Request 5 is longer than the buffer may  *)
(* become.                                                                 *)
(***************************************************************************)
EXTENDS Receive

Length(v) == Cell("length", v)
Lower(v)  == Cell("lower", v)

WellFormedMessages ==
  { Request(1, <<>>, <<>>),
    Request(2, <<Length(2)>>, <<"blank", "dollar">>),
    Request(3, <<Lower(1)>>, <<"dollar">>),
    Request(5, <<Length(4)>>, <<"text", "blank", "text", "text">>),
    Garbage, Frame(<<>>), Frame(<<"blank", "dollar">>) }

\* A third spelling; no number; two headers that differ; -2, so that the sum wraps to
\* 1, and -1 behind another header, so that it wraps to 3; -3, so that it wraps to 0.
OddMessages ==
  { Request(11, <<Cell("LENGTH", 1)>>, <<"text">>),
    Request(12, <<Length(SizeMod)>>, <<>>),
    Request(13, <<Length(1), Lower(0)>>, <<"text">>),
    Request(14, <<Length(SizeMod - 2)>>, <<>>),
    Request(15, <<Lower(1), Length(SizeMod - 1)>>, <<>>),
    Request(16, <<Length(SizeMod - 3)>>, <<>>) }

Messages == WellFormedMessages \cup OddMessages
=============================================================================
