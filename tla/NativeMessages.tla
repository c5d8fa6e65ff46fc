---- MODULE NativeMessages ----
(***************************************************************************)
(* Messages between the browser and its native host, and between the host  *)
(* and its callers (src/src/adapters/apps/librewolf.rs): a length in a     *)
(* fixed number of bytes, then a body of so many.  BrowserBridge takes     *)
(* messages as they are.  A stream is the sequence of bytes until its end; *)
(* Base stands for 256 and Width for 4.                                    *)
(***************************************************************************)
EXTENDS Naturals, Sequences, SequencesExt

CONSTANTS Base, Width

Byte == 0..(Base - 1)
LengthBytes(n) == [i \in 1..Width |-> (n \div Base^(i - 1)) % Base]
LengthOf(bytes) == FoldLeftDomain(LAMBDA n, i : n + bytes[i] * Base^(i - 1), 0, bytes)

\* A body that is too long is not written.
TooLong(body) == Len(body) >= Base^Width
Written(body) == IF TooLong(body) THEN <<>> ELSE LengthBytes(Len(body)) \o body

\* A stream that ends before a length, or within one, is done; within a body it is an
\* error.
ReadMessage(stream) ==
  LET rest == SubSeq(stream, Width + 1, Len(stream))
      n == LengthOf(SubSeq(stream, 1, Width))
  IN  IF Len(stream) < Width THEN [kind |-> "end", body |-> <<>>, rest |-> <<>>]
      ELSE IF Len(rest) < n THEN [kind |-> "error", body |-> <<>>, rest |-> <<>>]
      ELSE [kind |-> "message", body |-> SubSeq(rest, 1, n), rest |-> SubSeq(rest, n + 1, Len(rest))]
====
