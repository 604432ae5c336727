---------------------------- MODULE MCMainLoop ----------------------------
(* What the client asks: uploads of each carrier, good and bad, and the      *)
(* commands that use, move or drop what was uploaded.                        *)
EXTENDS MainLoop

Ask(meta, blobs) == [meta |-> meta, blobs |-> blobs]
Blob(n) == [i \in 1 .. n |-> <<i>>]
Bytes == {<<i>> : i \in 1 .. 12}

\* Components: 11 is zero, 21 minus zero, 12 and 22 ordinary numbers, 31 a NaN,
\* 32 a signaling one, 41 an infinity.
C(i, j) == << <<i>>, <<j>> >>
Plus0 == C(1, 1)
Minus0 == C(2, 1)
QuietNaN == C(3, 1)
Negatives == {C(2, 1), C(2, 2)}
SignalingNaNs == {C(3, 2)}
NotNumbers == {C(3, 1), C(3, 2), C(4, 1)}
Complex(re1, im1, re2, im2) == re1 \o im1 \o re2 \o im2
Array(command, dtype, shape, blobs) ==
  Ask([command |-> command, dtype |-> dtype, shape |-> shape], blobs)

\* Of every carrier; of a wrong length; of no known dtype; without a blob, or
\* with as many as wrap the count; of a frame that is too large.
Arrays ==
  {Array("upload", "c64", <<2>>, <<Complex(Minus0, C(1, 2), Minus0, C(2, 2))>>),
   Array("upload", "c64", <<2>>, <<Complex(C(3, 2), Minus0, C(1, 2), C(4, 1))>>),
   Array("upload", "bf16", <<>>, <<Blob(2)>>),
   Array("upload", "c64", <<1>>, <<Blob(3)>>), Array("upload", "f8", <<1>>, <<Blob(1)>>),
   Array("upload", "u8", <<1>>, <<Blob(1), Blob(1), Blob(1)>>),
   Array("upload", "u8", <<12>>, <<Blob(12)>>), Array("run_node", "u8", <<1>>, <<Blob(3), Blob(1)>>)}
Others ==
  {Ask([command |-> "download", id |-> i], <<>>) : i \in 1 .. 2}
  \cup {Ask([command |-> "execute", id |-> 1, host |-> h], <<>>) : h \in BOOLEAN}
  \cup {Ask([command |-> "release", ids |-> {1, 2}], <<>>), Ask([command |-> "shutdown"], <<>>),
        Ask([command |-> "reboot"], <<>>)}
AllRequests == Arrays \cup Others
=============================================================================
