------------------------------ MODULE MCBridge ------------------------------
(* Instances of Bridge for TLC. *)
EXTENDS Bridge, Codec, TLC

CONSTANTS t1, t2

OneCallbackThread == {t1}
TwoCallbackThreads == {t1, t2}

\* The data of a message comes back from its string, one of any string of digits
\* that is one character longer, and what is decoded encodes to the same string.
SomeBytes == {0, 1, 15, 16, 127, 160, 255}
ShortData == UNION {[1..n -> SomeBytes] : n \in 0..3}
ASSUME CodecInverts ==
  \A data \in ShortData :
    LET string == hexStringFromData(data) IN
    /\ hexStringToData(string) = data
    /\ \A d \in Digit : hexStringToData(Append(string, d)) = data
    /\ hexStringFromData(hexStringToData(string)) = string
=============================================================================
