--------------------------- MODULE MCEncodedStream ---------------------------
(* Small instances of EncodedStream for TLC.                               *)
EXTENDS EncodedStream

(* An I frame is larger than a P frame.                                    *)
Sizes == [k \in FrameKinds |-> IF k = "I" THEN 2 ELSE 1]

(* An image that takes more than one page of two units.                    *)
Images == [k \in FrameKinds |-> 4]
=============================================================================
