---------------------------- MODULE BodyCapture ----------------------------
(***************************************************************************)
(* The bounded copy of a body that the daemon keeps while it relays it     *)
(* (proxy-core/src/body.rs).  A byte is named by its place in the stream   *)
(* it was read from, so that lost, repeated or misplaced bytes show.       *)
(***************************************************************************)
EXTENDS Integers, Sequences

CONSTANT PreviewLimit      \* DEFAULT_BODY_PREVIEW_LIMIT

ASSUME PreviewLimitAssumption == PreviewLimit \in Nat

(* The bytes of a stream from one place to another; none if it is empty.   *)
Bytes(first, last) == [i \in 1 .. (last - first + 1) |-> first + i - 1]

NewCapture == [captured |-> << >>, total_bytes |-> 0]

(* Faulty: what is left is measured by all bytes seen, after counting.     *)
IngestAfterCounting(capture, bytes) ==
    LET total     == capture.total_bytes + Len(bytes)
        remaining == IF total < PreviewLimit THEN PreviewLimit - total ELSE 0
    IN  [ captured |-> capture.captured \o
              SubSeq(bytes, 1, IF Len(bytes) < remaining THEN Len(bytes) ELSE remaining),
          total_bytes |-> total ]

(* ingest(): count every byte, keep those that fit.  The saturation of the *)
(* count at 2^64 is out of reach.                                          *)
Ingest(capture, bytes) ==
    LET remaining == PreviewLimit - Len(capture.captured)
    IN  [ captured |-> capture.captured \o
              SubSeq(bytes, 1, IF Len(bytes) < remaining THEN Len(bytes) ELSE remaining),
          total_bytes |-> capture.total_bytes + Len(bytes) ]

(* finish(): the preview says whether the limit cut it.                    *)
Truncated(capture) == capture.total_bytes > Len(capture.captured)
=============================================================================
