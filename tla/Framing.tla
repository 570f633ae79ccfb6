------------------------------- MODULE Framing -------------------------------
(***************************************************************************)
(* net::framing: length-prefixed frames on a byte stream.  A header is two *)
(* digits to the base Radix, the high one first (four bytes in the code).  *)
(***************************************************************************)
EXTENDS Integers, Sequences

CONSTANTS
  Radix,         \* 256
  kMaxFrameSize  \* the longest payload

kHeader == 2

encode_frame(payload) == <<Len(payload) \div Radix, Len(payload) % Radix>> \o payload

\* Mutant: a frame is handed out once its header is complete.
ExtractEarly(buffer) ==
  LET len == buffer[1] * Radix + buffer[2]
      end == IF Len(buffer) < kHeader + len THEN Len(buffer) ELSE kHeader + len
  IN  IF Len(buffer) < kHeader THEN [kind |-> "nullopt"]
      ELSE IF len > kMaxFrameSize THEN [kind |-> "throw"]
      ELSE [kind    |-> "frame",
            payload |-> SubSeq(buffer, kHeader + 1, end),
            rest    |-> SubSeq(buffer, end + 1, Len(buffer))]

\* FrameDecoder::try_extract: the next complete frame and what stays buffered,
\* nullopt if there is none yet, or an exception if the length is too large.
try_extract(buffer) ==
  LET len == buffer[1] * Radix + buffer[2]
      end == kHeader + len
  IN  IF Len(buffer) < kHeader THEN [kind |-> "nullopt"]
      ELSE IF len > kMaxFrameSize THEN [kind |-> "throw"]
      ELSE IF Len(buffer) < end THEN [kind |-> "nullopt"]
      ELSE [kind    |-> "frame",
            payload |-> SubSeq(buffer, kHeader + 1, end),
            rest    |-> SubSeq(buffer, end + 1, Len(buffer))]
=============================================================================
