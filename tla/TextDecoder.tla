---------------------------- MODULE TextDecoder -----------------------------
(***************************************************************************)
(* TextDecoder (src/text/decoder.cpp): decode(chunk, {stream}) of utf-8,   *)
(* utf-16le and utf-16be, with the bytes of an incomplete character kept   *)
(* from chunk to chunk.  A message is a sequence of chunks whose last one  *)
(* is decoded with stream = false.                                         *)
(*                                                                         *)
(* Output is a sequence of the bytes or code units of well-formed          *)
(* characters and of Bad, U+FFFD.  simdutf is modelled by its contract:    *)
(* the length of the valid character at a byte, whether an error there is  *)
(* TOO_SHORT, the partial character at an end, the byte order mark.  The   *)
(* bytes are such that no overlong form arises; no byte is zero (simdutf   *)
(* takes FF FE 00 00 for the mark of UTF-32).                              *)
(***************************************************************************)
EXTENDS Integers, Sequences, FiniteSets, SequencesExt

CONSTANTS
  Bytes,       \* the bytes of the messages, by encoding
  MaxBytes,    \* bound: bytes given to one decoder
  MaxChunk,    \* bound: bytes of a chunk
  MaxMessages, \* bound: messages of one decoder
  Uses         \* the decoders: see Use

Use == [encoding : {"utf-8", "utf-16le", "utf-16be"}, fatal : BOOLEAN, ignoreBOM : BOOLEAN]
Bad == 65533

VARIABLES
  bom,       \* bom_seen_
  remainder, \* remainder_
  fed,       \* the bytes of the message so far (history)
  out,       \* what decode returned for it so far (history)
  failed,    \* decode threw on this message (history)
  ended,     \* its last part was decoded (history)
  used,      \* the bytes it was given
  n, use     \* messages that ended, the decoder

vars == <<bom, remainder, fed, out, failed, ended, used, n, use>>

Utf8 == use.encoding = "utf-8"
Init ==
  /\ use \in Uses
  /\ bom = FALSE /\ remainder = <<>> /\ fed = <<>> /\ out = <<>> /\ n = 0 /\ used = 0
  /\ failed = FALSE /\ ended = FALSE

Least(a, b) == IF a < b THEN a ELSE b
From(s, i) == SubSeq(s, i, Len(s))
Upto(s, i) == SubSeq(s, 1, i)

-----------------------------------------------------------------------------
(* UTF-8: how many bytes the lead byte announces; the character at s[i].   *)
Announced(b) ==
  CASE b < 128 -> 1 [] b \in 192 .. 223 -> 2 [] b \in 224 .. 239 -> 3 [] b \in 240 .. 247 -> 4
    [] OTHER -> 0
Follows(b) == b \in 128 .. 191
Here(s, i) ==
  LET k == Announced(s[i])
  IN  IF k = 0 THEN "error"
      ELSE IF i + k - 1 <= Len(s) /\ \A j \in i + 1 .. i + k - 1 : Follows(s[j]) THEN "valid"
      ELSE "short"

(* validate_utf8_with_errors: the first error, and where. *)
FirstError(s) ==
  LET at[i \in 1 .. Len(s) + 1] ==
        IF i > Len(s) THEN [error |-> "none", at |-> i]
        ELSE IF Here(s, i) # "valid" THEN [error |-> Here(s, i), at |-> i]
        ELSE at[i + Announced(s[i])]
  IN  at[1]

(* utf8_to_well_formed: one Bad for each byte that starts no character.    *)
WellFormed8(s) ==
  LET rest[i \in 1 .. Len(s) + 1] ==
        IF i > Len(s) THEN <<>>
        ELSE IF Here(s, i) = "valid"
             THEN SubSeq(s, i, i + Announced(s[i]) - 1) \o rest[i + Announced(s[i])]
        ELSE <<Bad>> \o rest[i + 1]
  IN  rest[1]

(* simdutf::trim_partial_utf8: where the last character starts if more of  *)
(* it is to come.                                                          *)
TrimPartial(s) ==
  LET cut == {k \in 1 .. 3 : k <= Len(s) /\ s[Len(s) - k + 1] >= (CASE k = 1 -> 192 [] k = 2 -> 224 [] k = 3 -> 240)}
  IN  IF cut = {} THEN Len(s) ELSE Len(s) - (CHOOSE k \in cut : \A j \in cut : k <= j)

(* Mutant: an incomplete end is kept only if all before it is valid. *)
PeelsValid(s) ==
  IF FirstError(s).error \in {"none", "short"} THEN TrimPartial(s) ELSE Len(s)

(* peel_utf8_stream_remainder: how many bytes are decoded now.             *)
Peel8(s) ==
  IF FirstError(s).error \in {"none", "short"} THEN TrimPartial(s)
  ELSE LET starts == {i \in 1 .. Len(s) : i > Len(s) - 3 /\ FirstError(From(s, i)) = [error |-> "short", at |-> 1]}
       IN  IF starts = {} THEN Len(s) ELSE (CHOOSE i \in starts : \A j \in starts : i <= j) - 1

-----------------------------------------------------------------------------
(* UTF-16: units of two bytes, whose surrogates come in pairs. *)
Units(s) ==
  [k \in 1 .. Len(s) \div 2 |-> IF use.encoding = "utf-16le" THEN 256 * s[2 * k] + s[2 * k - 1]
                                ELSE 256 * s[2 * k - 1] + s[2 * k]]
High(u) == u \in 55296 .. 56319
Low(u) == u \in 56320 .. 57343
Paired(u, k) == (High(u[k]) /\ k < Len(u) /\ Low(u[k + 1])) \/ (Low(u[k]) /\ k > 1 /\ High(u[k - 1]))

(* utf16_bytes_to_utf8: each unpaired surrogate is Bad. *)
WellFormed16(s) ==
  LET u == Units(s)
  IN  [k \in DOMAIN u |-> IF (High(u[k]) \/ Low(u[k])) /\ ~Paired(u, k) THEN Bad ELSE u[k]]
(* peel_utf16_stream_remainder, and the odd byte after it. *)
Peel16(s) ==
  LET u == Units(s)
  IN  IF u # <<>> /\ High(u[Len(u)]) THEN 2 * Len(u) - 2 ELSE 2 * Len(u)

WellFormed(s) ==
  IF Utf8 THEN WellFormed8(s)
  ELSE WellFormed16(s) \o (IF Len(s) % 2 = 1 THEN <<Bad>> ELSE <<>>)
Peel(s) == IF Utf8 THEN Peel8(s) ELSE Peel16(s)

-----------------------------------------------------------------------------
Mark == CASE use.encoding = "utf-8" -> <<239, 187, 191>>
          [] use.encoding = "utf-16le" -> <<255, 254>> [] use.encoding = "utf-16be" -> <<254, 255>>
(* bom_need_bytes: too little to see a mark is kept for later. *)
WaitsForMark(data, stream) == ~bom /\ stream /\ Len(data) < Len(Mark)
(* skip_bom_if *)
SkipsMark(data) == ~bom /\ ~use.ignoreBOM /\ Len(data) >= Len(Mark) /\ Upto(data, Len(Mark)) = Mark

(* A call after the last part of a message begins the next one. *)
Sofar == IF ended THEN <<>> ELSE fed

(* What was kept, and the chunk. *)
Data(chunk) == remainder \o chunk

(* Decoder::decode, decode_utf8, decode_utf16 *)
Decode(chunk, stream) ==
  LET data == Data(chunk)
      body == IF SkipsMark(data) THEN From(data, Len(Mark) + 1) ELSE data
      now == IF stream THEN Peel(body) ELSE Len(body)
      text == WellFormed(Upto(body, now))
      waits == WaitsForMark(data, stream)
  IN  /\ bom' = (bom \/ ~waits)
      /\ remainder' = IF waits THEN data ELSE From(body, now + 1)
      /\ failed' = (~waits /\ use.fatal /\ Bad \in ToSet(text))
      /\ out' = (IF ended THEN <<>> ELSE out) \o (IF waits \/ failed' THEN <<>> ELSE text)
      /\ fed' = Sofar \o chunk
      /\ ended' = ~stream
      /\ used' = used + Len(chunk)
      /\ n' = IF stream THEN n ELSE n + 1
      /\ UNCHANGED use

(* decode(chunk, {stream: true}) and decode(chunk). *)
Call(stream) ==
  /\ ~failed /\ n < MaxMessages
  /\ \E k \in 0 .. Least(MaxChunk, MaxBytes - used) : \E chunk \in [1 .. k -> Bytes[use.encoding]] : Decode(chunk, stream)
DecodePart == Call(TRUE)
DecodeLast == Call(FALSE)

Next == DecodePart \/ DecodeLast
Spec == Init /\ [][Next]_vars

-----------------------------------------------------------------------------
(* The text of a message, as a TextDecoder is to give it: a mark at its    *)
(* beginning is no part of it, unless ignoreBOM asks for it.               *)
HasMark == ~use.ignoreBOM /\ Len(fed) >= Len(Mark) /\ Upto(fed, Len(Mark)) = Mark
Message == IF HasMark THEN From(fed, Len(Mark) + 1) ELSE fed

(* However a message is cut into chunks - inside a character, inside the   *)
(* mark, in empty chunks - decode returns the text one call returns for    *)
(* the whole message, and with fatal it throws if and only if that call    *)
(* does (decode, the peels and the mark).  Whether the mark of a later     *)
(* message is dropped is left to MarksSkipped.                             *)
ChunkingFree ==
  /\ ended => failed = (use.fatal /\ Bad \in ToSet(WellFormed(Message)))
  /\ ended /\ ~failed => /\ out = WellFormed(Message) \/ (n > 1 /\ out = WellFormed(fed))
                        /\ remainder = <<>>
  /\ failed => Bad \in ToSet(WellFormed(fed))

(* Every message loses its mark, the first one a decoder is given and the  *)
(* ones after it ("Skip leading BOM per WHATWG TextDecoder").  Not so:     *)
(* bom_seen_ outlives the message.                                         *)
MarksSkipped == ended /\ ~failed => out = WellFormed(Message)

=============================================================================
