------------------------------ MODULE HttpBody ------------------------------
(***************************************************************************)
(* StdHttpTransport of crates/cfr-atlas-ollama: how the body of a response *)
(* is recovered from the bytes of a connection that the server closes, or  *)
(* that breaks, at any byte.                                               *)
(*                                                                         *)
(* The server sends the body plain or chunk by chunk, cut wherever its     *)
(* buffer was full.  Bytes that matter: carriage return, line feed,        *)
(* digits, the two halves of one character that UTF-8 spells with two      *)
(* bytes, and the brace that closes a JSON text, which comes nowhere else  *)
(* in it.                                                                  *)
(***************************************************************************)
EXTENDS Integers, Sequences, FiniteSets, SequencesExt

CONSTANTS
  Radix,         (* of the size of a chunk: 16; with a smaller one the       *)
                 (* small sizes of a run have several digits                 *)
  BodyBytes,     (* the bytes that bodies are made of                        *)
  MaxBody,       (* bound of the model on the length of a body before Close  *)
  MaxDigits      (* bound of the model on the digits of a size               *)

CR == "cr"
LF == "lf"
Digits == <<"0", "1", "2", "3", "4", "5", "6", "7",
            "8", "9", "a", "b", "c", "d", "e", "f">>
FirstHalf == "lead"
SecondHalf == "tail"
Close == "}"

ASSUME BodyAssumption ==
  /\ Radix \in 2 .. Len(Digits)
  /\ Close \notin BodyBytes
  /\ MaxBody \in Nat /\ MaxDigits \in Nat

VARIABLES
  body,        (* what the server means to send                             *)
  sent,        (* the bytes of it that it has sent in chunks                *)
  head,        (* "whole", "cut", or "garbled": no status in it             *)
  chunked,     (* how it sends it                                           *)
  stream,      (* the bytes after the header that arrived                   *)
  cut,         (* history: whether bytes were lost                          *)
  pc,          (* "idle", "start", "send", "read", "loop", and then         *)
               (* "decoded" or an error: "transport", "refused"             *)
  position,    (* bytes of the stream taken so far                          *)
  decoded

serverVars == <<body, sent, head, chunked, stream, cut>>
httpVars == <<serverVars, pc, position, decoded>>

(* Every first half is followed by a second half and the reverse.          *)
IsUtf8(s) ==
  \A i \in DOMAIN s :
    /\ s[i] = FirstHalf => i < Len(s) /\ s[i + 1] = SecondHalf
    /\ s[i] = SecondHalf => i > 1 /\ s[i - 1] = FirstHalf

Bodies ==
  LET texts == UNION {[1 .. n -> BodyBytes] : n \in 0 .. MaxBody}
  IN  {Append(s, Close) : s \in {t \in texts : IsUtf8(t)}}

-----------------------------------------------------------------------------
(* A size is written without leading zeros.                                *)
SizeDigits == {Digits[d] : d \in 1 .. Radix}
SizeLines ==
  {line \in UNION {[1 .. n -> SizeDigits] : n \in 1 .. MaxDigits} : line[1] = "0" => Len(line) = 1}

Value(line) ==
  FoldLeft(LAMBDA n, c : Radix * n + (CHOOSE d \in 1 .. Radix : Digits[d] = c) - 1, 0, line)

-----------------------------------------------------------------------------
(* The server (external).                                                  *)
Chunk(line, s) == line \o <<CR, LF>> \o s \o <<CR, LF>>

(* Where the next chunk may end, and the bytes that it then may be; after  *)
(* the whole body there is the empty chunk.                                *)
NextEnds == IF sent = Len(body) THEN {sent} ELSE sent + 1 .. Len(body)
ChunksTo(e) ==
  {Chunk(line, SubSeq(body, sent + 1, e)) : line \in {l \in SizeLines : Value(l) = e - sent}}

(* The body as it is, or the first bytes of it.                            *)
SendPlain ==
  /\ pc = "start"
  /\ \E n \in 0 .. Len(body) : stream' = SubSeq(body, 1, n) /\ cut' = (n < Len(body))
  /\ pc' = "read"
  /\ UNCHANGED <<body, sent, head, chunked, position, decoded>>

BeginChunks ==
  /\ pc = "start"
  /\ chunked' = TRUE
  /\ pc' = "send"
  /\ UNCHANGED <<body, sent, head, stream, cut, position, decoded>>

SendChunk ==
  /\ pc = "send"
  /\ \E e \in NextEnds : \E chunk \in ChunksTo(e) :
       /\ stream' = stream \o chunk
       /\ sent' = e
       /\ pc' = IF e = sent THEN "read" ELSE "send"
  /\ UNCHANGED <<body, head, chunked, cut, position, decoded>>

(* The connection ends before or within a chunk.                           *)
ConnectionBreaks ==
  /\ pc = "send"
  /\ \E e \in NextEnds : \E chunk \in ChunksTo(e) : \E n \in 0 .. Len(chunk) - 1 :
       stream' = stream \o SubSeq(chunk, 1, n)
  /\ cut' = TRUE
  /\ pc' = "read"
  /\ UNCHANGED <<body, sent, head, chunked, position, decoded>>

(* The connection ends within the head, or what answers is no HTTP server. *)
RespondWithoutHead ==
  /\ pc = "start"
  /\ head' \in {"cut", "garbled"}
  /\ cut' = (head' = "cut")
  /\ pc' = "read"
  /\ UNCHANGED <<body, sent, chunked, stream, position, decoded>>

-----------------------------------------------------------------------------
(* The socket times out or fails: nothing came, or no end came.            *)
ReadFails ==
  /\ pc \in {"start", "send", "read"}
  /\ pc' = "transport"
  /\ cut' = TRUE
  /\ UNCHANGED <<body, sent, head, chunked, stream, position, decoded>>

(* read_to_string: all that arrived, framing included, must be UTF-8.      *)
ReadNotUtf8 ==
  /\ pc = "read"
  /\ ~IsUtf8(stream)
  /\ pc' = "transport"
  /\ UNCHANGED <<serverVars, position, decoded>>

(* parse_http_response: no header boundary, or no status.                  *)
HeadUnusable ==
  /\ pc = "read" /\ head # "whole"
  /\ IsUtf8(stream)
  /\ pc' = "refused"
  /\ UNCHANGED <<serverVars, position, decoded>>

ReadPlain ==
  /\ pc = "read" /\ head = "whole" /\ ~chunked
  /\ IsUtf8(stream)
  /\ decoded' = stream
  /\ pc' = "decoded"
  /\ UNCHANGED <<serverVars, position>>

ReadChunked ==
  /\ pc = "read" /\ head = "whole" /\ chunked
  /\ IsUtf8(stream)
  /\ pc' = "loop"
  /\ UNCHANGED <<serverVars, position, decoded>>

(* find_crlf: where the next line end begins, counted from 0 as in the     *)
(* code; there may be none.                                                *)
LineEnds == {i \in position .. Len(stream) - 2 : stream[i + 1] = CR /\ stream[i + 2] = LF}
LineEnd == CHOOSE i \in LineEnds : \A j \in LineEnds : i <= j

(* The size line and its number; one past the address space is longer than *)
(* any that a server sends.                                                *)
SizeText == SubSeq(stream, position + 1, LineEnd)
SizeLine ==
  /\ LineEnds # {}
  /\ SizeText # << >> /\ \A i \in DOMAIN SizeText : SizeText[i] \in SizeDigits
Size == Value(SizeText)

ChunkStart == LineEnd + 2
ChunkEnd == ChunkStart + Size

Terminated ==
  ChunkEnd + 2 <= Len(stream) /\ stream[ChunkEnd + 1] = CR /\ stream[ChunkEnd + 2] = LF

(* Mutant: the terminator is not skipped.                                  *)
TakeChunkUnskipped ==
  /\ pc = "loop"
  /\ SizeLine /\ Size # 0 /\ Terminated
  /\ decoded' = decoded \o SubSeq(stream, ChunkStart + 1, ChunkEnd)
  /\ position' = ChunkEnd
  /\ UNCHANGED <<serverVars, pc>>

TakeChunk ==
  /\ pc = "loop"
  /\ SizeLine /\ Size # 0 /\ Terminated
  /\ decoded' = decoded \o SubSeq(stream, ChunkStart + 1, ChunkEnd)
  /\ position' = ChunkEnd + 2
  /\ UNCHANGED <<serverVars, pc>>

LastChunk ==
  /\ pc = "loop"
  /\ SizeLine /\ Size = 0
  /\ pc' = IF IsUtf8(decoded) THEN "decoded" ELSE "refused"
  /\ UNCHANGED <<serverVars, position, decoded>>

(* Mutant: the rest is waited for.                                         *)
RefuseWaits ==
  /\ pc = "loop"
  /\ SizeLine => Size # 0 /\ ~Terminated
  /\ UNCHANGED httpVars

(* No size line, or a chunk that is not there in full (its end past the    *)
(* address space included).                                                *)
Refuse ==
  /\ pc = "loop"
  /\ SizeLine => Size # 0 /\ ~Terminated
  /\ pc' = "refused"
  /\ UNCHANGED <<serverVars, position, decoded>>

-----------------------------------------------------------------------------
Idle ==
  /\ body = << >> /\ sent = 0 /\ head = "whole" /\ chunked = FALSE /\ stream = << >>
  /\ cut = FALSE /\ pc = "idle" /\ position = 0 /\ decoded = << >>

(* The next exchange begins with nothing of the last one.                  *)
Reset ==
  /\ body' = << >> /\ sent' = 0 /\ head' = "whole" /\ chunked' = FALSE /\ stream' = << >>
  /\ cut' = FALSE /\ pc' = "idle" /\ position' = 0 /\ decoded' = << >>

(* The server (external) has an answer.                                    *)
Answer(bodies) ==
  /\ pc = "idle"
  /\ body' \in bodies
  /\ pc' = "start"
  /\ UNCHANGED <<sent, head, chunked, stream, cut, position, decoded>>

Exchange ==
  \/ SendPlain \/ BeginChunks \/ SendChunk \/ ConnectionBreaks \/ RespondWithoutHead
  \/ ReadFails \/ ReadNotUtf8 \/ HeadUnusable \/ ReadPlain \/ ReadChunked
  \/ TakeChunk \/ LastChunk \/ Refuse

HttpSpec == Idle /\ [][Answer(Bodies) \/ Exchange]_httpVars

-----------------------------------------------------------------------------
(* Properties.                                                             *)

SplitCharacter == ~IsUtf8(stream)

(* A response that arrived in full is only refused when the server cut it  *)
(* within a character: whatever the length of the body and of its chunks,  *)
(* and however many digits their sizes have, the loop of                   *)
(* decode_chunked_body meets a size line at every place that it comes to.  *)
RefusedForCause ==
  pc \in {"refused", "transport"} => cut \/ SplitCharacter \/ head = "garbled"

(* "It also decodes HTTP chunked responses" (results/ollama_qwen2_5_0_5b_  *)
(* public_api/README.md): one that arrived in full is decoded.             *)
IntactIsDecoded == pc \in {"refused", "transport"} => cut \/ head = "garbled"

=============================================================================
