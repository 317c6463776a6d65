----------------------------- MODULE FrameReader -----------------------------
(***************************************************************************)
(* One direction of a DAP connection: write_message puts a Content-Length  *)
(* header, an empty line and a JSON body on a byte stream, read_message    *)
(* takes them off.  Sources: crates/dap-protocol/src/transport.rs,         *)
(* channel.rs, and control_client.rs, whose timers give up a read.         *)
(*                                                                         *)
(* Bytes arrive in pieces that respect no boundary of a message.  A piece  *)
(* is the start of a header line, the rest of it with its line end, the    *)
(* empty line, or a part of the body, which has no line end in it.         *)
(***************************************************************************)
EXTENDS Naturals, Sequences, SequencesExt

CONSTANTS
  MaxFrames,   \* bound on the messages written
  MaxSize      \* bound on the pieces of a body

ASSUME FrameAssumption == MaxFrames \in Nat /\ MaxSize \in Nat \ {0}

VARIABLES
  frames,     \* the messages written, the last one perhaps in part
  unwritten,  \* the pieces of the last one that have not arrived
  wire,       \* pieces that arrived and were not read
  ended,      \* the writer closed its end
  call,       \* the read under way: its local variables
  results,    \* what the reads that came to an end returned
  torn        \* a read was given up in the middle of a message

framesVars == <<frames, unwritten, wire, ended, call, results, torn>>

Piece(part, k) == [part |-> part, of |-> k]

Body(k, size) == [i \in 1..size |-> Piece("body", k)]

Frame(k, size) ==
  <<Piece("prefix", k), Piece("number", k), Piece("blank", k)>> \o Body(k, size)

EndsLine(piece) == piece.part \in {"number", "blank"}

\* No read is under way: the values a read starts with are in NewCall.
Idle == [phase |-> "idle", line |-> <<>>, length |-> 0, sawHeader |-> FALSE, body |-> <<>>]

NewCall == [Idle EXCEPT !.phase = "line"]

Message(k) == [kind |-> "message", of |-> k]

Error == [kind |-> "error", of |-> 0]

End == [kind |-> "end", of |-> 0]

FramesInit ==
  /\ frames = <<>> /\ unwritten = <<>> /\ wire = <<>> /\ ended = FALSE
  /\ call = Idle /\ results = <<>> /\ torn = FALSE

-----------------------------------------------------------------------------
(* The writer *)

\* write_message; "readable" bodies are those serde can make a Message of.
WriteFrame ==
  /\ ~ended /\ unwritten = <<>> /\ Len(frames) < MaxFrames
  /\ \E size \in 1..MaxSize, readable \in BOOLEAN :
       LET k == Len(frames) + 1 IN
       /\ frames' = Append(frames, [size |-> size, readable |-> readable])
       /\ wire' = Append(wire, Head(Frame(k, size)))
       /\ unwritten' = Tail(Frame(k, size))
  /\ UNCHANGED <<ended, call, results, torn>>

WriteMore ==
  /\ ~ended /\ unwritten /= <<>>
  /\ wire' = Append(wire, Head(unwritten))
  /\ unwritten' = Tail(unwritten)
  /\ UNCHANGED <<frames, ended, call, results, torn>>

\* The writer ends or its process is killed, perhaps within a message.
CloseWriter ==
  /\ ~ended
  /\ ended' = TRUE
  /\ UNCHANGED <<frames, unwritten, wire, call, results, torn>>

-----------------------------------------------------------------------------
(* The reader.  ingest and backend_to_mux read in a loop, which ends at    *)
(* the first error or when the editor's idle timer expires; a client reads *)
(* when a call waits for a message, after an error of an earlier call too. *)
(* So a read may start whenever none is under way, and need not.           *)

Finish(result) == call' = Idle /\ results' = Append(results, result)

StartRead ==
  /\ call.phase = "idle" /\ ~Contains(results, End)
  /\ call' = NewCall
  /\ UNCHANGED <<frames, unwritten, wire, ended, results, torn>>

\* What read_message makes of a whole line.
TakeLine(line) ==
  CASE line[1].part = "blank" ->
         IF call.length = 0
           THEN Finish(Error)
           ELSE call' = [call EXCEPT !.phase = "body", !.line = <<>>] /\ UNCHANGED results
    [] line[1].part = "prefix" ->
         /\ call' = [call EXCEPT !.line = <<>>, !.sawHeader = TRUE,
                                 !.length = frames[line[1].of].size]
         /\ UNCHANGED results
    [] OTHER -> Finish(Error)

\* serde_json::from_slice accepts one whole JSON value that is a Message.
Parsed(body) ==
  LET k == body[1].of IN
  IF body = Body(k, frames[k].size) /\ frames[k].readable THEN Message(k) ELSE Error

\* Fault: a body is taken for complete with what one read returns.
TakeBodyShort(body) ==
  IF call.length >= 1
    THEN Finish(Parsed(body))
    ELSE call' = [call EXCEPT !.body = body] /\ UNCHANGED results

\* Fault: a body is complete one piece late.
TakeBodyLate(body) ==
  IF Len(body) = call.length + 1
    THEN Finish(Parsed(Front(body)))
    ELSE call' = [call EXCEPT !.body = body] /\ UNCHANGED results

TakeBody(body) ==
  IF Len(body) = call.length
    THEN Finish(Parsed(body))
    ELSE call' = [call EXCEPT !.body = body] /\ UNCHANGED results

ReadPiece ==
  /\ wire /= <<>> /\ call.phase /= "idle"
  /\ wire' = Tail(wire)
  /\ IF call.phase = "body"
       THEN TakeBody(Append(call.body, Head(wire)))
       ELSE LET line == Append(call.line, Head(wire)) IN
            IF EndsLine(Head(wire))
              THEN TakeLine(line)
              ELSE call' = [call EXCEPT !.line = line] /\ UNCHANGED results
  /\ UNCHANGED <<frames, unwritten, ended, torn>>

\* A read that finds the end of the stream: clean if it has read nothing.
AtEnd ==
  IF call.phase = "line" /\ call.line = <<>> /\ ~call.sawHeader THEN End ELSE Error

ReadEnd ==
  /\ ended /\ wire = <<>> /\ call.phase /= "idle"
  /\ Finish(AtEnd)
  /\ UNCHANGED <<frames, unwritten, wire, ended, torn>>

\* A timer of recv_timeout or wait_for_event drops the read that waits for
\* more bytes, and with it what it has read of a message.
GiveUp ==
  /\ wire = <<>> /\ ~ended /\ call.phase /= "idle"
  /\ call' = Idle
  /\ torn' = (torn \/ call /= NewCall)
  /\ UNCHANGED <<frames, unwritten, wire, ended, results>>

FramesNext ==
  \/ WriteFrame \/ WriteMore \/ CloseWriter
  \/ StartRead \/ ReadPiece \/ ReadEnd \/ GiveUp

FramesSpec == FramesInit /\ [][FramesNext]_framesVars

\* The runtime wakes a read for which bytes have arrived; nothing makes a caller read again.
FramesFairness == WF_framesVars(ReadPiece)

-----------------------------------------------------------------------------
(* Properties *)

\* How many messages were written to the end.
Complete == Len(frames) - (IF unwritten = <<>> THEN 0 ELSE 1)

(* However the bytes are cut, the i-th read returns the i-th message, or an *)
(* error when its body cannot be parsed, and the reads after it are not     *)
(* disturbed; a stream that is cut within a message gives an error before   *)
(* it gives the end.  Only a read given up in the middle of a message       *)
(* (control_client.rs:685, :740) takes the reader out of step.              *)
ReadsInStep ==
  ~torn =>
    \A i \in DOMAIN results :
      IF i <= Complete
        THEN results[i] = (IF frames[i].readable THEN Message(i) ELSE Error)
        ELSE /\ ended
             /\ results[i] = (IF i = Complete + 1 /\ unwritten /= <<>> THEN Error ELSE End)

(* A read under way returns once the last byte of its message arrived: it   *)
(* waits for nothing that comes after it and no timer can take the message  *)
(* from it, while no earlier read was given up within a message             *)
(* (transport.rs:42, control_client.rs:685).                                *)
CompleteFrameReturned ==
  \A k \in 1..MaxFrames :
    (Complete >= k /\ Len(results) = k - 1 /\ call.phase /= "idle")
      ~> (torn \/ Len(results) >= k)
=============================================================================
