---------------------------- MODULE RemedybgEvents ----------------------------
(***************************************************************************)
(* The event pipe from RemedyBG to the plugin.  The debugger writes each   *)
(* event's encoding; the plugin's reader thread receives the bytes in      *)
(* chunks of any size a pipe read returns, and decodes events with         *)
(* RemedybgEvent::deserialize from the bytes it holds.  On InsufficientData *)
(* it waits for more bytes and decodes again from the start of the event;  *)
(* on InvalidData it reports the protocol error and stops (spec section 7). *)
(*                                                                         *)
(*   sent      the events the debugger wrote, in order;                    *)
(*   read      how many bytes of the pipe the plugin has received;         *)
(*   consumed  how many of those the decoded events took;                  *)
(*   received  the events decoded, in order;                               *)
(*   failed    whether decoding returned InvalidData.                      *)
(***************************************************************************)
EXTENDS Naturals, Sequences, SequencesExt, RemedybgProtocol

CONSTANTS
    Events,     \* the events the debugger may send
    MaxEvents,  \* bound on the number of events sent
    MaxChunk    \* bound on the bytes one pipe read returns

VARIABLES sent, read, consumed, received, failed

vars == <<sent, read, consumed, received, failed>>

(***************************************************************************)
(* The debugger's side, from the wire shapes of spec section 6 and of the  *)
(* comments of RemedybgEvent: a u16 kind, then the fields in order;        *)
(* strings are a u16 length and the bytes.                                 *)
(***************************************************************************)
EventCode ==
    [ExitProcess |-> 100, SourceLocationChanged |-> 200, BreakpointHit |-> 600,
     BreakpointResolved |-> 601, BreakpointAdded |-> 602, BreakpointModified |-> 603,
     BreakpointRemoved |-> 604, OutputDebugString |-> 800]

(* An event of a kind this protocol.rs does not list (a newer RemedyBG's) *)
(* is [kind |-> "Unknown", code]: its u16 kind with no payload.           *)
Known(e) == e.kind \in DOMAIN EventCode

EncodeStr(s) == LeBytes(Len(s), 2) \o s

EncodeEvent(e) ==
    LeBytes(IF Known(e) THEN EventCode[e.kind] ELSE e.code, 2) \o
    CASE e.kind = "ExitProcess" -> LeBytes(e.exit_code, 4)
      [] e.kind = "SourceLocationChanged" ->
            EncodeStr(e.filename) \o LeBytes(e.line_num, 4) \o LeBytes(ReasonCode(e.reason), 2)
      [] e.kind = "OutputDebugString" -> EncodeStr(e.string)
      [] e.kind \in Range(BreakpointEvents) -> LeBytes(e.breakpoint_id, 4)
      [] OTHER -> <<>>

Encoding(es) == FoldLeft(LAMBDA acc, e : acc \o EncodeEvent(e), <<>>, es)

(* What the debugger has written, and what the plugin holds undecoded. *)
Written == Encoding(sent)

Buffered == SubSeq(Written, consumed + 1, read)

Init ==
    /\ sent = <<>>
    /\ read = 0
    /\ consumed = 0
    /\ received = <<>>
    /\ failed = FALSE

(* The debugger writes an event. *)
Write(e) ==
    /\ Len(sent) < MaxEvents
    /\ sent' = Append(sent, e)
    /\ UNCHANGED <<read, consumed, received, failed>>

(* A pipe read returns the next k bytes written. *)
Read(k) ==
    /\ ~failed
    /\ read + k <= Len(Written)
    /\ read' = read + k
    /\ UNCHANGED <<sent, consumed, received, failed>>

(* RemedybgEvent::deserialize on the bytes held: an event and the bytes it *)
(* took, or InvalidData; on InsufficientData nothing happens.              *)
Decode ==
    /\ ~failed
    /\ Buffered # <<>>
    /\ \E r \in {DeserializeEvent(Buffered, 0)} :
          \/ /\ r.ok
             /\ received' = Append(received, r.val)
             /\ consumed' = consumed + r.pos
             /\ UNCHANGED <<sent, read, failed>>
          \/ /\ ~r.ok /\ r.err = "InvalidData"
             /\ failed' = TRUE
             /\ UNCHANGED <<sent, read, consumed, received>>

Next ==
    \/ \E e \in Events : Write(e)
    \/ \E k \in 1 .. MaxChunk : Read(k)
    \/ Decode

(* The reader thread keeps reading while the pipe has bytes, and decodes  *)
(* whenever it holds some; the debugger need not send anything.           *)
Fairness == WF_vars(\E k \in 1 .. MaxChunk : Read(k)) /\ WF_vars(Decode)

Spec == Init /\ [][Next]_vars /\ Fairness

(***************************************************************************)
(* Properties.                                                             *)
(***************************************************************************)

TypeOK ==
    /\ sent \in Seq(Events) /\ Len(sent) <= MaxEvents
    /\ received \in Seq(Events)
    /\ consumed <= read /\ read <= Len(Written)
    /\ failed \in BOOLEAN

(* The plugin decodes exactly the events the debugger sent, in order, and *)
(* each one takes exactly the bytes of its encoding, whatever chunks the  *)
(* pipe delivered them in: decoding never gets out of step with the      *)
(* stream.  It fails only on an event of a kind it does not know.         *)
EventsInOrder ==
    /\ IsPrefix(received, sent)
    /\ consumed = Len(Encoding(received))
    /\ failed => Len(sent) > Len(received) /\ ~Known(sent[Len(received) + 1])

(* Every event the debugger sends is eventually decoded, unless an event  *)
(* of an unknown kind came before it: a complete event held by the plugin *)
(* never stays InsufficientData.                                          *)
EventsDelivered ==
    \A n \in 1 .. MaxEvents :
        (Len(sent) >= n /\ \A i \in 1 .. n : Known(sent[i])) ~> Len(received) >= n

=============================================================================
