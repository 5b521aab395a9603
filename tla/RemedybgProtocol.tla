--------------------------- MODULE RemedybgProtocol ---------------------------
(***************************************************************************)
(* The RemedyBG wire codec of src/plugin-remedybg/src/protocol.rs, as      *)
(* operators on byte sequences (bytes are the integers 0 .. 255).  A       *)
(* deserializer reads from byte offset pos of b and returns                *)
(* [ok |-> TRUE, val, pos] with the offset after what it read, or          *)
(* [ok |-> FALSE, err] with the DeserializeError.                          *)
(*                                                                         *)
(* The fixed-width integers and Deserializer::read come from               *)
(* pepper::serialization, which is not part of src/: they are written     *)
(* from spec section 6 (little-endian, as on the host RemedyBG runs on).  *)
(***************************************************************************)
EXTENDS Integers, Sequences, SequencesExt, Strict

(***************************************************************************)
(* pepper::serialization.                                                  *)
(***************************************************************************)
RECURSIVE LeSmall(_)
LeSmall(s) == IF s = <<>> THEN 0 ELSE Head(s) + 256 * LeSmall(Tail(s))

(* The value of little-endian bytes s.  TLC's integers are 32 bits wide:  *)
(* a value of more than three bytes is WideValue.  No value the model      *)
(* sends is that wide, so only bytes read out of step with the stream give *)
(* one, and it equals no value sent and is not 0.                         *)
WideValue == -1

LeValue(s) ==
    IF \A i \in 4 .. Len(s) : s[i] = 0 THEN LeSmall(SubSeq(s, 1, IF Len(s) < 3 THEN Len(s) ELSE 3))
    ELSE WideValue

RECURSIVE LeBytes(_, _)
LeBytes(v, n) == IF n = 0 THEN <<>> ELSE <<v % 256>> \o LeBytes(v \div 256, n - 1)

Ok(val, pos) == [ok |-> TRUE, val |-> val, pos |-> pos]

InvalidData == [ok |-> FALSE, err |-> "InvalidData"]

InsufficientData == [ok |-> FALSE, err |-> "InsufficientData"]

(* The result of F on the value read, or the error. *)
Then(r, F(_)) == With(r, LAMBDA x : IF x.ok THEN F(x) ELSE x)

(* Deserializer::read(len) *)
ReadBytes(b, pos, len) ==
    IF pos + len > Len(b) THEN InsufficientData ELSE Ok(SubSeq(b, pos + 1, pos + len), pos + len)

(* u8, u16, u32 and u64::deserialize: n bytes, little-endian. *)
ReadUInt(b, pos, n) == Then(ReadBytes(b, pos, n), LAMBDA x : Ok(LeValue(x.val), x.pos))

(***************************************************************************)
(* protocol.rs                                                             *)
(***************************************************************************)

(* RemedybgCommandResult::deserialize: discriminant d is entry d + 1. *)
CommandResults ==
    <<"Unknown", "Ok", "Fail", "Aborted", "InvalidCommand", "BufferTooSmall",
      "FailedOpeningFile", "FailedSavingSession", "InvalidId", "InvalidTargetState",
      "NoActiveConfig", "InvalidBreakpointKind">>

DeserializeCommandResultShifted(b, pos) ==
    Then(ReadUInt(b, pos, 2), LAMBDA d :
        IF d.val \in 1 .. Len(CommandResults) THEN Ok(CommandResults[d.val], d.pos) ELSE InvalidData)

DeserializeCommandResult(b, pos) ==
    Then(ReadUInt(b, pos, 2), LAMBDA d :
        IF d.val < Len(CommandResults) THEN Ok(CommandResults[d.val + 1], d.pos) ELSE InvalidData)

(* RemedybgBool::deserialize: any byte but 0 is true. *)
DeserializeBool(b, pos) == Then(ReadUInt(b, pos, 1), LAMBDA x : Ok(x.val # 0, x.pos))

DeserializeIdWide(b, pos) ==
    Then(ReadUInt(b, pos, 8), LAMBDA x : IF x.val = 0 THEN InvalidData ELSE Ok(x.val, x.pos))

(* RemedybgId::deserialize: a u32 that must not be 0. *)
DeserializeId(b, pos) ==
    Then(ReadUInt(b, pos, 4), LAMBDA x : IF x.val = 0 THEN InvalidData ELSE Ok(x.val, x.pos))

DeserializeStrWideLen(b, pos) == Then(ReadUInt(b, pos, 4), LAMBDA n : ReadBytes(b, n.pos, n.val))

(* RemedybgStr::deserialize and deserialize_remedybg_bytes: a u16 length, *)
(* then that many bytes.                                                   *)
DeserializeStr(b, pos) == Then(ReadUInt(b, pos, 2), LAMBDA n : ReadBytes(b, n.pos, n.val))

(* RemedybgProtocolBreakpoint::deserialize: a u8 kind, then its fields. *)
AccessKinds == <<"Write", "ReadWrite", "Execute">>

DeserializeBreakpoint(b, pos) ==
    Then(ReadUInt(b, pos, 1), LAMBDA k :
        CASE k.val = 1 ->
               Then(DeserializeStr(b, k.pos), LAMBDA f : Then(ReadUInt(b, f.pos, 4), LAMBDA o :
                   Ok([kind |-> "FunctionName", function_name |-> f.val, overload_id |-> o.val], o.pos)))
          [] k.val = 2 ->
               Then(DeserializeStr(b, k.pos), LAMBDA f : Then(ReadUInt(b, f.pos, 4), LAMBDA l :
                   Ok([kind |-> "FilenameLine", filename |-> f.val, line_num |-> l.val], l.pos)))
          [] k.val = 3 ->
               Then(ReadUInt(b, k.pos, 8), LAMBDA a : Ok([kind |-> "Address", address |-> a.val], a.pos))
          [] k.val = 4 ->
               Then(DeserializeStr(b, k.pos), LAMBDA e : Then(ReadUInt(b, e.pos, 1), LAMBDA n :
               Then(ReadUInt(b, n.pos, 1), LAMBDA a :
                   IF a.val \in 1 .. 3
                   THEN Ok([kind |-> "Processor", addr_expression |-> e.val, num_bytes |-> n.val,
                            access_kind |-> AccessKinds[a.val]], a.pos)
                   ELSE InvalidData)))
          [] OTHER -> InvalidData)

CommandKindCodeTypo ==
    [StartDebugging |-> 301, StopDebugging |-> 302, AttachToProcessByPid |-> 304,
     AttachToProcessByName |-> 305, StepIntoByLine |-> 307, StepOverByLine |-> 309,
     StepOut |-> 311, ContinueExecution |-> 312, RunToFileAtLine |-> 313,
     BreakExecution |-> 314, GetBreakpoints |-> 600, AddBreakpointAtFilenameLine |-> 604,
     UpdateBreakpointLine |-> 608, DeleteBreakpoint |-> 610, GetBreakpoint |-> 611]

(* RemedybgCommandKind: the discriminants of the commands the plugin uses. *)
CommandKindCode ==
    [StartDebugging |-> 301, StopDebugging |-> 302, AttachToProcessByPid |-> 304,
     AttachToProcessByName |-> 305, StepIntoByLine |-> 307, StepOverByLine |-> 309,
     StepOut |-> 311, ContinueExecution |-> 312, RunToFileAtLine |-> 313,
     BreakExecution |-> 314, GetBreakpoints |-> 600, AddBreakpointAtFilenameLine |-> 604,
     UpdateBreakpointLine |-> 608, DeleteBreakpoint |-> 610, GetBreakpoint |-> 612]

(* RemedybgCommandKind::serialize: the discriminant as a u16. *)
SerializeCommandKind(c) == LeBytes(CommandKindCode[c], 2)

(* RemedybgSourceLocationChangedReason: the enum's discriminants, and its *)
(* deserialize, which maps d to entry d + 1.                              *)
Reasons ==
    <<"Unspecified", "ByCommandLine", "ByDriver", "BreakpointSelected", "CurrentFrameChanged",
      "ActiveThreadChanged", "BreakpointHit", "ExceptionHit", "StepOver", "StepIn", "StepOut",
      "NonUserBreakpoint", "DebugBreak">>

ReasonCode(r) == CHOOSE d \in 0 .. 12 : Reasons[d + 1] = r

DeserializeReasonShifted(b, pos) ==
    Then(ReadUInt(b, pos, 2), LAMBDA d :
        IF d.val \in 1 .. Len(Reasons) THEN Ok(Reasons[d.val], d.pos) ELSE InvalidData)

DeserializeReason(b, pos) ==
    Then(ReadUInt(b, pos, 2), LAMBDA d :
        IF d.val < Len(Reasons) THEN Ok(Reasons[d.val + 1], d.pos) ELSE InvalidData)

(* The events that carry only a breakpoint id, by discriminant. *)
BreakpointEvents ==
    600 :> "BreakpointHit" @@ 601 :> "BreakpointResolved" @@ 602 :> "BreakpointAdded"
    @@ 603 :> "BreakpointModified" @@ 604 :> "BreakpointRemoved"

(* RemedybgEvent::deserialize: a u16 kind, then the fields of that event. *)
DeserializeEventLineFirst(b, pos) ==
    Then(ReadUInt(b, pos, 2), LAMBDA d :
        CASE d.val = 100 ->
               Then(ReadUInt(b, d.pos, 4), LAMBDA x :
                   Ok([kind |-> "ExitProcess", exit_code |-> x.val], x.pos))
          [] d.val = 200 ->
               Then(ReadUInt(b, d.pos, 4), LAMBDA l : Then(DeserializeStr(b, l.pos), LAMBDA f :
               Then(DeserializeReason(b, f.pos), LAMBDA r :
                   Ok([kind |-> "SourceLocationChanged", filename |-> f.val, line_num |-> l.val,
                       reason |-> r.val], r.pos))))
          [] d.val \in DOMAIN BreakpointEvents ->
               Then(DeserializeId(b, d.pos), LAMBDA i :
                   Ok([kind |-> BreakpointEvents[d.val], breakpoint_id |-> i.val], i.pos))
          [] d.val = 800 ->
               Then(DeserializeStr(b, d.pos), LAMBDA s :
                   Ok([kind |-> "OutputDebugString", string |-> s.val], s.pos))
          [] OTHER -> InvalidData)

DeserializeEvent(b, pos) ==
    Then(ReadUInt(b, pos, 2), LAMBDA d :
        CASE d.val = 100 ->
               Then(ReadUInt(b, d.pos, 4), LAMBDA x :
                   Ok([kind |-> "ExitProcess", exit_code |-> x.val], x.pos))
          [] d.val = 200 ->
               Then(DeserializeStr(b, d.pos), LAMBDA f : Then(ReadUInt(b, f.pos, 4), LAMBDA l :
               Then(DeserializeReason(b, l.pos), LAMBDA r :
                   Ok([kind |-> "SourceLocationChanged", filename |-> f.val, line_num |-> l.val,
                       reason |-> r.val], r.pos))))
          [] d.val \in DOMAIN BreakpointEvents ->
               Then(DeserializeId(b, d.pos), LAMBDA i :
                   Ok([kind |-> BreakpointEvents[d.val], breakpoint_id |-> i.val], i.pos))
          [] d.val = 800 ->
               Then(DeserializeStr(b, d.pos), LAMBDA s :
                   Ok([kind |-> "OutputDebugString", string |-> s.val], s.pos))
          [] OTHER -> InvalidData)

=============================================================================
