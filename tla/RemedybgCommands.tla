--------------------------- MODULE RemedybgCommands ---------------------------
(***************************************************************************)
(* The command pipe between the plugin and RemedyBG.  The plugin writes    *)
(* commands, each a RemedybgCommandKind::serialize discriminant and its    *)
(* arguments; the debugger answers each in order with a u16 command result *)
(* and, when the result is Ok, the payload its comment in protocol.rs      *)
(* lists.  The plugin receives the answers in chunks of any size a pipe    *)
(* read returns and decodes each against the command it answers, with      *)
(* RemedybgCommandResult::deserialize and the field deserializers.         *)
(*                                                                         *)
(*   cmds      the commands the plugin wrote, in order;                    *)
(*   replies   the answers the debugger wrote, in order;                   *)
(*   read      how many bytes of answers the plugin has received;          *)
(*   consumed  how many of those the decoded answers took;                 *)
(*   answers   the answers decoded, in order;                              *)
(*   failed    whether decoding returned InvalidData.                      *)
(*                                                                         *)
(* The debugger and the plugin's pipe loop are not in src/: they are       *)
(* written from the wire shapes of spec section 6 and the comments of      *)
(* RemedybgCommandKind.                                                    *)
(***************************************************************************)
EXTENDS Naturals, Sequences, SequencesExt, RemedybgProtocol

CONSTANTS
    Commands,     \* the commands the plugin may write: [kind, ...]
    Replies,      \* for each command kind, the answers the debugger may give
    MaxCommands,  \* bound on the number of commands written
    MaxChunk      \* bound on the bytes one pipe read returns

VARIABLES cmds, replies, read, consumed, answers, failed

vars == <<cmds, replies, read, consumed, answers, failed>>

(***************************************************************************)
(* The debugger's side.  It knows the discriminants of spec section 6 and  *)
(* answers any other with InvalidCommand.  An answer whose result is not   *)
(* one protocol.rs lists (a newer RemedyBG's) is [result |-> "Newer",      *)
(* code].                                                                  *)
(***************************************************************************)
DebuggerCommand ==
    301 :> "StartDebugging" @@ 304 :> "AttachToProcessByPid" @@ 307 :> "StepIntoByLine"
    @@ 312 :> "ContinueExecution" @@ 600 :> "GetBreakpoints"
    @@ 604 :> "AddBreakpointAtFilenameLine" @@ 612 :> "GetBreakpoint"

DebuggerKind(c) == LeValue(SubSeq(SerializeCommandKind(c.kind), 1, 2))

ResultCode(a) ==
    IF a.result = "Newer" THEN a.code ELSE CHOOSE d \in 0 .. 11 : CommandResults[d + 1] = a.result

EncodeStr(s) == LeBytes(Len(s), 2) \o s

EncodeBreakpoint(bp) ==
    CASE bp.kind = "FunctionName" -> <<1>> \o EncodeStr(bp.function_name) \o LeBytes(bp.overload_id, 4)
      [] bp.kind = "FilenameLine" -> <<2>> \o EncodeStr(bp.filename) \o LeBytes(bp.line_num, 4)
      [] bp.kind = "Address" -> <<3>> \o LeBytes(bp.address, 8)
      [] bp.kind = "Processor" ->
            <<4>> \o EncodeStr(bp.addr_expression) \o <<bp.num_bytes>>
            \o <<CHOOSE i \in 1 .. 3 : AccessKinds[i] = bp.access_kind>>

(* The answer's bytes: the result, then the payload of an Ok. *)
EncodeReply(a) ==
    LeBytes(ResultCode(a), 2) \o
    CASE a.result # "Ok" -> <<>>
      [] "bp_id" \in DOMAIN a -> LeBytes(a.bp_id, 4)
      [] "uid" \in DOMAIN a ->
            LeBytes(a.uid, 4) \o <<IF a.enabled THEN 1 ELSE 0>> \o EncodeStr(a.module_name)
            \o EncodeStr(a.condition) \o EncodeBreakpoint(a.breakpoint)
      [] OTHER -> <<>>

Encoding(as) == FoldLeft(LAMBDA acc, a : acc \o EncodeReply(a), <<>>, as)

Written == Encoding(replies)

Buffered == SubSeq(Written, consumed + 1, read)

(***************************************************************************)
(* The plugin's decoding of the answer to a command of kind k: the result, *)
(* and after an Ok the fields the command's comment lists.                 *)
(***************************************************************************)
DeserializeReply(k, b) ==
    Then(DeserializeCommandResult(b, 0), LAMBDA r :
        IF r.val # "Ok" THEN Ok([result |-> r.val], r.pos)
        ELSE CASE k = "AddBreakpointAtFilenameLine" ->
                    Then(DeserializeId(b, r.pos), LAMBDA i :
                        Ok([result |-> "Ok", bp_id |-> i.val], i.pos))
               [] k = "GetBreakpoint" ->
                    Then(DeserializeId(b, r.pos), LAMBDA u :
                    Then(DeserializeBool(b, u.pos), LAMBDA e :
                    Then(DeserializeStr(b, e.pos), LAMBDA m :
                    Then(DeserializeStr(b, m.pos), LAMBDA c :
                    Then(DeserializeBreakpoint(b, c.pos), LAMBDA p :
                        Ok([result |-> "Ok", uid |-> u.val, enabled |-> e.val,
                            module_name |-> m.val, condition |-> c.val,
                            breakpoint |-> p.val], p.pos))))))
               [] OTHER -> Ok([result |-> "Ok"], r.pos))

Init ==
    /\ cmds = <<>>
    /\ replies = <<>>
    /\ read = 0
    /\ consumed = 0
    /\ answers = <<>>
    /\ failed = FALSE

(* The plugin writes a command. *)
SendCommand(c) ==
    /\ Len(cmds) < MaxCommands
    /\ cmds' = Append(cmds, c)
    /\ UNCHANGED <<replies, read, consumed, answers, failed>>

(* The debugger answers the oldest unanswered command. *)
Reply ==
    /\ Len(replies) < Len(cmds)
    /\ \E k \in {DebuggerKind(cmds[Len(replies) + 1])} :
          \E a \in IF k \in DOMAIN DebuggerCommand THEN Replies[DebuggerCommand[k]]
                   ELSE {[result |-> "InvalidCommand"]} :
              replies' = Append(replies, a)
    /\ UNCHANGED <<cmds, read, consumed, answers, failed>>

(* A pipe read returns the next k bytes of answers. *)
ReadReply(k) ==
    /\ ~failed
    /\ read + k <= Len(Written)
    /\ read' = read + k
    /\ UNCHANGED <<cmds, replies, consumed, answers, failed>>

(* The plugin decodes the answer to its oldest unanswered command from the *)
(* bytes it holds; on InsufficientData nothing happens.                    *)
DecodeReply ==
    /\ ~failed
    /\ Buffered # <<>>
    /\ \E r \in {DeserializeReply(cmds[Len(answers) + 1].kind, Buffered)} :
          \/ /\ r.ok
             /\ answers' = Append(answers, r.val)
             /\ consumed' = consumed + r.pos
             /\ UNCHANGED <<cmds, replies, read, failed>>
          \/ /\ ~r.ok /\ r.err = "InvalidData"
             /\ failed' = TRUE
             /\ UNCHANGED <<cmds, replies, read, consumed, answers>>

Next ==
    \/ \E c \in Commands : SendCommand(c)
    \/ Reply
    \/ \E k \in 1 .. MaxChunk : ReadReply(k)
    \/ DecodeReply

(* The debugger answers every command; the plugin's reader keeps reading  *)
(* and decoding.  The plugin need not send anything.                      *)
Fairness ==
    WF_vars(Reply) /\ WF_vars(\E k \in 1 .. MaxChunk : ReadReply(k)) /\ WF_vars(DecodeReply)

Spec == Init /\ [][Next]_vars /\ Fairness

(***************************************************************************)
(* Properties.                                                             *)
(***************************************************************************)

TypeOK ==
    /\ cmds \in Seq(Commands) /\ Len(cmds) <= MaxCommands
    /\ Len(replies) <= Len(cmds) /\ Len(answers) <= Len(replies)
    /\ consumed <= read /\ read <= Len(Written)
    /\ \A i \in 1 .. Len(answers) : "enabled" \in DOMAIN answers[i] => answers[i].enabled \in BOOLEAN
    /\ failed \in BOOLEAN

(* Every answer the plugin decodes is the one the debugger gave to that    *)
(* command, field by field, and takes exactly its bytes, whatever chunks   *)
(* the pipe delivered: decoding never gets out of step with the answers.  *)
(* It fails only on an answer whose result protocol.rs does not know.     *)
RepliesInOrder ==
    /\ IsPrefix(answers, replies)
    /\ consumed = Len(Encoding(answers))
    /\ failed => Len(replies) > Len(answers) /\ replies[Len(answers) + 1].result = "Newer"

(* Every command the plugin sends is eventually answered and decoded,      *)
(* unless decoding failed on an earlier answer: a complete answer held by  *)
(* the plugin never stays InsufficientData.                                *)
RepliesDelivered ==
    \A n \in 1 .. MaxCommands : Len(cmds) >= n ~> (Len(answers) >= n \/ failed)

=============================================================================
