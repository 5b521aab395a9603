---------------------------- MODULE RemedybgPlugin ----------------------------
(***************************************************************************)
(* The plugin's two pipes to RemedyBG: the event pipe (RemedybgEvents) and *)
(* the command pipe (RemedybgCommands).  They share no state: each has its *)
(* own bytes, its own reader and its own decoder, and every property of    *)
(* one speaks of its variables only.  A behaviour of the plugin is an      *)
(* interleaving of one pipe's behaviour with the other's, so a property of *)
(* one pipe holds of the plugin exactly when it holds of that pipe alone.  *)
(* The model therefore lets one pipe, chosen at the start, move while the  *)
(* other stays at its initial state: it checks both pipes in one run over  *)
(* the sum of their state spaces instead of their product.                 *)
(***************************************************************************)
CONSTANTS
    Events, MaxEvents, MaxEventChunk,
    Commands, Replies, MaxCommands, MaxReplyChunk

VARIABLES
    pipe,                                      \* the pipe that moves
    sent, read, consumed, received, failed,    \* the event pipe
    cmds, replies, replyRead, replyConsumed, answers, replyFailed  \* the command pipe

E == INSTANCE RemedybgEvents WITH MaxChunk <- MaxEventChunk

C == INSTANCE RemedybgCommands
        WITH MaxChunk <- MaxReplyChunk, read <- replyRead, consumed <- replyConsumed,
             failed <- replyFailed

eventVars == <<sent, read, consumed, received, failed>>

commandVars == <<cmds, replies, replyRead, replyConsumed, answers, replyFailed>>

vars == <<pipe, eventVars, commandVars>>

Init == pipe \in {"events", "commands"} /\ E!Init /\ C!Init

Next ==
    \/ pipe = "events" /\ E!Next /\ UNCHANGED <<pipe, commandVars>>
    \/ pipe = "commands" /\ C!Next /\ UNCHANGED <<pipe, eventVars>>

Spec == Init /\ [][Next]_vars /\ E!Fairness /\ C!Fairness

(***************************************************************************)
(* Properties: those of the two pipes (see their modules).                 *)
(***************************************************************************)

TypeOK == pipe \in {"events", "commands"} /\ E!TypeOK /\ C!TypeOK

(* Events are decoded in order, each from exactly its own bytes. *)
EventsInOrder == E!EventsInOrder

(* Every event of a known kind sent is eventually decoded. *)
EventsDelivered == E!EventsDelivered

(* Answers are decoded in order, each as the debugger gave it. *)
RepliesInOrder == C!RepliesInOrder

(* Every command is eventually answered and its answer decoded. *)
RepliesDelivered == C!RepliesDelivered

=============================================================================
