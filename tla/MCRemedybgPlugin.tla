--------------------------- MODULE MCRemedybgPlugin ---------------------------
EXTENDS RemedybgPlugin

(***************************************************************************)
(* One event of each wire shape: a u32 field (258, so both low bytes     *)
(* count), a string with a u32 and a reason after it, two breakpoint ids, *)
(* an empty and a two-byte output string, and an event of a kind          *)
(* protocol.rs does not know (101).                                        *)
(***************************************************************************)
MCEvents ==
    { [kind |-> "ExitProcess", exit_code |-> 258],
      [kind |-> "SourceLocationChanged", filename |-> <<102>>, line_num |-> 7,
       reason |-> "BreakpointHit"],
      [kind |-> "BreakpointHit", breakpoint_id |-> 1],
      [kind |-> "BreakpointRemoved", breakpoint_id |-> 2],
      [kind |-> "OutputDebugString", string |-> <<>>],
      [kind |-> "OutputDebugString", string |-> <<104, 105>>],
      [kind |-> "Unknown", code |-> 101] }

(***************************************************************************)
(* The three commands of different answer shapes: StartDebugging (result   *)
(* only), AddBreakpointAtFilenameLine (an id) and GetBreakpoint (a whole   *)
(* breakpoint).  Each may fail; StartDebugging may get a result code of a  *)
(* newer RemedyBG (12); breakpoints of all four kinds, with an address     *)
(* and an id above one byte.                                               *)
(***************************************************************************)
MCCommands ==
    { [kind |-> "StartDebugging"],
      [kind |-> "AddBreakpointAtFilenameLine", filename |-> <<102>>, line_num |-> 3],
      [kind |-> "GetBreakpoint", bp_id |-> 1] }

MCBreakpoints ==
    { [kind |-> "FunctionName", function_name |-> <<109>>, overload_id |-> 0],
      [kind |-> "FilenameLine", filename |-> <<102>>, line_num |-> 3],
      [kind |-> "Address", address |-> 70000],
      [kind |-> "Processor", addr_expression |-> <<>>, num_bytes |-> 4, access_kind |-> "ReadWrite"] }

MCReplies ==
    [StartDebugging |-> {[result |-> "Ok"], [result |-> "Newer", code |-> 12]},
     AddBreakpointAtFilenameLine |->
        {[result |-> "Ok", bp_id |-> 300], [result |-> "InvalidTargetState"]},
     GetBreakpoint |->
        {[result |-> "Ok", uid |-> 1, enabled |-> e, module_name |-> <<>>, condition |-> <<99>>,
          breakpoint |-> bp] : e \in BOOLEAN, bp \in MCBreakpoints}
        \cup {[result |-> "InvalidId"]}]

=============================================================================
