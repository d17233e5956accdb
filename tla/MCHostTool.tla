----------------------------- MODULE MCHostTool -----------------------------
(* Two messages from stdin with either encoding, one from the command line *)
(* whose frequency is refused, the wizard with all its values taken or one *)
(* of them refused, the factory reset.                                     *)
EXTENDS HostTool
MCRun(run, remote, loop, no) ==
  [run |-> run, remote |-> remote, stdin |-> loop, loop |-> loop, refused |-> no]
MCInvocations == {MCRun("message", TRUE, TRUE, {}), MCRun("message", FALSE, TRUE, {}),
                  MCRun("message", TRUE, FALSE, {"FREQ"}), MCRun("wizard", FALSE, FALSE, {}),
                  MCRun("wizard", FALSE, FALSE, {"FLEX_POWER"}),
                  MCRun("factory", FALSE, FALSE, {})}
=============================================================================
