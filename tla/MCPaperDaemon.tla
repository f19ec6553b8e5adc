----------------------------- MODULE MCPaperDaemon -----------------------------
EXTENDS PaperDaemon

\* two processes with nothing in common, and one whose slots share an identity
MCIdentities == {<<"a", "b">>, <<"c", "d">>, <<"e", "e">>}

\* caps below and above the requested size 2
MCVerdicts ==
  {[class |-> "size", allowed |-> 2], [class |-> "cap", allowed |-> 1],
   [class |-> "cap", allowed |-> 3], [class |-> "kill", allowed |-> 0]}
=============================================================================
