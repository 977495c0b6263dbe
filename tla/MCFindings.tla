----------------------------- MODULE MCFindings -----------------------------
EXTENDS Findings

MCFinding ==
  {[file |-> "f1", line |-> 1, category |-> "security", severity |-> "warning"],
   [file |-> "f1", line |-> 1, category |-> "style", severity |-> "nit"],
   [file |-> "f2", line |-> 2, category |-> "style", severity |-> "warning"],
   [file |-> "f2", line |-> 2, category |-> "style", severity |-> "nit"]}
=============================================================================
