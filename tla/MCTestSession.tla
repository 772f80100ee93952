---------------------------- MODULE MCTestSession ---------------------------
(* Two partitions and two tests, so that the second test meets what the    *)
(* first left behind.                                                      *)
EXTENDS TestSession

Options == {"resumes", "requests", "single", "tpm"}
Build(on) == [option \in Options |-> option \in on]

MCBuilds ==
    {Build(on) : on \in {{}, {"requests", "resumes"},
                         {"requests", "single"}, {"requests", "tpm"}}}
=============================================================================
