------------------------------- MODULE MC_OsApi -------------------------------
EXTENDS OsApi

CONSTANTS h, n1, n2

MCNodes == {h, n1, n2}
\* two names, one a proper prefix of the other: "ab" and "abc"
MCNames == {<<97, 98>>, <<97, 98, 99>>}
\* a complete kernel profile, one without init_task, one without the
\* offset of task_struct.tasks
MCSymbolFiles ==
  { [syms |-> RequiredSymbols, fields |-> RequiredFields],
    [syms |-> RequiredSymbols \ {"init_task"}, fields |-> RequiredFields],
    [syms |-> RequiredSymbols, fields |-> RequiredFields \ {<<"task_struct", "tasks">>}] }
=============================================================================
