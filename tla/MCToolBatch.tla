---------------------------- MODULE MCToolBatch ----------------------------
EXTENDS ToolBatch
MCPaths == {<<"d">>, <<"d", "f">>}
MCAccess == {{FileAccess(TRUE, <<"d", "f">>, FALSE)}, {FileAccess(FALSE, <<"d">>, TRUE)}, {AllResources}}

\* For four calls: one access, and the forms that a dropped next() tells apart.
MCOneAccess == {{FileAccess(TRUE, <<"d", "f">>, FALSE)}}
MCForms == \A i \in Calls : form[i] \notin {"rejected", "blocked", "substituted"}
=============================================================================
