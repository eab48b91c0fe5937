------------------------------- MODULE MCPlugin --------------------------------
EXTENDS SecureClawPlugin

MCHome == <<"home", "me">>

MCDirs == <<(<<"work">>), (<<"tmp">>)>>
\* The same file when the agent is in /work, two files when it is in /tmp.
MCEvents == {[toolName |-> "Read", params |-> [file_path |-> Path("cwd", <<".", "a">>)]],
             [toolName |-> "Read", params |-> [path |-> Path("root", <<"tmp", "..", "work", "a">>)]]}

MCToolDot == [t \in {"Search"} |-> "tool.search"]

OneDir == <<(<<"work">>)>>
OneOfEach == {[toolName |-> "Read", params |-> [file_path |-> Path("home", <<"a">>)]],
              [toolName |-> "Bash", params |-> [command |-> Text(<<"ls">>)]],
              [toolName |-> "Search", params |-> [target |-> Text(<<"a">>)]]}
================================================================================
