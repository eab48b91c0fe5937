----------------------------- MODULE ToolRequest -------------------------------
(* What the plugin asks the sidecar to authorize for a tool call of the host  *)
(* (extractAction and extractResource in src/src/openclaw-plugin.ts).         *)
(*                                                                            *)
(* A parameter is a path, another string, or no string at all: a path starts  *)
(* at the root, in the working directory or at home (~) and goes through      *)
(* steps, "." and ".." among them; the steps of another string are its words. *)
(* A resource is a sequence tagged with what it is made of.                   *)
(******************************************************************************)
EXTENDS Naturals, Sequences, SequencesExt

CONSTANTS Home,          \* HOME, or USERPROFILE
          ToolDot,       \* tool.<name>, the name in lower case, for each tool that has no action of its own
          MaxCommand,    \* words of a command in 100 characters
          MaxPrompt      \* words of a prompt in 50 characters

Value(is, from, steps) == [is |-> is, from |-> from, steps |-> steps]
Path(from, steps) == Value("path", from, steps)
Text(words) == Value("text", "", words)
NoString == Value("other", "", <<>>)

Resource(kind, of) == [kind |-> kind, of |-> of]
Literal(word) == Resource("text", <<word>>)
Raw(v) == Resource("raw", IF v.is = "path" THEN <<v.from>> \o v.steps ELSE v.steps)

\* typeof params[key] === "string"
HasString(params, key) == key \in DOMAIN params /\ params[key].is # "other"

\* The first of keys that holds a string, or else.
FirstString(params, keys, Use(_), else) ==
  LET found == SelectSeq(keys, LAMBDA k : HasString(params, k))
  IN IF found = <<>> THEN else ELSE Use(params[found[1]])

FileTools == {"Read", "Write", "Edit", "MultiEdit"}
PointerTools == {"computer-use:click", "computer-use:type", "computer-use:scroll"}

ExtractAction(toolName) ==
  CASE toolName = "Read" -> "fs.read"
    [] toolName \in {"Write", "Edit", "MultiEdit"} -> "fs.write"
    [] toolName = "Glob" -> "fs.list"
    [] toolName = "Bash" -> "shell.exec"
    [] toolName = "Task" -> "agent.spawn"
    [] toolName \in {"WebFetch", "WebSearch"} -> "http.request"
    [] toolName = "computer-use:screenshot" -> "browser.screenshot"
    [] toolName \in PointerTools -> "browser.interact"
    [] toolName = "computer-use:navigate" -> "browser.navigate"
    [] toolName = "NotebookRead" -> "notebook.read"
    [] toolName = "NotebookEdit" -> "notebook.write"
    [] toolName = "mcp_tool" -> "mcp.call"
    [] OTHER -> ToolDot[toolName]

\* path.resolve: each step goes down, stays, or goes up as far as the root.
Walk(base, steps) ==
  FoldLeft(LAMBDA at, s : IF s = "." THEN at
                          ELSE IF s = ".." THEN (IF at = <<>> THEN at ELSE Front(at))
                          ELSE Append(at, s),
           base, steps)

\* An empty path, and one that reads "file:unknown", stays as it is; any other becomes absolute, by the working
\* directory of the moment.
NormalizePath(v, cwd) ==
  IF v.steps = <<>> /\ v.is = "text" THEN Raw(v)
  ELSE IF v.steps = <<"file:unknown">> /\ v.from \in {"", "cwd"} THEN Literal("file:unknown")
  ELSE Resource("path", Walk(CASE v.from = "root" -> <<>> [] v.from = "home" -> Home [] OTHER -> cwd, v.steps))

ExtractFilePath(params, cwd) ==
  FirstString(params, <<"file_path", "filePath", "path", "file", "filename">>,
              LAMBDA v : NormalizePath(v, cwd), Literal("file:unknown"))

\* A command that is too long is cut after two words.
ExtractBashCommand(params) ==
  IF ~HasString(params, "command") THEN Literal("bash:unknown")
  ELSE LET words == params["command"].steps
       IN IF Len(words) <= MaxCommand THEN Resource("command", words)
          ELSE Resource("abridged", SubSeq(words, 1, 2))

ExtractMcpResource(params) ==
  LET name(keys) == FirstString(params, keys, LAMBDA v : v.steps, <<"unknown">>)
  IN Resource("mcp", name(<<"server", "mcp_server">>) \o <<"/">> \o name(<<"tool", "tool_name">>))

Prompt(v) == Resource("task", IF Len(v.steps) <= MaxPrompt THEN v.steps ELSE SubSeq(v.steps, 1, MaxPrompt))

\* For a tool it does not know, path and target are looked at only when the file path is the empty string: without
\* any it is already "file:unknown".
ExtractOther(toolName, params, cwd) ==
  LET file == ExtractFilePath(params, cwd)
  IN IF file.of # <<>> \/ file.kind = "path" THEN file
     ELSE LET given == SelectSeq(<<"path", "target">>, LAMBDA k : HasString(params, k) /\ params[k].steps # <<>>)
          IN IF given = <<>> THEN Resource("params", <<toolName>>) ELSE Raw(params[given[1]])

ExtractResource(toolName, params, cwd) ==
  CASE toolName \in FileTools -> ExtractFilePath(params, cwd)
    [] toolName = "Glob" -> FirstString(params, <<"pattern">>, Raw, Literal("*"))
    [] toolName = "Bash" -> ExtractBashCommand(params)
    [] toolName \in {"WebFetch", "WebSearch"} ->
         FirstString(params, <<"url">>, Raw,
                     FirstString(params, <<"query">>, LAMBDA v : Resource("search", v.steps), Literal("unknown")))
    [] toolName = "computer-use:navigate" -> FirstString(params, <<"url">>, Raw, Literal("browser:current"))
    [] toolName \in PointerTools \cup {"computer-use:screenshot"} -> Literal("browser:current")
    [] toolName = "Task" -> FirstString(params, <<"prompt">>, Prompt, Literal("task:unknown"))
    [] toolName \in {"NotebookRead", "NotebookEdit"} ->
         FirstString(params, <<"notebook_path">>, Raw, Literal("notebook:unknown"))
    [] toolName = "mcp_tool" -> ExtractMcpResource(params)
    [] OTHER -> ExtractOther(toolName, params, cwd)

Request(event, cwd) == [action |-> ExtractAction(event.toolName),
                        resource |-> ExtractResource(event.toolName, event.params, cwd)]
================================================================================
