-------------------------- MODULE FileProcessorAgent ---------------------------
(* The file-processor demo (src/examples/file-processor-demo): an agent that  *)
(* touches no file itself.  Each operation is authorized by the sidecar, then *)
(* executed by the sidecar, and only the result comes back: list the input    *)
(* directory, read each file, write the aggregate, copy each file to the      *)
(* archive, report, and ask twice for what should be refused.                 *)
(*                                                                            *)
(* An answer of the sidecar may be a refusal, an error, or lost, whether or   *)
(* not the operation was performed; the agent then goes on or stops as the    *)
(* code says, and may be run again over what is left.  Files in the input     *)
(* directory change while it runs.                                            *)
(******************************************************************************)
EXTENDS SalesReport

CONSTANTS Files,        \* names in the input directory
          JsonFiles,    \* those that end in .json
          NoFile,       \* the name in a path that is a directory
          Document,     \* the array of sales records each file holds when it holds one
          MaxChanges,   \* bound: changes of the input directory by others
          MaxRuns       \* bound: runs of the agent

ASSUME AgentAssumption == /\ JsonFiles \subseteq Files
                          /\ IsFiniteSet(Files)
                          /\ NoFile \notin Files
                          /\ \A f \in Files : /\ Document[f] \in Seq(ToSet(Document[f]))
                                               /\ \A r \in ToSet(Document[f]) : r.amount \in Int
                          /\ MaxChanges \in Nat
                          /\ MaxRuns \in Nat

VARIABLES
  input, archive,   \* the directories: what each file holds
  output,           \* aggregated_sales.json: <<>>, or <<what was written>>
  pc,               \* which call of run is under way
  phase,            \* where authorizeAndExecute is in that call
  reply,            \* what it returned; ok when authorized and successful
  inputFiles,       \* run's locals: the listing,
  at,               \* where the loop over its .json files is in it,
  allRecords,       \* the records read,
  held,             \* what is being archived,
  archivedFiles,    \* and the files said to be archived
  mandate,          \* the request the mandate in hand was issued for: <<>>, or <<the request>>
  executed,         \* the request last executed, until the next one is made
  written,          \* the paths written in this run, in order
  clean,            \* nothing was refused and nothing changed since this run began
  changes, runs

world == <<input, archive, output>>
ledger == <<mandate, executed, written>>
locals == <<inputFiles, at, allRecords, held, archivedFiles>>
vars == <<world, pc, phase, reply, locals, ledger, clean, changes, runs>>

\* "bad" stands for whatever JSON.parse or the spread of its result throws on.
Contents(f) == [kind : {"missing", "empty", "bad"}, records : {<<>>}] \cup [kind : {"json"}, records : {Document[f]}]
Missing == [kind |-> "missing", records |-> <<>>]

Idle == {"idle", "done", "failed"}
Calls == {"list", "read", "write", "reread", "copy", "report", "denyRead", "denyWrite"}

\* Mutant of Asking: the demonstration goes through authorizeAndExecute.
AskingNothing == {}

\* demonstrateDenial only asks; nothing is executed even when the answer is yes.
Asking == {"denyRead", "denyWrite"}

Request(step, f) ==
  CASE step = "list" -> [action |-> "fs.list", path |-> <<"input", NoFile>>]
    [] step \in {"read", "reread"} -> [action |-> "fs.read", path |-> <<"input", f>>]
    [] step = "write" -> [action |-> "fs.write", path |-> <<"output", NoFile>>]
    [] step = "copy" -> [action |-> "fs.write", path |-> <<"archive", f>>]
    [] step = "report" -> [action |-> "cli.exec", path |-> <<"output", NoFile>>]
    [] step = "denyRead" -> [action |-> "fs.read", path |-> <<"etc", NoFile>>]
    [] step = "denyWrite" -> [action |-> "fs.write", path |-> <<"tmp", NoFile>>]

File == IF at \in DOMAIN inputFiles THEN inputFiles[at] ELSE NoFile
Current == Request(pc, File)
Records == UNION {ToSet(Document[f]) : f \in Files}
Requests == {Request(s, f) : s \in Calls, f \in Files \cup {NoFile}}

Failed == [ok |-> FALSE, value |-> <<>>]

TypeOK ==
  /\ \A f \in Files : {input[f], archive[f]} \subseteq Contents(f)
  /\ pc \in Idle \cup Calls \cup {"analyze"}
  /\ phase \in {"authorize", "execute", "answered"}
  /\ reply.ok \in BOOLEAN
  /\ inputFiles \in Seq(Files)
  /\ at \in 1 .. Len(inputFiles) + 1
  /\ pc \in {"read", "reread", "copy"} => File \in JsonFiles
  /\ allRecords \in Seq(Records)
  /\ held \in {Missing} \cup UNION {Contents(f) : f \in Files}
  /\ archivedFiles \in Seq(JsonFiles)
  /\ \A r \in {mandate, executed} : r = <<>> \/ \E q \in Requests : r = <<q>>
  /\ written \in Seq({r.path : r \in Requests})
  /\ clean \in BOOLEAN
  /\ changes \in 0 .. MaxChanges
  /\ runs \in 0 .. MaxRuns

\* What a file that is not .json holds makes no difference.
Init ==
  /\ input \in [Files -> UNION {Contents(f) : f \in Files}]
  /\ \A f \in Files : input[f] \in Contents(f)
  /\ \A f \in Files \ JsonFiles : input[f].kind = "bad"
  /\ archive = [f \in Files |-> Missing]
  /\ output = <<>>
  /\ pc = "idle" /\ phase = "authorize" /\ reply = Failed
  /\ inputFiles = <<>> /\ at = 1 /\ allRecords = <<>> /\ held = Missing /\ archivedFiles = <<>>
  /\ mandate = <<>> /\ executed = <<>> /\ written = <<>>
  /\ clean = TRUE /\ changes = 0 /\ runs = 0

\* A new process, or what is left of one that has thrown.
Fresh == /\ phase' = "authorize" /\ reply' = Failed
         /\ inputFiles' = <<>> /\ at' = 1 /\ allRecords' = <<>> /\ held' = Missing /\ archivedFiles' = <<>>

\* The agent is started: nothing is kept from an earlier run but the files.
Start ==
  /\ pc \in Idle
  /\ runs < MaxRuns
  /\ runs' = runs + 1
  /\ pc' = "list"
  /\ Fresh
  /\ mandate' = <<>> /\ executed' = <<>> /\ written' = <<>>
  /\ clean' = TRUE
  /\ UNCHANGED <<world, changes>>

\* Somebody else writes or removes an input file.
Change(f) ==
  /\ changes < MaxChanges
  /\ changes' = changes + 1
  /\ \E c \in Contents(f) \ {input[f]} : input' = [input EXCEPT ![f] = c]
  /\ clean' = FALSE
  /\ UNCHANGED <<archive, output, pc, phase, reply, locals, ledger, runs>>

--------------------------------------------------------------------------------
(* SidecarClient: authorize and execute.                                      *)

Answered(r) == phase' = "answered" /\ reply' = r

\* 200, allowed, with a mandate; or without one, which is enough when only asking.
Authorized ==
  /\ pc \in Calls /\ phase = "authorize"
  /\ mandate' = <<Current>>
  /\ \/ pc \in Asking /\ Answered([ok |-> TRUE, value |-> <<>>])
     \/ pc \notin Asking /\ phase' = "execute" /\ UNCHANGED reply
  /\ UNCHANGED <<world, pc, locals, executed, written, clean, changes, runs>>

\* 403; 200 without allowed; or, before an execution, allowed without a mandate.
NotAuthorized ==
  /\ pc \in Calls /\ phase = "authorize"
  /\ Answered(Failed)
  /\ clean' = (clean /\ pc \in Asking)
  /\ UNCHANGED <<world, pc, locals, ledger, changes, runs>>

\* The list of files the sidecar returns, in any order; directories are left out.
Listings == SetToSeqs({f \in Files : input[f].kind # "missing"})

\* The values the current request may return; a file that is gone cannot be read.
Values == CASE pc = "list" -> Listings
            [] pc \in {"read", "reread"} -> {input[File]} \ {Missing}
            [] OTHER -> {<<>>}

Report == [totalRecords |-> Len(allRecords), aggregations |-> Aggregate(allRecords)]

\* The sidecar performs the current request.
Perform ==
  /\ pc \in Calls /\ phase = "execute"
  /\ executed' = <<Current>>
  /\ written' = IF Current.action = "fs.write" THEN Append(written, Current.path) ELSE written
  /\ output' = IF pc = "write" THEN <<Report>> ELSE output
  /\ archive' = IF pc = "copy" THEN [archive EXCEPT ![File] = held] ELSE archive
  /\ UNCHANGED input

Performed ==
  /\ Perform
  /\ \E v \in Values : Answered([ok |-> TRUE, value |-> v])
  /\ UNCHANGED <<pc, locals, mandate, clean, changes, runs>>

\* Mutant of PerformedUnheard: the operation is tried again from the start.
PerformedUnheardRetries ==
  /\ Perform
  /\ Values # {}
  /\ phase' = "authorize"
  /\ UNCHANGED <<pc, reply, locals, mandate, clean, changes, runs>>

\* The request is performed, and the answer lost: a timeout, or a body that cannot be read.
PerformedUnheard ==
  /\ Perform
  /\ Values # {}
  /\ pc' = "failed"
  /\ Fresh
  /\ UNCHANGED <<mandate, clean, changes, runs>>

\* The request is performed, and answered with an error status or success: false all the same.
PerformedInError ==
  /\ Perform
  /\ Values # {}
  /\ Answered(Failed)
  /\ clean' = FALSE
  /\ UNCHANGED <<pc, locals, mandate, changes, runs>>

\* An error status with a body, or success: false, and nothing was performed.
NotPerformed ==
  /\ pc \in Calls /\ phase = "execute"
  /\ Answered(Failed)
  /\ clean' = FALSE
  /\ UNCHANGED <<world, pc, locals, ledger, changes, runs>>

\* The connection, the 10 s timer, or an unexpected status or body: the client throws, and run with it.
Unheard ==
  /\ pc \in Calls /\ phase # "answered"
  /\ pc' = "failed"
  /\ Fresh
  /\ UNCHANGED <<world, ledger, clean, changes, runs>>

Sidecar == \/ Authorized \/ NotAuthorized
           \/ Performed \/ PerformedUnheard \/ PerformedInError
           \/ NotPerformed \/ Unheard

--------------------------------------------------------------------------------
(* FileProcessorAgent.run, from one answer to the next request.               *)

\* What follows an answer: the next request, or what needs none.
Ask(step) ==
  /\ pc' = step
  /\ phase' = "authorize"
  /\ reply' = Failed
  /\ mandate' = <<>> /\ executed' = <<>> /\ UNCHANGED written

\* The names that do not end in .json are passed over: the first position, not before from, of one that does.
Seek(files, from) ==
  CHOOSE n \in from .. Len(files) + 1 : /\ \A i \in from .. n - 1 : files[i] \notin JsonFiles
                                        /\ n <= Len(files) => files[n] \in JsonFiles

\* Mutant of Loop: the body runs before the test.
LoopOnce(files, from, first, after) ==
  /\ at' = Seek(files, from)
  /\ Ask(first)

\* A loop over the files from a position on, its body entered at first, and what follows it.
Loop(files, from, first, after) ==
  /\ at' = Seek(files, from)
  /\ Ask(IF at' <= Len(files) THEN first ELSE after)

Heard(step) == pc = step /\ phase = "answered"

\* An empty directory, or one that could not be listed, ends the run.
Listed ==
  /\ Heard("list")
  /\ inputFiles' = reply.value
  /\ IF inputFiles' = <<>>
     THEN pc' = "done" /\ UNCHANGED <<at, phase, reply, ledger>>
     ELSE Loop(inputFiles', 1, "read", "analyze")
  /\ UNCHANGED <<world, allRecords, held, archivedFiles, clean, changes, runs>>

\* A file that could not be read, is empty or does not parse contributes nothing.
Read ==
  /\ Heard("read")
  /\ allRecords' = IF reply.ok THEN allRecords \o reply.value.records ELSE allRecords
  /\ Loop(inputFiles, at + 1, "read", "analyze")
  /\ UNCHANGED <<world, inputFiles, held, archivedFiles, clean, changes, runs>>

\* aggregateData: the language model is asked and its answer, or failure, only logged.
AggregateData ==
  /\ pc = "analyze"
  /\ pc' = "write"
  /\ UNCHANGED <<world, phase, reply, locals, ledger, clean, changes, runs>>

\* Mutant of Written: the loop goes on where the first one stopped.
WrittenNoReset ==
  /\ Heard("write")
  /\ Loop(inputFiles, at, "reread", "report")
  /\ UNCHANGED <<world, inputFiles, allRecords, held, archivedFiles, clean, changes, runs>>

\* Whether the report was written makes no difference to what follows.
Written ==
  /\ Heard("write")
  /\ Loop(inputFiles, 1, "reread", "report")
  /\ UNCHANGED <<world, inputFiles, allRecords, held, archivedFiles, clean, changes, runs>>

\* The file is read a second time for the archive; an empty one is left out.
Reread ==
  /\ Heard("reread")
  /\ IF reply.ok /\ reply.value.kind # "empty"
     THEN Ask("copy") /\ held' = reply.value /\ UNCHANGED at
     ELSE Loop(inputFiles, at + 1, "reread", "report") /\ held' = Missing
  /\ UNCHANGED <<world, inputFiles, allRecords, archivedFiles, clean, changes, runs>>

\* The file counts as archived whether or not it was written.
Copied ==
  /\ Heard("copy")
  /\ archivedFiles' = Append(archivedFiles, File)
  /\ Loop(inputFiles, at + 1, "reread", "report")
  /\ held' = Missing
  /\ UNCHANGED <<world, inputFiles, allRecords, clean, changes, runs>>

\* The report command, then the two requests of demonstrateDenial.
Rest ==
  /\ phase = "answered"
  /\ \/ pc = "report" /\ Ask("denyRead")
     \/ pc = "denyRead" /\ Ask("denyWrite")
     \/ pc = "denyWrite" /\ Ask("done")
  /\ UNCHANGED <<world, locals, clean, changes, runs>>

Agent == Listed \/ Read \/ AggregateData \/ Written \/ Reread \/ Copied \/ Rest

Next == Start \/ Sidecar \/ Agent \/ \E f \in JsonFiles : Change(f)

Spec == Init /\ [][Next]_vars

--------------------------------------------------------------------------------
Present == {f \in JsonFiles : input[f].kind # "missing"}

\* "Agent had ZERO filesystem access - sidecar executed all operations": whatever is executed was allowed just
\* before for that very action and path, nothing outside the workspace is ever executed even if it is allowed, and the
\* input directory is only read.
ExecutedWasGranted ==
  executed # <<>> =>
    /\ executed = mandate
    /\ executed[1].path[1] \in {"input", "output", "archive"}
    /\ executed[1].path[1] = "input" => executed[1].action \in {"fs.list", "fs.read"}

\* In one run no file is written twice, also when the answer to a write is lost.
WritesOnce == \A i, j \in DOMAIN written : written[i] = written[j] => i = j

Completed == pc = "done" /\ clean /\ inputFiles # <<>>

\* The files are read in the order of some listing of them.
ReportIsComplete ==
  \E order \in SetToSeqs(Present) :
    ReportOf(output[1].aggregations, FlattenSeq([i \in DOMAIN order |-> input[order[i]].records]))

ArchiveIsComplete ==
  /\ \A f \in Present : input[f].kind # "empty" => archive[f] = input[f]
  /\ ToSet(archivedFiles) = {f \in Present : input[f].kind # "empty"}

\* A run in which nothing was refused and nothing changed leaves the report of all the records in the input
\* directory, and a copy of each of its files that holds anything, whatever earlier runs left behind.
CleanRunIsComplete == Completed => ReportIsComplete /\ ArchiveIsComplete
================================================================================
