-------------------------- MODULE FileProcessorProofs ---------------------------
(* Proofs about the file-processor agent, for any files, contents, order of   *)
(* the listing, changes and number of runs: it has executed only what it was  *)
(* granted, writes no file twice, and a run in which nothing is refused and   *)
(* nothing changes archives and reports everything that is there.             *)
(******************************************************************************)
EXTENDS FileProcessorAgent, TLAPS, FiniteSetTheorems, SequenceTheorems, WellFoundedInduction

\* Between its request and the answer, a call holds the mandate for that very request and nothing has been executed.
GrantInv ==
  /\ pc \in Idle \cup Calls \cup {"analyze"}
  /\ phase \in {"authorize", "execute", "answered"}
  /\ pc = "analyze" => phase = "authorize"
  /\ pc \in Calls \cup {"analyze"} /\ phase # "answered" => executed = <<>>
  /\ phase = "execute" => pc \in Calls \ Asking /\ mandate = <<Current>>
  /\ ExecutedWasGranted

\* Only the calls of demonstrateDenial name anything outside the workspace, and only those that read name the input.
LEMMA RequestsStayInside ==
  ASSUME NEW step \in Calls \ Asking, NEW f
  PROVE  /\ Request(step, f).path[1] \in {"input", "output", "archive"}
         /\ Request(step, f).path[1] = "input" => Request(step, f).action \in {"fs.list", "fs.read"}
BY DEF Calls, Asking, Request

LEMMA GrantStep ==
  ASSUME GrantInv, [Next]_vars
  PROVE  GrantInv'
<1>0. pc \in Calls /\ phase = "execute" =>
        /\ Current.path[1] \in {"input", "output", "archive"}
        /\ Current.path[1] = "input" => Current.action \in {"fs.list", "fs.read"}
  BY RequestsStayInside DEF Current, GrantInv
<1>1. CASE UNCHANGED vars
  BY <1>1 DEF vars, ledger, locals, GrantInv, ExecutedWasGranted, Current, File
<1>2. CASE Start
  BY <1>2 DEF Start, Fresh, GrantInv, ExecutedWasGranted, Idle, Calls
<1>3. ASSUME NEW f, Change(f) PROVE GrantInv'
  BY <1>3 DEF Change, ledger, locals, GrantInv, ExecutedWasGranted, Current, File
<1>4. CASE Authorized
  BY <1>4 DEF Authorized, Answered, locals, GrantInv, ExecutedWasGranted, Current, File, Asking, Calls
<1>5. CASE NotAuthorized \/ NotPerformed
  BY <1>5 DEF NotAuthorized, NotPerformed, Answered, ledger, GrantInv, ExecutedWasGranted, Calls
<1>6. CASE Unheard
  BY <1>6 DEF Unheard, Fresh, ledger, GrantInv, ExecutedWasGranted, Idle, Calls
<1>7. ASSUME Perform, UNCHANGED mandate PROVE ExecutedWasGranted'
  BY <1>0, <1>7 DEF Perform, GrantInv, ExecutedWasGranted
<1>8. CASE Performed \/ PerformedInError
  BY <1>7, <1>8 DEF Performed, PerformedInError, Perform, Answered, GrantInv, Calls
<1>9. CASE PerformedUnheard
  BY <1>7, <1>9 DEF PerformedUnheard, Fresh, GrantInv, Idle, Calls
\* The agent's continuations drop the mandate before they ask again, or end the run.
<1>10. ASSUME NEW step \in Calls \cup {"analyze", "done"}, Ask(step) PROVE GrantInv'
  BY <1>10 DEF Ask, GrantInv, ExecutedWasGranted, Idle, Calls
<1>11. ASSUME NEW files, NEW from, NEW first \in Calls, NEW after \in Calls \cup {"analyze"}, Loop(files, from, first, after)
       PROVE  GrantInv'
  BY <1>10, <1>11 DEF Loop
<1>12. CASE Listed
  <2>1. CASE pc' = "done" /\ UNCHANGED <<phase, ledger>>
    BY <1>12, <2>1 DEF Listed, Heard, ledger, GrantInv, ExecutedWasGranted, Idle, Calls
  <2>2. CASE Loop(inputFiles', 1, "read", "analyze")
    BY <1>11, <2>2 DEF Calls
  <2> QED BY <1>12, <2>1, <2>2 DEF Listed
<1>13. CASE Read
  BY <1>11, <1>13 DEF Read, Calls
<1>14. CASE AggregateData
  BY <1>14 DEF AggregateData, ledger, GrantInv, ExecutedWasGranted, Calls
<1>15. CASE Written
  BY <1>11, <1>15 DEF Written, Calls
<1>16. CASE Reread
  BY <1>10, <1>11, <1>16 DEF Reread, Calls
<1>17. CASE Copied
  BY <1>11, <1>17 DEF Copied, Calls
<1>18. CASE Rest
  BY <1>10, <1>18 DEF Rest, Calls
<1> QED BY <1>1, <1>2, <1>3, <1>4, <1>5, <1>6, <1>8, <1>9, <1>12, <1>13, <1>14, <1>15, <1>16, <1>17, <1>18
           DEF Next, Sidecar, Agent

\* "Agent had ZERO filesystem access - sidecar executed all operations": whichever answers are refusals, errors or lost,
\* every operation was executed on a mandate for that very operation, inside the workspace.
THEOREM OnlyGrantedIsExecuted == Spec => []ExecutedWasGranted
<1>1. Init => GrantInv
  BY DEF Init, GrantInv, ExecutedWasGranted, Idle, Calls
<1>2. GrantInv /\ [Next]_vars => GrantInv'
  BY GrantStep
<1>3. GrantInv => ExecutedWasGranted
  BY DEF GrantInv
<1> QED BY <1>1, <1>2, <1>3, PTL DEF Spec

--------------------------------------------------------------------------------
(* Facts about natural numbers and about the loops.                           *)

LEMMA Smallest ==
  ASSUME NEW T \in SUBSET Nat, T # {}
  PROVE  \E x \in T : \A y \in T : x <= y
<1>1. \E x \in T : \A y \in T : ~ (<<y, x>> \in OpToRel(<, Nat))
  BY NatLessThanWellFounded, WFMin, Zenon
<1>2. \A x, y \in T : y < x => <<y, x>> \in OpToRel(<, Nat)
  BY DEF OpToRel
<1>3. PICK x \in T : \A y \in T : ~ (y < x)
  BY <1>1, <1>2, Zenon
<1> QED BY <1>3

\* The loop goes on at the next name that ends in .json, or ends behind the last name.
LEMMA SeekFacts ==
  ASSUME NEW files \in Seq(Files), NEW from \in 1 .. Len(files) + 1, NEW n, n = Seek(files, from)
  PROVE  /\ n \in from .. Len(files) + 1
         /\ \A i \in from .. n - 1 : files[i] \notin JsonFiles
         /\ n <= Len(files) => files[n] \in JsonFiles
<1> DEFINE T == {m \in from .. Len(files) + 1 : m <= Len(files) => files[m] \in JsonFiles}
<1>1. Len(files) \in Nat /\ Len(files) + 1 \in T /\ T \in SUBSET Nat
  OBVIOUS
<1>2. PICK m \in T : \A k \in T : m <= k
  <2> HIDE DEF T
  <2> QED BY <1>1, Smallest
<1>3. m \in from .. Len(files) + 1 /\ (m <= Len(files) => files[m] \in JsonFiles)
  OBVIOUS
<1>4. \A i \in from .. m - 1 : files[i] \notin JsonFiles
  <2> SUFFICES ASSUME NEW i \in from .. m - 1, files[i] \in JsonFiles PROVE FALSE
    OBVIOUS
  <2>1. i \in T
    BY <1>1, <1>3
  <2> QED BY <1>1, <1>2, <1>3, <2>1
<1> QED BY <1>3, <1>4, Zenon DEF Seek

LEMMA Induction ==
  ASSUME NEW S, 0 \in S, \A n \in S \cap Nat : n + 1 \in S
  PROVE  Nat \subseteq S
<1> SUFFICES ASSUME Nat \ S # {} PROVE FALSE
  OBVIOUS
<1>1. PICK x \in Nat \ S : \A y \in Nat \ S : x <= y
  BY Smallest
<1> QED BY <1>1

LEMMA AppendedSet ==
  ASSUME NEW T, NEW s \in Seq(T), NEW x \in T
  PROVE  ToSet(Append(s, x)) = ToSet(s) \cup {x}
<1>1. /\ Len(s) \in Nat /\ DOMAIN s = 1 .. Len(s) /\ DOMAIN Append(s, x) = 1 .. Len(s) + 1
      /\ \A i \in 1 .. Len(s) : Append(s, x)[i] = s[i]
      /\ Append(s, x)[Len(s) + 1] = x
  OBVIOUS
<1>2. ToSet(s) = {s[i] : i \in 1 .. Len(s)} /\ ToSet(Append(s, x)) = {Append(s, x)[i] : i \in 1 .. Len(s) + 1}
  BY <1>1 DEF ToSet
<1>3. \A i \in 1 .. Len(s) + 1 : i \in 1 .. Len(s) \/ i = Len(s) + 1
  BY <1>1
<1>4. 1 .. Len(s) \subseteq 1 .. Len(s) + 1 /\ Len(s) + 1 \in 1 .. Len(s) + 1
  BY <1>1
<1> QED BY <1>1, <1>2, <1>3, <1>4

--------------------------------------------------------------------------------
(* Types.                                                                     *)

There == {f \in Files : input[f].kind # "missing"}

\* The listing names every file once, and the loops stop only at .json files.
ListInv ==
  /\ inputFiles \in Seq(Files)
  /\ \A i, j \in DOMAIN inputFiles : inputFiles[i] = inputFiles[j] => i = j
  /\ at \in 1 .. Len(inputFiles) + 1
  /\ pc \in {"read", "reread", "copy"} => at \in DOMAIN inputFiles /\ inputFiles[at] \in JsonFiles
  /\ pc = "list" => at = 1
  /\ phase = "answered" /\ pc = "list" =>
       /\ reply.value \in Seq(Files)
       /\ \A i, j \in DOMAIN reply.value : reply.value[i] = reply.value[j] => i = j

\* What is read, held and archived under a name is what that file may hold.
ContentsInv ==
  /\ input \in [Files -> UNION {Contents(f) : f \in Files}]
  /\ archive \in [Files -> {Missing} \cup UNION {Contents(f) : f \in Files}]
  /\ \A f \in Files : input[f] \in Contents(f) /\ archive[f] \in Contents(f)
  /\ reply.ok \in BOOLEAN
  /\ phase = "answered" /\ pc \in {"read", "reread"} /\ reply.ok => reply.value \in Contents(File)
  /\ pc = "copy" => held \in Contents(File)
  /\ held \in {Missing} \cup UNION {Contents(f) : f \in Files}
  /\ allRecords \in Seq(Records)
  /\ archivedFiles \in Seq(JsonFiles)

LogInv ==
  /\ \A r \in {mandate, executed} : r = <<>> \/ \E q \in Requests : r = <<q>>
  /\ written \in Seq({r.path : r \in Requests})

CountsInv == clean \in BOOLEAN /\ changes \in 0 .. MaxChanges /\ runs \in 0 .. MaxRuns

\* The sidecar lists each of the files that are there once.
LEMMA ListingFacts ==
  ASSUME NEW v \in Listings
  PROVE  /\ v \in Seq(Files)
         /\ \A i, j \in DOMAIN v : v[i] = v[j] => i = j
         /\ ToSet(v) = There
<1> DEFINE c == Cardinality(There)
<1>1. IsFiniteSet(There) /\ There \subseteq Files
  BY AgentAssumption, FS_Subset DEF AgentAssumption, There
<1>2. c \in Nat
  BY <1>1, FS_CardinalityType
<1>3. v \in [1 .. c -> There] /\ \A i, j \in 1 .. c : i # j => v[i] # v[j]
  BY DEF Listings, SetToSeqs, There
<1>4. Cardinality(1 .. c) = c
  BY <1>2, FS_Interval
<1> HIDE DEF c
<1>5. v \in Injection(1 .. c, There)
  BY <1>3 DEF Injection, IsInjective
<1>6. v \in Surjection(1 .. c, There)
  BY <1>1, <1>4, <1>5, FS_Injection DEF c
<1>7. ToSet(v) = There
  BY <1>3, <1>6 DEF Surjection, ToSet
<1> QED BY <1>1, <1>2, <1>3, <1>7

\* What entering a loop, or going on with it, leaves of where it is.
LEMMA LoopSteps ==
  ASSUME NEW files \in Seq(Files), \A i, j \in DOMAIN files : files[i] = files[j] => i = j,
         inputFiles' = files, NEW from \in 1 .. Len(files) + 1,
         NEW first \in {"read", "reread"}, NEW after \in {"analyze", "report"}, Loop(files, from, first, after)
  PROVE  ListInv'
<1>1. /\ at' \in from .. Len(files) + 1
      /\ at' <= Len(files) => files[at'] \in JsonFiles
  BY SeekFacts DEF Loop
<1>2. phase' = "authorize" /\ (pc' \in {"read", "reread", "copy"} => at' <= Len(files))
  BY DEF Loop, Ask
<1>3. pc' # "list"
  BY DEF Loop, Ask
<1> QED BY <1>1, <1>2, <1>3 DEF ListInv

LEMMA ListStep ==
  ASSUME GrantInv, ListInv, [Next]_vars
  PROVE  ListInv'
<1>1. CASE UNCHANGED vars \/ \E f \in JsonFiles : Change(f)
  BY <1>1 DEF vars, locals, Change, ListInv
<1>2. CASE NotAuthorized \/ NotPerformed \/ PerformedInError
  <2>1. UNCHANGED <<inputFiles, at, pc>> /\ reply'.value = <<>>
    BY <1>2 DEF NotAuthorized, NotPerformed, PerformedInError, Answered, Failed, locals
  <2>2. <<>> \in Seq(Files) /\ DOMAIN <<>> = {}
    OBVIOUS
  <2> QED BY <2>1, <2>2 DEF ListInv
<1>3. CASE Authorized
  BY <1>3 DEF Authorized, Answered, Asking, locals, ListInv
<1>4. CASE Start \/ PerformedUnheard \/ Unheard
  <2>1. inputFiles' = <<>> /\ at' = 1 /\ phase' = "authorize" /\ pc' \in {"list", "failed"}
    BY <1>4 DEF Start, PerformedUnheard, Unheard, Fresh
  <2> QED BY <2>1 DEF ListInv
<1>5. CASE Performed
  <2>1. UNCHANGED <<inputFiles, at, pc>>
    BY <1>5 DEF Performed, locals
  <2>2. pc = "list" => reply'.value \in Listings
    BY <1>5 DEF Performed, Answered, Values
  <2>3. pc = "list" => /\ reply'.value \in Seq(Files)
                       /\ \A i, j \in DOMAIN reply'.value : reply'.value[i] = reply'.value[j] => i = j
    BY <2>2, ListingFacts
  <2> QED BY <2>1, <2>3 DEF ListInv
<1>6. CASE Listed
  <2>1. /\ inputFiles' = reply.value /\ reply.value \in Seq(Files)
        /\ \A i, j \in DOMAIN reply.value : reply.value[i] = reply.value[j] => i = j
    BY <1>6 DEF Listed, Heard, ListInv
  <2>2. CASE pc' = "done" /\ UNCHANGED <<at, phase, reply, ledger>> /\ inputFiles' = <<>>
    BY <1>6, <2>2 DEF ListInv, Listed, Heard
  <2>3. CASE Loop(inputFiles', 1, "read", "analyze")
    <3>1. 1 \in 1 .. Len(inputFiles') + 1
      BY <2>1
    <3> QED BY <2>1, <2>3, <3>1, LoopSteps
  <2> QED BY <1>6, <2>2, <2>3 DEF Listed
<1>7. CASE Read \/ Written \/ Reread \/ Copied
  <2>1. UNCHANGED inputFiles
    BY <1>7 DEF Read, Written, Reread, Copied
  <2>2. CASE pc' = "copy"
    <3>1. UNCHANGED at /\ pc = "reread" /\ phase' = "authorize"
      BY <1>7, <2>2 DEF Read, Written, Reread, Copied, Loop, Ask, Heard
    <3> QED BY <2>1, <2>2, <3>1 DEF ListInv
  <2>3. CASE pc' # "copy"
    <3>1. \/ Loop(inputFiles, 1, "reread", "report")
          \/ pc \in {"read", "reread", "copy"} /\ Loop(inputFiles, at + 1, "reread", "report")
          \/ pc \in {"read", "reread", "copy"} /\ Loop(inputFiles, at + 1, "read", "analyze")
      BY <1>7, <2>3 DEF Read, Written, Reread, Copied, Ask, Heard
    <3>2. /\ 1 \in 1 .. Len(inputFiles) + 1
          /\ pc \in {"read", "reread", "copy"} => at + 1 \in 1 .. Len(inputFiles) + 1
      BY DEF ListInv
    <3> QED BY <2>1, <3>1, <3>2, LoopSteps DEF ListInv
  <2> QED BY <2>2, <2>3
<1>8. CASE AggregateData \/ Rest
  BY <1>8 DEF AggregateData, Rest, Ask, locals, ListInv
<1> QED BY <1>1, <1>2, <1>3, <1>4, <1>5, <1>6, <1>7, <1>8 DEF Next, Sidecar, Agent

LEMMA ContentsFacts ==
  ASSUME NEW f \in Files
  PROVE  /\ Missing \in Contents(f)
         /\ \A c \in Contents(f) : c.records \in Seq(Records)
<1>1. Document[f] \in Seq(ToSet(Document[f])) /\ ToSet(Document[f]) \subseteq Records
  BY AgentAssumption DEF AgentAssumption, Records
<1>2. Document[f] \in Seq(Records) /\ <<>> \in Seq(Records)
  BY <1>1, SeqMonotonic, EmptySeq
<1>3. ASSUME NEW c \in Contents(f) PROVE c.records \in {<<>>, Document[f]}
  BY <1>3 DEF Contents
<1>4. Missing \in Contents(f)
  BY DEF Missing, Contents
<1> QED BY <1>2, <1>3, <1>4

\* What a call, heard or not, does to the archive.
LEMMA ArchiveKept ==
  ASSUME GrantInv, ListInv, ContentsInv, Perform
  PROVE  /\ input' = input
         /\ archive' \in [Files -> {Missing} \cup UNION {Contents(f) : f \in Files}]
         /\ \A f \in Files : archive'[f] \in Contents(f)
<1>1. input' = input
  BY DEF Perform
<1>2. CASE pc = "copy"
  <2>1. File \in Files /\ held \in Contents(File)
    BY <1>2 DEF ListInv, ContentsInv, File
  <2>2. archive' = [archive EXCEPT ![File] = held]
    BY <1>2 DEF Perform
  <2> QED BY <1>1, <2>1, <2>2 DEF ContentsInv
<1>3. CASE pc # "copy"
  BY <1>1, <1>3 DEF Perform, ContentsInv
<1> QED BY <1>2, <1>3

LEMMA ContentsStep ==
  ASSUME GrantInv, ListInv, ContentsInv, [Next]_vars
  PROVE  ContentsInv'
<1>1. pc \in {"read", "reread", "copy"} => File \in JsonFiles /\ File \in Files
  BY AgentAssumption DEF AgentAssumption, ListInv, File
<1>2. Failed.ok \in BOOLEAN /\ ~ Failed.ok
  BY DEF Failed
<1>3. CASE UNCHANGED vars
  BY <1>3 DEF vars, world, locals, ContentsInv, File
<1>4. ASSUME NEW f \in JsonFiles, Change(f) PROVE ContentsInv'
  <2>1. PICK c \in Contents(f) : input' = [input EXCEPT ![f] = c]
    BY <1>4 DEF Change
  <2>2. f \in Files
    BY AgentAssumption DEF AgentAssumption
  <2>3. /\ input' \in [Files -> UNION {Contents(g) : g \in Files}]
        /\ \A g \in Files : input'[g] \in Contents(g)
    BY <2>1, <2>2 DEF ContentsInv
  <2> QED BY <1>4, <2>3 DEF Change, locals, ContentsInv, File
<1>5. CASE Start \/ Unheard
  <2>1. Fresh /\ pc' \in {"list", "failed"} /\ UNCHANGED world
    BY <1>5 DEF Start, Unheard
  <2>2. <<>> \in Seq(Records) /\ <<>> \in Seq(JsonFiles)
    OBVIOUS
  <2> QED BY <2>1, <2>2 DEF Fresh, Failed, world, ContentsInv
<1>6. CASE PerformedUnheard
  <2>1. Fresh /\ pc' = "failed" /\ Perform
    BY <1>6 DEF PerformedUnheard
  <2>2. <<>> \in Seq(Records) /\ <<>> \in Seq(JsonFiles)
    OBVIOUS
  <2> QED BY <2>1, <2>2, ArchiveKept DEF Fresh, Failed, ContentsInv
<1>7. CASE Performed
  <2>1. Perform /\ UNCHANGED <<pc, locals>>
    BY <1>7 DEF Performed
  <2>2. PICK v \in Values : reply' = [ok |-> TRUE, value |-> v]
    BY <1>7 DEF Performed, Answered
  <2>3. reply'.ok \in BOOLEAN
    BY <2>2
  <2>4. pc \in {"read", "reread"} => reply'.value \in Contents(File)
    <3> SUFFICES ASSUME pc \in {"read", "reread"} PROVE v \in Contents(File)
      BY <2>2
    <3>1. v = input[File]
      BY DEF Values
    <3> QED BY <1>1, <3>1 DEF ContentsInv
  <2> QED BY <2>1, <2>3, <2>4, ArchiveKept DEF locals, ContentsInv, File
<1>8. CASE Authorized
  <2>1. CASE pc \in Asking /\ reply' = [ok |-> TRUE, value |-> <<>>]
    <3>1. reply'.ok \in BOOLEAN
      BY <2>1
    <3> QED BY <1>8, <2>1, <3>1 DEF Authorized, Asking, world, locals, ContentsInv, File
  <2>2. CASE phase' = "execute" /\ UNCHANGED reply
    BY <1>8, <2>2 DEF Authorized, world, locals, ContentsInv, File
  <2> QED BY <1>8, <2>1, <2>2 DEF Authorized, Answered
<1>9. CASE NotAuthorized \/ NotPerformed
  BY <1>9, <1>2 DEF NotAuthorized, NotPerformed, Answered, world, locals, ContentsInv, File
<1>9a. CASE PerformedInError
  <2>1. Perform /\ UNCHANGED <<pc, locals>> /\ reply' = Failed
    BY <1>9a DEF PerformedInError, Answered
  <2>2. ~reply'.ok /\ reply'.ok \in BOOLEAN
    BY <2>1 DEF Failed
  <2> QED BY <2>1, <2>2, ArchiveKept DEF locals, ContentsInv, File
<1>10. CASE Listed
  <2>1. phase' # "answered" \/ pc' = "done"
    BY <1>10 DEF Listed, Loop, Ask
  <2>2. reply'.ok \in BOOLEAN /\ pc' # "copy"
    BY <1>10, <1>2 DEF Listed, Loop, Ask, ContentsInv
  <2> QED BY <1>10, <2>1, <2>2 DEF Listed, world, ContentsInv
<1>11. CASE Read
  <2>1. reply.ok => reply.value.records \in Seq(Records)
    BY <1>1, <1>11, ContentsFacts DEF Read, Heard, ContentsInv
  <2>2. allRecords' \in Seq(Records)
    BY <1>11, <2>1, ConcatProperties DEF Read, ContentsInv
  <2> QED BY <1>11, <2>2 DEF Read, Loop, Ask, Failed, world, ContentsInv
<1>12. CASE AggregateData \/ Written \/ Rest
  <2>1. phase' = "authorize" /\ reply'.ok \in BOOLEAN /\ pc' # "copy"
    BY <1>12, <1>2 DEF AggregateData, Written, Rest, Loop, Ask, GrantInv, ContentsInv
  <2> QED BY <1>12, <2>1 DEF AggregateData, Written, Rest, Loop, world, locals, ContentsInv
<1>13. CASE Reread
  <2>1. CASE Ask("copy") /\ held' = reply.value /\ UNCHANGED at /\ reply.ok
    <3>1. File' = File /\ held' \in Contents(File)
      BY <1>13, <2>1 DEF Reread, Heard, ContentsInv, File
    <3> QED BY <1>1, <1>13, <2>1, <3>1 DEF Reread, Heard, Ask, Failed, world, ContentsInv
  <2>2. CASE Loop(inputFiles, at + 1, "reread", "report") /\ held' = Missing
    BY <1>13, <2>2 DEF Reread, Loop, Ask, Failed, world, ContentsInv
  <2> QED BY <1>13, <2>1, <2>2 DEF Reread
<1>14. CASE Copied
  <2>1. archivedFiles' \in Seq(JsonFiles)
    BY <1>1, <1>14 DEF Copied, Heard, ContentsInv
  <2> QED BY <1>14, <2>1 DEF Copied, Loop, Ask, Failed, world, ContentsInv
<1> QED BY <1>3, <1>4, <1>5, <1>6, <1>7, <1>8, <1>9, <1>9a, <1>10, <1>11, <1>12, <1>13, <1>14
           DEF Next, Sidecar, Agent

LEMMA LogStep ==
  ASSUME GrantInv, ListInv, LogInv, [Next]_vars
  PROVE  LogInv'
<1>1. pc \in Calls => Current \in Requests
  <2>1. File \in Files \cup {NoFile}
    BY DEF ListInv, File
  <2> QED BY <2>1 DEF Current, Requests
<1>2. CASE UNCHANGED ledger
  BY <1>2 DEF ledger, LogInv
<1>3. ASSUME NEW step, Ask(step) PROVE LogInv'
  BY <1>3 DEF Ask, LogInv
<1>4. CASE Start
  <2>1. <<>> \in Seq({r.path : r \in Requests})
    OBVIOUS
  <2> QED BY <1>4, <2>1 DEF Start, LogInv
<1>5. CASE Authorized
  BY <1>1, <1>5 DEF Authorized, LogInv
<1>6. CASE Performed \/ PerformedUnheard \/ PerformedInError
  <2>1. Perform /\ UNCHANGED mandate /\ pc \in Calls
    BY <1>6 DEF Performed, PerformedUnheard, PerformedInError, Perform
  <2>2. Current.path \in {r.path : r \in Requests}
    BY <1>1, <2>1
  <2>3. written' \in Seq({r.path : r \in Requests})
    <3> DEFINE P == {r.path : r \in Requests}
    <3>1. written \in Seq(P) /\ Current.path \in P
      BY <2>2 DEF LogInv
    <3> HIDE DEF P
    <3>2. written' \in Seq(P)
      BY <2>1, <3>1 DEF Perform
    <3> QED BY <3>2 DEF P
  <2>4. executed' = <<Current>> /\ Current \in Requests
    BY <1>1, <2>1 DEF Perform
  <2> QED BY <2>1, <2>3, <2>4 DEF LogInv
<1>7. CASE UNCHANGED vars \/ (\E f \in JsonFiles : Change(f)) \/ NotAuthorized \/ NotPerformed \/ Unheard \/ AggregateData
  BY <1>2, <1>7 DEF vars, Change, NotAuthorized, NotPerformed, Unheard, AggregateData, ledger, locals
<1>8. CASE Listed
  BY <1>2, <1>3, <1>8 DEF Listed, Loop
<1>9. CASE Read \/ Written \/ Reread \/ Copied \/ Rest
  BY <1>3, <1>9 DEF Read, Written, Reread, Copied, Rest, Loop
<1> QED BY <1>4, <1>5, <1>6, <1>7, <1>8, <1>9 DEF Next, Sidecar, Agent

LEMMA CountsStep ==
  ASSUME CountsInv, [Next]_vars
  PROVE  CountsInv'
<1>1. CASE Start
  BY <1>1, AgentAssumption DEF Start, CountsInv, AgentAssumption
<1>2. CASE \E f \in JsonFiles : Change(f)
  <2>1. clean' = FALSE /\ changes' = changes + 1 /\ changes < MaxChanges /\ runs' = runs
    BY <1>2 DEF Change
  <2>2. clean' \in BOOLEAN
    BY <2>1, Zenon
  <2> QED BY <2>1, <2>2, AgentAssumption DEF CountsInv, AgentAssumption
<1>3. CASE UNCHANGED vars \/ Sidecar \/ Agent
  <2>1. UNCHANGED <<changes, runs>>
    BY <1>3 DEF vars, Sidecar, Authorized, NotAuthorized, Performed, PerformedUnheard, PerformedInError, NotPerformed,
                Unheard, Agent, Listed, Read, AggregateData, Written, Reread, Copied, Rest
  <2>2. clean' \in {clean, FALSE, clean /\ pc \in Asking}
    BY <1>3, Zenon DEF vars, Sidecar, Authorized, NotAuthorized, Performed, PerformedUnheard, PerformedInError,
                NotPerformed, Unheard, Agent, Listed, Read, AggregateData, Written, Reread, Copied, Rest
  <2>3. clean' \in BOOLEAN
    BY <2>2, Zenon DEF CountsInv
  <2> QED BY <2>1, <2>3 DEF CountsInv
<1> QED BY <1>1, <1>2, <1>3 DEF Next

TypeInv == GrantInv /\ ListInv /\ ContentsInv /\ LogInv /\ CountsInv

LEMMA TypeInit == Init => TypeInv
<1> SUFFICES ASSUME Init PROVE TypeInv
  OBVIOUS
<1>1. GrantInv /\ ListInv
  BY DEF Init, GrantInv, ListInv, ExecutedWasGranted, Idle, Calls
<1>2. ContentsInv
  <2>1. reply.ok \in BOOLEAN
    BY DEF Init, Failed
  <2>2. <<>> \in Seq(Records) /\ <<>> \in Seq(JsonFiles)
    OBVIOUS
  <2> QED BY <2>1, <2>2, ContentsFacts DEF Init, ContentsInv
<1>3. LogInv
  <2>1. <<>> \in Seq({r.path : r \in Requests})
    OBVIOUS
  <2> QED BY <2>1 DEF Init, LogInv
<1>4. CountsInv
  BY AgentAssumption DEF Init, CountsInv, AgentAssumption
<1> QED BY <1>1, <1>2, <1>3, <1>4 DEF TypeInv

LEMMA TypeStep == TypeInv /\ [Next]_vars => TypeInv'
<1> SUFFICES ASSUME TypeInv, [Next]_vars PROVE TypeInv'
  OBVIOUS
<1>1. GrantInv' /\ ListInv' /\ ContentsInv'
  BY GrantStep, ListStep, ContentsStep DEF TypeInv
<1> QED BY <1>1, LogStep, CountsStep DEF TypeInv

\* Every variable keeps its type, and inside the loops there is a .json file to go on with.
THEOREM TypeCorrect == Spec => []TypeOK
<1>1. TypeInv => TypeOK
  <2> SUFFICES ASSUME TypeInv PROVE TypeOK
    OBVIOUS
  <2>1. pc \in {"read", "reread", "copy"} => File \in JsonFiles
    BY DEF TypeInv, ListInv, File
  <2> QED BY <2>1 DEF TypeInv, GrantInv, ListInv, ContentsInv, LogInv, CountsInv, TypeOK
<1> QED BY <1>1, TypeInit, TypeStep, PTL DEF Spec

--------------------------------------------------------------------------------
(* No file is written twice.                                                  *)

\* Written so far are the report, and in the archive the files the loop has passed.
WrittenInv ==
  /\ WritesOnce
  /\ pc \in {"list", "read", "analyze"} => written = <<>>
  /\ pc = "write" =>
       /\ phase # "answered" => written = <<>>
       /\ \A k \in DOMAIN written : written[k] = <<"output", NoFile>>
  /\ pc \in {"reread", "copy"} =>
       \A k \in DOMAIN written :
         \/ written[k] = <<"output", NoFile>>
         \/ \E i \in 1 .. at - 1 : written[k] = <<"archive", inputFiles[i]>>
         \/ pc = "copy" /\ phase = "answered" /\ written[k] = <<"archive", inputFiles[at]>>

LEMMA WrittenStep ==
  ASSUME GrantInv, ListInv, LogInv, WrittenInv, [Next]_vars
  PROVE  WrittenInv'
<1>1. CASE UNCHANGED vars \/ (\E f \in JsonFiles : Change(f)) \/ Authorized \/ NotAuthorized \/ NotPerformed
  <2>1. UNCHANGED <<pc, at, inputFiles, written>> /\ (phase' # "answered" => phase # "answered")
    BY <1>1 DEF vars, Change, Authorized, NotAuthorized, NotPerformed, Answered, locals, ledger
  <2> QED BY <2>1 DEF WrittenInv, WritesOnce
<1>2. CASE Start
  BY <1>2 DEF Start, WrittenInv, WritesOnce
<1>3. CASE Unheard
  BY <1>3 DEF Unheard, ledger, WrittenInv, WritesOnce
\* Only the report and the copies are writes, and each is to a path that has not been written yet.
<1>4. ASSUME Perform
      PROVE  /\ WritesOnce'
             /\ pc \in {"list", "read"} => written' = <<>>
             /\ pc = "write" => \A k \in DOMAIN written' : written'[k] = <<"output", NoFile>>
             /\ pc \in {"reread", "copy"} =>
                  \A k \in DOMAIN written' :
                    \/ written'[k] = <<"output", NoFile>>
                    \/ \E i \in 1 .. at - 1 : written'[k] = <<"archive", inputFiles[i]>>
                    \/ pc = "copy" /\ written'[k] = <<"archive", inputFiles[at]>>
  <2>1. pc \in Calls \ Asking /\ phase = "execute"
    BY <1>4 DEF Perform, GrantInv
  <2>2. CASE pc = "write"
    <3>1. written' = <<Current.path>> /\ Current.path = <<"output", NoFile>>
      BY <1>4, <2>2, <2>1 DEF Perform, Current, Request, WrittenInv
    <3> QED BY <2>2, <3>1 DEF WritesOnce
  <2>3. CASE pc = "copy"
    <3>1. Current.action = "fs.write" /\ Current.path = <<"archive", inputFiles[at]>>
      BY <2>3 DEF Current, Request, ListInv, File
    <3>2. written' = Append(written, <<"archive", inputFiles[at]>>)
      BY <1>4, <3>1 DEF Perform
    <3>3. \A k \in DOMAIN written : \/ written[k] = <<"output", NoFile>>
                                    \/ \E i \in 1 .. at - 1 : written[k] = <<"archive", inputFiles[i]>>
      BY <2>1, <2>3 DEF WrittenInv
    <3>4. \A k \in DOMAIN written : written[k] # <<"archive", inputFiles[at]>>
      <4>1. \A i \in 1 .. at - 1 : inputFiles[i] # inputFiles[at]
        BY <2>3 DEF ListInv
      <4> QED BY <3>3, <4>1
    <3>5. written \in Seq({r.path : r \in Requests}) /\ WritesOnce
      BY DEF LogInv, WrittenInv
    <3> DEFINE path == <<"archive", inputFiles[at]>>
    <3> HIDE DEF path
    <3>6. /\ Len(written) \in Nat /\ DOMAIN written = 1 .. Len(written) /\ DOMAIN written' = 1 .. Len(written) + 1
          /\ \A k \in DOMAIN written : written'[k] = written[k]
          /\ written'[Len(written) + 1] = path
      BY <3>2, <3>5 DEF path
    <3>7. \A k \in DOMAIN written : written[k] # path
      BY <3>4 DEF path
    <3>8. WritesOnce'
      BY <3>5, <3>6, <3>7 DEF WritesOnce
    <3>9. \A k \in DOMAIN written' : k \in DOMAIN written \/ written'[k] = path
      BY <3>6
    <3> QED BY <2>3, <3>3, <3>6, <3>8, <3>9 DEF path
  <2>4. CASE pc \notin {"write", "copy"}
    <3>1. Current.action # "fs.write"
      BY <2>1, <2>4 DEF Current, Request, Calls, Asking
    <3>2. written' = written
      BY <1>4, <3>1 DEF Perform
    <3> QED BY <2>4, <3>2 DEF WrittenInv, WritesOnce
  <2> QED BY <2>2, <2>3, <2>4
<1>5. CASE Performed \/ PerformedInError
  <2>1. Perform /\ UNCHANGED <<pc, locals>> /\ phase' = "answered" /\ pc \in Calls
    BY <1>5 DEF Performed, PerformedInError, Perform, Answered
  <2> QED BY <1>4, <2>1 DEF WrittenInv, locals, Calls
<1>6. CASE PerformedUnheard
  BY <1>4, <1>6 DEF PerformedUnheard, WrittenInv
<1>7. CASE Listed \/ Read \/ AggregateData
  <2>1. written = <<>>
    BY <1>7 DEF Listed, Read, AggregateData, Heard, WrittenInv
  <2>2. written' = <<>>
    BY <1>7, <2>1 DEF Listed, Read, AggregateData, Loop, Ask, ledger
  <2> QED BY <2>2 DEF WrittenInv, WritesOnce
<1>8. CASE Written \/ Rest
  <2>1. written' = written /\ pc' \notin {"list", "read", "analyze", "write", "copy"}
    BY <1>8 DEF Written, Rest, Loop, Ask
  <2>2. pc' = "reread" => \A k \in DOMAIN written : written[k] = <<"output", NoFile>>
    BY <1>8 DEF Written, Rest, Ask, Heard, WrittenInv
  <2> QED BY <2>1, <2>2 DEF WrittenInv, WritesOnce
<1>9. CASE Reread \/ Copied
  <2>1. /\ written' = written /\ inputFiles' = inputFiles /\ pc' \in {"reread", "copy", "report"} /\ phase' = "authorize"
        /\ pc \in {"reread", "copy"} /\ (pc = "reread" \/ pc' # "copy")
    BY <1>9 DEF Reread, Copied, Loop, Ask, Heard
  <2>2. at' \in Nat /\ at \in Nat /\ (at' = at \/ at' >= at + 1) /\ (pc = "copy" => at' >= at + 1)
    <3>1. at \in 1 .. Len(inputFiles) /\ inputFiles \in Seq(Files)
      BY <2>1 DEF ListInv
    <3>2. \/ pc = "reread" /\ at' = at
          \/ at' = Seek(inputFiles, at + 1)
      BY <1>9 DEF Reread, Copied, Loop, Heard
    <3>3. Seek(inputFiles, at + 1) \in at + 1 .. Len(inputFiles) + 1
      BY <3>1, SeekFacts
    <3> QED BY <3>1, <3>2, <3>3
  <2>3. \A k \in DOMAIN written :
          \/ written[k] = <<"output", NoFile>>
          \/ \E i \in 1 .. at' - 1 : written[k] = <<"archive", inputFiles[i]>>
    <3>1. 1 .. at - 1 \subseteq 1 .. at' - 1 /\ (pc = "copy" => at \in 1 .. at' - 1)
      <4>1. at \in 1 .. Len(inputFiles) + 1 /\ Len(inputFiles) \in Nat
        BY DEF ListInv
      <4>2. ASSUME NEW n \in Nat, NEW m \in Nat, n >= 1, m = n \/ m >= n + 1
            PROVE  1 .. n - 1 \subseteq 1 .. m - 1 /\ (m >= n + 1 => n \in 1 .. m - 1)
        BY <4>2
      <4>3. at >= 1
        BY <4>1
      <4> QED BY <2>2, <4>2, <4>3
    <3> QED BY <2>1, <3>1 DEF WrittenInv
  <2> QED BY <2>1, <2>3 DEF WrittenInv, WritesOnce
<1> QED BY <1>1, <1>2, <1>3, <1>5, <1>6, <1>7, <1>8, <1>9 DEF Next, Sidecar, Agent

\* In one run no file is written twice, whatever fails or is lost and whatever the listing names.
THEOREM NothingIsWrittenTwice == Spec => []WritesOnce
<1>1. Init => WrittenInv
  BY DEF Init, WrittenInv, WritesOnce
<1>2. TypeInv /\ WrittenInv /\ [Next]_vars => WrittenInv'
  BY WrittenStep DEF TypeInv
<1>3. WrittenInv => WritesOnce
  BY DEF WrittenInv
<1> QED BY <1>1, <1>2, <1>3, TypeInit, TypeStep, PTL DEF Spec

--------------------------------------------------------------------------------
(* What a clean run leaves.                                                   *)

Holds(f) == f \in JsonFiles /\ input[f].kind # "empty"

\* The files the archiving loop has passed are archived, and said to be.
ArchivedSoFar ==
  /\ \A i \in 1 .. at - 1 : Holds(inputFiles[i]) => archive[inputFiles[i]] = input[inputFiles[i]]
  /\ \A f \in Files : f \in ToSet(archivedFiles) <=> \E i \in 1 .. at - 1 : inputFiles[i] = f /\ Holds(f)

\* While nothing is refused and nothing changes, the listing is the directory, and every answer what it holds.
CleanInv == clean =>
  /\ phase = "answered" /\ pc \in Calls \ Asking => reply.ok
  /\ phase = "answered" /\ pc = "list" => ToSet(reply.value) = There
  /\ pc \notin {"idle", "list", "failed"} => ToSet(inputFiles) = There
  /\ phase = "answered" /\ pc \in {"read", "reread"} => reply.value = input[File]
  /\ pc = "copy" => held = input[File] /\ Holds(File)
  /\ pc = "copy" /\ phase = "answered" => archive[File] = input[File]
  /\ pc \in {"list", "read", "analyze", "write"} => archivedFiles = <<>>
  /\ pc \in {"reread", "copy", "report", "denyRead", "denyWrite", "done"} => ArchivedSoFar
  /\ pc \in {"report", "denyRead", "denyWrite", "done"} /\ inputFiles # <<>> => at = Len(inputFiles) + 1

LEMMA CleanStep ==
  ASSUME TypeInv, CleanInv, [Next]_vars
  PROVE  CleanInv'
<1> SUFFICES ASSUME clean' PROVE CleanInv'
  BY DEF CleanInv
<1>1. CASE UNCHANGED vars
  BY <1>1 DEF vars, world, locals, CleanInv, ArchivedSoFar, There, Holds, File
<1>2. CASE (\E f \in JsonFiles : Change(f)) \/ NotPerformed \/ PerformedInError
  BY <1>2 DEF Change, NotPerformed, PerformedInError
<1>3. CASE NotAuthorized \/ Authorized
  <2>1. UNCHANGED <<pc, input, archive, inputFiles, at, held, archivedFiles>> /\ clean
    BY <1>3 DEF NotAuthorized, Authorized, world, locals
  <2>2. phase' = "answered" => pc \in Asking
    BY <1>3 DEF NotAuthorized, Authorized, Answered
  <2> QED BY <2>1, <2>2 DEF CleanInv, ArchivedSoFar, There, Holds, File, Asking
<1>4. CASE Start
  BY <1>4 DEF Start, Fresh, CleanInv
<1>5. CASE PerformedUnheard \/ Unheard
  BY <1>5 DEF PerformedUnheard, Unheard, Fresh, CleanInv
<1>6. CASE Performed
  <2>1. UNCHANGED <<pc, input, inputFiles, at, held, archivedFiles>> /\ clean /\ phase = "execute"
    BY <1>6 DEF Performed, Perform, locals
  <2>2. PICK v \in Values : reply' = [ok |-> TRUE, value |-> v]
    BY <1>6 DEF Performed, Answered
  <2>3. reply'.ok /\ reply'.value = v
    BY <2>2
  <2>4. pc = "list" => ToSet(v) = There
    BY ListingFacts DEF Values
  <2>5. pc \in {"read", "reread"} => v = input[File]
    BY DEF Values
  <2>6. CASE pc = "copy"
    <3>1. archive' = [archive EXCEPT ![File] = held] /\ held = input[File] /\ ArchivedSoFar
      BY <1>6, <2>1, <2>6 DEF Performed, Perform, CleanInv
    <3>2. File \in Files /\ File = inputFiles[at] /\ \A i \in 1 .. at - 1 : inputFiles[i] # File
      BY <2>6 DEF TypeInv, ListInv, File
    <3>3. archive'[File] = input[File] /\ \A f : f # File => archive'[f] = archive[f]
      BY <3>1, <3>2 DEF TypeInv, ContentsInv
    <3>4. ArchivedSoFar'
      BY <2>1, <3>1, <3>2, <3>3 DEF ArchivedSoFar, Holds
    <3> QED BY <2>1, <2>3, <2>6, <3>3, <3>4 DEF CleanInv, There, Holds, File
  <2>7. CASE pc # "copy"
    <3>1. archive' = archive
      BY <1>6, <2>7 DEF Performed, Perform
    <3>2. ArchivedSoFar => ArchivedSoFar'
      BY <2>1, <3>1 DEF ArchivedSoFar, Holds
    <3> QED BY <2>1, <2>3, <2>4, <2>5, <2>7, <3>2 DEF CleanInv, There, File
  <2> QED BY <2>6, <2>7
<1>7. CASE Listed
  <2>1. /\ inputFiles' = reply.value /\ UNCHANGED <<input, archive, archivedFiles>> /\ clean
        /\ phase = "answered" /\ pc = "list" /\ archivedFiles = <<>> /\ ToSet(reply.value) = There
    BY <1>7 DEF Listed, Heard, world, CleanInv
  <2>2. CASE pc' = "done" /\ UNCHANGED at /\ inputFiles' = <<>>
    <3>1. ArchivedSoFar'
      BY <2>1, <2>2 DEF TypeInv, ListInv, ArchivedSoFar, ToSet
    <3> QED BY <2>1, <2>2, <3>1 DEF CleanInv, Calls, There
  <2>3. CASE Loop(inputFiles', 1, "read", "analyze")
    BY <2>1, <2>3 DEF Loop, Ask, CleanInv, There
  <2> QED BY <1>7, <2>2, <2>3 DEF Listed
<1>8. CASE Read \/ AggregateData
  <2>1. /\ UNCHANGED <<input, archive, inputFiles, archivedFiles>> /\ clean /\ pc \in {"read", "analyze"}
        /\ pc' \in {"read", "analyze", "write"} /\ phase' = "authorize"
    BY <1>8 DEF Read, AggregateData, Loop, Ask, Heard, world, locals, TypeInv, GrantInv
  <2> QED BY <2>1 DEF CleanInv, There
<1>9. CASE Written
  <2>1. /\ UNCHANGED <<input, archive, inputFiles, archivedFiles>> /\ clean
        /\ archivedFiles = <<>> /\ ToSet(inputFiles) = There
        /\ phase' = "authorize" /\ at' = Seek(inputFiles, 1) /\ pc' = IF at' <= Len(inputFiles) THEN "reread" ELSE "report"
    BY <1>9 DEF Written, Loop, Ask, Heard, world, CleanInv
  <2>2. at' \in 1 .. Len(inputFiles) + 1 /\ \A i \in 1 .. at' - 1 : inputFiles[i] \notin JsonFiles
    BY <2>1, SeekFacts DEF TypeInv, ListInv
  <2>3. ArchivedSoFar'
    BY <2>1, <2>2 DEF ArchivedSoFar, Holds, ToSet
  <2>4. at' <= Len(inputFiles) \/ at' = Len(inputFiles) + 1
    BY <2>2 DEF TypeInv, ListInv
  <2> QED BY <2>1, <2>3, <2>4 DEF CleanInv, There
\* The archiving loop passes a file that holds nothing, or has just archived it.
<1>10. ASSUME NEW n, NEW m, n = at, m = at', Loop(inputFiles, n + 1, "reread", "report"), clean, pc \in {"reread", "copy"},
              UNCHANGED <<input, archive, inputFiles>>,
              IF Holds(inputFiles[n])
              THEN archive[inputFiles[n]] = input[inputFiles[n]] /\ archivedFiles' = Append(archivedFiles, inputFiles[n])
              ELSE UNCHANGED archivedFiles
       PROVE  CleanInv'
  <2>1. /\ phase' = "authorize" /\ m = Seek(inputFiles, n + 1)
        /\ pc' = IF m <= Len(inputFiles) THEN "reread" ELSE "report"
    BY <1>10 DEF Loop, Ask
  <2>2. n \in 1 .. Len(inputFiles) /\ inputFiles \in Seq(Files) /\ Len(inputFiles) \in Nat
    BY <1>10 DEF TypeInv, ListInv
  <2>3. /\ m \in n + 1 .. Len(inputFiles) + 1
        /\ \A i \in n + 1 .. m - 1 : inputFiles[i] \notin JsonFiles
    BY <2>1, <2>2, SeekFacts
  <2>4. ToSet(inputFiles) = There /\ ArchivedSoFar
    BY <1>10 DEF CleanInv
  <2>5. \A i \in 1 .. m - 1 : Holds(inputFiles[i]) => i = n \/ i \in 1 .. n - 1
    BY <2>2, <2>3 DEF Holds
  <2>6. 1 .. n - 1 \subseteq 1 .. m - 1 /\ n \in 1 .. m - 1
    BY <2>2, <2>3
  <2>7. \A f \in Files : f \in ToSet(archivedFiles') <=> f \in ToSet(archivedFiles) \/ (Holds(inputFiles[n]) /\ f = inputFiles[n])
    <3>1. CASE Holds(inputFiles[n])
      <4>1. archivedFiles \in Seq(JsonFiles) /\ inputFiles[n] \in JsonFiles
        BY <3>1 DEF TypeInv, ContentsInv, Holds
      <4>2. archivedFiles' = Append(archivedFiles, inputFiles[n])
        BY <1>10, <3>1
      <4>3. ToSet(archivedFiles') = ToSet(archivedFiles) \cup {inputFiles[n]}
        BY <4>1, <4>2, AppendedSet
      <4> QED BY <3>1, <4>3
    <3>2. CASE ~ Holds(inputFiles[n])
      <4>1. archivedFiles' = archivedFiles
        BY <1>10, <3>2
      <4> QED BY <3>2, <4>1
    <3> QED BY <3>1, <3>2
  <2>8. ArchivedSoFar'
    <3>1. \A i \in 1 .. m - 1 : Holds(inputFiles[i]) => archive[inputFiles[i]] = input[inputFiles[i]]
      BY <1>10, <2>4, <2>5 DEF ArchivedSoFar
    <3>2. \A f \in Files : f \in ToSet(archivedFiles') <=> \E i \in 1 .. m - 1 : inputFiles[i] = f /\ Holds(f)
      <4>1. \A f \in Files : f \in ToSet(archivedFiles) <=> \E i \in 1 .. n - 1 : inputFiles[i] = f /\ Holds(f)
        BY <1>10, <2>4 DEF ArchivedSoFar
      <4> QED BY <2>5, <2>6, <2>7, <4>1
    <3> QED BY <1>10, <3>1, <3>2 DEF ArchivedSoFar, Holds
  <2>9. m <= Len(inputFiles) \/ m = Len(inputFiles) + 1
    BY <2>2, <2>3
  <2> QED BY <1>10, <2>1, <2>4, <2>8, <2>9 DEF CleanInv, There
<1>11. CASE Reread
  <2>1. /\ UNCHANGED <<input, archive, inputFiles, archivedFiles>> /\ clean /\ phase = "answered" /\ pc = "reread"
        /\ reply.ok /\ reply.value = input[File]
    BY <1>11 DEF Reread, Heard, world, CleanInv, Calls, Asking
  <2>2. File = inputFiles[at] /\ File \in JsonFiles
    BY <2>1 DEF TypeInv, ListInv, File
  <2>3. CASE Holds(File)
    <3>1. Ask("copy") /\ held' = input[File] /\ UNCHANGED at
      BY <1>11, <2>1, <2>3 DEF Reread, Holds
    <3> QED BY <2>1, <2>3, <3>1 DEF CleanInv, ArchivedSoFar, There, Holds, File, Ask
  <2>4. CASE ~ Holds(File)
    <3>1. Loop(inputFiles, at + 1, "reread", "report")
      BY <1>11, <2>1, <2>2, <2>4 DEF Reread, Holds
    <3> QED BY <1>10, <2>1, <2>2, <2>4, <3>1
  <2> QED BY <2>3, <2>4
<1>12. CASE Copied
  <2>1. /\ UNCHANGED <<input, archive, inputFiles>> /\ clean /\ phase = "answered" /\ pc = "copy"
        /\ Holds(File) /\ archive[File] = input[File] /\ archivedFiles' = Append(archivedFiles, File)
        /\ Loop(inputFiles, at + 1, "reread", "report")
    BY <1>12 DEF Copied, Heard, world, CleanInv
  <2>2. File = inputFiles[at]
    BY <2>1 DEF TypeInv, ListInv, File
  <2> QED BY <1>10, <2>1, <2>2
<1>13. CASE Rest
  <2>1. UNCHANGED <<input, archive, inputFiles, at, archivedFiles>> /\ clean /\ phase' = "authorize"
        /\ pc \in {"report", "denyRead", "denyWrite"} /\ pc' \in {"denyRead", "denyWrite", "done"}
    BY <1>13 DEF Rest, Ask, world, locals
  <2> QED BY <2>1 DEF CleanInv, ArchivedSoFar, There, Holds
<1> QED BY <1>1, <1>2, <1>3, <1>4, <1>5, <1>6, <1>7, <1>8, <1>9, <1>11, <1>12, <1>13 DEF Next, Sidecar, Agent

\* In a run in which nothing was refused and nothing changed, every file that is there and holds anything is archived
\* as it is, and said to be archived, and no other file is.
THEOREM CleanRunArchives == Spec => [](Completed => ArchiveIsComplete)
<1>1. Init => CleanInv
  BY DEF Init, CleanInv
<1>2. TypeInv /\ CleanInv /\ [Next]_vars => CleanInv'
  BY CleanStep
<1>3. TypeInv /\ CleanInv => (Completed => ArchiveIsComplete)
  <2> SUFFICES ASSUME TypeInv, CleanInv, Completed PROVE ArchiveIsComplete
    OBVIOUS
  <2>1. ToSet(inputFiles) = There /\ ArchivedSoFar /\ at = Len(inputFiles) + 1
    BY DEF Completed, CleanInv
  <2>2. inputFiles \in Seq(Files) /\ DOMAIN inputFiles = 1 .. at - 1
    BY <2>1 DEF TypeInv, ListInv
  <2>3. \A f \in Files : Holds(f) /\ f \in There <=> \E i \in 1 .. at - 1 : inputFiles[i] = f /\ Holds(f)
    BY <2>1, <2>2 DEF ToSet
  <2>4. \A f \in Present : f \in Files /\ (input[f].kind # "empty" => Holds(f) /\ f \in There)
    BY AgentAssumption DEF AgentAssumption, Present, Holds, There
  <2>5. \A f \in Present : input[f].kind # "empty" => archive[f] = input[f]
    BY <2>1, <2>3, <2>4 DEF ArchivedSoFar
  <2>6. \A f \in Files : f \in ToSet(archivedFiles) <=> f \in Present /\ input[f].kind # "empty"
    BY <2>1, <2>3 DEF ArchivedSoFar, Present, Holds, There
  <2>7. ToSet(archivedFiles) \subseteq Files
    BY AgentAssumption DEF AgentAssumption, TypeInv, ContentsInv, ToSet
  <2>8. ToSet(archivedFiles) = {f \in Present : input[f].kind # "empty"}
    BY <2>4, <2>6, <2>7
  <2> QED BY <2>5, <2>8 DEF ArchiveIsComplete
<1> QED BY <1>1, <1>2, <1>3, TypeInit, TypeStep, PTL DEF Spec
--------------------------------------------------------------------------------
(* What FlattenSeq does with one more sequence.                               *)

Flattening(ss, N, f) == f = [i \in 1 .. N |-> IF i = 1 THEN ss[i] ELSE f[i - 1] \o ss[i]]

LEMMA FlatteningExists ==
  ASSUME NEW ss
  PROVE  \A N \in Nat : \E f : Flattening(ss, N, f)
<1> DEFINE S == {N \in Nat : \E f : Flattening(ss, N, f)}
<1>1. 0 \in S
  <2>1. Flattening(ss, 0, [i \in 1 .. 0 |-> <<>>])
    BY DEF Flattening
  <2> QED BY <2>1
<1>2. ASSUME NEW N \in S PROVE N + 1 \in S
  <2>1. PICK f : Flattening(ss, N, f)
    OBVIOUS
  <2> DEFINE g == [i \in 1 .. N + 1 |-> IF i <= N THEN f[i] ELSE IF i = 1 THEN ss[i] ELSE f[N] \o ss[i]]
             h == [i \in 1 .. N + 1 |-> IF i = 1 THEN ss[i] ELSE g[i - 1] \o ss[i]]
  <2>2. \A i \in 1 .. N : g[i] = f[i]
    OBVIOUS
  <2>3. g[N + 1] = IF N + 1 = 1 THEN ss[N + 1] ELSE f[N] \o ss[N + 1]
    OBVIOUS
  <2>4. ASSUME NEW i \in 1 .. N + 1 PROVE g[i] = IF i = 1 THEN ss[i] ELSE g[i - 1] \o ss[i]
    <3>1. CASE i = N + 1
      <4>1. i # 1 => i - 1 = N /\ N \in 1 .. N
        BY <3>1
      <4> HIDE DEF g
      <4> QED BY <2>2, <2>3, <3>1, <4>1
    <3>2. CASE i # N + 1
      <4>1. i \in 1 .. N /\ (i # 1 => i - 1 \in 1 .. N)
        BY <3>2
      <4>2. f[i] = IF i = 1 THEN ss[i] ELSE f[i - 1] \o ss[i]
        BY <2>1, <4>1 DEF Flattening
      <4> HIDE DEF g
      <4> QED BY <2>2, <4>1, <4>2
    <3> QED BY <3>1, <3>2
  <2>5. g = h
    BY <2>4
  <2>6. Flattening(ss, N + 1, g)
    BY <2>5 DEF Flattening
  <2> QED BY <2>6
<1>3. Nat \subseteq S
  <2> HIDE DEF S
  <2> QED BY <1>1, <1>2, Induction
<1> QED BY <1>3

LEMMA FlattenUnfolds ==
  ASSUME NEW ss, Len(ss) \in Nat, Len(ss) # 0
  PROVE  \E f : Flattening(ss, Len(ss), f) /\ FlattenSeq(ss) = f[Len(ss)]
<1> DEFINE f == CHOOSE flatten : flatten = [i \in 1 .. Len(ss) |-> IF i = 1 THEN ss[i] ELSE flatten[i - 1] \o ss[i]]
<1>1. FlattenSeq(ss) = f[Len(ss)]
  BY DEF FlattenSeq
<1>2. \E g : Flattening(ss, Len(ss), g)
  BY FlatteningExists
<1>3. Flattening(ss, Len(ss), f)
  BY <1>2, Zenon DEF Flattening
<1> QED BY <1>1, <1>3

LEMMA NextPosition == \A n \in Nat \ {0} : n + 1 # 1 /\ n = (n + 1) - 1 /\ n + 1 \in 1 .. n + 1
OBVIOUS

LEMMA FlattenOneMore ==
  ASSUME NEW R, NEW ss \in Seq(Seq(R)), NEW s \in Seq(R)
  PROVE  FlattenSeq(Append(ss, s)) = FlattenSeq(ss) \o s
<1> DEFINE tt == Append(ss, s)
           N == Len(ss)
<1>1. N \in Nat /\ Len(tt) = N + 1 /\ tt[N + 1] = s /\ \A i \in 1 .. N : ss[i] = tt[i]
  OBVIOUS
<1> HIDE DEF tt, N
<1>2. PICK g : Flattening(tt, N + 1, g) /\ FlattenSeq(tt) = g[N + 1]
  <2>1. Len(tt) \in Nat /\ Len(tt) # 0
    BY <1>1
  <2> QED BY <1>1, <2>1, FlattenUnfolds
<1>3. ASSUME NEW i \in 1 .. N + 1, NEW k, k = i - 1
      PROVE  g[i] = IF i = 1 THEN tt[i] ELSE g[k] \o tt[i]
  BY <1>2, <1>3 DEF Flattening
<1>4. CASE N = 0
  <2>1. ss = <<>> /\ FlattenSeq(ss) = <<>>
    BY <1>4 DEF N, FlattenSeq
  <2>2. FlattenSeq(tt) = s
    <3>1. 1 \in 1 .. N + 1 /\ N + 1 = 1
      BY <1>4
    <3> QED BY <1>1, <1>2, <1>3, <3>1
  <2> QED BY <2>1, <2>2, ConcatEmptySeq DEF tt
<1>5. CASE N # 0
  <2>1. PICK f : Flattening(ss, N, f) /\ FlattenSeq(ss) = f[N]
    BY <1>1, <1>5, FlattenUnfolds DEF N
  <2>2. f[N] = g[N]
    <3> DEFINE S == {n \in Nat : n \in 1 .. N => f[n] = g[n]}
    <3>1. \A i \in 1 .. N : f[i] = IF i = 1 THEN ss[i] ELSE f[i - 1] \o ss[i]
      BY <2>1 DEF Flattening
    <3>2. \A i \in 1 .. N : g[i] = IF i = 1 THEN tt[i] ELSE g[i - 1] \o tt[i]
      BY <1>1, <1>3
    <3>3. 0 \in S
      OBVIOUS
    <3>4. ASSUME NEW n \in S PROVE n + 1 \in S
      <4> SUFFICES ASSUME n + 1 \in 1 .. N PROVE f[n + 1] = g[n + 1]
        OBVIOUS
      <4>1. ss[n + 1] = tt[n + 1] /\ (n + 1) - 1 = n
        BY <1>1
      <4>2. n + 1 # 1 => f[n] = g[n]
        BY <1>1
      <4> QED BY <3>1, <3>2, <4>1, <4>2
    <3>5. Nat \subseteq S
      <4> HIDE DEF S
      <4> QED BY <3>3, <3>4, Induction
    <3> QED BY <1>1, <1>5, <3>5
  <2>3. N + 1 # 1 /\ N = (N + 1) - 1 /\ N + 1 \in 1 .. N + 1
    BY <1>1, <1>5, NextPosition, Zenon
  <2>4. FlattenSeq(tt) = FlattenSeq(ss) \o s
    <3>1. ASSUME NEW i \in 1 .. N + 1, NEW k, k = i - 1, i # 1 PROVE g[i] = g[k] \o tt[i]
      BY <1>3, <3>1
    <3>2. g[N + 1] = g[N] \o tt[N + 1]
      BY <2>3, <3>1
    <3> QED BY <1>1, <1>2, <2>1, <2>2, <3>2, Zenon
  <2> QED BY <2>4 DEF tt
<1> QED BY <1>4, <1>5

\* An order of some things, and one thing more at its end.
LEMMA OneMoreInOrder ==
  ASSUME NEW S, IsFiniteSet(S), NEW f, f \notin S, NEW order \in SetToSeqs(S)
  PROVE  /\ order \in Seq(S)
         /\ Append(order, f) \in SetToSeqs(S \cup {f})
<1> DEFINE c == Cardinality(S)
<1>1. c \in Nat
  BY FS_CardinalityType
<1>2. Cardinality(S \cup {f}) = c + 1
  BY FS_AddElement
<1>3. order \in [1 .. c -> S] /\ \A i, j \in 1 .. c : i # j => order[i] # order[j]
  BY DEF SetToSeqs
<1> HIDE DEF c
<1>4. order \in Seq(S) /\ Len(order) = c
  BY <1>1, <1>3
<1>5. order \in Seq(S \cup {f})
  BY <1>4, SeqMonotonic
<1> DEFINE more == Append(order, f)
<1>6. more \in [1 .. c + 1 -> S \cup {f}] /\ more[c + 1] = f /\ \A i \in 1 .. c : more[i] = order[i]
  <2>1. ASSUME NEW T, NEW s \in Seq(T), NEW x \in T
        PROVE  /\ Append(s, x) \in [1 .. Len(s) + 1 -> T]
               /\ Append(s, x)[Len(s) + 1] = x /\ \A i \in 1 .. Len(s) : Append(s, x)[i] = s[i]
    <3>1. Append(s, x) \in Seq(T) /\ Len(Append(s, x)) = Len(s) + 1
      OBVIOUS
    <3>2. Append(s, x) \in [1 .. Len(s) + 1 -> T]
      BY <3>1, LenProperties
    <3> QED BY <3>2
  <2>2. f \in S \cup {f}
    OBVIOUS
  <2> QED BY <1>4, <1>5, <2>1, <2>2
<1> HIDE DEF more
<1>7. ASSUME NEW i \in 1 .. c + 1, NEW j \in 1 .. c + 1, i # j PROVE more[i] # more[j]
  <2>1. i \in 1 .. c \/ i = c + 1
    BY <1>1
  <2>2. j \in 1 .. c \/ j = c + 1
    BY <1>1
  <2> QED BY <1>3, <1>6, <1>7, <2>1, <2>2
<1>8. more \in SetToSeqs(S \cup {f})
  BY <1>2, <1>6, <1>7 DEF SetToSeqs
<1> QED BY <1>4, <1>8 DEF more
--------------------------------------------------------------------------------
(* The report of a clean run.                                                 *)

\* The records read so far are those of some files, in the order of some listing of them.
Gathered(S) == \E order \in SetToSeqs(S) : allRecords = FlattenSeq([i \in DOMAIN order |-> input[order[i]].records])

\* The .json files the reading loop has passed.
Passed(n) == {inputFiles[i] : i \in 1 .. n - 1} \cap JsonFiles

AllRead == pc \in {"analyze", "write", "reread", "copy", "report", "denyRead", "denyWrite"} \/ (pc = "done" /\ inputFiles # <<>>)

GatherInv == clean =>
  /\ pc = "list" => allRecords = <<>>
  /\ pc = "read" => Gathered(Passed(at))
  /\ AllRead => Gathered(Present)
  /\ AllRead /\ pc # "analyze" /\ (pc = "write" => phase = "answered") => output[1].aggregations = Aggregate(allRecords)

LEMMA NothingGathered ==
  ASSUME NEW S, S = {}, allRecords = <<>>
  PROVE  Gathered(S)
<1>1. <<>> \in SetToSeqs({})
  <2>1. Cardinality({}) = 0
    BY FS_EmptySet
  <2>2. <<>> \in [1 .. 0 -> {}]
    OBVIOUS
  <2> QED BY <2>1, <2>2 DEF SetToSeqs
<1>2. FlattenSeq([i \in DOMAIN <<>> |-> input[<<>>[i]].records]) = <<>>
  <2>1. [i \in DOMAIN <<>> |-> input[<<>>[i]].records] = <<>>
    OBVIOUS
  <2>2. FlattenSeq(<<>>) = <<>>
    BY DEF FlattenSeq
  <2> QED BY <2>1, <2>2
<1> QED BY <1>1, <1>2 DEF Gathered

\* The records of one file more.
LEMMA OneMoreGathered ==
  ASSUME TypeInv, NEW S \in SUBSET Files, Gathered(S), NEW f \in Files, f \notin S
  PROVE  \E order \in SetToSeqs(S \cup {f}) :
           allRecords \o input[f].records = FlattenSeq([i \in DOMAIN order |-> input[order[i]].records])
<1>1. PICK order \in SetToSeqs(S) : allRecords = FlattenSeq([i \in DOMAIN order |-> input[order[i]].records])
  BY DEF Gathered
<1>2. IsFiniteSet(S)
  BY AgentAssumption, FS_Subset DEF AgentAssumption
<1>3. order \in Seq(S) /\ Append(order, f) \in SetToSeqs(S \cup {f})
  BY <1>1, <1>2, OneMoreInOrder
<1> DEFINE longer == Append(order, f)
           ss == [i \in DOMAIN order |-> input[order[i]].records]
           tt == [i \in DOMAIN longer |-> input[longer[i]].records]
<1>4. \A g \in Files : input[g].records \in Seq(Records)
  BY ContentsFacts DEF TypeInv, ContentsInv
<1>5. /\ Len(order) \in Nat /\ DOMAIN order = 1 .. Len(order) /\ \A i \in 1 .. Len(order) : order[i] \in Files
      /\ DOMAIN longer = 1 .. Len(order) + 1 /\ longer[Len(order) + 1] = f
      /\ \A i \in 1 .. Len(order) : longer[i] = order[i]
  BY <1>3
<1>6. ss \in Seq(Seq(Records)) /\ Len(ss) = Len(order)
  BY <1>4, <1>5
<1> HIDE DEF longer
<1>7. tt = Append(ss, input[f].records)
  <2>1. /\ DOMAIN Append(ss, input[f].records) = 1 .. Len(order) + 1
        /\ \A i \in 1 .. Len(order) : Append(ss, input[f].records)[i] = ss[i]
        /\ Append(ss, input[f].records)[Len(order) + 1] = input[f].records
    BY <1>5, <1>6
  <2> QED BY <1>5, <1>6, <2>1
<1> HIDE DEF ss, tt
<1>8. FlattenSeq(tt) = FlattenSeq(ss) \o input[f].records
  BY <1>4, <1>6, <1>7, FlattenOneMore
<1>9. allRecords = FlattenSeq(ss)
  BY <1>1 DEF ss
<1> QED BY <1>3, <1>8, <1>9 DEF tt, longer
\* Between two stops of a loop there are no .json files, and behind the last there is nothing.
LEMMA PassedOver ==
  ASSUME NEW files \in Seq(Files), NEW from \in 1 .. Len(files) + 1, NEW n, n = Seek(files, from)
  PROVE  /\ {files[i] : i \in 1 .. n - 1} \cap JsonFiles = {files[i] : i \in 1 .. from - 1} \cap JsonFiles
         /\ n > Len(files) => {files[i] : i \in 1 .. n - 1} = ToSet(files)
<1>1. /\ n \in from .. Len(files) + 1 /\ Len(files) \in Nat
      /\ \A i \in from .. n - 1 : files[i] \notin JsonFiles
  BY SeekFacts
<1>2. \A i \in 1 .. n - 1 : i \in 1 .. from - 1 \/ i \in from .. n - 1
  BY <1>1
<1>3. 1 .. from - 1 \subseteq 1 .. n - 1
  BY <1>1
<1>4. n > Len(files) => 1 .. n - 1 = DOMAIN files
  BY <1>1
<1> QED BY <1>1, <1>2, <1>3, <1>4 DEF ToSet

LEMMA PresentIsThere == Present = There \cap JsonFiles /\ Present \subseteq Files
BY AgentAssumption DEF AgentAssumption, Present, There

LEMMA GatherStep ==
  ASSUME TypeInv, CleanInv, GatherInv, [Next]_vars
  PROVE  GatherInv'
<1> SUFFICES ASSUME clean' PROVE GatherInv'
  BY DEF GatherInv
<1>1. CASE UNCHANGED vars
  BY <1>1 DEF vars, world, locals, GatherInv, AllRead, Gathered, Passed, Present
<1>2. CASE (\E f \in JsonFiles : Change(f)) \/ NotPerformed \/ PerformedInError
  BY <1>2 DEF Change, NotPerformed, PerformedInError
<1>3. CASE NotAuthorized \/ Authorized
  <2>1. UNCHANGED <<pc, input, output, inputFiles, at, allRecords>> /\ clean
    BY <1>3 DEF NotAuthorized, Authorized, world, locals
  <2>2. phase' = "answered" => pc \in Asking
    BY <1>3 DEF NotAuthorized, Authorized, Answered
  <2> QED BY <2>1, <2>2 DEF GatherInv, AllRead, Gathered, Passed, Present, Asking
<1>4. CASE Start
  BY <1>4 DEF Start, Fresh, GatherInv, AllRead
<1>5. CASE PerformedUnheard \/ Unheard
  BY <1>5 DEF PerformedUnheard, Unheard, Fresh, GatherInv, AllRead
<1>6. CASE Performed
  <2>1. UNCHANGED <<pc, input, inputFiles, at, allRecords>> /\ clean /\ phase = "execute" /\ pc \in Calls
    BY <1>6 DEF Performed, Perform, locals
  <2>2. output' = IF pc = "write" THEN <<Report>> ELSE output
    BY <1>6 DEF Performed, Perform
  <2>3. <<Report>>[1].aggregations = Aggregate(allRecords)
    BY DEF Report
  <2> QED BY <2>1, <2>2, <2>3 DEF GatherInv, AllRead, Gathered, Passed, Present
<1>7. CASE Listed
  <2>1. /\ inputFiles' = reply.value /\ reply.value \in Seq(Files) /\ UNCHANGED <<input, allRecords>> /\ allRecords = <<>> /\ clean
        /\ ToSet(reply.value) = There
    BY <1>7 DEF Listed, Heard, world, GatherInv, CleanInv, TypeInv, ListInv
  <2>2. CASE pc' = "done" /\ inputFiles' = <<>>
    BY <2>2 DEF GatherInv, AllRead
  <2>3. CASE Loop(inputFiles', 1, "read", "analyze")
    <3> DEFINE n == Seek(inputFiles', 1)
    <3>1. at' = n /\ pc' = (IF n <= Len(inputFiles') THEN "read" ELSE "analyze")
      BY <2>3 DEF Loop, Ask
    <3>2. /\ {inputFiles'[i] : i \in 1 .. n - 1} \cap JsonFiles = {}
          /\ n > Len(inputFiles') => {inputFiles'[i] : i \in 1 .. n - 1} = ToSet(inputFiles')
      <4>1. 1 \in 1 .. Len(inputFiles') + 1 /\ inputFiles' \in Seq(Files)
        BY <2>1
      <4>2. 1 .. 1 - 1 = {}
        OBVIOUS
      <4> QED BY <4>1, <4>2, PassedOver
    <3>3. n \in 1 .. Len(inputFiles') + 1 /\ Len(inputFiles') \in Nat
      BY <2>1, SeekFacts
    <3> HIDE DEF n
    <3>4. CASE pc' = "read"
      <4>1. Passed(at)' = {}
        BY <3>1, <3>2 DEF Passed
      <4>2. Gathered({})'
        BY <2>1, NothingGathered DEF Gathered
      <4> QED BY <3>4, <4>1, <4>2 DEF GatherInv, AllRead, Gathered
    <3>5. CASE pc' = "analyze"
      <4>1. n > Len(inputFiles')
        BY <3>1, <3>3, <3>5
      <4>2. Present = {} /\ Present' = Present
        BY <2>1, <3>2, <4>1, PresentIsThere DEF Present
      <4>3. Gathered({})'
        BY <2>1, NothingGathered DEF Gathered
      <4> QED BY <3>5, <4>2, <4>3 DEF GatherInv, AllRead, Gathered
    <3> QED BY <3>1, <3>4, <3>5
  <2> QED BY <1>7, <2>2, <2>3 DEF Listed
<1>8. CASE Read
  <2>1. /\ UNCHANGED <<input, inputFiles>> /\ clean /\ reply.ok /\ reply.value = input[File]
        /\ Gathered(Passed(at)) /\ ToSet(inputFiles) = There /\ pc = "read"
        /\ Loop(inputFiles, at + 1, "read", "analyze")
    BY <1>8 DEF Read, Heard, world, GatherInv, CleanInv, Calls, Asking
  <2>2. allRecords' = allRecords \o input[File].records
    BY <1>8, <2>1 DEF Read
  <2>3. /\ at \in 1 .. Len(inputFiles) /\ File = inputFiles[at] /\ File \in JsonFiles /\ inputFiles \in Seq(Files)
        /\ \A i \in 1 .. at - 1 : inputFiles[i] # File
    BY <2>1 DEF TypeInv, ListInv, File
  <2>4. File \in Files /\ File \notin Passed(at) /\ Passed(at) \in SUBSET Files
    BY <2>3, AgentAssumption DEF AgentAssumption, Passed
  <2>5. \E order \in SetToSeqs(Passed(at) \cup {File}) :
          allRecords' = FlattenSeq([i \in DOMAIN order |-> input[order[i]].records])
    <3>1. ASSUME NEW S, S = Passed(at), NEW f, f = File
          PROVE  \E order \in SetToSeqs(S \cup {f}) :
                   allRecords \o input[f].records = FlattenSeq([i \in DOMAIN order |-> input[order[i]].records])
      <4>1. S \in SUBSET Files /\ Gathered(S) /\ f \in Files /\ f \notin S
        BY <2>1, <2>4, <3>1
      <4> QED BY <4>1, OneMoreGathered
    <3> QED BY <2>2, <3>1
  <2> DEFINE n == Seek(inputFiles, at + 1)
  <2>6. at' = n /\ pc' = (IF n <= Len(inputFiles) THEN "read" ELSE "analyze")
    BY <2>1 DEF Loop, Ask
  <2>7. at + 1 \in 1 .. Len(inputFiles) + 1 /\ Len(inputFiles) \in Nat /\ (at + 1) - 1 = at
    BY <2>3
  <2>8. /\ {inputFiles[i] : i \in 1 .. n - 1} \cap JsonFiles = {inputFiles[i] : i \in 1 .. at} \cap JsonFiles
        /\ n > Len(inputFiles) => {inputFiles[i] : i \in 1 .. n - 1} = ToSet(inputFiles)
    BY <2>3, <2>7, PassedOver
  <2>9. n \in Nat
    BY <2>3, <2>7, SeekFacts
  <2> HIDE DEF n
  <2>10. Passed(n) = Passed(at) \cup {File}
    <3>1. \A i \in 1 .. at : i \in 1 .. at - 1 \/ i = at
      BY <2>3
    <3>2. 1 .. at - 1 \subseteq 1 .. at /\ at \in 1 .. at
      BY <2>3
    <3> QED BY <2>3, <2>8, <3>1, <3>2 DEF Passed
  <2>11. \E order \in SetToSeqs(Passed(n)) : allRecords' = FlattenSeq([i \in DOMAIN order |-> input[order[i]].records])
    BY <2>5, <2>10
  <2>12. CASE pc' = "read"
    <3>1. Passed(at)' = Passed(n)
      BY <2>1, <2>6 DEF Passed
    <3> QED BY <2>1, <2>11, <2>12, <3>1 DEF GatherInv, AllRead, Gathered
  <2>13. CASE pc' = "analyze"
    <3>1. n > Len(inputFiles)
      BY <2>6, <2>7, <2>9, <2>13
    <3>2. Present' = Passed(n)
      BY <2>1, <2>8, <3>1, PresentIsThere DEF Passed, Present
    <3> QED BY <2>1, <2>11, <2>13, <3>2 DEF GatherInv, AllRead, Gathered
  <2> QED BY <2>6, <2>12, <2>13
<1>9. CASE AggregateData
  <2>1. /\ UNCHANGED <<input, output, inputFiles, allRecords>> /\ clean /\ pc = "analyze" /\ pc' = "write" /\ phase' = "authorize"
    BY <1>9 DEF AggregateData, world, locals, TypeInv, GrantInv
  <2> QED BY <2>1 DEF GatherInv, AllRead, Gathered, Present
<1>10. CASE Written \/ Reread \/ Copied \/ Rest
  <2>1. /\ UNCHANGED <<input, output, inputFiles, allRecords>> /\ clean /\ phase = "answered"
        /\ pc \in {"write", "reread", "copy", "report", "denyRead", "denyWrite"}
        /\ pc' \in {"reread", "copy", "report", "denyRead", "denyWrite", "done"}
    BY <1>10 DEF Written, Reread, Copied, Rest, Loop, Ask, Heard, world, locals
  <2> QED BY <2>1 DEF GatherInv, AllRead, Gathered, Present
<1> QED BY <1>1, <1>2, <1>3, <1>4, <1>5, <1>6, <1>7, <1>8, <1>9, <1>10 DEF Next, Sidecar, Agent

--------------------------------------------------------------------------------
(* Sums over finite sets.                                                     *)

One(s) == CHOOSE x \in s : TRUE

\* it sums f over each subset of S, element by element.
Sums(f, S, it) == it = [s \in SUBSET S |-> IF s = {} THEN 0 ELSE f[One(s)] + it[s \ {One(s)}]]

SumOver(f, S) == (CHOOSE it : Sums(f, S, it))[S]

\* Induction over the subsets of a finite set.
LEMMA SetInduction ==
  ASSUME NEW S, IsFiniteSet(S), NEW Q, {} \in Q, \A T \in SUBSET S : \A x \in S \ T : T \in Q => T \cup {x} \in Q
  PROVE  S \in Q
<1> DEFINE N == {n \in Nat : \A T \in SUBSET S : Cardinality(T) = n => T \in Q}
<1>1. 0 \in N
  BY FS_EmptySet, FS_Subset
<1>2. ASSUME NEW n \in N PROVE n + 1 \in N
  <2> SUFFICES ASSUME NEW T \in SUBSET S, Cardinality(T) = n + 1 PROVE T \in Q
    OBVIOUS
  <2>1. IsFiniteSet(T) /\ T # {}
    BY FS_Subset, FS_EmptySet
  <2>2. PICK x \in T : TRUE
    BY <2>1
  <2>3. Cardinality(T \ {x}) = n
    <3>1. Cardinality(T \ {x}) = Cardinality(T) - 1 /\ n \in Nat
      BY <2>1, FS_RemoveElement
    <3> QED BY <3>1
  <2>4. T \ {x} \in Q
    BY <2>3
  <2>5. T = (T \ {x}) \cup {x}
    OBVIOUS
  <2> QED BY <2>4, <2>5
<1>3. Nat \subseteq N
  <2> HIDE DEF N
  <2> QED BY <1>1, <1>2, Induction
<1> QED BY <1>3, FS_CardinalityType

LEMMA SumsExist ==
  ASSUME NEW f, NEW S, IsFiniteSet(S)
  PROVE  \E it : Sums(f, S, it)
<1> DEFINE Body(it, s) == IF s = {} THEN 0 ELSE f[One(s)] + it[s \ {One(s)}]
           Upto(n, it) == \A s \in SUBSET S : Cardinality(s) <= n => it[s] = Body(it, s)
           N == {n \in Nat : \E it : Upto(n, it)}
<1>1. 0 \in N
  <2> DEFINE it == [s \in SUBSET S |-> 0]
  <2>1. ASSUME NEW s \in SUBSET S, Cardinality(s) <= 0 PROVE it[s] = Body(it, s)
    <3>1. s = {}
      BY <2>1, FS_Subset, FS_EmptySet, FS_CardinalityType
    <3> QED BY <3>1
  <2> QED BY <2>1
<1>2. ASSUME NEW n \in N PROVE n + 1 \in N
  <2>1. PICK it : Upto(n, it)
    OBVIOUS
  <2> DEFINE jt == [s \in SUBSET S |-> Body(it, s)]
  <2>2. ASSUME NEW s \in SUBSET S, Cardinality(s) <= n + 1 PROVE jt[s] = Body(jt, s)
    <3>1. CASE s = {}
      BY <3>1
    <3>2. CASE s # {}
      <4> DEFINE t == s \ {One(s)}
      <4>1. One(s) \in s /\ t \in SUBSET S /\ IsFiniteSet(s)
        BY <3>2, FS_Subset DEF One
      <4>2. Cardinality(t) <= n
        <5>1. Cardinality(t) = Cardinality(s) - 1 /\ Cardinality(s) \in Nat
          BY <4>1, FS_RemoveElement, FS_CardinalityType
        <5> QED BY <2>2, <5>1
      <4>3. it[t] = Body(it, t)
        BY <2>1, <4>1, <4>2
      <4>4. jt[t] = it[t]
        BY <4>1, <4>3
      <4> HIDE DEF t
      <4>5. Body(jt, s) = f[One(s)] + jt[t] /\ jt[s] = f[One(s)] + it[t]
        BY <3>2 DEF t
      <4> QED BY <4>4, <4>5
    <3> QED BY <3>1, <3>2
  <2> HIDE DEF jt
  <2>3. Upto(n + 1, jt)
    BY <2>2
  <2>4. n + 1 \in Nat
    OBVIOUS
  <2> HIDE DEF Upto
  <2> QED BY <2>3, <2>4
<1>3. Nat \subseteq N
  <2> HIDE DEF N
  <2> QED BY <1>1, <1>2, Induction
<1>4. PICK it : Upto(Cardinality(S), it)
  BY <1>3, FS_CardinalityType
<1>5. \A s \in SUBSET S : it[s] = Body(it, s)
  BY <1>4, FS_Subset
<1> DEFINE jt == [s \in SUBSET S |-> it[s]]
<1>6. \A s \in SUBSET S : jt[s] = Body(jt, s)
  <2> SUFFICES ASSUME NEW s \in SUBSET S PROVE jt[s] = Body(jt, s)
    OBVIOUS
  <2>1. jt[s] = it[s] /\ jt[s \ {One(s)}] = it[s \ {One(s)}]
    OBVIOUS
  <2> HIDE DEF jt
  <2> QED BY <1>5, <2>1
<1>7. jt = [s \in SUBSET S |-> Body(jt, s)]
  <2>1. jt = [s \in SUBSET S |-> jt[s]]
    OBVIOUS
  <2> HIDE DEF jt
  <2> QED BY <1>6, <2>1
<1> QED BY <1>7, Zenon DEF Sums

\* The order in which the elements are taken makes no difference.
LEMMA SumsTake ==
  ASSUME NEW f, NEW S, IsFiniteSet(S), \A x \in S : f[x] \in Int, NEW it, Sums(f, S, it)
  PROVE  \A T \in SUBSET S : it[T] \in Int /\ \A x \in T : it[T] = f[x] + it[T \ {x}]
<1> DEFINE Taken(T) == it[T] \in Int /\ \A x \in T : it[T] = f[x] + it[T \ {x}]
           N == {n \in Nat : \A T \in SUBSET S : Cardinality(T) <= n => Taken(T)}
<1>0. it[{}] = 0
  BY DEF Sums
<1>1. ASSUME NEW T \in SUBSET S, T # {}
      PROVE  /\ One(T) \in T /\ it[T] = f[One(T)] + it[T \ {One(T)}]
  BY <1>1, Zenon DEF Sums, One
<1>2. 0 \in N
  <2>1. ASSUME NEW T \in SUBSET S, Cardinality(T) <= 0 PROVE Taken(T)
    <3>1. T = {}
      BY <2>1, FS_Subset, FS_EmptySet, FS_CardinalityType
    <3> QED BY <1>0, <3>1
  <2> QED BY <2>1
<1>3. ASSUME NEW n \in N PROVE n + 1 \in N
  <2>1. ASSUME NEW T \in SUBSET S, Cardinality(T) <= n + 1, T # {} PROVE Taken(T)
    <3> DEFINE c == One(T)
    <3>1. n \in Nat /\ \A U \in SUBSET S : Cardinality(U) <= n => Taken(U)
      OBVIOUS
    <3>2. IsFiniteSet(T) /\ Cardinality(T) \in Nat
      BY FS_Subset, FS_CardinalityType
    <3>3. c \in T /\ it[T] = f[c] + it[T \ {c}]
      BY <1>1, <2>1
    <3>4. ASSUME NEW x \in T, NEW U \in SUBSET (T \ {x}) PROVE Taken(U)
      <4>1. Cardinality(T \ {x}) = Cardinality(T) - 1 /\ Cardinality(U) <= Cardinality(T \ {x}) /\ Cardinality(U) \in Nat
        BY <3>2, FS_RemoveElement, FS_Subset, FS_CardinalityType
      <4>2. U \in SUBSET S
        OBVIOUS
      <4> HIDE DEF Taken
      <4> QED BY <2>1, <3>1, <3>2, <4>1, <4>2
    <3> HIDE DEF c
    <3>5. it[T] \in Int
      BY <3>3, <3>4
    <3>6. ASSUME NEW x \in T, x # c PROVE it[T] = f[x] + it[T \ {x}]
      <4> DEFINE U == (T \ {c}) \ {x}
      <4>1. it[T \ {c}] = f[x] + it[U]
        BY <3>3, <3>4, <3>6
      <4>2. (T \ {x}) \ {c} = U
        OBVIOUS
      <4>3. it[T \ {x}] = f[c] + it[U]
        <5>1. c \in T \ {x}
          BY <3>3, <3>6
        <5> QED BY <3>4, <4>2, <5>1
      <4>4. it[U] \in Int
        BY <3>3, <3>4
      <4>5. f[x] \in Int /\ f[c] \in Int
        BY <3>3
      <4> HIDE DEF U
      <4> QED BY <3>3, <4>1, <4>3, <4>4, <4>5
    <3> QED BY <3>3, <3>5, <3>6
  <2>2. n + 1 \in Nat /\ Taken({})
    BY <1>0
  <2> HIDE DEF Taken
  <2> QED BY <2>1, <2>2
<1>4. Nat \subseteq N
  <2> HIDE DEF N
  <2> QED BY <1>2, <1>3, Induction
<1> QED BY <1>4, FS_Subset, FS_CardinalityType

LEMMA SumsAgree ==
  ASSUME NEW f, NEW S, IsFiniteSet(S), \A x \in S : f[x] \in Int, NEW it, Sums(f, S, it),
         NEW g, NEW T, IsFiniteSet(T), \A x \in T : g[x] \in Int, NEW jt, Sums(g, T, jt),
         NEW U \in SUBSET (S \cap T), \A x \in U : f[x] = g[x]
  PROVE  it[U] = jt[U]
<1> DEFINE Q == {V \in SUBSET U : it[V] = jt[V]}
<1>1. {} \in Q
  BY DEF Sums
<1>2. ASSUME NEW V \in SUBSET U, NEW x \in U \ V, V \in Q PROVE V \cup {x} \in Q
  <2>1. it[V] = jt[V] /\ V \cup {x} \in SUBSET S /\ V \cup {x} \in SUBSET T /\ (V \cup {x}) \ {x} = V
    BY <1>2
  <2>2. it[V \cup {x}] = f[x] + it[V]
    BY <2>1, SumsTake
  <2>3. jt[V \cup {x}] = g[x] + jt[V]
    BY <2>1, SumsTake
  <2> QED BY <2>1, <2>2, <2>3
<1>3. IsFiniteSet(U)
  BY FS_Subset
<1>4. U \in Q
  <2> HIDE DEF Q
  <2> QED BY <1>1, <1>2, <1>3, SetInduction
<1> QED BY <1>4

\* What a sum is: nothing over the empty set, and over another set any of its elements and the rest.
LEMMA SumFacts ==
  ASSUME NEW f, NEW S, IsFiniteSet(S), \A x \in S : f[x] \in Int
  PROVE  /\ SumOver(f, {}) = 0
         /\ SumOver(f, S) \in Int
         /\ \A x \in S : SumOver(f, S) = f[x] + SumOver(f, S \ {x})
<1>1. ASSUME NEW T, IsFiniteSet(T), \A x \in T : f[x] \in Int
      PROVE  \E it : Sums(f, T, it) /\ SumOver(f, T) = it[T]
  BY <1>1, SumsExist DEF SumOver
<1>2. SumOver(f, {}) = 0
  BY <1>1, FS_EmptySet DEF Sums
<1>3. PICK it : Sums(f, S, it) /\ SumOver(f, S) = it[S]
  BY <1>1
<1>4. ASSUME NEW x \in S PROVE SumOver(f, S \ {x}) = it[S \ {x}]
  <2>1. IsFiniteSet(S \ {x}) /\ S \ {x} \in SUBSET (S \cap (S \ {x}))
    BY FS_RemoveElement
  <2>2. PICK jt : Sums(f, S \ {x}, jt) /\ SumOver(f, S \ {x}) = jt[S \ {x}]
    BY <1>1, <2>1
  <2> QED BY <1>3, <2>1, <2>2, SumsAgree
<1>5. \A T \in SUBSET S : it[T] \in Int /\ \A x \in T : it[T] = f[x] + it[T \ {x}]
  BY <1>3, SumsTake
<1> QED BY <1>2, <1>3, <1>4, <1>5

LEMMA SumOneMore ==
  ASSUME NEW f, NEW S, IsFiniteSet(S), NEW x, x \notin S, \A y \in S \cup {x} : f[y] \in Int
  PROVE  SumOver(f, S \cup {x}) = f[x] + SumOver(f, S)
<1>1. IsFiniteSet(S \cup {x}) /\ (S \cup {x}) \ {x} = S
  BY FS_AddElement
<1> QED BY <1>1, SumFacts

\* Sums over disjoint sets.
LEMMA SumUnion ==
  ASSUME NEW f, NEW S, NEW T, IsFiniteSet(S), IsFiniteSet(T), S \cap T = {}, \A x \in S \cup T : f[x] \in Int
  PROVE  SumOver(f, S \cup T) = SumOver(f, S) + SumOver(f, T)
<1> DEFINE Q == {U \in SUBSET T : SumOver(f, S \cup U) = SumOver(f, S) + SumOver(f, U)}
<1>0. \A U \in SUBSET T : IsFiniteSet(U) /\ IsFiniteSet(S \cup U)
  BY FS_Subset, FS_Union
<1>1. {} \in Q
  <2>1. SumOver(f, {}) = 0 /\ SumOver(f, S) \in Int /\ S \cup {} = S
    BY SumFacts
  <2> QED BY <2>1
<1>2. ASSUME NEW U \in SUBSET T, NEW x \in T \ U, U \in Q PROVE U \cup {x} \in Q
  <2>1. SumOver(f, S \cup U) = SumOver(f, S) + SumOver(f, U)
    BY <1>2
  <2>2. SumOver(f, U \cup {x}) = f[x] + SumOver(f, U)
    BY <1>0, SumOneMore
  <2>3. SumOver(f, (S \cup U) \cup {x}) = f[x] + SumOver(f, S \cup U)
    BY <1>0, SumOneMore
  <2>4. SumOver(f, S) \in Int /\ SumOver(f, U) \in Int /\ f[x] \in Int
    BY <1>0, SumFacts
  <2>5. S \cup (U \cup {x}) = (S \cup U) \cup {x}
    OBVIOUS
  <2>6. SumOver(f, S \cup (U \cup {x})) = SumOver(f, S) + SumOver(f, U \cup {x})
    <3>1. f[x] + (SumOver(f, S) + SumOver(f, U)) = SumOver(f, S) + (f[x] + SumOver(f, U))
      BY <2>4
    <3> QED BY <2>1, <2>2, <2>3, <2>5, <3>1, Zenon
  <2> QED BY <2>6
<1>3. T \in Q
  <2> HIDE DEF Q
  <2> QED BY <1>1, <1>2, SetInduction
<1> QED BY <1>3

\* Adding up the parts of a partition, each labelled by what r makes of its elements.
LEMMA SumOfParts ==
  ASSUME NEW f, NEW D, IsFiniteSet(D), \A x \in D : f[x] \in Int,
         NEW H, IsFiniteSet(H), NEW r \in [D -> H],
         NEW part \in [H -> SUBSET D], \A g \in H : \A x \in D : x \in part[g] <=> r[x] = g,
         NEW h, \A g \in H : h[g] = SumOver(f, part[g])
  PROVE  SumOver(h, H) = SumOver(f, D)
<1> DEFINE Parts(G) == {x \in D : r[x] \in G}
           Q == {G \in SUBSET H : SumOver(h, G) = SumOver(f, Parts(G))}
<1>1. ASSUME NEW g \in H
      PROVE  /\ IsFiniteSet(part[g])
             /\ \A x \in part[g] : f[x] \in Int
             /\ SumOver(f, part[g]) \in Int
  <2>1. part[g] \in SUBSET D
    OBVIOUS
  <2> QED BY <2>1, FS_Subset, SumFacts
<1>2. \A g \in H : h[g] \in Int
  BY <1>1
<1>3. {} \in Q
  <2>1. SumOver(h, {}) = 0 /\ SumOver(f, {}) = 0
    BY <1>2, SumFacts
  <2>2. Parts({}) = {}
    OBVIOUS
  <2> QED BY <2>1, <2>2
<1>4. ASSUME NEW G \in SUBSET H, NEW g \in H \ G, G \in Q PROVE G \cup {g} \in Q
  <2>1. SumOver(h, G) = SumOver(f, Parts(G))
    BY <1>4
  <2>2. SumOver(h, G \cup {g}) = h[g] + SumOver(h, G)
    <3>1. IsFiniteSet(G)
      BY FS_Subset
    <3> QED BY <1>2, <3>1, SumOneMore
  <2>3. Parts(G \cup {g}) = part[g] \cup Parts(G) /\ part[g] \cap Parts(G) = {}
    OBVIOUS
  <2>4. IsFiniteSet(Parts(G)) /\ \A x \in Parts(G) : f[x] \in Int
    BY FS_Subset
  <2>5. SumOver(f, Parts(G \cup {g})) = SumOver(f, part[g]) + SumOver(f, Parts(G))
    <3> DEFINE P == part[g]
               U == Parts(G)
    <3>1. IsFiniteSet(P) /\ IsFiniteSet(U) /\ P \cap U = {} /\ \A x \in P \cup U : f[x] \in Int
      BY <1>1, <2>3, <2>4
    <3> HIDE DEF Parts, P, U
    <3>2. SumOver(f, P \cup U) = SumOver(f, P) + SumOver(f, U)
      BY <3>1, SumUnion
    <3> QED BY <2>3, <3>2, Zenon DEF P, U
  <2>6. SumOver(h, G \cup {g}) = SumOver(f, Parts(G \cup {g}))
    <3> HIDE DEF Parts
    <3> QED BY <2>1, <2>2, <2>5
  <2> QED BY <2>6
<1>5. H \in Q
  <2> HIDE DEF Q
  <2> QED BY <1>3, <1>4, SetInduction
<1>6. Parts(H) = D
  OBVIOUS
<1> HIDE DEF Parts
<1> QED BY <1>5, <1>6

\* The sum over an enumeration of a set.
LEMMA SumOfImage ==
  ASSUME NEW I, IsFiniteSet(I), NEW T, NEW p \in Bijection(I, T), NEW h, \A t \in T : h[t] \in Int,
         NEW k, \A i \in I : k[i] = h[p[i]]
  PROVE  SumOver(k, I) = SumOver(h, T)
<1> DEFINE Image(J) == {p[i] : i \in J}
           Q == {J \in SUBSET I : IsFiniteSet(Image(J)) /\ SumOver(k, J) = SumOver(h, Image(J))}
<1>0. Image(I) = T /\ (\A i \in I : p[i] \in T) /\ (\A i, j \in I : i # j => p[i] # p[j])
  BY DEF Bijection, Injection, Surjection, IsInjective
<1>1. {} \in Q
  <2>1. Image({}) = {} /\ IsFiniteSet({})
    BY FS_EmptySet
  <2>2. SumOver(k, {}) = 0 /\ SumOver(h, {}) = 0
    BY <2>1, SumFacts
  <2> HIDE DEF Image
  <2> QED BY <2>1, <2>2
<1>2. ASSUME NEW J \in SUBSET I, NEW i \in I \ J, J \in Q PROVE J \cup {i} \in Q
  <2>1. IsFiniteSet(Image(J)) /\ SumOver(k, J) = SumOver(h, Image(J)) /\ IsFiniteSet(J)
    BY <1>2, FS_Subset
  <2>2. Image(J \cup {i}) = Image(J) \cup {p[i]} /\ p[i] \notin Image(J)
    BY <1>0
  <2>3. SumOver(k, J \cup {i}) = k[i] + SumOver(k, J)
    BY <1>0, <2>1, SumOneMore
  <2>4. \A y \in Image(J) \cup {p[i]} : h[y] \in Int
    BY <1>0
  <2> HIDE DEF Image
  <2>5. SumOver(h, Image(J) \cup {p[i]}) = h[p[i]] + SumOver(h, Image(J))
    BY <2>1, <2>2, <2>4, SumOneMore
  <2>6. IsFiniteSet(Image(J) \cup {p[i]})
    BY <2>1, FS_AddElement
  <2> QED BY <2>1, <2>2, <2>3, <2>5, <2>6
<1>3. I \in Q
  <2> HIDE DEF Q
  <2> QED BY <1>1, <1>2, SetInduction
<1> QED BY <1>0, <1>3

LEMMA SumOfOnes ==
  ASSUME NEW f, NEW S, IsFiniteSet(S), \A x \in S : f[x] = 1
  PROVE  SumOver(f, S) = Cardinality(S)
<1> DEFINE Q == {U \in SUBSET S : SumOver(f, U) = Cardinality(U)}
<1>1. {} \in Q
  BY SumFacts, FS_EmptySet
<1>2. ASSUME NEW U \in SUBSET S, NEW x \in S \ U, U \in Q PROVE U \cup {x} \in Q
  <2>1. IsFiniteSet(U) /\ Cardinality(U \cup {x}) = Cardinality(U) + 1 /\ Cardinality(U) \in Nat
    BY FS_Subset, FS_AddElement, FS_CardinalityType
  <2>2. SumOver(f, U \cup {x}) = 1 + Cardinality(U)
    BY <1>2, <2>1, SumOneMore
  <2> QED BY <2>1, <2>2
<1>3. S \in Q
  <2> HIDE DEF Q
  <2> QED BY <1>1, <1>2, SetInduction
<1> QED BY <1>3

LEMMA TotalIsSum ==
  ASSUME NEW s, NEW field, NEW P, IsFiniteSet(P), NEW f, \A i \in P : f[i] = s[i][field] /\ f[i] \in Int
  PROVE  Total(s, field, P) = SumOver(f, P)
<1> DEFINE Adds(it) == it = [u \in SUBSET P |-> IF u = {} THEN 0 ELSE s[One(u)][field] + it[u \ {One(u)}]]
           it == CHOOSE jt : Adds(jt)
<1>1. Total(s, field, P) = it[P]
  BY DEF Total, MapThenSumSet, MapThenFoldSet, One
<1>2. ASSUME NEW jt PROVE Sums(f, P, jt) <=> Adds(jt)
  <2>1. ASSUME NEW u \in SUBSET P, u # {} PROVE f[One(u)] = s[One(u)][field]
    BY <2>1 DEF One
  <2> QED BY <2>1 DEF Sums
<1> HIDE DEF Adds
<1>3. \E jt : Sums(f, P, jt)
  BY SumsExist
<1>4. Sums(f, P, it)
  BY <1>2, <1>3
<1>5. PICK jt : Sums(f, P, jt) /\ SumOver(f, P) = jt[P]
  BY <1>3 DEF SumOver
<1> HIDE DEF it
<1>6. it[P] = jt[P]
  BY <1>4, <1>5, SumsAgree
<1> QED BY <1>1, <1>5, <1>6

LEMMA TotalType ==
  ASSUME NEW s, NEW field, NEW P, IsFiniteSet(P), \A i \in P : s[i][field] \in Int
  PROVE  Total(s, field, P) \in Int
<1> DEFINE f == [i \in P |-> s[i][field]]
<1>1. \A i \in P : f[i] = s[i][field] /\ f[i] \in Int
  OBVIOUS
<1> HIDE DEF f
<1>2. Total(s, field, P) = SumOver(f, P)
  BY <1>1, TotalIsSum
<1> QED BY <1>1, <1>2, SumFacts

--------------------------------------------------------------------------------
(* Sorting.                                                                   *)

\* A finite set with a strict total order can be listed in that order: the rank of an element is how many come before.
LEMMA SortingExists ==
  ASSUME NEW S, IsFiniteSet(S), NEW R,
         \A x \in S : <<x, x>> \notin R,
         \A x, y \in S : x # y => <<x, y>> \in R \/ <<y, x>> \in R,
         \A x, y, z \in S : <<x, y>> \in R /\ <<y, z>> \in R => <<x, z>> \in R
  PROVE  \E s \in SetToSeqs(S) : \A i, j \in DOMAIN s : i < j => <<s[i], s[j]>> \in R
<1> DEFINE n == Cardinality(S)
           Preds(x) == {y \in S : <<y, x>> \in R}
           rank == [x \in S |-> Cardinality(Preds(x)) + 1]
<1>1. ASSUME NEW x \in S
      PROVE  IsFiniteSet(Preds(x)) /\ Cardinality(Preds(x)) \in Nat /\ Cardinality(Preds(x)) + 1 <= n
  <2>1. IsFiniteSet(S \ {x}) /\ Cardinality(S \ {x}) = n - 1 /\ n \in Nat
    BY FS_RemoveElement, FS_CardinalityType
  <2>2. Preds(x) \in SUBSET (S \ {x})
    OBVIOUS
  <2> HIDE DEF Preds, n
  <2>3. IsFiniteSet(Preds(x)) /\ Cardinality(Preds(x)) <= n - 1 /\ Cardinality(Preds(x)) \in Nat
    BY <2>1, <2>2, FS_Subset, FS_CardinalityType
  <2> QED BY <2>1, <2>3
<1>2. ASSUME NEW x \in S, NEW y \in S, <<x, y>> \in R
      PROVE  rank[x] < rank[y]
  <2>1. Preds(x) \in SUBSET (Preds(y) \ {x}) /\ x \in Preds(y)
    BY <1>2
  <2>2. IsFiniteSet(Preds(y) \ {x}) /\ Cardinality(Preds(y) \ {x}) = Cardinality(Preds(y)) - 1
    BY <1>1, <2>1, FS_RemoveElement
  <2> HIDE DEF Preds
  <2>3. Cardinality(Preds(x)) <= Cardinality(Preds(y)) - 1
    BY <2>1, <2>2, FS_Subset
  <2> QED BY <1>1, <2>3
<1>3. n \in Nat /\ IsFiniteSet(1 .. n) /\ Cardinality(1 .. n) = n
  BY FS_CardinalityType, FS_Interval
<1>4. rank \in [S -> 1 .. n]
  <2> HIDE DEF Preds, n
  <2> QED BY <1>1, <1>3
<1> HIDE DEF rank
<1>5. \A x, y \in S : x # y => rank[x] # rank[y]
  <2> HIDE DEF n
  <2>1. \A x \in S : ~ (rank[x] < rank[x])
    BY <1>3, <1>4
  <2> QED BY <1>2, <2>1
<1>6. rank \in Injection(S, 1 .. n)
  BY <1>4, <1>5 DEF Injection, IsInjective
<1>7. rank \in Surjection(S, 1 .. n)
  BY <1>3, <1>6, FS_Injection
<1>8. \A i \in 1 .. n : \E x \in S : rank[x] = i
  BY <1>7 DEF Surjection
<1> DEFINE s == [i \in 1 .. n |-> CHOOSE x \in S : rank[x] = i]
<1>9. ASSUME NEW i \in 1 .. n PROVE s[i] \in S /\ rank[s[i]] = i
  BY <1>8
<1> DEFINE D == DOMAIN s
<1>10. s \in [1 .. n -> S] /\ D = 1 .. n
  BY <1>9
<1> HIDE DEF s
<1>11. s \in SetToSeqs(S)
  <2>1. \A i, j \in 1 .. n : i # j => s[i] # s[j]
    BY <1>9
  <2> QED BY <1>10, <2>1 DEF SetToSeqs
<1>12. ASSUME NEW i \in D, NEW j \in D, i < j PROVE <<s[i], s[j]>> \in R
  <2>1. s[i] \in S /\ s[j] \in S /\ rank[s[i]] < rank[s[j]]
    BY <1>9, <1>10, <1>12
  <2>2. s[i] # s[j]
    BY <1>9, <1>10, <1>12
  <2>3. ~ (rank[s[j]] < rank[s[i]])
    BY <1>4, <1>10, <2>1
  <2> QED BY <1>2, <2>1, <2>2, <2>3
<1> QED BY <1>11, <1>12

--------------------------------------------------------------------------------
(* The aggregation.                                                           *)

LEMMA OfFacts ==
  ASSUME NEW R, NEW records \in Seq(R), \A r \in R : r.amount \in Int, NEW g
  PROVE  /\ Of(records, g) \subseteq 1 .. Len(records)
         /\ IsFiniteSet(Of(records, g))
         /\ \A P \in SUBSET (1 .. Len(records)) : Total(records, "amount", P) \in Int
<1>1. DOMAIN records = 1 .. Len(records) /\ Len(records) \in Nat
  OBVIOUS
<1>2. IsFiniteSet(1 .. Len(records))
  BY <1>1, FS_Interval
<1>3. Of(records, g) \subseteq 1 .. Len(records)
  BY <1>1 DEF Of
<1>4. ASSUME NEW P \in SUBSET (1 .. Len(records)) PROVE Total(records, "amount", P) \in Int
  <2>1. IsFiniteSet(P)
    BY <1>2, FS_Subset
  <2>2. \A i \in P : records[i]["amount"] \in Int
    <3>1. \A i \in P : records[i] \in R
      OBVIOUS
    <3> QED BY <3>1
  <2> QED BY <2>1, <2>2, TotalType
<1> QED BY <1>2, <1>3, <1>4, FS_Subset

\* A region that occurs occurs first somewhere.
LEMMA FirstFacts ==
  ASSUME NEW R, NEW records \in Seq(R), NEW r \in ToSet(records)
  PROVE  LET g == Region(r) IN Min(Of(records, g)) \in Of(records, g) /\ Min(Of(records, g)) \in Nat
<1> DEFINE T == Of(records, Region(r))
<1>1. T \in SUBSET Nat /\ T # {}
  BY DEF Of, ToSet
<1>2. PICK x \in T : \A y \in T : x <= y
  <2> HIDE DEF T
  <2> QED BY <1>1, Smallest
<1>3. Min(T) \in T
  BY <1>2 DEF Min
<1> QED BY <1>1, <1>3

LEMMA SummariesFinite ==
  ASSUME NEW R, NEW records \in Seq(R)
  PROVE  IsFiniteSet(Summaries(records))
<1> DEFINE S == Summaries(records)
           I == 1 .. Len(records)
           f == [i \in I |-> Summary(records, Region(records[i]))]
<1>1. IsFiniteSet(I)
  BY FS_Interval
<1>2. f \in Surjection(I, S)
  <2>1. \A i \in I : records[i] \in ToSet(records)
    BY DEF ToSet
  <2>2. f \in [I -> S]
    BY <2>1 DEF Summaries
  <2>3. ASSUME NEW x \in S PROVE \E i \in I : f[i] = x
    BY DEF Summaries, ToSet
  <2> HIDE DEF f, I, S
  <2> QED BY <2>2, <2>3 DEF Surjection
<1>3. IsFiniteSet(S)
  <2> HIDE DEF f, I, S
  <2> QED BY <1>1, <1>2, FS_Surjection
<1> QED BY <1>3

LEMMA SummariesSorted ==
  ASSUME NEW R, NEW records \in Seq(R), \A r \in R : r.amount \in Int
  PROVE  \E s \in SetToSeqs(Summaries(records)) : \A i, j \in DOMAIN s : i < j => Before(records, s[i], s[j])
<1> DEFINE S == Summaries(records)
           B == {q \in S \X S : Before(records, q[1], q[2])}
<1>1. IsFiniteSet(S)
  BY SummariesFinite
<1>2. ASSUME NEW x \in S
      PROVE  /\ x.totalAmount \in Int
             /\ Min(Of(records, x.region)) \in Nat
             /\ Min(Of(records, x.region)) \in Of(records, x.region)
             /\ x = Summary(records, x.region)
  <2>1. PICK r \in ToSet(records) : x = Summary(records, Region(r))
    BY DEF Summaries
  <2>2. x.region = Region(r) /\ x.totalAmount = Total(records, "amount", Of(records, Region(r)))
    BY <2>1 DEF Summary
  <2> QED BY <2>1, <2>2, FirstFacts, OfFacts
<1>3. ASSUME NEW x \in S, NEW y \in S, x # y
      PROVE  Min(Of(records, x.region)) # Min(Of(records, y.region))
  <2>1. x.region # y.region
    BY <1>2, <1>3
  <2> QED BY <1>2, <2>1 DEF Of
<1>4. \A x, y \in S : <<x, y>> \in B <=> Before(records, x, y)
  OBVIOUS
<1> HIDE DEF S, B
<1>5. \A x \in S : <<x, x>> \notin B
  BY <1>2, <1>4 DEF Before
<1>6. \A x, y \in S : x # y => <<x, y>> \in B \/ <<y, x>> \in B
  BY <1>2, <1>3, <1>4 DEF Before
<1>7. \A x, y, z \in S : <<x, y>> \in B /\ <<y, z>> \in B => <<x, z>> \in B
  BY <1>2, <1>4 DEF Before
<1>8. PICK s \in SetToSeqs(S) : \A i, j \in DOMAIN s : i < j => <<s[i], s[j]>> \in B
  BY <1>1, <1>5, <1>6, <1>7, SortingExists
<1>9. \A i \in DOMAIN s : s[i] \in S
  BY DEF SetToSeqs
<1> QED BY <1>4, <1>8, <1>9 DEF S

\* The same, over an enumeration of the labels.
LEMMA SumRegrouped ==
  ASSUME NEW f, NEW D, IsFiniteSet(D), \A x \in D : f[x] \in Int,
         NEW H, NEW r \in [D -> H],
         NEW part \in [H -> SUBSET D], \A g \in H : \A x \in D : x \in part[g] <=> r[x] = g,
         NEW I, IsFiniteSet(I), NEW p \in Bijection(I, H), NEW k, \A i \in I : k[i] = SumOver(f, part[p[i]])
  PROVE  SumOver(k, I) = SumOver(f, D)
<1> DEFINE h == [g \in H |-> SumOver(f, part[g])]
<1>1. IsFiniteSet(H) /\ \A i \in I : p[i] \in H
  BY FS_Surjection DEF Bijection, Surjection
<1>2. ASSUME NEW g \in H PROVE SumOver(f, part[g]) \in Int
  <2>1. part[g] \in SUBSET D
    OBVIOUS
  <2> QED BY <2>1, FS_Subset, SumFacts
<1>3. (\A g \in H : h[g] \in Int) /\ (\A i \in I : k[i] = h[p[i]])
  BY <1>1, <1>2
<1>4. \A g \in H : h[g] = SumOver(f, part[g])
  OBVIOUS
<1> HIDE DEF h
<1>5. SumOver(k, I) = SumOver(h, H)
  BY <1>3, SumOfImage
<1>6. SumOver(h, H) = SumOver(f, D)
  BY <1>1, <1>4, SumOfParts
<1> QED BY <1>5, <1>6

\* aggregateData, whatever the records: its result names every region once, the larger total first, and counts every
\* record and every amount exactly once.
THEOREM AggregationIsReport ==
  ASSUME NEW R, NEW records \in Seq(R), \A r \in R : r.amount \in Int
  PROVE  ReportOf(Aggregate(records), records)
<1> DEFINE s == Aggregate(records)
           S == Summaries(records)
           n == Cardinality(S)
           I == 1 .. n
           D == DOMAIN records
           H == {Region(r) : r \in ToSet(records)}
           p == [i \in I |-> s[i].region]
           region == [x \in D |-> Region(records[x])]
           part == [g \in H |-> Of(records, g)]
<1>1. s \in SetToSeqs(S) /\ \A i, j \in DOMAIN s : i < j => Before(records, s[i], s[j])
  BY SummariesSorted DEF Aggregate
<1>2. s \in [I -> S] /\ DOMAIN s = I /\ \A i, j \in I : i # j => s[i] # s[j]
  BY <1>1 DEF SetToSeqs
<1>3. n \in Nat /\ IsFiniteSet(I) /\ s \in Bijection(I, S)
  <2>1. IsFiniteSet(S)
    BY SummariesFinite
  <2>2. n \in Nat /\ IsFiniteSet(I) /\ Cardinality(I) = n
    BY <2>1, FS_CardinalityType, FS_Interval
  <2> HIDE DEF s, S, n, I
  <2>3. s \in Injection(I, S)
    BY <1>2 DEF Injection, IsInjective
  <2>4. s \in Surjection(I, S)
    BY <2>1, <2>2, <2>3, FS_Injection DEF n
  <2> QED BY <2>2, <2>3, <2>4 DEF Bijection
<1>4. \A x \in S : x = Summary(records, x.region) /\ x.region \in H
  BY DEF Summaries, Summary
<1>5. \A g \in H : Summary(records, g) \in S /\ Summary(records, g).region = g
  BY DEF Summaries, Summary
<1>6. \A x \in S : /\ x.totalAmount = Total(records, "amount", Of(records, x.region))
                    /\ x.recordCount = Cardinality(Of(records, x.region))
                    /\ x.totalAmount \in Int
  BY <1>4, OfFacts DEF Summary
<1>7. IsFiniteSet(D) /\ D = 1 .. Len(records) /\ Cardinality(D) = Len(records)
  <2> DEFINE N == Len(records)
  <2>1. D = 1 .. N /\ N \in Nat
    OBVIOUS
  <2> HIDE DEF D, N
  <2>2. IsFiniteSet(1 .. N) /\ Cardinality(1 .. N) = N
    BY <2>1, FS_Interval
  <2> QED BY <2>1, <2>2 DEF N
<1>8. region \in [D -> H]
  BY DEF ToSet
<1>9. part \in [H -> SUBSET D] /\ \A g \in H : \A x \in D : x \in part[g] <=> region[x] = g
  BY DEF Of
<1>10. \A g \in H : part[g] = Of(records, g)
  OBVIOUS
<1> HIDE DEF s, S, n, I, D, H, region, part
<1>11. \A i \in I : s[i] \in S /\ p[i] = s[i].region
  BY <1>2
<1> HIDE DEF p
<1>12. p \in Bijection(I, H)
  <2>1. p \in [I -> H]
    BY <1>4, <1>11 DEF p
  <2>2. ASSUME NEW i \in I, NEW j \in I, p[i] = p[j] PROVE i = j
    BY <1>2, <1>4, <1>11, <2>2
  <2>3. ASSUME NEW g \in H PROVE \E i \in I : p[i] = g
    <3>1. PICK i \in I : s[i] = Summary(records, g)
      BY <1>3, <1>5 DEF Bijection, Surjection
    <3> QED BY <1>5, <1>11, <3>1
  <2> QED BY <2>1, <2>2, <2>3 DEF Bijection, Injection, Surjection, IsInjective
<1>13. ASSUME NEW i \in I PROVE p[i] \in H /\ part[p[i]] = Of(records, p[i]) /\ part[p[i]] \in SUBSET D
  BY <1>9, <1>10, <1>12 DEF Bijection, Surjection
<1>14. {s[i].region : i \in DOMAIN s} = H
  BY <1>2, <1>11, <1>12 DEF Bijection, Surjection
<1>15. ASSUME NEW i \in DOMAIN s, NEW j \in DOMAIN s, i < j
       PROVE  s[i].region # s[j].region /\ s[i].totalAmount >= s[j].totalAmount
  <2>1. s[i] \in S /\ s[j] \in S /\ s[i] # s[j]
    <3>1. i \in I /\ j \in I
      BY <1>2
    <3>2. i # j
      BY <1>3, <1>15, <3>1 DEF I
    <3> QED BY <1>2, <3>1, <3>2, Zenon
  <2>2. Before(records, s[i], s[j])
    BY <1>1, <1>15
  <2>3. s[i].region # s[j].region
    BY <1>4, <2>1
  <2>4. s[i].totalAmount \in Int /\ s[j].totalAmount \in Int
    BY <1>6, <2>1
  <2>5. s[i].totalAmount > s[j].totalAmount \/ s[i].totalAmount = s[j].totalAmount
    BY <2>2 DEF Before
  <2> QED BY <2>3, <2>4, <2>5
<1>16. Total(s, "recordCount", DOMAIN s) = Len(records)
  <2> DEFINE f == [x \in D |-> 1]
             k == [i \in I |-> s[i]["recordCount"]]
  <2>1. ASSUME NEW i \in I PROVE k[i] = SumOver(f, part[p[i]]) /\ k[i] \in Int
    <3> DEFINE P == Of(records, p[i])
    <3>1. k[i] = Cardinality(P)
      BY <1>6, <1>11
    <3>2. IsFiniteSet(P) /\ (\A x \in P : f[x] = 1) /\ P = part[p[i]]
      <4>1. P = part[p[i]] /\ P \in SUBSET D
        BY <1>13
      <4> QED BY <1>7, <4>1, FS_Subset
    <3> HIDE DEF P, f
    <3>3. SumOver(f, P) = Cardinality(P) /\ Cardinality(P) \in Int
      BY <3>2, SumOfOnes, FS_CardinalityType
    <3> QED BY <3>1, <3>2, <3>3
  <2>2. \A x \in D : f[x] = 1
    OBVIOUS
  <2>3. \A i \in I : k[i] = s[i]["recordCount"] /\ k[i] \in Int
    BY <2>1
  <2> HIDE DEF f, k
  <2>4. Total(s, "recordCount", I) = SumOver(k, I)
    BY <1>3, <2>3, TotalIsSum
  <2>5. SumOver(k, I) = SumOver(f, D)
    <3>1. (\A x \in D : f[x] \in Int) /\ \A i \in I : k[i] = SumOver(f, part[p[i]])
      BY <2>1, <2>2
    <3>2. region \in [D -> H] /\ part \in [H -> SUBSET D] /\ \A g \in H : \A x \in D : x \in part[g] <=> region[x] = g
      BY <1>8, <1>9
    <3>3. IsFiniteSet(D) /\ IsFiniteSet(I) /\ p \in Bijection(I, H)
      BY <1>3, <1>7, <1>12
    <3> QED BY <3>1, <3>2, <3>3, SumRegrouped
  <2>6. SumOver(f, D) = Len(records)
    BY <1>7, <2>2, SumOfOnes
  <2> QED BY <1>2, <2>4, <2>5, <2>6
<1>17. Total(s, "totalAmount", DOMAIN s) = Total(records, "amount", DOMAIN records)
  <2> DEFINE f == [x \in D |-> records[x]["amount"]]
             k == [i \in I |-> s[i]["totalAmount"]]
  <2>1. \A x \in D : f[x] \in Int /\ records[x]["amount"] \in Int
    <3>1. \A x \in D : records[x] \in R
      BY DEF D
    <3> QED BY <3>1
  <2>2. ASSUME NEW i \in I PROVE k[i] = SumOver(f, part[p[i]]) /\ k[i] \in Int
    <3> DEFINE P == Of(records, p[i])
    <3>1. k[i] = Total(records, "amount", P) /\ k[i] \in Int
      BY <1>6, <1>11
    <3>2. P = part[p[i]] /\ P \in SUBSET D
      BY <1>13
    <3> HIDE DEF P
    <3>3. IsFiniteSet(P)
      BY <1>7, <3>2, FS_Subset
    <3>4. \A x \in P : f[x] = records[x]["amount"] /\ f[x] \in Int
      BY <2>1, <3>2
    <3> HIDE DEF f, k
    <3>5. Total(records, "amount", P) = SumOver(f, P)
      BY <3>3, <3>4, TotalIsSum
    <3> QED BY <3>1, <3>2, <3>5
  <2>3. \A i \in I : k[i] = s[i]["totalAmount"] /\ k[i] \in Int
    BY <2>2
  <2>4. \A x \in D : f[x] = records[x]["amount"]
    OBVIOUS
  <2> HIDE DEF f, k
  <2>5. Total(s, "totalAmount", I) = SumOver(k, I)
    BY <1>3, <2>3, TotalIsSum
  <2>6. Total(records, "amount", D) = SumOver(f, D)
    BY <1>7, <2>1, <2>4, TotalIsSum
  <2>7. SumOver(k, I) = SumOver(f, D)
    <3>1. (\A x \in D : f[x] \in Int) /\ \A i \in I : k[i] = SumOver(f, part[p[i]])
      BY <2>1, <2>2
    <3>2. region \in [D -> H] /\ part \in [H -> SUBSET D] /\ \A g \in H : \A x \in D : x \in part[g] <=> region[x] = g
      BY <1>8, <1>9
    <3>3. IsFiniteSet(D) /\ IsFiniteSet(I) /\ p \in Bijection(I, H)
      BY <1>3, <1>7, <1>12
    <3> QED BY <3>1, <3>2, <3>3, SumRegrouped
  <2> QED BY <1>2, <2>5, <2>6, <2>7 DEF D
<1> QED BY <1>14, <1>15, <1>16, <1>17 DEF ReportOf, s, H

--------------------------------------------------------------------------------
\* A run in which nothing was refused and nothing changed is complete, whatever earlier runs left behind: it has
\* archived every file that holds anything, and written the report of all the records that are there.
THEOREM CleanRunCompletes == Spec => []CleanRunIsComplete
<1> DEFINE Archived == Completed => ArchiveIsComplete
<1>1. Init => CleanInv /\ GatherInv
  BY DEF Init, CleanInv, GatherInv, AllRead
<1>2. TypeInv /\ CleanInv /\ GatherInv /\ [Next]_vars => CleanInv' /\ GatherInv'
  BY CleanStep, GatherStep
<1>3. TypeInv /\ CleanInv /\ GatherInv => (Completed => ReportIsComplete)
  <2> SUFFICES ASSUME TypeInv, CleanInv, GatherInv, Completed PROVE ReportIsComplete
    OBVIOUS
  <2>1. /\ output[1].aggregations = Aggregate(allRecords)
        /\ Gathered(Present)
    BY DEF Completed, GatherInv, AllRead
  <2>2. ReportOf(output[1].aggregations, allRecords)
    <3>1. allRecords \in Seq(Records)
      BY DEF TypeInv, ContentsInv
    <3>2. \A r \in Records : r.amount \in Int
      BY AgentAssumption DEF AgentAssumption, Records
    <3> QED BY <2>1, <3>1, <3>2, AggregationIsReport
  <2> QED BY <2>1, <2>2 DEF Gathered, ReportIsComplete
<1>4. (Completed => ReportIsComplete) /\ Archived => CleanRunIsComplete
  BY DEF CleanRunIsComplete
<1>5. Spec => []Archived
  BY CleanRunArchives
<1> HIDE DEF Archived
<1> QED BY <1>1, <1>2, <1>3, <1>4, <1>5, TypeInit, TypeStep, PTL DEF Spec
================================================================================
