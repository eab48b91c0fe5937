-------------------------- MODULE MarketResearchAgent --------------------------
(* The research demo (src/examples/real-openclaw-demo/src/                    *)
(* market-research-agent.ts): an agent that asks the sidecar before each      *)
(* act, acts itself, verifies the page it is on before it extracts leads from *)
(* it, and merges them into the leads file of earlier runs.                   *)
(*                                                                            *)
(* The page changes under the agent (it loads, redirects, refreshes), others  *)
(* add rows to the leads file, the sidecar answers anything or not at all,    *)
(* the model answers anything, and the browser, the tracer and the file       *)
(* system may fail.  The agent is run again over the file it left.            *)
(******************************************************************************)
EXTENDS PredicateRuntime, PredicateSidecarClient

CONSTANTS Text,        \* what there is between the commas of titles and URLs
          Says,        \* the words looked for that a text has
          Bare,        \* a text without the slashes it ends with
          Pages,       \* the pages a browser may be on: [url, header, posts]
          Blank,       \* the page of a browser just started
          LLMAnswers,  \* what the model extracts; <<>> is an answer without usable JSON
          Additions,   \* rows others add to the file
          OldFiles,    \* leads files found by the first run
          TopN,        \* CONFIG.topN and the count of posts verified, both 3 in the code
          MaxChanges,  \* bound: changes of the page and the file by others
          MaxRuns      \* bound: runs of the agent

\* Titles and URLs are the texts between their commas.
Lead == [title : Seq(Text) \ {<<>>}, url : Seq(Text) \ {<<>>}]

ASSUME AgentAssumption == /\ FailClosed = TRUE
                          /\ Blank \in Pages
                          /\ \A p \in Pages : p.posts \in Seq(Lead)
                          /\ \A rows \in OldFiles \cup LLMAnswers : rows \in Seq(Lead)
                          /\ Additions \subseteq Lead
                          /\ \A text \in Text : /\ Says[text] # {}
                                               /\ {Lower[text], Lower[Bare[text]]} \subseteq Text
                          /\ {TopN, MaxChanges, MaxRuns} \subseteq Nat

VARIABLES
  pc,                  \* the call of run under way
  failing,             \* in the catch of run
  browser, tracer,     \* what predicateBrowser and tracer hold
  page,                \* what the browser shows
  snapshot,            \* the runtime's lastSnapshot
  leads, existing,     \* run's locals
  file,                \* the rows of leads.csv below its header; <<>> when there is no file
  permitted, acted,    \* requests the policy allowed in this run, and those the agent performed
  loaded,              \* the file when the existing leads were read, and whether they were
  saved,               \* history: URLs that saves have put into the file to stay
  steady,              \* the page has not changed since the runtime's snapshot was begun
  closeFailed,         \* some close of this run has thrown
  changes, runs

resources == <<browser, tracer, closeFailed>>
locals == <<snapshot, leads, existing>>
ledger == <<permitted, acted, loaded>>
kept == <<file, saved>>
vars == <<pc, failing, resources, page, steady, locals, kept, ledger, changes, runs>>

Idle == {"idle", "done", "failed"}
Active == {"tracer", "authLaunch", "start", "authNavigate", "goto", "look", "checkUrl", "checkElements",
           "snapUrl", "snapElements", "verify", "extract", "dom", "authRead", "read", "authWrite", "write",
           "authDemo", "closeBrowser", "closeTracer"}

Target == "https://news.ycombinator.com/show"
LeadsFile == "/data/leads.csv"

TypeOK ==
  /\ pc \in Idle \cup Active
  /\ failing \in BOOLEAN
  /\ browser \in {"none", "created", "open", "closed"}
  /\ tracer \in {"none", "open", "closed"}
  /\ page \in Pages
  /\ snapshot.url \in {p.url : p \in Pages}
  /\ \A s \in {leads, existing, file, loaded.rows} : s \in Seq(Lead)
  /\ saved \subseteq Seq(Text)
  /\ acted \cup permitted \subseteq
       {LaunchBrowser, NavigateTo(Target), ReadFile(LeadsFile), WriteFile(LeadsFile), WriteFile("/etc/passwd")}
  /\ {loaded.read, steady, closeFailed} \subseteq BOOLEAN
  /\ changes \in 0 .. MaxChanges
  /\ runs \in 0 .. MaxRuns
  /\ pc \in {"goto", "snapElements", "extract", "dom"} => browser = "open"

NoSnapshot == [url |-> Blank.url, elements |-> <<>>, confidence |-> 0]

Init ==
  /\ pc = "idle" /\ failing = FALSE
  /\ browser = "none" /\ tracer = "none" /\ closeFailed = FALSE
  /\ page = Blank /\ steady = FALSE
  /\ snapshot = NoSnapshot /\ leads = <<>> /\ existing = <<>>
  /\ file \in OldFiles /\ saved = {}
  /\ permitted = {} /\ acted = {} /\ loaded = [rows |-> <<>>, read |-> FALSE]
  /\ changes = 0 /\ runs = 0

\* main: a new process, which keeps nothing but the file.
Start ==
  /\ pc \in Idle
  /\ runs < MaxRuns
  /\ runs' = runs + 1
  /\ pc' = "tracer" /\ failing' = FALSE
  /\ browser' = "none" /\ tracer' = "none" /\ closeFailed' = FALSE
  /\ page' = Blank /\ steady' = FALSE
  /\ snapshot' = NoSnapshot /\ leads' = <<>> /\ existing' = <<>>
  /\ permitted' = {} /\ acted' = {} /\ loaded' = [rows |-> <<>>, read |-> FALSE]
  /\ UNCHANGED <<kept, changes>>

--------------------------------------------------------------------------------
(* How the calls of run end.                                                  *)

Goes(next) == pc' = next /\ UNCHANGED failing

\* Mutant of Throws: what the catch does after logging is left out.
ThrowsOut == pc' = "failed" /\ failing' = TRUE

\* The catch of run: whatever was thrown, clean up, then exit(1).
Throws == pc' = "closeBrowser" /\ failing' = TRUE

\* A request is answered r, of which the client makes answer: go on, or throw.
Asked(request, r, answer, next) ==
  /\ permitted' = IF r.kind = "allow" THEN permitted \cup {request} ELSE permitted
  /\ IF answer.allowed THEN Goes(next) ELSE Throws

Acts(request) == acted' = acted \cup {request}

--------------------------------------------------------------------------------
(* Steps 1 and 2: launch, navigate.                                           *)

InitializeTracer ==
  /\ pc = "tracer"
  /\ \/ tracer' = "open" /\ Goes("authLaunch")
     \/ Throws /\ UNCHANGED tracer
  /\ UNCHANGED <<browser, closeFailed, page, steady, locals, kept, ledger, changes, runs>>

AskLaunch ==
  /\ pc = "authLaunch"
  /\ \E r \in Response : Asked(LaunchBrowser, r, Authorize(r), "start")
  /\ UNCHANGED <<resources, page, steady, locals, kept, acted, loaded, changes, runs>>

\* Mutant of StartBrowser: a failed start is only logged.
StartBrowserUnchecked ==
  /\ pc = "start"
  /\ Acts(LaunchBrowser)
  /\ browser' \in {"open", "created"} /\ Goes("authNavigate")
  /\ UNCHANGED <<tracer, closeFailed, page, steady, locals, kept, permitted, loaded, changes, runs>>

\* The PredicateBrowser is there to be closed even when its start has failed.
StartBrowser ==
  /\ pc = "start"
  /\ Acts(LaunchBrowser)
  /\ \/ browser' = "open" /\ Goes("authNavigate")
     \/ browser' = "created" /\ Throws
  /\ UNCHANGED <<tracer, closeFailed, page, steady, locals, kept, permitted, loaded, changes, runs>>

AskNavigate ==
  /\ pc = "authNavigate"
  /\ \E r \in Response : Asked(NavigateTo(Target), r, Authorize(r), "goto")
  /\ UNCHANGED <<resources, page, steady, locals, kept, acted, loaded, changes, runs>>

\* Wherever the target redirects to, and whatever has loaded of it.
Navigate ==
  /\ pc = "goto"
  /\ Acts(NavigateTo(Target))
  /\ \/ page' \in Pages \ {Blank} /\ Goes("look")
     \/ Throws /\ UNCHANGED page
  /\ UNCHANGED <<resources, steady, locals, kept, permitted, loaded, changes, runs>>

\* The model is asked whether this is the right page; its answer is only logged.
AskLLM ==
  /\ pc = "look"
  /\ Goes("checkUrl") \/ Throws
  /\ UNCHANGED <<resources, page, steady, locals, kept, ledger, changes, runs>>

--------------------------------------------------------------------------------
(* Step 3: verification.                                                      *)

\* check(...).eventually: polled until it holds or the time is out; a snapshot or a check may throw all the same.
Eventually(holds, next) ==
  /\ (holds /\ Goes(next)) \/ Throws
  /\ UNCHANGED <<resources, page, steady, locals, kept, ledger, changes, runs>>

CheckUrl == pc = "checkUrl" /\ Eventually("news.ycombinator.com" \in page.url, "checkElements")

CheckElements == pc = "checkElements" /\ Eventually(page.header # {} \/ page.posts # <<>>, "snapUrl")

TitleWords(post) == UNION {Says[text] : text \in ToSet(post.title)}

PageWords(p) == p.header \cup UNION {TitleWords(post) : post \in ToSet(p.posts)}

Node(tag, class, words) == [role |-> tag, id |-> "", text |-> words, name |-> {}, selector |-> {class}]

Shown(node) == IF node.text = {} THEN <<>> ELSE <<node>>

\* What the tree walker makes of a page: an element for every node that has text.  A node's text is that of all the
\* nodes in it (the first 100 characters): what the page begins with, its header, and for each post its row, the
\* title line in the row and the link in the line.
Elements(p) ==
  LET begins == p.header \cup (IF p.posts = <<>> THEN {} ELSE TitleWords(p.posts[1]))
      Each(tag, class) == [i \in DOMAIN p.posts |-> Node(tag, class, TitleWords(p.posts[i]))]
  IN Shown(Node("table", "table", begins)) \o Shown(Node("td", "pagetop", p.header))
       \o Each("tr", "athing") \o Each("span", "titleline") \o Each("a", "a")

\* runtime.snapshot takes the url before its first await
SnapshotUrl ==
  /\ pc = "snapUrl"
  /\ snapshot' = [snapshot EXCEPT !.url = page.url]
  /\ steady' = TRUE
  /\ Goes("snapElements")
  /\ UNCHANGED <<resources, page, leads, existing, kept, ledger, changes, runs>>

\* and the elements after it.
SnapshotElements ==
  /\ pc = "snapElements"
  /\ \/ /\ snapshot' = [snapshot EXCEPT !.elements = Elements(page),
                                        !.confidence = SimulateMLConfidence(snapshot.url, Elements(page))]
        /\ Goes("verify")
     \/ Throws /\ UNCHANGED snapshot
  /\ UNCHANGED <<resources, page, steady, leads, existing, kept, ledger, changes, runs>>

Verify ==
  /\ pc = "verify"
  /\ IF Passed({UrlContains(snapshot, "news.ycombinator.com", TRUE),
                DomContains(snapshot, "Show", TRUE),
                ElementExists(snapshot, [by |-> "any", value |-> "titleline"], TopN, TRUE),
                ConfidenceAbove(snapshot, 70, FALSE)})
     THEN Goes("extract")
     ELSE Throws
  /\ UNCHANGED <<resources, page, steady, locals, kept, ledger, changes, runs>>

--------------------------------------------------------------------------------
(* Step 4: extraction.                                                        *)

\* The model is shown a new snapshot; whatever it lists is taken, and without a list the DOM is.
ExtractWithLLM ==
  /\ pc = "extract"
  /\ \/ \E answer \in LLMAnswers : /\ leads' = answer
                                   /\ Goes(IF answer = <<>> THEN "dom" ELSE "authRead")
     \/ Throws /\ UNCHANGED leads
  /\ UNCHANGED <<resources, page, steady, snapshot, existing, kept, ledger, changes, runs>>

Top(posts) == IF Len(posts) <= TopN THEN posts ELSE SubSeq(posts, 1, TopN)

ExtractFromDOM ==
  /\ pc = "dom"
  /\ \/ leads' = Top(page.posts) /\ Goes("authRead")
     \/ Throws /\ UNCHANGED leads
  /\ UNCHANGED <<resources, page, steady, snapshot, existing, kept, ledger, changes, runs>>

--------------------------------------------------------------------------------
(* Steps 5 to 7: load, compare, save.                                         *)

\* A row written and read back: split(",") takes the row's second and third text for its title and URL, wherever the
\* commas are.
Parsed(row) == LET texts == row.title \o row.url IN [title |-> <<texts[1]>>, url |-> <<texts[2]>>]

Reread(rows) == [i \in DOMAIN rows |-> Parsed(rows[i])]

\* normalizeUrl
NormalizeUrl(url) == [i \in DOMAIN url |-> Lower[IF i = Len(url) THEN Bare[url[i]] ELSE url[i]]]

SameUrl(row, other) == NormalizeUrl(row.url) = NormalizeUrl(other.url)

\* Mutant of FindNewLeads: URLs are compared as they are spelled.
FindRespelledLeads(current, old) == {l \in ToSet(current) : \A o \in ToSet(old) : o.url # l.url}

FindNewLeads(current, old) == {l \in ToSet(current) : \A o \in ToSet(old) : ~SameUrl(o, l)}

\* if (!seenUrls.has(normUrl)) ...
AddUnseen(allLeads, lead) ==
  IF \E seen \in ToSet(allLeads) : SameUrl(seen, lead) THEN allLeads ELSE Append(allLeads, lead)

\* The first row of each URL.
FirstOfEach(rows) ==
  LET allLeads[n \in 0 .. Len(rows)] == IF n = 0 THEN <<>> ELSE AddUnseen(allLeads[n - 1], rows[n])
  IN allLeads[Len(rows)]

\* Mutant of Merge: the leads of earlier runs come first.
MergeOldFirst(current, old) == FirstOfEach(old \o current)

\* The leads of this run, then those of earlier ones.
Merge(current, old) == FirstOfEach(current \o old)

\* loadExistingLeads returns rows; nothing is saved unless some lead is new.
Loads(rows, read) ==
  /\ existing' = rows
  /\ loaded' = [rows |-> file, read |-> read]
  /\ Goes(IF FindNewLeads(leads, rows) = {} THEN "closeBrowser" ELSE "authWrite")

\* A refusal whose text has "not found" in it is taken for a first run.
AskRead ==
  /\ pc = "authRead"
  /\ \E r \in Response :
       IF ~Execute(r).allowed /\ Execute(r).notFound
       THEN Loads(<<>>, FALSE) /\ UNCHANGED permitted
       ELSE Asked(ReadFile(LeadsFile), r, Execute(r), "read") /\ UNCHANGED <<existing, loaded>>
  /\ UNCHANGED <<resources, page, steady, snapshot, leads, kept, acted, changes, runs>>

\* So is an error of the file system.
ReadLeads ==
  /\ pc = "read"
  /\ Acts(ReadFile(LeadsFile))
  /\ Loads(Reread(file), TRUE) \/ Loads(<<>>, FALSE)
  /\ UNCHANGED <<resources, page, steady, snapshot, leads, kept, permitted, changes, runs>>

AskWrite ==
  /\ pc = "authWrite"
  /\ \E r \in Response : Asked(WriteFile(LeadsFile), r, Execute(r), "write")
  /\ UNCHANGED <<resources, page, steady, locals, kept, acted, loaded, changes, runs>>

\* A row that reads back as it was written.
Intact(row) == Len(row.title) = 1 /\ Len(row.url) = 1

\* What is saved for good when the leads of this run are written in front of rows with the URLs before: not the URL
\* of a lead that a comma garbles, which takes the place of every other row with that URL.
SavedNow(before) ==
  (before \cup {NormalizeUrl(l.url) : l \in ToSet(leads)})
    \ {NormalizeUrl(l.url) : l \in {g \in ToSet(leads) : ~Intact(g)}}

\* The file is written whole; a write that fails may have left any part of it, or not have begun.
WriteLeads ==
  /\ pc = "write"
  /\ Acts(WriteFile(LeadsFile))
  /\ LET rows == Merge(leads, existing)
     IN \/ /\ file' = rows
           /\ saved' = SavedNow(IF loaded.read THEN saved ELSE {})
           /\ Goes("authDemo")
        \/ /\ file' \in {file} \cup {SubSeq(rows, 1, n) : n \in 0 .. Len(rows)}
           /\ saved' = IF file' = file THEN saved ELSE {}
           /\ Throws
  /\ UNCHANGED <<resources, page, steady, locals, permitted, loaded, changes, runs>>

\* A write that the policy should refuse is asked for, and not done whatever the answer.
AskDemo ==
  /\ pc = "authDemo"
  /\ \E r \in Response :
       permitted' = IF r.kind = "allow" THEN permitted \cup {WriteFile("/etc/passwd")} ELSE permitted
  /\ Goes("closeBrowser")
  /\ UNCHANGED <<resources, page, steady, locals, kept, acted, loaded, changes, runs>>

--------------------------------------------------------------------------------
(* cleanup, in step 8 and in the catch.                                       *)

\* Mutant of CloseFails: the catch cleans up until it succeeds.
CloseFailsAgain ==
  /\ closeFailed' = TRUE
  /\ Throws

\* A close that throws: out of step 8 into the catch, which cleans up from the start; out of the catch to exit(1).
CloseFails ==
  /\ closeFailed' = TRUE
  /\ IF failing THEN pc' = "failed" /\ UNCHANGED failing ELSE Throws

CloseBrowser ==
  /\ pc = "closeBrowser"
  /\ \/ browser' = (IF browser = "none" THEN "none" ELSE "closed") /\ Goes("closeTracer") /\ UNCHANGED closeFailed
     \/ browser # "none" /\ CloseFails /\ UNCHANGED browser
  /\ UNCHANGED <<tracer, page, steady, locals, kept, ledger, changes, runs>>

CloseTracer ==
  /\ pc = "closeTracer"
  /\ \/ /\ tracer' = IF tracer = "none" THEN "none" ELSE "closed"
        /\ Goes(IF failing THEN "failed" ELSE "done")
        /\ UNCHANGED closeFailed
     \/ tracer # "none" /\ CloseFails /\ UNCHANGED tracer
  /\ UNCHANGED <<browser, page, steady, locals, kept, ledger, changes, runs>>

--------------------------------------------------------------------------------
(* What others do meanwhile.                                                  *)

PageChanges ==
  /\ browser = "open" /\ pc \in Active /\ page # Blank
  /\ changes < MaxChanges
  /\ page' \in Pages \ {Blank, page}
  /\ steady' = FALSE
  /\ changes' = changes + 1
  /\ UNCHANGED <<pc, failing, resources, locals, kept, ledger, runs>>

OthersAdd ==
  /\ changes < MaxChanges
  /\ \E row \in Additions : file' = Append(file, row)
  /\ changes' = changes + 1
  /\ UNCHANGED <<saved, pc, failing, resources, page, steady, locals, ledger, runs>>

Agent == \/ InitializeTracer \/ AskLaunch \/ StartBrowser \/ AskNavigate \/ Navigate \/ AskLLM
         \/ CheckUrl \/ CheckElements \/ SnapshotUrl \/ SnapshotElements \/ Verify
         \/ ExtractWithLLM \/ ExtractFromDOM \/ AskRead \/ ReadLeads \/ AskWrite \/ WriteLeads \/ AskDemo
         \/ CloseBrowser \/ CloseTracer

Next == Start \/ Agent \/ PageChanges \/ OthersAdd

Spec == Init /\ [][Next]_vars

\* Every await of a run settles: requests are answered or fail, and checks and page loads time out.
FairSpec == Spec /\ WF_vars(Agent)

--------------------------------------------------------------------------------
\* "The caller is responsible for execution ONLY if allowed=true": nothing is launched, opened, read or written
\* unless the policy has allowed that very request in this run; no error of the sidecar stands in for it.
NoActWithoutPermission == acted \subseteq permitted

\* Leads are extracted only from a page that was verified: one that has not changed since the snapshot was begun
\* is a page of Hacker News with enough posts on it.  (It need not be "Show HN": every page of the site has a link
\* with that word.  A page that has changed may be any.  And element_exists counts the word "titleline" wherever it
\* stands: a page that says it has more title lines than posts.)
ExtractsFromVerified ==
  (pc = "extract" /\ steady /\ "titleline" \notin PageWords(page)) =>
    /\ "news.ycombinator.com" \in page.url
    /\ Len(page.posts) >= TopN

\* "deduplicated by URL", over all runs: whenever the agent has read the file and is about to write, some lead of
\* this run has a URL that no save has put into the file for good, under whatever title or spelling it was saved.
SavedIsNotNews ==
  (pc \in {"authWrite", "write"} /\ loaded.read) =>
    \E l \in ToSet(leads) : NormalizeUrl(l.url) \notin saved

\* "New leads are merged with existing, deduplicated by URL": after a save every lead of this run is in the file by
\* its URL, in this run's version only; so is every row that was read and that commas do not garble; and no URL is in
\* it twice.  (Rows with commas read back as others, rows not read after an error, and rows added since the file was
\* read may be lost.)
SavesMerge ==
  [][(pc = "write" /\ pc' = "authDemo") =>
       LET WithUrl(l) == {row \in ToSet(file') : SameUrl(row, l)} IN
       /\ \A l \in ToSet(leads) : WithUrl(l) # {} /\ WithUrl(l) \subseteq ToSet(leads)
       /\ loaded.read => \A row \in ToSet(loaded.rows) : Intact(row) => WithUrl(row) # {}
       /\ \A i, j \in DOMAIN file' : i # j => ~SameUrl(file'[i], file'[j])]_vars

\* A run that ends leaves neither browser nor tracer behind, unless closing one has thrown.
ResourcesReleased ==
  /\ pc = "done" => browser = "closed" /\ tracer = "closed"
  /\ pc = "failed" => closeFailed \/ {browser, tracer} \subseteq {"none", "closed"}

\* Whatever fails, a run ends.
RunEnds == pc \in Active ~> pc \in Idle
================================================================================
