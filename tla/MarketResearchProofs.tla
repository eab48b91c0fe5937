-------------------------- MODULE MarketResearchProofs --------------------------
(* Proofs about the research agent, for any pages, answers, files and number  *)
(* of runs: it does nothing the policy has not allowed in the same run,       *)
(* leaves neither browser nor tracer behind, extracts only from a page it has *)
(* verified, takes no lead it has saved for news, and merges what it saves.   *)
(******************************************************************************)
EXTENDS MarketResearchAgent, TLAPS, FiniteSetTheorems, SequenceTheorems, WellFoundedInduction

\* The agent is about to act only once it has been permitted to.
PermitInv ==
  /\ acted \subseteq permitted
  /\ pc = "start" => LaunchBrowser \in permitted
  /\ pc = "goto" => NavigateTo(Target) \in permitted
  /\ pc = "read" => ReadFile(LeadsFile) \in permitted
  /\ pc = "write" => WriteFile(LeadsFile) \in permitted

\* The calls of run between the launch of the browser and its cleanup.
Browsing == Active \ {"tracer", "authLaunch", "start", "closeBrowser", "closeTracer"}

\* What browser and tracer hold at each call, in step 8 and in the catch.
ResourceInv ==
  /\ pc \in Idle \cup Active
  /\ browser \in {"none", "created", "open", "closed"}
  /\ tracer \in {"none", "open", "closed"}
  /\ pc \in Active \ {"closeBrowser", "closeTracer"} => ~failing
  /\ pc \in {"authLaunch", "start"} => tracer = "open"
  /\ pc \in Browsing => browser = "open" /\ tracer = "open"
  /\ pc = "closeBrowser" /\ ~failing => browser = "open" /\ tracer = "open"
  /\ pc = "closeTracer" => browser \in {"none", "closed"}
  /\ pc = "closeTracer" /\ ~failing => browser = "closed" /\ tracer = "open"
  /\ ResourcesReleased

\* Neither client's permission comes from anything but the policy's answer: authorize because the agent has it fail
\* closed, execute whatever failClosed says.
LEMMA AllowedByPolicy ==
  ASSUME NEW r \in Response
  PROVE  /\ Authorize(r).allowed => r.kind = "allow"
         /\ Execute(r).allowed => r.kind = "allow"
BY AgentAssumption DEF AgentAssumption, Authorize, Execute, Unanswered, Response

\* After a question the agent is permitted what it asked for, or is cleaning up.
LEMMA AskedPermits ==
  ASSUME PermitInv, UNCHANGED acted, NEW request, NEW r \in Response, NEW answer, NEW next,
         Asked(request, r, answer, next), answer.allowed => r.kind = "allow",
         <<next, request>> \in {<<"start", LaunchBrowser>>, <<"goto", NavigateTo(Target)>>,
                               <<"read", ReadFile(LeadsFile)>>, <<"write", WriteFile(LeadsFile)>>}
  PROVE  PermitInv'
<1>1. permitted \subseteq permitted'
  BY DEF Asked
<1>2. CASE answer.allowed
  <2>1. pc' = next /\ request \in permitted'
    BY <1>2 DEF Asked, Goes
  <2> QED BY <1>1, <2>1 DEF PermitInv
<1>3. CASE ~answer.allowed
  BY <1>1, <1>3 DEF Asked, Throws, PermitInv
<1> QED BY <1>2, <1>3

LEMMA PermitStep ==
  ASSUME PermitInv, [Next]_vars
  PROVE  PermitInv'
<1>1. CASE UNCHANGED vars
  BY <1>1 DEF vars, ledger, PermitInv
<1>2. CASE Start
  BY <1>2 DEF Start, PermitInv
<1>3. CASE AskLaunch
  <2>1. PICK r \in Response : Asked(LaunchBrowser, r, Authorize(r), "start") /\ UNCHANGED acted
    BY <1>3 DEF AskLaunch
  <2> QED BY <2>1, AllowedByPolicy, AskedPermits
<1>4. CASE AskNavigate
  <2>1. PICK r \in Response : Asked(NavigateTo(Target), r, Authorize(r), "goto") /\ UNCHANGED acted
    BY <1>4 DEF AskNavigate
  <2> QED BY <2>1, AllowedByPolicy, AskedPermits
<1>5. CASE AskRead
  <2>1. PICK r \in Response :
          IF ~Execute(r).allowed /\ Execute(r).notFound
          THEN Loads(<<>>, FALSE) /\ UNCHANGED permitted
          ELSE Asked(ReadFile(LeadsFile), r, Execute(r), "read")
    BY <1>5 DEF AskRead
  <2>2. acted' = acted
    BY <1>5 DEF AskRead
  <2>3. CASE Loads(<<>>, FALSE) /\ UNCHANGED permitted
    BY <2>2, <2>3 DEF Loads, Goes, PermitInv
  <2>4. CASE Asked(ReadFile(LeadsFile), r, Execute(r), "read")
    BY <2>2, <2>4, AllowedByPolicy, AskedPermits
  <2> QED BY <2>1, <2>3, <2>4
<1>6. CASE AskWrite
  <2>1. PICK r \in Response : Asked(WriteFile(LeadsFile), r, Execute(r), "write") /\ UNCHANGED acted
    BY <1>6 DEF AskWrite
  <2> QED BY <2>1, AllowedByPolicy, AskedPermits
<1>7. CASE AskDemo
  BY <1>7 DEF AskDemo, Goes, PermitInv
<1>8. CASE StartBrowser \/ Navigate \/ ReadLeads \/ WriteLeads
  <2>1. permitted' = permitted /\ pc' \notin {"start", "goto", "read", "write"}
    BY <1>8 DEF StartBrowser, Navigate, ReadLeads, WriteLeads, Goes, Throws, Loads
  <2>2. acted' \subseteq permitted
    BY <1>8 DEF StartBrowser, Navigate, ReadLeads, WriteLeads, Acts, PermitInv
  <2> QED BY <2>1, <2>2 DEF PermitInv
<1>9. CASE \/ InitializeTracer \/ AskLLM \/ CheckUrl \/ CheckElements \/ SnapshotUrl \/ SnapshotElements
           \/ Verify \/ ExtractWithLLM \/ ExtractFromDOM \/ CloseBrowser \/ CloseTracer
  <2>1. permitted' = permitted /\ acted' = acted
    BY <1>9 DEF InitializeTracer, AskLLM, CheckUrl, CheckElements, Eventually, SnapshotUrl, SnapshotElements, Verify,
                ExtractWithLLM, ExtractFromDOM, CloseBrowser, CloseTracer, ledger
  <2>2. pc' \notin {"start", "goto", "read", "write"}
    BY <1>9 DEF InitializeTracer, AskLLM, CheckUrl, CheckElements, Eventually, SnapshotUrl, SnapshotElements, Verify,
                ExtractWithLLM, ExtractFromDOM, CloseBrowser, CloseTracer, CloseFails, Goes, Throws
  <2> QED BY <2>1, <2>2 DEF PermitInv
<1>10. CASE PageChanges \/ OthersAdd
  BY <1>10 DEF PageChanges, OthersAdd, ledger, PermitInv
<1> QED BY <1>1, <1>2, <1>3, <1>4, <1>5, <1>6, <1>7, <1>8, <1>9, <1>10 DEF Next, Agent

\* "The caller is responsible for execution ONLY if allowed=true": whatever the sidecar answers or fails to answer, and
\* however often the agent is run, every act was allowed by the policy in the same run.
THEOREM ActsArePermitted == Spec => []NoActWithoutPermission
<1>1. Init => PermitInv
  BY DEF Init, PermitInv
<1>2. PermitInv /\ [Next]_vars => PermitInv'
  BY PermitStep
<1>3. PermitInv => NoActWithoutPermission
  BY DEF PermitInv, NoActWithoutPermission
<1> QED BY <1>1, <1>2, <1>3, PTL DEF Spec

--------------------------------------------------------------------------------
LEMMA ResourceStep ==
  ASSUME ResourceInv, [Next]_vars
  PROVE  ResourceInv'
<1> USE DEF Idle, Active, Browsing
<1>1. CASE UNCHANGED vars \/ PageChanges \/ OthersAdd
  BY <1>1 DEF vars, resources, PageChanges, OthersAdd, ResourceInv, ResourcesReleased
<1>2. CASE Start \/ InitializeTracer \/ StartBrowser
  BY <1>2 DEF Start, InitializeTracer, StartBrowser, Goes, Throws, ResourceInv, ResourcesReleased
\* Steps that leave the resources alone: on to a later call, or into the catch.
<1>3. ASSUME UNCHANGED resources, pc \in Active \ {"tracer", "start", "closeBrowser", "closeTracer"},
             \/ pc' = "closeBrowser" /\ failing' = TRUE
             \/ /\ failing' = failing
                /\ pc' \in IF pc = "authLaunch" THEN {"start"} ELSE Browsing \cup {"closeBrowser"}
      PROVE  ResourceInv'
  BY <1>3 DEF resources, ResourceInv, ResourcesReleased
<1>4. CASE \/ AskNavigate \/ AskRead \/ AskWrite \/ AskLaunch
  <2>1. UNCHANGED resources /\ pc \in {"authLaunch", "authNavigate", "authRead", "authWrite"}
    BY <1>4 DEF AskLaunch, AskNavigate, AskRead, AskWrite
  <2>2. \/ pc' = "closeBrowser" /\ failing' = TRUE
        \/ /\ failing' = failing
           /\ pc' \in IF pc = "authLaunch" THEN {"start"} ELSE Browsing \cup {"closeBrowser"}
    BY <1>4 DEF AskLaunch, AskNavigate, AskRead, AskWrite, Asked, Loads, Goes, Throws
  <2> QED BY <1>3, <2>1, <2>2
<1>5. CASE \/ Navigate \/ AskLLM \/ CheckUrl \/ CheckElements \/ SnapshotUrl \/ SnapshotElements \/ Verify
           \/ ExtractWithLLM \/ ExtractFromDOM \/ ReadLeads \/ WriteLeads \/ AskDemo
  <2>1. UNCHANGED resources /\ pc \in Browsing
    BY <1>5 DEF Navigate, AskLLM, CheckUrl, CheckElements, Eventually, SnapshotUrl, SnapshotElements, Verify,
                ExtractWithLLM, ExtractFromDOM, ReadLeads, WriteLeads, AskDemo
  <2>2. \/ pc' = "closeBrowser" /\ failing' = TRUE
        \/ failing' = failing /\ pc' \in Browsing \cup {"closeBrowser"}
    BY <1>5 DEF Navigate, AskLLM, CheckUrl, CheckElements, Eventually, SnapshotUrl, SnapshotElements, Verify,
                ExtractWithLLM, ExtractFromDOM, ReadLeads, WriteLeads, AskDemo, Loads, Goes, Throws
  <2> QED BY <1>3, <2>1, <2>2
<1>6. CASE CloseBrowser
  BY <1>6 DEF CloseBrowser, CloseFails, Goes, Throws, ResourceInv, ResourcesReleased
<1>7. CASE CloseTracer
  BY <1>7 DEF CloseTracer, CloseFails, Goes, Throws, ResourceInv, ResourcesReleased
<1> QED BY <1>1, <1>2, <1>4, <1>5, <1>6, <1>7 DEF Next, Agent

\* Whichever call of a run fails, browser and tracer are closed when it ends, unless a close itself has thrown.
THEOREM ResourcesAreReleased == Spec => []ResourcesReleased
<1>1. Init => ResourceInv
  BY DEF Init, ResourceInv, ResourcesReleased, Idle, Active, Browsing
<1>2. ResourceInv /\ [Next]_vars => ResourceInv'
  BY ResourceStep
<1>3. ResourceInv => ResourcesReleased
  BY DEF ResourceInv
<1> QED BY <1>1, <1>2, <1>3, PTL DEF Spec
--------------------------------------------------------------------------------
(* Induction over the natural numbers, stated of a set; the library's own     *)
(* theorem is stated of an operator.                                          *)

LEMMA Smallest ==
  ASSUME NEW T \in SUBSET Nat, T # {}
  PROVE  \E x \in T : \A y \in T : x <= y
<1>1. \E x \in T : \A y \in T : ~ (<<y, x>> \in OpToRel(<, Nat))
  BY NatLessThanWellFounded, WFMin, Zenon
<1>2. \A x, y \in T : y < x => <<y, x>> \in OpToRel(<, Nat)
  BY DEF OpToRel
<1>3. PICK x \in T : \A y \in T : ~ (y < x)
  BY <1>1, <1>2, Zenon
<1> QED BY <1>3

LEMMA Induction ==
  ASSUME NEW S, 0 \in S, \A n \in S \cap Nat : n + 1 \in S
  PROVE  Nat \subseteq S
<1> SUFFICES ASSUME Nat \ S # {} PROVE FALSE
  OBVIOUS
<1>1. PICK x \in Nat \ S : \A y \in Nat \ S : x <= y
  BY Smallest
<1> QED BY <1>1

--------------------------------------------------------------------------------
(* Merging: what the loops of saveLeadsToCSV leave in allLeads.               *)

NoUrlTwice(rows) == \A i, j \in DOMAIN rows : i # j => ~SameUrl(rows[i], rows[j])

\* allLeads after each of the first N turns.
Merging(all, N, f) == f = [n \in 0 .. N |-> IF n = 0 THEN <<>> ELSE AddUnseen(f[n - 1], all[n])]

LEMMA MergingExists ==
  ASSUME NEW all
  PROVE  \A N \in Nat : \E f : Merging(all, N, f)
<1> DEFINE S == {N \in Nat : \E f : Merging(all, N, f)}
<1>1. 0 \in S
  <2>1. Merging(all, 0, [n \in 0 .. 0 |-> <<>>])
    BY DEF Merging
  <2> QED BY <2>1
<1>2. ASSUME NEW N \in S PROVE N + 1 \in S
  <2>1. PICK f : Merging(all, N, f)
    OBVIOUS
  <2> DEFINE g == [n \in 0 .. N + 1 |-> IF n = N + 1 THEN AddUnseen(f[N], all[N + 1]) ELSE f[n]]
             h == [n \in 0 .. N + 1 |-> IF n = 0 THEN <<>> ELSE AddUnseen(g[n - 1], all[n])]
  <2>2. \A n \in 0 .. N : g[n] = f[n]
    OBVIOUS
  <2>3. g[N + 1] = AddUnseen(g[N], all[N + 1])
    OBVIOUS
  <2>4. ASSUME NEW n \in 0 .. N + 1 PROVE g[n] = IF n = 0 THEN <<>> ELSE AddUnseen(g[n - 1], all[n])
    <3>1. CASE n = N + 1
      BY <2>3, <3>1
    <3>2. CASE n # N + 1
      <4>1. f[n] = IF n = 0 THEN <<>> ELSE AddUnseen(f[n - 1], all[n])
        BY <2>1, <3>2 DEF Merging
      <4>2. n \in 0 .. N /\ (n # 0 => n - 1 \in 0 .. N)
        BY <3>2
      <4> HIDE DEF g
      <4> QED BY <2>2, <4>1, <4>2
    <3> QED BY <3>1, <3>2
  <2>5. g = h
    BY <2>4
  <2>6. Merging(all, N + 1, g)
    BY <2>5 DEF Merging
  <2> QED BY <2>6
<1>3. Nat \subseteq S
  <2> HIDE DEF S
  <2> QED BY <1>1, <1>2, Induction
<1> QED BY <1>3

LEMMA MergeUnfolds ==
  ASSUME NEW current \in Seq(Lead), NEW old \in Seq(Lead)
  PROVE  \E f : /\ Merging(current \o old, Len(current \o old), f)
                /\ Merge(current, old) = f[Len(current \o old)]
<1> DEFINE all == current \o old
           f == CHOOSE allLeads :
                  allLeads = [n \in 0 .. Len(all) |->
                                IF n = 0 THEN <<>> ELSE AddUnseen(allLeads[n - 1], all[n])]
<1>1. Merge(current, old) = f[Len(all)]
  BY DEF Merge, FirstOfEach
<1>2. Len(all) \in Nat
  OBVIOUS
<1>3. \E g : Merging(all, Len(all), g)
  <2> HIDE DEF all
  <2> QED BY <1>2, MergingExists
<1>4. Merging(all, Len(all), f)
  BY <1>3, Zenon DEF Merging
<1> QED BY <1>1, <1>4

\* One turn of the loops.
LEMMA AddUnseenFacts ==
  ASSUME NEW rows \in Seq(Lead), NEW l \in Lead, NoUrlTwice(rows)
  PROVE  /\ AddUnseen(rows, l) \in Seq(Lead)
         /\ NoUrlTwice(AddUnseen(rows, l))
         /\ ToSet(rows) \subseteq ToSet(AddUnseen(rows, l))
         /\ \E a \in ToSet(AddUnseen(rows, l)) : SameUrl(a, l)
         /\ \A a \in ToSet(AddUnseen(rows, l)) :
              a \in ToSet(rows) \/ (a = l /\ \A seen \in ToSet(rows) : ~SameUrl(seen, l))
<1>1. CASE \E seen \in ToSet(rows) : SameUrl(seen, l)
  BY <1>1 DEF AddUnseen
<1>2. CASE ~ \E seen \in ToSet(rows) : SameUrl(seen, l)
  <2> DEFINE all == Append(rows, l)
  <2>1. AddUnseen(rows, l) = all
    BY <1>2 DEF AddUnseen
  <2>2. /\ all \in Seq(Lead) /\ Len(all) = Len(rows) + 1 /\ all[Len(rows) + 1] = l
        /\ \A i \in 1 .. Len(rows) : all[i] = rows[i]
        /\ DOMAIN all = 1 .. Len(rows) + 1 /\ DOMAIN rows = 1 .. Len(rows) /\ Len(rows) \in Nat
    OBVIOUS
  <2>3. \A i \in 1 .. Len(rows) : ~SameUrl(rows[i], l)
    BY <1>2, <2>2 DEF ToSet
  <2> HIDE DEF all
  <2>4. NoUrlTwice(all)
    <3> SUFFICES ASSUME NEW i \in 1 .. Len(rows) + 1, NEW j \in 1 .. Len(rows) + 1, i # j
                 PROVE  ~SameUrl(all[i], all[j])
      BY <2>2 DEF NoUrlTwice
    <3>1. CASE i \in 1 .. Len(rows) /\ j \in 1 .. Len(rows)
      BY <2>2, <3>1 DEF NoUrlTwice
    <3>2. CASE i = Len(rows) + 1 /\ j \in 1 .. Len(rows)
      BY <2>2, <2>3, <3>2 DEF SameUrl
    <3>3. CASE i \in 1 .. Len(rows) /\ j = Len(rows) + 1
      BY <2>2, <2>3, <3>3
    <3> QED BY <2>2, <3>1, <3>2, <3>3
  <2>5. ToSet(rows) \subseteq ToSet(all)
    BY <2>2 DEF ToSet
  <2>6. l \in ToSet(all) /\ SameUrl(l, l)
    BY <2>2 DEF ToSet, SameUrl
  <2>7. ASSUME NEW a \in ToSet(all) PROVE a \in ToSet(rows) \/ a = l
    <3>1. PICK i \in 1 .. Len(rows) + 1 : all[i] = a
      BY <2>2 DEF ToSet
    <3> QED BY <2>2, <3>1 DEF ToSet
  <2> QED BY <1>2, <2>1, <2>2, <2>4, <2>5, <2>6, <2>7
<1> QED BY <1>1, <1>2

\* rows are the first of each URL among the first n of all.
FirstOfEachIn(all, n, rows) ==
  /\ \A i \in 1 .. n : \E a \in ToSet(rows) : SameUrl(a, all[i])
  /\ \A a \in ToSet(rows) : \E i \in 1 .. n : a = all[i] /\ \A k \in 1 .. i - 1 : ~SameUrl(all[k], a)

LEMMA FirstOfEachStep ==
  ASSUME NEW all \in Seq(Lead), NEW n \in Nat, n + 1 <= Len(all),
         NEW rows \in Seq(Lead), NoUrlTwice(rows), FirstOfEachIn(all, n, rows)
  PROVE  /\ AddUnseen(rows, all[n + 1]) \in Seq(Lead)
         /\ NoUrlTwice(AddUnseen(rows, all[n + 1]))
         /\ FirstOfEachIn(all, n + 1, AddUnseen(rows, all[n + 1]))
<1>1. PICK l \in Lead : l = all[n + 1]
  OBVIOUS
<1> DEFINE more == AddUnseen(rows, l)
<1>2. /\ more \in Seq(Lead) /\ NoUrlTwice(more) /\ ToSet(rows) \subseteq ToSet(more)
      /\ \E a \in ToSet(more) : SameUrl(a, l)
      /\ \A a \in ToSet(more) : a \in ToSet(rows) \/ (a = l /\ \A seen \in ToSet(rows) : ~SameUrl(seen, l))
  BY AddUnseenFacts
<1> HIDE DEF more
<1>3. ASSUME NEW i \in 1 .. n + 1 PROVE \E a \in ToSet(more) : SameUrl(a, all[i])
  <2>1. CASE i = n + 1
    BY <1>1, <1>2, <2>1
  <2>2. CASE i \in 1 .. n
    BY <1>2, <2>2 DEF FirstOfEachIn
  <2> QED BY <2>1, <2>2
<1>4. ASSUME NEW a \in ToSet(more)
      PROVE  \E i \in 1 .. n + 1 : a = all[i] /\ \A k \in 1 .. i - 1 : ~SameUrl(all[k], a)
  <2>1. CASE a \in ToSet(rows)
    <3>1. PICK i \in 1 .. n : a = all[i] /\ \A k \in 1 .. i - 1 : ~SameUrl(all[k], a)
      BY <2>1 DEF FirstOfEachIn
    <3> QED BY <3>1
  <2>2. CASE a = l /\ \A seen \in ToSet(rows) : ~SameUrl(seen, l)
    <3>1. ASSUME NEW k \in 1 .. n PROVE ~SameUrl(all[k], a)
      <4>1. PICK b \in ToSet(rows) : SameUrl(b, all[k])
        BY DEF FirstOfEachIn
      <4> QED BY <2>2, <4>1 DEF SameUrl
    <3>2. n + 1 \in 1 .. n + 1 /\ a = all[n + 1] /\ n + 1 - 1 = n
      BY <1>1, <2>2
    <3> QED BY <3>1, <3>2
  <2> QED BY <1>2, <2>1, <2>2
<1> QED BY <1>1, <1>2, <1>3, <1>4 DEF FirstOfEachIn, more

\* What is written has every URL of both lists and none twice, and the current leads before the old.
LEMMA MergeFacts ==
  ASSUME NEW current \in Seq(Lead), NEW old \in Seq(Lead)
  PROVE  /\ Merge(current, old) \in Seq(Lead)
         /\ NoUrlTwice(Merge(current, old))
         /\ \A l \in ToSet(current) \cup ToSet(old) : \E a \in ToSet(Merge(current, old)) : SameUrl(a, l)
         /\ \A a \in ToSet(Merge(current, old)) :
              /\ a \in ToSet(current) \cup ToSet(old)
              /\ (\E l \in ToSet(current) : SameUrl(a, l)) => a \in ToSet(current)
<1> DEFINE all == current \o old
<1>1. PICK f : Merging(all, Len(all), f) /\ Merge(current, old) = f[Len(all)]
  BY MergeUnfolds
<1>2. /\ all \in Seq(Lead) /\ Len(all) \in Nat /\ Len(all) = Len(current) + Len(old)
      /\ \A i \in 1 .. Len(current) : all[i] = current[i]
      /\ \A i \in 1 .. Len(old) : all[Len(current) + i] = old[i]
  OBVIOUS
<1>3. /\ Len(current) \in Nat /\ Len(old) \in Nat
      /\ DOMAIN current = 1 .. Len(current) /\ DOMAIN old = 1 .. Len(old)
  OBVIOUS
<1> HIDE DEF all
<1> DEFINE S == {n \in Nat : n <= Len(all) => f[n] \in Seq(Lead) /\ NoUrlTwice(f[n]) /\ FirstOfEachIn(all, n, f[n])}
<1>4. 0 \in S
  <2>1. f[0] = <<>>
    BY <1>1, <1>2 DEF Merging
  <2>2. <<>> \in Seq(Lead) /\ NoUrlTwice(<<>>) /\ FirstOfEachIn(all, 0, <<>>)
    BY DEF NoUrlTwice, FirstOfEachIn, ToSet
  <2> QED BY <2>1, <2>2
<1>5. ASSUME NEW n \in S PROVE n + 1 \in S
  <2> SUFFICES ASSUME n + 1 <= Len(all)
               PROVE  f[n + 1] \in Seq(Lead) /\ NoUrlTwice(f[n + 1]) /\ FirstOfEachIn(all, n + 1, f[n + 1])
    OBVIOUS
  <2>1. n \in Nat /\ f[n] \in Seq(Lead) /\ NoUrlTwice(f[n]) /\ FirstOfEachIn(all, n, f[n])
    BY <1>2
  <2>2. f[n + 1] = AddUnseen(f[n], all[n + 1])
    BY <1>1, <1>2, <2>1 DEF Merging
  <2>3. ASSUME NEW rows, rows = f[n]
        PROVE  /\ AddUnseen(rows, all[n + 1]) \in Seq(Lead)
               /\ NoUrlTwice(AddUnseen(rows, all[n + 1]))
               /\ FirstOfEachIn(all, n + 1, AddUnseen(rows, all[n + 1]))
    BY <1>2, <2>1, <2>3, FirstOfEachStep
  <2> HIDE DEF S
  <2> QED BY <2>2, <2>3
<1>6. Len(all) \in S
  <2> HIDE DEF S
  <2> QED BY <1>2, <1>4, <1>5, Induction
<1> DEFINE merged == f[Len(all)]
<1>7. merged \in Seq(Lead) /\ NoUrlTwice(merged) /\ FirstOfEachIn(all, Len(all), merged)
  BY <1>2, <1>6
<1> HIDE DEF S, merged
<1>8. ASSUME NEW l \in ToSet(current) \cup ToSet(old) PROVE \E a \in ToSet(merged) : SameUrl(a, l)
  <2>1. \E i \in 1 .. Len(all) : all[i] = l
    <3>1. CASE l \in ToSet(current)
      BY <1>2, <1>3, <3>1 DEF ToSet
    <3>2. CASE l \in ToSet(old)
      <4>1. PICK i \in 1 .. Len(old) : old[i] = l
        BY <1>3, <3>2 DEF ToSet
      <4>2. Len(current) + i \in 1 .. Len(all) /\ all[Len(current) + i] = l
        BY <1>2, <1>3, <4>1
      <4> QED BY <4>2
    <3> QED BY <3>1, <3>2
  <2> QED BY <1>7, <2>1 DEF FirstOfEachIn
<1>9. ASSUME NEW a \in ToSet(merged)
      PROVE  /\ a \in ToSet(current) \cup ToSet(old)
             /\ (\E l \in ToSet(current) : SameUrl(a, l)) => a \in ToSet(current)
  <2>1. PICK i \in 1 .. Len(all) : a = all[i] /\ \A k \in 1 .. i - 1 : ~SameUrl(all[k], a)
    BY <1>7 DEF FirstOfEachIn
  <2>2. CASE i <= Len(current)
    <3>1. i \in DOMAIN current /\ a = current[i]
      BY <1>2, <1>3, <2>1, <2>2
    <3>2. a \in ToSet(current)
      BY <3>1 DEF ToSet
    <3> QED BY <3>2
  <2>3. CASE i > Len(current)
    <3>1. i - Len(current) \in 1 .. Len(old) /\ Len(current) + (i - Len(current)) = i
      BY <1>2, <1>3, <2>3
    <3>2. a = old[i - Len(current)]
      BY <1>2, <2>1, <3>1
    <3>3. a \in ToSet(old)
      BY <1>3, <3>1, <3>2 DEF ToSet
    <3>4. ASSUME NEW l \in ToSet(current) PROVE ~SameUrl(a, l)
      <4>1. PICK k \in 1 .. Len(current) : current[k] = l
        BY <1>3 DEF ToSet
      <4>2. k \in 1 .. i - 1 /\ all[k] = l
        BY <1>2, <1>3, <2>3, <4>1
      <4> QED BY <2>1, <4>2 DEF SameUrl
    <3> QED BY <3>3, <3>4
  <2> QED BY <1>2, <1>3, <2>2, <2>3
<1> QED BY <1>1, <1>7, <1>8, <1>9 DEF merged

--------------------------------------------------------------------------------
(* Types.                                                                     *)

\* Whatever a row was, it reads back as one without commas; one without commas reads back as it was.
LEMMA ParsedFacts ==
  ASSUME NEW row \in Lead
  PROVE  /\ Parsed(row) \in Lead
         /\ Intact(Parsed(row))
         /\ Intact(row) => Parsed(row) = row
<1> DEFINE title == row.title
           url == row.url
           texts == title \o url
<1>1. /\ title \in Seq(Text) /\ Len(title) \in Nat /\ Len(title) >= 1
      /\ url \in Seq(Text) /\ Len(url) \in Nat /\ Len(url) >= 1
      /\ row = [title |-> title, url |-> url]
  BY DEF Lead
<1>2. Parsed(row) = [title |-> <<texts[1]>>, url |-> <<texts[2]>>]
  BY DEF Parsed
<1> HIDE DEF title, url
<1>3. texts[1] \in Text /\ texts[2] \in Text
  BY <1>1
<1>4. Len(title) = 1 /\ Len(url) = 1 => <<texts[1]>> = title /\ <<texts[2]>> = url
  <2> SUFFICES ASSUME Len(title) = 1, Len(url) = 1 PROVE <<texts[1]>> = title /\ <<texts[2]>> = url
    OBVIOUS
  <2>1. texts[1] = title[1] /\ texts[2] = url[1]
    <3>1. ASSUME NEW s \in Seq(Text), NEW t \in Seq(Text), Len(s) = 1, Len(t) = 1
          PROVE  (s \o t)[1] = s[1] /\ (s \o t)[2] = t[1]
      <4>1. 1 \in 1 .. Len(s) /\ 2 \in Len(s) + 1 .. Len(s) + Len(t) /\ 2 - Len(s) = 1
        BY <3>1
      <4> QED BY <3>1, <4>1, ConcatProperties
    <3> QED BY <1>1, <3>1
  <2>2. ASSUME NEW s \in Seq(Text), Len(s) = 1 PROVE <<s[1]>> = s
    BY <2>2, SeqEqual
  <2> HIDE DEF texts
  <2> QED BY <1>1, <2>1, <2>2
<1> HIDE DEF texts
<1>5. ASSUME NEW a \in Text, NEW b \in Text, NEW read, read = [title |-> <<a>>, url |-> <<b>>]
      PROVE  read \in Lead /\ Intact(read)
  <2>1. <<a>> \in Seq(Text) \ {<<>>} /\ <<b>> \in Seq(Text) \ {<<>>} /\ Len(<<a>>) = 1 /\ Len(<<b>>) = 1
    OBVIOUS
  <2> QED BY <1>5, <2>1 DEF Lead, Intact
<1>6. Parsed(row) \in Lead /\ Intact(Parsed(row))
  BY <1>2, <1>3, <1>5
<1>7. Intact(row) => Len(title) = 1 /\ Len(url) = 1
  BY DEF Intact, title, url
<1> QED BY <1>1, <1>2, <1>4, <1>6, <1>7

LEMMA RereadFacts ==
  ASSUME NEW rows \in Seq(Lead)
  PROVE  /\ Reread(rows) \in Seq(Lead)
         /\ \A row \in ToSet(Reread(rows)) : Intact(row)
         /\ \A row \in ToSet(rows) : Intact(row) => row \in ToSet(Reread(rows))
<1>1. \A i \in 1 .. Len(rows) : rows[i] \in Lead
  OBVIOUS
<1>2. DOMAIN rows = 1 .. Len(rows) /\ Len(rows) \in Nat
  OBVIOUS
<1>3. \A i \in 1 .. Len(rows) : Reread(rows)[i] = Parsed(rows[i])
  BY <1>2 DEF Reread
<1>4. Reread(rows) = [i \in 1 .. Len(rows) |-> Parsed(rows[i])]
  BY <1>2 DEF Reread
<1>5. \A i \in 1 .. Len(rows) : Parsed(rows[i]) \in Lead
  BY <1>1, ParsedFacts
<1>6. Reread(rows) \in Seq(Lead) /\ DOMAIN Reread(rows) = 1 .. Len(rows)
  BY <1>2, <1>4, <1>5
<1>7. ASSUME NEW row \in ToSet(Reread(rows)) PROVE Intact(row)
  <2>1. PICK i \in 1 .. Len(rows) : row = Parsed(rows[i])
    BY <1>3, <1>6 DEF ToSet
  <2> QED BY <1>1, <2>1, ParsedFacts
<1>8. ASSUME NEW row \in ToSet(rows), Intact(row) PROVE row \in ToSet(Reread(rows))
  <2>1. PICK i \in 1 .. Len(rows) : row = rows[i]
    BY <1>2 DEF ToSet
  <2>2. Reread(rows)[i] = row
    BY <1>1, <1>3, <1>8, <2>1, ParsedFacts
  <2> QED BY <1>6, <2>2 DEF ToSet
<1> QED BY <1>6, <1>7, <1>8

LEMMA NormalizeUrlType ==
  ASSUME NEW url \in Seq(Text)
  PROVE  NormalizeUrl(url) \in Seq(Text)
<1>1. \A text \in Text : Lower[text] \in Text /\ Lower[Bare[text]] \in Text
  BY AgentAssumption DEF AgentAssumption
<1>2. \A i \in 1 .. Len(url) : url[i] \in Text
  OBVIOUS
<1>3. NormalizeUrl(url) = [i \in 1 .. Len(url) |-> Lower[IF i = Len(url) THEN Bare[url[i]] ELSE url[i]]]
  BY DEF NormalizeUrl
<1> QED BY <1>1, <1>2, <1>3

LEMMA TopType ==
  ASSUME NEW p \in Pages
  PROVE  Top(p.posts) \in Seq(Lead)
<1>1. p.posts \in Seq(Lead) /\ TopN \in Nat
  BY AgentAssumption DEF AgentAssumption
<1> QED BY <1>1 DEF Top

\* The lists and pages at hand, and the rest of TypeOK.
ListsOK == \A s \in {leads, existing, file, loaded.rows} : s \in Seq(Lead)
PagesOK == /\ page \in Pages
           /\ DOMAIN snapshot = {"url", "elements", "confidence"}
           /\ snapshot.url \in {p.url : p \in Pages}
RequestsOK == acted \cup permitted \subseteq
                {LaunchBrowser, NavigateTo(Target), ReadFile(LeadsFile), WriteFile(LeadsFile), WriteFile("/etc/passwd")}
SavedOK == saved \subseteq Seq(Text)
FlagsOK == /\ failing \in BOOLEAN /\ closeFailed \in BOOLEAN
           /\ steady \in BOOLEAN /\ loaded.read \in BOOLEAN
           /\ changes \in 0 .. MaxChanges
           /\ runs \in 0 .. MaxRuns

TypeInv == ResourceInv /\ ListsOK /\ SavedOK /\ PagesOK /\ RequestsOK /\ FlagsOK

LEMMA TypeInit == Init => TypeInv
<1> SUFFICES ASSUME Init PROVE TypeInv
  OBVIOUS
<1>1. ResourceInv
  BY DEF Init, ResourceInv, ResourcesReleased, Idle, Active, Browsing
<1>2. ListsOK
  <2>1. <<>> \in Seq(Lead) /\ file \in Seq(Lead)
    BY AgentAssumption DEF AgentAssumption, Init
  <2>2. leads = <<>> /\ existing = <<>> /\ loaded.rows = <<>>
    BY DEF Init
  <2> QED BY <2>1, <2>2 DEF ListsOK
<1>3. PagesOK
  BY AgentAssumption DEF AgentAssumption, Init, PagesOK, NoSnapshot
<1>4. RequestsOK
  BY DEF Init, RequestsOK
<1>5. FlagsOK
  <2>1. /\ failing = FALSE /\ loaded.read = FALSE /\ steady = FALSE /\ closeFailed = FALSE
        /\ changes = 0 /\ runs = 0
    BY DEF Init
  <2>2. failing \in BOOLEAN /\ loaded.read \in BOOLEAN /\ steady \in BOOLEAN /\ closeFailed \in BOOLEAN
    BY <2>1, Zenon
  <2>3. changes \in 0 .. MaxChanges /\ runs \in 0 .. MaxRuns
    BY <2>1, AgentAssumption DEF AgentAssumption
  <2> QED BY <2>2, <2>3 DEF FlagsOK
<1>6. SavedOK
  BY DEF Init, SavedOK
<1> QED BY <1>1, <1>2, <1>3, <1>4, <1>5, <1>6 DEF TypeInv

\* The steps that read, compare, merge and write are the ones that make lists.
LEMMA ListsStep ==
  ASSUME TypeInv, [Next]_vars
  PROVE  ListsOK'
<1>0. ListsOK /\ page \in Pages
  BY DEF TypeInv, PagesOK
<1>1. CASE Start
  <2>1. <<>> \in Seq(Lead) /\ leads' = <<>> /\ existing' = <<>> /\ file' = file /\ loaded'.rows = <<>>
    BY <1>1 DEF Start, kept
  <2> QED BY <1>0, <2>1 DEF ListsOK
<1>2. CASE ExtractWithLLM
  BY <1>0, <1>2, AgentAssumption DEF AgentAssumption, ExtractWithLLM, Goes, Throws, ledger, kept, ListsOK
<1>3. CASE ExtractFromDOM
  BY <1>0, <1>3, TopType DEF ExtractFromDOM, Goes, Throws, ledger, kept, ListsOK
<1>4. CASE AskRead \/ ReadLeads
  <2>1. UNCHANGED <<leads, file>>
    BY <1>4 DEF AskRead, ReadLeads, kept
  <2>2. \/ UNCHANGED <<existing, loaded>>
        \/ \E rows \in {<<>>, Reread(file)} : existing' = rows /\ loaded'.rows = file
    BY <1>4 DEF AskRead, ReadLeads, Loads
  <2>3. <<>> \in Seq(Lead) /\ Reread(file) \in Seq(Lead)
    BY <1>0, RereadFacts DEF ListsOK
  <2> QED BY <1>0, <2>1, <2>2, <2>3 DEF ListsOK
<1>5. CASE WriteLeads
  <2> DEFINE rows == Merge(leads, existing)
  <2>1. rows \in Seq(Lead)
    BY <1>0, MergeFacts DEF ListsOK
  <2>2. \A n \in 0 .. Len(rows) : SubSeq(rows, 1, n) \in Seq(Lead)
    <3> HIDE DEF rows
    <3> QED BY <2>1
  <2>3. file' = rows \/ file' \in {file} \cup {SubSeq(rows, 1, n) : n \in 0 .. Len(rows)}
    BY <1>5 DEF WriteLeads
  <2>4. file' \in Seq(Lead)
    <3> HIDE DEF rows
    <3> QED BY <1>0, <2>1, <2>2, <2>3 DEF ListsOK
  <2> QED BY <1>0, <1>5, <2>4 DEF WriteLeads, locals, ListsOK
<1>6. CASE OthersAdd
  <2>1. PICK row \in Lead : file' = Append(file, row)
    BY <1>6, AgentAssumption DEF AgentAssumption, OthersAdd
  <2>2. file' \in Seq(Lead)
    BY <1>0, <2>1 DEF ListsOK
  <2> QED BY <1>0, <1>6, <2>2 DEF OthersAdd, locals, ledger, kept, ListsOK
<1>7. CASE UNCHANGED <<leads, existing, file, loaded>>
  BY <1>0, <1>7 DEF ListsOK
<1>8. CASE \/ InitializeTracer \/ AskLaunch \/ StartBrowser \/ AskNavigate \/ Navigate \/ AskLLM
           \/ CheckUrl \/ CheckElements \/ SnapshotUrl \/ SnapshotElements \/ Verify \/ AskWrite \/ AskDemo
           \/ CloseBrowser \/ CloseTracer \/ PageChanges \/ UNCHANGED vars
  BY <1>7, <1>8 DEF InitializeTracer, AskLaunch, StartBrowser, AskNavigate, Navigate, AskLLM, CheckUrl, CheckElements,
                    Eventually, SnapshotUrl, SnapshotElements, Verify, AskWrite, AskDemo, CloseBrowser, CloseTracer,
                    PageChanges, vars, locals, ledger, kept
<1> QED BY <1>1, <1>2, <1>3, <1>4, <1>5, <1>6, <1>8 DEF Next, Agent

LEMMA SavedType ==
  ASSUME TypeInv, [Next]_vars
  PROVE  SavedOK'
<1>0. SavedOK /\ leads \in Seq(Lead)
  BY DEF TypeInv, ListsOK
<1>1. CASE WriteLeads
  <2>1. \A l \in ToSet(leads) : NormalizeUrl(l.url) \in Seq(Text)
    <3>1. ASSUME NEW l \in ToSet(leads) PROVE l.url \in Seq(Text)
      <4>1. l \in Lead
        BY <1>0 DEF ToSet
      <4> QED BY <4>1 DEF Lead
    <3> QED BY <3>1, NormalizeUrlType
  <2>2. saved' \subseteq saved \cup {NormalizeUrl(l.url) : l \in ToSet(leads)}
    BY <1>1 DEF WriteLeads, SavedNow
  <2> QED BY <1>0, <2>1, <2>2 DEF SavedOK
<1>2. CASE saved' = saved
  BY <1>0, <1>2 DEF SavedOK
<1>3. CASE ~WriteLeads
  BY <1>2, <1>3 DEF Next, Agent, Start, InitializeTracer, AskLaunch, StartBrowser, AskNavigate, Navigate, AskLLM,
                    CheckUrl, CheckElements, Eventually, SnapshotUrl, SnapshotElements, Verify, ExtractWithLLM,
                    ExtractFromDOM, AskRead, ReadLeads, AskWrite, AskDemo, CloseBrowser, CloseTracer, PageChanges,
                    OthersAdd, vars, kept
<1> QED BY <1>1, <1>3

LEMMA PagesStep ==
  ASSUME TypeInv, [Next]_vars
  PROVE  PagesOK'
<1>0. PagesOK
  BY DEF TypeInv
<1>1. CASE Start
  BY <1>1, AgentAssumption DEF AgentAssumption, Start, PagesOK, NoSnapshot
<1>2. CASE Navigate \/ PageChanges
  BY <1>0, <1>2 DEF Navigate, PageChanges, locals, PagesOK
<1>3. CASE SnapshotUrl
  BY <1>0, <1>3 DEF SnapshotUrl, PagesOK
<1>4. CASE SnapshotElements
  <2>1. page' = page
    BY <1>4 DEF SnapshotElements
  <2>2. \/ snapshot' = snapshot
        \/ snapshot' = [snapshot EXCEPT !.elements = Elements(page),
                                        !.confidence = SimulateMLConfidence(snapshot.url, Elements(page))]
    BY <1>4 DEF SnapshotElements
  <2> QED BY <1>0, <2>1, <2>2 DEF PagesOK
<1>5. CASE UNCHANGED <<page, snapshot>>
  BY <1>0, <1>5 DEF PagesOK
<1>6. CASE \/ InitializeTracer \/ AskLaunch \/ StartBrowser \/ AskNavigate \/ AskLLM \/ CheckUrl \/ CheckElements
           \/ Verify \/ ExtractWithLLM \/ ExtractFromDOM \/ AskRead \/ ReadLeads \/ AskWrite \/ WriteLeads \/ AskDemo
           \/ CloseBrowser \/ CloseTracer \/ OthersAdd \/ UNCHANGED vars
  BY <1>5, <1>6 DEF InitializeTracer, AskLaunch, StartBrowser, AskNavigate, AskLLM, CheckUrl, CheckElements, Eventually,
                    Verify, ExtractWithLLM, ExtractFromDOM, AskRead, ReadLeads, AskWrite, WriteLeads, AskDemo,
                    CloseBrowser, CloseTracer, OthersAdd, vars, locals
<1> QED BY <1>1, <1>2, <1>3, <1>4, <1>6 DEF Next, Agent

LEMMA RequestsStep ==
  ASSUME TypeInv, [Next]_vars
  PROVE  RequestsOK'
<1>0. RequestsOK
  BY DEF TypeInv
<1>1. CASE Start
  BY <1>1 DEF Start, RequestsOK
<1>2. CASE AskLaunch \/ AskNavigate \/ AskRead \/ AskWrite \/ AskDemo
  <2>1. acted' = acted
    BY <1>2 DEF AskLaunch, AskNavigate, AskRead, AskWrite, AskDemo
  <2>2. \E request \in {LaunchBrowser, NavigateTo(Target), ReadFile(LeadsFile), WriteFile(LeadsFile),
                        WriteFile("/etc/passwd")} : permitted' \subseteq permitted \cup {request}
    BY <1>2 DEF AskLaunch, AskNavigate, AskRead, AskWrite, AskDemo, Asked
  <2> QED BY <1>0, <2>1, <2>2 DEF RequestsOK
<1>3. CASE StartBrowser \/ Navigate \/ ReadLeads \/ WriteLeads
  BY <1>0, <1>3 DEF StartBrowser, Navigate, ReadLeads, WriteLeads, Acts, RequestsOK
<1>4. CASE UNCHANGED <<acted, permitted>>
  BY <1>0, <1>4 DEF RequestsOK
<1>5. CASE \/ InitializeTracer \/ AskLLM \/ CheckUrl \/ CheckElements \/ SnapshotUrl \/ SnapshotElements \/ Verify
           \/ ExtractWithLLM \/ ExtractFromDOM \/ CloseBrowser \/ CloseTracer \/ PageChanges \/ OthersAdd
           \/ UNCHANGED vars
  BY <1>4, <1>5 DEF InitializeTracer, AskLLM, CheckUrl, CheckElements, Eventually, SnapshotUrl, SnapshotElements, Verify,
                    ExtractWithLLM, ExtractFromDOM, CloseBrowser, CloseTracer, PageChanges, OthersAdd, vars, ledger
<1> QED BY <1>1, <1>2, <1>3, <1>5 DEF Next, Agent

LEMMA FlagsStep ==
  ASSUME TypeInv, [Next]_vars
  PROVE  FlagsOK'
<1>0. FlagsOK /\ {MaxChanges, MaxRuns} \subseteq Nat
  BY AgentAssumption DEF AgentAssumption, TypeInv
<1>1. failing' \in {TRUE, FALSE, failing} /\ closeFailed' \in {TRUE, FALSE, closeFailed}
  <2>1. CASE CloseBrowser \/ CloseTracer
    BY <2>1 DEF CloseBrowser, CloseTracer, CloseFails, Goes, Throws
  <2>2. CASE Start \/ PageChanges \/ OthersAdd \/ UNCHANGED vars
    BY <2>2 DEF Start, PageChanges, OthersAdd, vars, resources
  <2>3. CASE Agent /\ ~ (CloseBrowser \/ CloseTracer)
    <3>1. closeFailed' = closeFailed
      BY <2>3 DEF Agent, InitializeTracer, AskLaunch, StartBrowser, AskNavigate, Navigate, AskLLM, CheckUrl,
                  CheckElements, Eventually, SnapshotUrl, SnapshotElements, Verify, ExtractWithLLM, ExtractFromDOM,
                  AskRead, ReadLeads, AskWrite, WriteLeads, AskDemo, resources
    <3>2. failing' \in {TRUE, failing}
      BY <2>3 DEF Agent, InitializeTracer, AskLaunch, StartBrowser, AskNavigate, Navigate, AskLLM, CheckUrl,
                  CheckElements, Eventually, SnapshotUrl, SnapshotElements, Verify, ExtractWithLLM, ExtractFromDOM,
                  AskRead, ReadLeads, AskWrite, WriteLeads, AskDemo, Loads, Asked, Goes, Throws
    <3> QED BY <3>1, <3>2
  <2> QED BY <2>1, <2>2, <2>3 DEF Next
<1>2. steady' \in {TRUE, FALSE, steady} /\ (loaded' = loaded \/ loaded'.read \in {TRUE, FALSE})
  <2>1. CASE Start \/ AskRead \/ ReadLeads
    <3>1. steady' \in {FALSE, steady}
      BY <2>1 DEF Start, AskRead, ReadLeads
    <3>2. loaded' = loaded \/ \E rows : loaded' = [rows |-> rows, read |-> FALSE] \/ loaded' = [rows |-> rows, read |-> TRUE]
      BY <2>1, Zenon DEF Start, AskRead, ReadLeads, Loads
    <3>3. ASSUME NEW rows, NEW read, loaded' = [rows |-> rows, read |-> read] PROVE loaded'.read = read
      BY <3>3
    <3> QED BY <3>1, <3>2, <3>3, Zenon
  <2>2. CASE SnapshotUrl \/ PageChanges
    BY <2>2 DEF SnapshotUrl, PageChanges, ledger
  <2>3. CASE ~ (Start \/ AskRead \/ ReadLeads \/ SnapshotUrl \/ PageChanges)
    BY <2>3 DEF Next, Agent, InitializeTracer, AskLaunch, StartBrowser, AskNavigate, Navigate, AskLLM, CheckUrl,
                CheckElements, Eventually, SnapshotElements, Verify, ExtractWithLLM, ExtractFromDOM, AskWrite, WriteLeads,
                AskDemo, CloseBrowser, CloseTracer, OthersAdd, vars, ledger
  <2> QED BY <2>1, <2>2, <2>3
<1>3. changes' \in 0 .. MaxChanges /\ runs' \in 0 .. MaxRuns
  <2>1. CASE Start
    BY <1>0, <2>1 DEF Start, FlagsOK
  <2>2. CASE PageChanges \/ OthersAdd
    BY <1>0, <2>2 DEF PageChanges, OthersAdd, FlagsOK
  <2>3. CASE UNCHANGED vars \/ Agent
    <3>1. UNCHANGED <<changes, runs>>
      BY <2>3 DEF Agent, InitializeTracer, AskLaunch, StartBrowser, AskNavigate, Navigate, AskLLM, CheckUrl,
                  CheckElements, Eventually, SnapshotUrl, SnapshotElements, Verify, ExtractWithLLM, ExtractFromDOM,
                  AskRead, ReadLeads, AskWrite, WriteLeads, AskDemo, CloseBrowser, CloseTracer, vars
    <3> QED BY <1>0, <3>1 DEF FlagsOK
  <2> QED BY <2>1, <2>2, <2>3 DEF Next
<1> QED BY <1>0, <1>1, <1>2, <1>3 DEF FlagsOK

LEMMA TypeStep == TypeInv /\ [Next]_vars => TypeInv'
<1> SUFFICES ASSUME TypeInv, [Next]_vars PROVE TypeInv'
  OBVIOUS
<1>1. ResourceInv'
  BY ResourceStep DEF TypeInv
<1> QED BY <1>1, ListsStep, SavedType, PagesStep, RequestsStep, FlagsStep DEF TypeInv

\* Every variable keeps its type; the browser is open whenever the agent uses it.
THEOREM TypeCorrect == Spec => []TypeOK
<1>1. TypeInv => TypeOK
  BY DEF TypeInv, ResourceInv, ListsOK, SavedOK, PagesOK, RequestsOK, FlagsOK, TypeOK, Active, Browsing
<1> QED BY <1>1, TypeInit, TypeStep, PTL DEF Spec

--------------------------------------------------------------------------------
(* Verification.                                                              *)

\* What a page that has stayed put since the snapshot was begun has to do with the snapshot.
SnapshotInv ==
  steady => /\ pc = "snapElements" => snapshot.url = page.url
            /\ pc = "verify" => snapshot.url = page.url /\ snapshot.elements = Elements(page)

TitleLine == [by |-> "any", value |-> "titleline"]

\* A node goes by the class of title lines only if its text or its class says so.
LEMMA QuietNode ==
  ASSUME NEW tag, NEW class, class # "titleline", NEW words, "titleline" \notin words
  PROVE  ~Matches(Node(tag, class, words), TitleLine)
<1> DEFINE el == Node(tag, class, words)
<1>1. el.text = words /\ el.name = {} /\ el.selector = {class}
  BY DEF Node
<1>2. TitleLine.by = "any" /\ TitleLine.value = "titleline"
  BY DEF TitleLine
<1> HIDE DEF el
<1>3. ~Matches(el, TitleLine)
  BY <1>1, <1>2 DEF Matches
<1> QED BY <1>3 DEF el

\* Of three lists in a row, whatever is not in Quiet is in the second, when the others are lists of Quiet.
LEMMA Between ==
  ASSUME NEW Quiet, NEW T, Quiet \subseteq T, NEW before \in Seq(Quiet), NEW lines \in Seq(T), NEW after \in Seq(Quiet)
  PROVE  LET all == before \o lines \o after IN
         \A i \in DOMAIN all : all[i] \notin Quiet => i \in Len(before) + 1 .. Len(before) + Len(lines)
<1> DEFINE front == before \o lines
           all == front \o after
<1>0. /\ before \in Seq(T) /\ after \in Seq(T)
      /\ Len(before) \in Nat /\ Len(lines) \in Nat /\ Len(after) \in Nat
  OBVIOUS
<1>1. /\ front \in Seq(T) /\ Len(front) = Len(before) + Len(lines)
      /\ \A i \in 1 .. Len(before) + Len(lines) : front[i] = IF i <= Len(before) THEN before[i] ELSE lines[i - Len(before)]
  BY <1>0, ConcatProperties
<1> HIDE DEF front
<1>5. front \in Seq(T) /\ Len(front) \in Nat
  BY <1>0, <1>1
<1>2. /\ all \in Seq(T) /\ Len(all) = Len(front) + Len(after)
      /\ \A i \in 1 .. Len(front) + Len(after) : all[i] = IF i <= Len(front) THEN front[i] ELSE after[i - Len(front)]
  BY <1>0, <1>5, ConcatProperties
<1>3. DOMAIN all = 1 .. Len(all)
  BY <1>2
<1> HIDE DEF all
<1>4. ASSUME NEW i \in DOMAIN all, all[i] \notin Quiet PROVE i \in Len(before) + 1 .. Len(before) + Len(lines)
  <2>1. CASE i <= Len(before)
    <3>1. all[i] = before[i] /\ i \in 1 .. Len(before)
      BY <1>0, <1>1, <1>2, <1>3, <2>1
    <3> QED BY <1>4, <3>1, ElementOfSeq
  <2>2. CASE i > Len(front)
    <3>1. all[i] = after[i - Len(front)] /\ i - Len(front) \in 1 .. Len(after)
      BY <1>0, <1>1, <1>2, <1>3, <2>2
    <3> QED BY <1>4, <3>1, ElementOfSeq
  <2> QED BY <1>0, <1>1, <1>2, <1>3, <2>1, <2>2
<1> QED BY <1>4 DEF all, front

\* The elements that match the class of title lines are no more than the posts, unless the words of the page have it.
LEMMA TitleLines ==
  ASSUME NEW p \in Pages, "titleline" \notin PageWords(p),
         NEW M, M = {i \in DOMAIN Elements(p) : Matches(Elements(p)[i], TitleLine)}
  PROVE  Cardinality(M) <= Len(p.posts) /\ Cardinality(M) \in Nat
<1> DEFINE N == Len(p.posts)
           begins == p.header \cup (IF p.posts = <<>> THEN {} ELSE TitleWords(p.posts[1]))
           Each(tag, class) == [i \in DOMAIN p.posts |-> Node(tag, class, TitleWords(p.posts[i]))]
           top == Shown(Node("table", "table", begins))
           bar == Shown(Node("td", "pagetop", p.header))
           rows == Each("tr", "athing")
           lines == Each("span", "titleline")
           links == Each("a", "a")
           T == {Node("table", "table", begins), Node("td", "pagetop", p.header)}
                  \cup {rows[i] : i \in 1 .. N} \cup {lines[i] : i \in 1 .. N} \cup {links[i] : i \in 1 .. N}
           Quiet == {el \in T : ~Matches(el, TitleLine)}
<1>1. DOMAIN p.posts = 1 .. N /\ N \in Nat
  BY AgentAssumption DEF AgentAssumption
<1>2. /\ "titleline" \notin p.header
      /\ \A i \in 1 .. N : "titleline" \notin TitleWords(p.posts[i])
  BY <1>1 DEF PageWords, ToSet
<1>3. "titleline" \notin begins
  <2>1. p.posts # <<>> => 1 \in 1 .. N
    BY AgentAssumption DEF AgentAssumption
  <2> QED BY <1>2, <2>1
<1>4. Elements(p) = top \o bar \o rows \o lines \o links
  BY DEF Elements
<1> HIDE DEF begins
<1>5. Node("table", "table", begins) \in Quiet /\ Node("td", "pagetop", p.header) \in Quiet
  BY <1>2, <1>3, QuietNode
<1>6. \A i \in 1 .. N : rows[i] \in Quiet /\ links[i] \in Quiet
  <2> SUFFICES ASSUME NEW i \in 1 .. N PROVE rows[i] \in Quiet /\ links[i] \in Quiet
    OBVIOUS
  <2>1. rows[i] = Node("tr", "athing", TitleWords(p.posts[i])) /\ links[i] = Node("a", "a", TitleWords(p.posts[i]))
    BY <1>1
  <2>2. rows[i] \in T /\ links[i] \in T
    OBVIOUS
  <2> HIDE DEF T, rows, links
  <2> QED BY <1>2, <2>1, <2>2, QuietNode
<1>7. \A i \in 1 .. N : lines[i] \in T
  OBVIOUS
<1>8. Quiet \subseteq T
  OBVIOUS
<1>9. \A el : el \in T /\ Matches(el, TitleLine) => el \notin Quiet
  OBVIOUS
<1>10. /\ rows = [i \in 1 .. N |-> rows[i]] /\ lines = [i \in 1 .. N |-> lines[i]] /\ links = [i \in 1 .. N |-> links[i]]
  BY <1>1
<1> HIDE DEF T, Quiet, rows, lines, links
<1>11. /\ rows \in Seq(Quiet) /\ links \in Seq(Quiet)
       /\ lines \in Seq(T) /\ Len(lines) = N
  <2>1. ASSUME NEW S, NEW n \in Nat, NEW s, s = [i \in 1 .. n |-> s[i]], \A i \in 1 .. n : s[i] \in S
        PROVE  s \in Seq(S) /\ Len(s) = n
    BY <2>1
  <2> HIDE DEF N
  <2>2. rows \in Seq(Quiet)
    BY <1>1, <1>6, <1>10, <2>1
  <2>3. links \in Seq(Quiet)
    BY <1>1, <1>6, <1>10, <2>1
  <2>4. lines \in Seq(T) /\ Len(lines) = N
    BY <1>1, <1>7, <1>10, <2>1
  <2> QED BY <2>2, <2>3, <2>4
<1>12. top \in Seq(Quiet) /\ bar \in Seq(Quiet)
  BY <1>5 DEF Shown
<1> HIDE DEF top, bar
<1> DEFINE before == top \o bar \o rows
<1>13. before \in Seq(Quiet) /\ Len(before) \in Nat
  BY <1>11, <1>12
<1> HIDE DEF before
<1>14. \A i \in DOMAIN (before \o lines \o links) :
         (before \o lines \o links)[i] \notin Quiet => i \in Len(before) + 1 .. Len(before) + N
  BY <1>8, <1>11, <1>13, Between
<1>15. Elements(p) = before \o lines \o links
  BY <1>4 DEF before
<1>16. Elements(p) \in Seq(T)
  <2>1. before \in Seq(T) /\ links \in Seq(T)
    BY <1>8, <1>11, <1>13
  <2> QED BY <1>11, <1>15, <2>1
<1> DEFINE J == Len(before) + 1 .. Len(before) + N
<1>17. M \in SUBSET J
  <2> SUFFICES ASSUME NEW i \in M PROVE i \in J
    OBVIOUS
  <2>1. i \in DOMAIN Elements(p) /\ Matches(Elements(p)[i], TitleLine)
    OBVIOUS
  <2>2. Elements(p)[i] \in T
    BY <1>16, <2>1
  <2>3. Elements(p)[i] \notin Quiet
    BY <1>9, <2>1, <2>2
  <2> QED BY <1>14, <1>15, <2>1, <2>3
<1>19. IsFiniteSet(J) /\ Cardinality(J) = N
  <2>1. ASSUME NEW k \in Nat, NEW n \in Nat PROVE IsFiniteSet(k + 1 .. k + n) /\ Cardinality(k + 1 .. k + n) = n
    <3>1. k + 1 \in Int /\ k + n \in Int
      OBVIOUS
    <3> QED BY <3>1, FS_Interval
  <2> QED BY <1>1, <1>13, <2>1
<1> HIDE DEF J
<1>18. Cardinality(M) <= N /\ IsFiniteSet(M)
  BY <1>17, <1>19, FS_Subset
<1>20. Cardinality(M) \in Nat
  BY <1>18, FS_CardinalityType
<1> QED BY <1>18, <1>20

\* Whoever is let through to extraction has as many title lines as were asked for.
LEMMA VerifiedPage ==
  ASSUME TypeInv, SnapshotInv, steady, Verify, pc' = "extract", "titleline" \notin PageWords(page)
  PROVE  "news.ycombinator.com" \in page.url /\ Len(page.posts) >= TopN
<1> DEFINE M == {i \in DOMAIN Elements(page) : Matches(Elements(page)[i], TitleLine)}
<1>1. page \in Pages /\ snapshot.url = page.url /\ snapshot.elements = Elements(page)
  BY DEF TypeInv, PagesOK, SnapshotInv, Verify
<1>2. Passed({UrlContains(snapshot, "news.ycombinator.com", TRUE),
              DomContains(snapshot, "Show", TRUE),
              ElementExists(snapshot, TitleLine, TopN, TRUE),
              ConfidenceAbove(snapshot, 70, FALSE)})
  BY DEF Verify, Throws, TitleLine
<1>3. UrlContains(snapshot, "news.ycombinator.com", TRUE).passed
  BY <1>2 DEF Passed, UrlContains, Assertion
<1>4. ElementExists(snapshot, TitleLine, TopN, TRUE).passed
  BY <1>2 DEF Passed, ElementExists, Assertion
<1>5. "news.ycombinator.com" \in page.url
  BY <1>1, <1>3 DEF UrlContains, Assertion
<1>6. Cardinality(M) >= TopN
  BY <1>1, <1>4 DEF ElementExists, Assertion
<1>7. Cardinality(M) <= Len(page.posts) /\ Cardinality(M) \in Nat /\ Len(page.posts) \in Nat /\ TopN \in Nat
  <2>1. page.posts \in Seq(Lead) /\ TopN \in Nat
    BY <1>1, AgentAssumption DEF AgentAssumption
  <2> QED BY <1>1, <2>1, TitleLines
<1> QED BY <1>5, <1>6, <1>7

LEMMA SnapshotStep ==
  ASSUME TypeInv, SnapshotInv, ExtractsFromVerified, [Next]_vars
  PROVE  SnapshotInv' /\ ExtractsFromVerified'
<1>1. CASE SnapshotUrl
  <2>1. pc' = "snapElements" /\ page' = page /\ snapshot' = [snapshot EXCEPT !.url = page.url]
    BY <1>1 DEF SnapshotUrl, Goes
  <2>2. snapshot'.url = page.url
    BY <2>1 DEF TypeInv, PagesOK
  <2> QED BY <2>1, <2>2 DEF SnapshotInv, ExtractsFromVerified
<1>2. CASE SnapshotElements
  <2>1. UNCHANGED <<page, steady>> /\ pc = "snapElements"
    BY <1>2 DEF SnapshotElements
  <2>2. CASE pc' = "closeBrowser"
    BY <2>2 DEF SnapshotInv, ExtractsFromVerified
  <2>3. CASE pc' = "verify" /\ snapshot' = [snapshot EXCEPT !.elements = Elements(page),
                                      !.confidence = SimulateMLConfidence(snapshot.url, Elements(page))]
    <3>1. snapshot'.url = snapshot.url /\ snapshot'.elements = Elements(page)
      BY <2>3 DEF TypeInv, PagesOK
    <3>2. Elements(page)' = Elements(page)
      BY <2>1 DEF Elements
    <3> QED BY <2>1, <2>3, <3>1, <3>2 DEF SnapshotInv, ExtractsFromVerified
  <2> QED BY <1>2, <2>2, <2>3 DEF SnapshotElements, Goes, Throws
<1>3. CASE Verify
  <2>1. UNCHANGED <<page, steady>> /\ pc' \in {"extract", "closeBrowser"} /\ page \in Pages
    BY <1>3 DEF Verify, Goes, Throws, TypeInv, PagesOK
  <2>2. (pc' = "extract" /\ steady /\ "titleline" \notin PageWords(page)) =>
          "news.ycombinator.com" \in page.url /\ Len(page.posts) >= TopN
    BY <1>3, <2>1, VerifiedPage
  <2> QED BY <2>1, <2>2 DEF SnapshotInv, ExtractsFromVerified
<1>4. CASE PageChanges
  BY <1>4 DEF PageChanges, SnapshotInv, ExtractsFromVerified
<1>5. CASE UNCHANGED <<pc, page, steady, snapshot>>
  BY <1>5 DEF SnapshotInv, ExtractsFromVerified, Elements
<1>6. CASE OthersAdd \/ UNCHANGED vars
  BY <1>5, <1>6 DEF OthersAdd, vars, locals
<1>7. CASE pc' \notin {"snapElements", "verify", "extract"}
  BY <1>7 DEF SnapshotInv, ExtractsFromVerified
<1>8. CASE \/ Start \/ InitializeTracer \/ AskLaunch \/ StartBrowser \/ AskNavigate \/ Navigate \/ AskLLM \/ CheckUrl
           \/ CheckElements \/ ExtractWithLLM \/ ExtractFromDOM \/ AskRead \/ ReadLeads \/ AskWrite \/ WriteLeads
           \/ AskDemo \/ CloseBrowser \/ CloseTracer
  BY <1>7, <1>8 DEF Start, InitializeTracer, AskLaunch, StartBrowser, AskNavigate, Navigate, AskLLM, CheckUrl,
                    CheckElements, Eventually, ExtractWithLLM, ExtractFromDOM, AskRead, ReadLeads, AskWrite, WriteLeads,
                    AskDemo, CloseBrowser, CloseTracer, CloseFails, Loads, Asked, Goes, Throws
<1> QED BY <1>1, <1>2, <1>3, <1>4, <1>6, <1>8 DEF Next, Agent

\* Leads are extracted from a page of Hacker News with enough posts on it, whatever the pages, unless the page has
\* changed since the snapshot was begun or has the name of the posts' class among its words.
THEOREM ExtractionIsVerified == Spec => []ExtractsFromVerified
<1>1. Init => SnapshotInv /\ ExtractsFromVerified
  BY DEF Init, SnapshotInv, ExtractsFromVerified
<1>2. TypeInv /\ SnapshotInv /\ ExtractsFromVerified /\ [Next]_vars => SnapshotInv' /\ ExtractsFromVerified'
  BY SnapshotStep
<1> QED BY <1>1, <1>2, TypeInit, TypeStep, PTL DEF Spec

--------------------------------------------------------------------------------
(* The leads file.                                                           *)

\* Every one of the URLs is that of a row that reads back as it was written.
Keeps(rows, urls) == \A u \in urls : \E row \in ToSet(rows) : Intact(row) /\ NormalizeUrl(row.url) = u

\* What has been saved is in the file; and what the agent holds when it is about to write.
NewsInv ==
  /\ Keeps(file, saved)
  /\ pc \in {"authWrite", "write"} =>
       /\ FindNewLeads(leads, existing) # {}
       /\ existing = IF loaded.read THEN Reread(loaded.rows) ELSE <<>>
       /\ loaded.read => Keeps(loaded.rows, saved)

\* A save keeps what was kept by the rows read, and adds every lead that it writes without a comma.
LEMMA SaveKeeps ==
  ASSUME NEW current \in Seq(Lead), NEW old \in Seq(Lead), \A row \in ToSet(old) : Intact(row),
         NEW urls, Keeps(old, urls), NEW u,
         u \in urls \/ \E l \in ToSet(current) : NormalizeUrl(l.url) = u,
         \A l \in ToSet(current) : NormalizeUrl(l.url) = u => Intact(l)
  PROVE  \E row \in ToSet(Merge(current, old)) : Intact(row) /\ NormalizeUrl(row.url) = u
<1>1. PICK l \in ToSet(current) \cup ToSet(old) : NormalizeUrl(l.url) = u
  BY DEF Keeps
<1>2. PICK a \in ToSet(Merge(current, old)) : SameUrl(a, l)
  BY MergeFacts
<1>3. a \in ToSet(current) \cup ToSet(old)
  BY MergeFacts
<1>4. NormalizeUrl(a.url) = u
  BY <1>1, <1>2 DEF SameUrl
<1> QED BY <1>3, <1>4

\* Whether the leads of a run are news depends on the URLs that the rows read keep.
LEMMA NewsIsUnsaved ==
  ASSUME NEW current, NEW rows \in Seq(Lead), NEW urls, Keeps(rows, urls), FindNewLeads(current, Reread(rows)) # {}
  PROVE  \E l \in ToSet(current) : NormalizeUrl(l.url) \notin urls
<1>1. PICK l \in ToSet(current) : \A o \in ToSet(Reread(rows)) : ~SameUrl(o, l)
  BY DEF FindNewLeads
<1>2. ASSUME NormalizeUrl(l.url) \in urls PROVE FALSE
  <2>1. PICK row \in ToSet(rows) : Intact(row) /\ NormalizeUrl(row.url) = NormalizeUrl(l.url)
    BY <1>2 DEF Keeps
  <2>2. row \in ToSet(Reread(rows))
    BY <2>1, RereadFacts
  <2> QED BY <1>1, <2>1, <2>2 DEF SameUrl
<1> QED BY <1>2

\* These operators have no variables of their own.
LEMMA Primed ==
  /\ Keeps(file, saved)' <=> Keeps(file', saved')
  /\ Keeps(loaded.rows, saved)' <=> Keeps(loaded'.rows, saved')
  /\ Reread(loaded.rows)' = Reread(loaded'.rows)
  /\ FindNewLeads(leads, existing)' = FindNewLeads(leads', existing')
BY DEF Keeps, Reread, Parsed, FindNewLeads, SameUrl, NormalizeUrl, Intact, ToSet

\* A write that succeeds, and one that fails.
LEMMA WriteStep ==
  ASSUME TypeInv, NewsInv, WriteLeads
  PROVE  Keeps(file', saved')
<1> DEFINE rows == Merge(leads, existing)
           before == IF loaded.read THEN saved ELSE {}
<1>0. /\ leads \in Seq(Lead) /\ loaded.rows \in Seq(Lead) /\ pc = "write"
      /\ existing = IF loaded.read THEN Reread(loaded.rows) ELSE <<>>
      /\ loaded.read => Keeps(loaded.rows, saved)
  BY DEF TypeInv, ListsOK, NewsInv, WriteLeads
<1>1. /\ existing \in Seq(Lead)
      /\ \A row \in ToSet(existing) : Intact(row)
      /\ Keeps(existing, before)
  <2>1. CASE loaded.read
    <3>1. existing = Reread(loaded.rows) /\ before = saved
      BY <1>0, <2>1
    <3>2. Keeps(Reread(loaded.rows), saved)
      BY <1>0, <2>1, RereadFacts DEF Keeps
    <3> QED BY <1>0, <3>1, <3>2, RereadFacts
  <2>2. CASE ~loaded.read
    <3>1. existing = <<>> /\ before = {}
      BY <1>0, <2>2
    <3>2. <<>> \in Seq(Lead) /\ ToSet(<<>>) = {}
      BY DEF ToSet
    <3> HIDE DEF before
    <3> QED BY <3>1, <3>2 DEF Keeps
  <2> QED BY <2>1, <2>2
<1>2. CASE file' = rows /\ saved' = SavedNow(before)
  <2> SUFFICES ASSUME NEW u \in SavedNow(before)
               PROVE  \E row \in ToSet(rows) : Intact(row) /\ NormalizeUrl(row.url) = u
    BY <1>2 DEF Keeps
  <2> HIDE DEF before
  <2>1. /\ u \in before \/ \E l \in ToSet(leads) : NormalizeUrl(l.url) = u
        /\ \A l \in ToSet(leads) : NormalizeUrl(l.url) = u => Intact(l)
    BY DEF SavedNow
  <2>2. leads \in Seq(Lead)
    BY <1>0
  <2> QED BY <1>1, <2>1, <2>2, SaveKeeps
<1>3. CASE saved' = IF file' = file THEN saved ELSE {}
  BY <1>3 DEF NewsInv, Keeps
<1> QED BY <1>2, <1>3 DEF WriteLeads

LEMMA NewsStep ==
  ASSUME TypeInv, NewsInv, [Next]_vars
  PROVE  NewsInv'
<1>1. CASE AskRead \/ ReadLeads
  <2>1. leads' = leads /\ file' = file /\ saved' = saved
    BY <1>1 DEF AskRead, ReadLeads, kept
  <2>2. Keeps(file, saved)'
    BY <2>1, Primed DEF NewsInv
  <2>3. CASE pc' \notin {"authWrite", "write"}
    BY <2>2, <2>3 DEF NewsInv
  <2>4. CASE Loads(<<>>, FALSE)
    <3>1. existing' = <<>> /\ ~loaded'.read /\ (pc' \in {"authWrite", "write"} => FindNewLeads(leads, <<>>) # {})
      BY <2>4 DEF Loads, Goes
    <3> QED BY <2>1, <2>2, <3>1, Primed DEF NewsInv
  <2>5. CASE Loads(Reread(file), TRUE)
    <3>1. /\ existing' = Reread(file) /\ loaded'.rows = file /\ loaded'.read
          /\ pc' \in {"authWrite", "write"} => FindNewLeads(leads, Reread(file)) # {}
      BY <2>5 DEF Loads, Goes
    <3>2. Keeps(file, saved)
      BY DEF NewsInv
    <3> QED BY <2>1, <2>2, <3>1, <3>2, Primed DEF NewsInv
  <2> QED BY <1>1, <2>3, <2>4, <2>5 DEF AskRead, ReadLeads, Asked, Goes, Throws
<1>2. CASE UNCHANGED <<leads, existing, loaded, kept>> /\ (pc' \in {"authWrite", "write"} => pc \in {"authWrite", "write"})
  BY <1>2, Primed DEF NewsInv, kept
<1>3. CASE AskWrite \/ PageChanges \/ UNCHANGED vars
  BY <1>2, <1>3 DEF AskWrite, Asked, Goes, Throws, PageChanges, vars, locals, ledger
<1>4. CASE OthersAdd
  <2>1. PICK row \in Lead : file' = Append(file, row)
    BY <1>4, AgentAssumption DEF AgentAssumption, OthersAdd
  <2>2. UNCHANGED <<pc, saved, leads, existing, loaded>>
    BY <1>4 DEF OthersAdd, locals, ledger
  <2>3. ToSet(file) \subseteq ToSet(Append(file, row))
    <3>1. file \in Seq(Lead)
      BY DEF TypeInv, ListsOK
    <3> QED BY <3>1 DEF ToSet
  <2>4. Keeps(file', saved')
    BY <2>1, <2>2, <2>3 DEF NewsInv, Keeps
  <2> QED BY <2>2, <2>4, Primed DEF NewsInv
<1>5. CASE WriteLeads
  <2>1. Keeps(file, saved)'
    BY <1>5, WriteStep, Primed
  <2>2. pc' \notin {"authWrite", "write"}
    BY <1>5 DEF WriteLeads, Goes, Throws
  <2> QED BY <2>1, <2>2 DEF NewsInv
<1>6. CASE \/ Start \/ InitializeTracer \/ AskLaunch \/ StartBrowser \/ AskNavigate \/ Navigate \/ AskLLM \/ CheckUrl
           \/ CheckElements \/ SnapshotUrl \/ SnapshotElements \/ Verify \/ ExtractWithLLM \/ ExtractFromDOM
           \/ AskDemo \/ CloseBrowser \/ CloseTracer
  <2>1. UNCHANGED kept
    BY <1>6 DEF Start, InitializeTracer, AskLaunch, StartBrowser, AskNavigate, Navigate, AskLLM, CheckUrl, CheckElements,
                Eventually, SnapshotUrl, SnapshotElements, Verify, ExtractWithLLM, ExtractFromDOM, AskDemo, CloseBrowser,
                CloseTracer
  <2>2. pc' \notin {"authWrite", "write"}
    BY <1>6 DEF Start, InitializeTracer, AskLaunch, StartBrowser, AskNavigate, Navigate, AskLLM, CheckUrl, CheckElements,
                Eventually, SnapshotUrl, SnapshotElements, Verify, ExtractWithLLM, ExtractFromDOM, AskDemo,
                CloseBrowser, CloseTracer, CloseFails, Asked, Goes, Throws
  <2> QED BY <2>1, <2>2, Primed DEF NewsInv, kept
<1> QED BY <1>1, <1>3, <1>4, <1>5, <1>6 DEF Next, Agent

LEMMA NewsHolds == Spec => [](TypeInv /\ NewsInv)
<1>1. Init => NewsInv
  BY DEF Init, NewsInv, Keeps
<1>2. TypeInv /\ NewsInv /\ [Next]_vars => NewsInv'
  BY NewsStep
<1> QED BY <1>1, <1>2, TypeInit, TypeStep, PTL DEF Spec

\* Over any number of runs, whatever the model and the page offer, whatever fails and whatever others add to the file:
\* the agent, having read the file, is about to write only when some lead of this run has a URL, by whatever spelling,
\* that no save has put into the file for good; commas in other titles and URLs do not make a saved lead news.
THEOREM SavedLeadsAreNotNews == Spec => []SavedIsNotNews
<1>1. TypeInv /\ NewsInv => SavedIsNotNews
  <2> SUFFICES ASSUME TypeInv, NewsInv, pc \in {"authWrite", "write"}, loaded.read
               PROVE  \E l \in ToSet(leads) : NormalizeUrl(l.url) \notin saved
    BY DEF SavedIsNotNews
  <2>1. /\ loaded.rows \in Seq(Lead) /\ Keeps(loaded.rows, saved)
        /\ FindNewLeads(leads, Reread(loaded.rows)) # {}
    BY DEF TypeInv, ListsOK, NewsInv
  <2> QED BY <2>1, NewsIsUnsaved
<1> QED BY <1>1, NewsHolds, PTL

\* However often the agent is run: after a save every lead of the run is in the file by its URL, and only as the run has
\* it; every row that was read and has no commas is still there by its URL; and no URL is there twice.
THEOREM SavesMergeLeads == Spec => SavesMerge
<1> DEFINE WithUrl(l) == {row \in ToSet(file') : SameUrl(row, l)}
           Merged == /\ \A l \in ToSet(leads) : WithUrl(l) # {} /\ WithUrl(l) \subseteq ToSet(leads)
                     /\ loaded.read => \A row \in ToSet(loaded.rows) : Intact(row) => WithUrl(row) # {}
                     /\ \A i, j \in DOMAIN file' : i # j => ~SameUrl(file'[i], file'[j])
<1>1. ASSUME TypeInv, NewsInv, Next, pc = "write", pc' = "authDemo" PROVE Merged
  <2>1. WriteLeads
    BY <1>1 DEF Next, Agent, Start, InitializeTracer, AskLaunch, StartBrowser, AskNavigate, Navigate, AskLLM, CheckUrl,
                CheckElements, SnapshotUrl, SnapshotElements, Verify, ExtractWithLLM, ExtractFromDOM, AskRead, ReadLeads,
                AskWrite, AskDemo, CloseBrowser, CloseTracer, PageChanges, OthersAdd, Idle
  <2>2. file' = Merge(leads, existing)
    BY <1>1, <2>1 DEF WriteLeads, Throws
  <2>3. leads \in Seq(Lead) /\ existing \in Seq(Lead) /\ loaded.rows \in Seq(Lead)
    BY <1>1 DEF TypeInv, ListsOK
  <2>4. /\ NoUrlTwice(file')
        /\ \A l \in ToSet(leads) \cup ToSet(existing) : \E a \in ToSet(file') : SameUrl(a, l)
        /\ \A a \in ToSet(file') : (\E l \in ToSet(leads) : SameUrl(a, l)) => a \in ToSet(leads)
    BY <2>2, <2>3, MergeFacts
  <2>5. ASSUME NEW l \in ToSet(leads) PROVE WithUrl(l) # {} /\ WithUrl(l) \subseteq ToSet(leads)
    BY <2>4
  <2>6. ASSUME loaded.read, NEW row \in ToSet(loaded.rows), Intact(row) PROVE WithUrl(row) # {}
    <3>1. row \in ToSet(existing)
      BY <1>1, <2>3, <2>6, RereadFacts DEF NewsInv
    <3> QED BY <2>4, <3>1
  <2>7. \A i, j \in DOMAIN file' : i # j => ~SameUrl(file'[i], file'[j])
    BY <2>4 DEF NoUrlTwice
  <2> HIDE DEF WithUrl
  <2> QED BY <2>5, <2>6, <2>7
<1>2. TypeInv /\ NewsInv /\ [Next]_vars => [pc = "write" /\ pc' = "authDemo" => Merged]_vars
  BY <1>1
<1> QED BY <1>2, NewsHolds, PTL DEF Spec, SavesMerge
================================================================================
