--------------------------- MODULE PredicateRuntime ----------------------------
(* Post-execution verification as the research demo does it                   *)
(* (src/examples/real-openclaw-demo/src/predicate-runtime.ts): predicates     *)
(* over a snapshot of the page, and the verdict over their assertions.        *)
(*                                                                            *)
(* A string is the set of the substrings anyone looks for in it, so that      *)
(* a.includes(b) is b \in a, and the empty set is "".  "^" before a substring *)
(* stands for the string starting with it: a.startsWith(b) is "^b" \in a.     *)
(******************************************************************************)
EXTENDS Naturals, Sequences, FiniteSets, SequencesExt

CONSTANT Lower    \* toLowerCase, of the substrings

\* A snapshot has a url, the elements the tree walker kept, and a confidence in percent.
Assertion(label, passed, required) == [label |-> label, passed |-> passed, required |-> required]

\* url_contains
UrlContains(snapshot, substring, required) ==
  Assertion("url_contains", substring \in snapshot.url, required)

\* el.text || el.name || ""
Words(el) == IF el.text # {} THEN el.text ELSE el.name

\* dom_contains, not case sensitive
DomContains(snapshot, text, required) ==
  Assertion("dom_contains",
            \E el \in ToSet(snapshot.elements) : \E w \in Words(el) : Lower[w] = Lower[text],
            required)

\* What a selector asks of an element: its role, the class it goes by, its id, or just the words anywhere.
Matches(el, selector) ==
  \/ selector.by = "role" /\ el.role = selector.value
  \/ selector.by = "class" /\ selector.value \in el.selector
  \/ selector.by = "id" /\ el.id = selector.value
  \/ selector.by = "any" /\ selector.value \in el.text \cup el.name \cup el.selector

\* Mutant of ElementExists: one match is enough.
AnyElementExists(snapshot, selector, minCount, required) ==
  Assertion("element_exists", \E el \in ToSet(snapshot.elements) : Matches(el, selector), required)

\* element_exists
ElementExists(snapshot, selector, minCount, required) ==
  Assertion("element_exists",
            Cardinality({i \in DOMAIN snapshot.elements : Matches(snapshot.elements[i], selector)}) >= minCount,
            required)

\* confidence_above
ConfidenceAbove(snapshot, threshold, required) ==
  Assertion("confidence_above", snapshot.confidence >= threshold, required)

\* simulateMLConfidence: what the demo takes for the confidence of a snapshot.
SimulateMLConfidence(url, elements) ==
  LET score == 50 + (IF "news.ycombinator.com" \in url THEN 25 ELSE 0)
                  + (IF "^https://" \in url THEN 10 ELSE 0)
                  + (IF Len(elements) > 10 THEN 10 ELSE 0)
                  + (IF \E el \in ToSet(elements) : {"Show HN", "Hacker News"} \cap el.text # {} THEN 15 ELSE 0)
  IN IF score > 100 THEN 100 ELSE score

\* verify_state passes, or throws a VerificationError, on the required assertions alone.
Passed(assertions) == \A a \in assertions : a.required => a.passed
================================================================================
