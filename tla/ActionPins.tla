----------------------------- MODULE ActionPins -----------------------------
(***************************************************************************)
(* Runs of update_github_action_versions over the workflows of a           *)
(* repository: the actions that they use are looked up in parallel at      *)
(* GitHub, then docker/compose if a workflow sets its version up, and the  *)
(* workflows are rewritten one after the other.                            *)
(*                                                                         *)
(* A text is a sequence of lines; a line keeps its indentation, whether it *)
(* starts an item ("- "), and the pin or version that the regular          *)
(* expressions read from it.  Any request may fail, a run may end at any   *)
(* step, and GitHub and the authors of workflows do not wait for it.       *)
(***************************************************************************)
EXTENDS Integers, Sequences, FiniteSets

CONSTANTS
    Actions,        \* repositories of actions
    SetupCompose,   \* "docker/setup-compose-action"
    Compose,        \* "docker/compose"
    Refs,           \* what is written after the "@" of a pin or as a version
    Major,          \* [SUBSET Refs -> Nat]: the major version of the refs that show one
    None,           \* no ref
    Order,          \* the workflows, sorted by path
    Texts,          \* bound: [Workflows -> SUBSET Seq(Line)], the texts they may have
    Released,       \* [Names -> Refs or None]: the latest release at the start
    Newest,         \* [Names -> Refs or None]: the first tag at the start
    Upcoming,       \* bound: <<name, tag>> that may be published
    Runs,           \* bound: runs of the updater
    Edits           \* bound: edits of workflows

Names     == Actions \cup {Compose}
Workflows == {Order[n] : n \in DOMAIN Order}
Line      == [indent : Nat, item : BOOLEAN, kind : {"uses", "version", "other"},
              action : Actions \cup {None}, ref : Refs \cup {None}]

ASSUME NamesAssumption == SetupCompose \in Actions /\ Compose \notin Actions /\ None \notin Actions
ASSUME RefsAssumption == None \notin Refs /\ DOMAIN Major \subseteq Refs /\ \A r \in DOMAIN Major : Major[r] \in Nat
ASSUME OrderAssumption == Order \in Seq(Workflows) /\ Len(Order) = Cardinality(Workflows)
ASSUME GitHubAssumption ==
    /\ Released \in [Names -> Refs \cup {None}] /\ Newest \in [Names -> Refs \cup {None}]
    /\ Upcoming \subseteq Names \X Refs
ASSUME BoundsAssumption == Runs \in Nat /\ Edits \in Nat

\* A line with a pin has its action and ref, a version line its ref.
WellFormed(line) ==
    /\ line \in Line
    /\ line.kind = "uses" => line.action # None
    /\ line.kind # "other" => line.ref # None

\* GitHub's schema of a step has no lists: inside the item that holds a `uses:
\* docker/setup-compose-action`, whatever starts an item is deeper than the `uses`.
IsSetupCompose(line) == line.kind = "uses" /\ line.action = SetupCompose

Inside(text, s, i) == text[s].item /\ \A k \in s + 1 .. i : text[k].indent > text[s].indent

StepsHoldNoLists(text) ==
    \A s, u, k \in DOMAIN text :
        s <= u /\ u < k /\ Inside(text, s, k) /\ IsSetupCompose(text[u]) /\ text[k].item
            => text[k].indent > text[u].indent

ASSUME TextsAssumption ==
    \A f \in Workflows : \A text \in Texts[f] :
        /\ text \in Seq(Line)
        /\ \A i \in DOMAIN text : WellFormed(text[i])
        /\ StepsHoldNoLists(text)

VARIABLES
    files,          \* the text of each workflow
    release,        \* GitHub: the latest release of each repository
    newest,         \* GitHub: its first tag
    pc,             \* where the run is
    dry_run,        \* whether it only plans
    read,           \* the texts as the run read them
    lookup,         \* the request that each lookup of this phase sends next
    answers,        \* latest_tags and latest_tool_tags
    todo,           \* the workflows yet to be rewritten
    runs,           \* how many runs have started
    edits,          \* how many edits there were
    touched         \* history: a workflow was edited during the run

vars == <<files, release, newest, pc, dry_run, read, lookup, answers, todo, runs, edits, touched>>

TypeOK ==
    /\ \A f \in Workflows : \A i \in DOMAIN files[f] : WellFormed(files[f][i])
    /\ release \in [Names -> Refs \cup {None}] /\ newest \in [Names -> Refs \cup {None}]
    /\ pc \in {"idle", "actions", "tools", "write", "done", "failed"}
    /\ dry_run \in BOOLEAN
    /\ \A f \in Workflows : \A i \in DOMAIN read[f] : WellFormed(read[f][i])
    /\ DOMAIN lookup \subseteq Names
    /\ \A r \in DOMAIN lookup : lookup[r] \in {"release", "tags", "end"}
    /\ answers \in [Names -> Refs \cup {None}]
    /\ \E n \in 0 .. Len(Order) : todo = SubSeq(Order, n + 1, Len(Order))
    /\ runs \in 0 .. Runs /\ edits \in 0 .. Edits
    /\ touched \in BOOLEAN

Init ==
    /\ files \in {fs \in [Workflows -> UNION {Texts[f] : f \in Workflows}] :
                   \A f \in Workflows : fs[f] \in Texts[f]}
    /\ release = Released /\ newest = Newest
    /\ pc = "idle"
    /\ dry_run = FALSE
    /\ read = files
    /\ lookup = <<>>
    /\ answers = [r \in Names |-> None]
    /\ todo = <<>>
    /\ runs = 0 /\ edits = 0
    /\ touched = FALSE

-----------------------------------------------------------------------------
(* What the program reads from a text and how it changes it.               *)

UsedActions(text) == {text[i].action : i \in {k \in DOMAIN text : text[k].kind = "uses"}}

\* in_setup_compose_step at a line: no item at the indentation of the last
\* `uses: docker/setup-compose-action` or left of it has begun since.
InSetupComposeStep(text, i) ==
    \E u \in 1 .. i :
        /\ IsSetupCompose(text[u])
        /\ \A k \in u + 1 .. i :
             ~IsSetupCompose(text[k]) /\ ~(text[k].item /\ text[k].indent <= text[u].indent)

IsComposeVersion(text, i) == text[i].kind = "version" /\ InSetupComposeStep(text, i)

workflow_tool_repositories(texts) ==
    IF \E f \in Workflows : \E i \in DOMAIN texts[f] : IsComposeVersion(texts[f], i)
      THEN {Compose} ELSE {}

updated_action_ref(current, latest) ==
    IF {current, latest} \subseteq DOMAIN Major /\ Major[current] # Major[latest]
      THEN latest ELSE current

ActionsUpdated(text) ==
    [i \in DOMAIN text |->
        IF text[i].kind = "uses"
          THEN [text[i] EXCEPT !.ref = updated_action_ref(@, answers[text[i].action])]
          ELSE text[i]]

\* Variant: the version is written although there is none.
ComposeUpdatedByNone(text) ==
    [i \in DOMAIN text |->
        IF IsComposeVersion(text, i) THEN [text[i] EXCEPT !.ref = answers[Compose]] ELSE text[i]]

ComposeUpdated(text) ==
    IF answers[Compose] = None THEN text
    ELSE [i \in DOMAIN text |->
            IF IsComposeVersion(text, i) THEN [text[i] EXCEPT !.ref = answers[Compose]] ELSE text[i]]

\* Variant: the second pass reads the original text.
UpdatedFromOriginal(text) ==
    IF answers[Compose] = None THEN ActionsUpdated(text) ELSE ComposeUpdated(text)

\* _updated_workflow_action_text: the versions are looked for in the text
\* whose pins are updated.
Updated(text) == ComposeUpdated(ActionsUpdated(text))

-----------------------------------------------------------------------------
(* The run.                                                                *)

Running == pc \notin {"idle", "done", "failed"}

Start(dry) ==
    /\ ~Running
    /\ runs < Runs
    /\ runs' = runs + 1
    /\ dry_run' = dry
    /\ read' = files
    /\ lookup' = [r \in UNION {UsedActions(files[f]) : f \in Workflows} |-> "release"]
    /\ answers' = [r \in Names |-> None]
    /\ todo' = <<>>
    /\ touched' = FALSE
    /\ pc' = IF Order = <<>> THEN "done" ELSE "actions"
    /\ UNCHANGED <<files, release, newest, edits>>

\* _latest_github_tag: the latest release, unless there is none or the request
\* fails, ...
AskForRelease(r) ==
    /\ lookup[r] = "release"
    /\ \/ /\ release[r] # None
          /\ answers' = [answers EXCEPT ![r] = release[r]]
          /\ lookup' = [lookup EXCEPT ![r] = "end"]
       \/ /\ lookup' = [lookup EXCEPT ![r] = "tags"]
          /\ UNCHANGED answers
    /\ UNCHANGED <<files, release, newest, pc, dry_run, read, todo, runs, edits, touched>>

\* ... and the first tag otherwise.
AskForTags(r) ==
    /\ lookup[r] = "tags"
    /\ \E tag \in {newest[r], None} : answers' = [answers EXCEPT ![r] = tag]
    /\ lookup' = [lookup EXCEPT ![r] = "end"]
    /\ UNCHANGED <<files, release, newest, pc, dry_run, read, todo, runs, edits, touched>>

Answered == \A r \in DOMAIN lookup : lookup[r] = "end"

LookUpTools ==
    /\ pc = "actions" /\ Answered
    /\ lookup' = [r \in workflow_tool_repositories(read) |-> "release"]
    /\ pc' = "tools"
    /\ UNCHANGED <<files, release, newest, dry_run, read, answers, todo, runs, edits, touched>>

BeginWriting ==
    /\ pc = "tools" /\ Answered
    /\ todo' = Order
    /\ pc' = "write"
    /\ UNCHANGED <<files, release, newest, dry_run, read, lookup, answers, runs, edits, touched>>

Rewrites(f) == ~dry_run /\ Updated(read[f]) # read[f]

WriteFile ==
    /\ pc = "write"
    /\ files' = IF Rewrites(Head(todo))
                  THEN [files EXCEPT ![Head(todo)] = Updated(read[Head(todo)])] ELSE files
    /\ todo' = Tail(todo)
    /\ pc' = IF Tail(todo) = <<>> THEN "done" ELSE "write"
    /\ UNCHANGED <<release, newest, dry_run, read, lookup, answers, runs, edits, touched>>

\* An error or an interrupt; the file that is being written may be left empty.
Abort ==
    /\ Running
    /\ pc' = "failed"
    /\ lookup' = <<>> /\ todo' = <<>>
    /\ \/ UNCHANGED files
       \/ /\ pc = "write" /\ Rewrites(Head(todo))
          /\ files' = [files EXCEPT ![Head(todo)] = <<>>]
    /\ UNCHANGED <<release, newest, dry_run, read, answers, runs, edits, touched>>

-----------------------------------------------------------------------------
(* The surroundings.                                                       *)

\* A tag is pushed, and it may be released as the latest.
Publish(r, tag) ==
    /\ newest[r] # tag
    /\ newest' = [newest EXCEPT ![r] = tag]
    /\ release' \in {release, [release EXCEPT ![r] = tag]}
    /\ UNCHANGED <<files, pc, dry_run, read, lookup, answers, todo, runs, edits, touched>>

Edit(f, text) ==
    /\ edits < Edits
    /\ edits' = edits + 1
    /\ files[f] # text
    /\ files' = [files EXCEPT ![f] = text]
    /\ touched' = TRUE
    /\ UNCHANGED <<release, newest, pc, dry_run, read, lookup, answers, todo, runs>>

Stop == ~Running /\ runs = Runs /\ UNCHANGED vars

Next ==
    \/ \E dry \in BOOLEAN : Start(dry)
    \/ \E r \in DOMAIN lookup : AskForRelease(r) \/ AskForTags(r)
    \/ LookUpTools
    \/ BeginWriting
    \/ WriteFile
    \/ Abort
    \/ \E u \in Upcoming : Publish(u[1], u[2])
    \/ \E f \in Workflows : \E text \in Texts[f] : Edit(f, text)
    \/ Stop

Spec == Init /\ [][Next]_vars

-----------------------------------------------------------------------------
(* Properties.                                                             *)

\* Line i is in the step that uses docker/setup-compose-action in line u, by
\* the indentation of the lines, as YAML has it.
InStepOf(text, u, i) ==
    /\ IsSetupCompose(text[u])
    /\ \E s \in 1 .. u : Inside(text, s, i)

\* A completed run leaves, in all workflows, the pins of an action at one major
\* version and every Compose version below its `uses` at the latest one,
\* whatever mixture an aborted run or an author left and whatever is published
\* meanwhile, unless a workflow is edited during the run or a lookup fails
\* (update_github_action_versions.py:54-119).
PinsAgree ==
    pc = "done" /\ ~dry_run /\ ~touched =>
        \A f \in Workflows : \A i \in DOMAIN files[f] :
            LET line == files[f][i]
                latest == IF line.kind = "uses" THEN answers[line.action] ELSE answers[Compose]
            IN  /\ line.kind = "uses" /\ {line.ref, latest} \subseteq DOMAIN Major
                     => Major[line.ref] = Major[latest]
                /\ line.kind = "version" /\ latest # None
                   /\ (\E u \in 1 .. i : InStepOf(files[f], u, i))
                     => line.ref = latest

\* update_github_action_versions.py:29: "Update GitHub Action major-version
\* pins": the run changes no other version of a workflow.
OnlyActionPinsChange ==
    ~touched =>
        \A f \in Workflows : \A i \in DOMAIN files[f] :
            files[f][i] # read[f][i] =>
                \/ read[f][i].kind = "uses"
                \/ \E u \in 1 .. i : InStepOf(read[f], u, i)
=============================================================================
