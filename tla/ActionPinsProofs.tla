--------------------------- MODULE ActionPinsProofs ---------------------------
(***************************************************************************)
(* Theorems about ActionPins for every set of actions and workflows, any   *)
(* texts of them, any releases, runs and edits.                            *)
(***************************************************************************)
EXTENDS ActionPins, SequenceTheorems, WellFoundedInduction, TLAPS

\* What a run leaves of the workflow f that it has read.
Target(f) == IF Rewrites(f) THEN Updated(read[f]) ELSE read[f]

Pending(f) == \E i \in DOMAIN todo : todo[i] = f

TypeInv ==
    /\ TypeOK
    /\ files \in [Workflows -> Seq(Line)] /\ read \in [Workflows -> Seq(Line)]
    /\ \A f \in Workflows : StepsHoldNoLists(files[f]) /\ StepsHoldNoLists(read[f])

\* How far a run has come: it writes when every lookup has ended, and each
\* workflow is as it was read until the run has rewritten it.
RunInv ==
    /\ Running => Order # <<>>
    /\ pc = "write" => todo # <<>>
    /\ pc \in {"write", "done"} => Answered
    /\ ~touched /\ pc \in {"actions", "tools"} => files = read
    /\ ~touched /\ pc = "write" =>
         \A f \in Workflows : /\ files[f] \in {read[f], Target(f)}
                              /\ Pending(f) \/ files[f] = Target(f)
    /\ ~touched /\ pc = "done" => \A f \in Workflows : files[f] = Target(f)

IInv == TypeInv /\ RunInv

-----------------------------------------------------------------------------
(* Texts.                                                                  *)

\* Two texts whose lines differ at most in their refs.
SameShape(a, b) ==
    /\ Len(a) = Len(b)
    /\ \A i \in DOMAIN a : /\ a[i].indent = b[i].indent /\ a[i].item = b[i].item
                           /\ a[i].kind = b[i].kind /\ a[i].action = b[i].action

\* A nonempty set of line numbers has a last one.
LEMMA LastLine ==
  ASSUME NEW n \in Nat, NEW S \in SUBSET (1 .. n), S # {}
  PROVE  \E last \in S : \A k \in S : k <= last
<1> DEFINE T == {n - k : k \in S}
<1>1. T \subseteq Nat /\ T # {}
  <2>1. \A k \in S : n - k \in Nat
    OBVIOUS
  <2> QED
    BY <2>1
<1>2. PICK least \in T : \A t \in T : ~(<<t, least>> \in OpToRel(<, Nat))
  <2> HIDE DEF T
  <2> QED
    BY <1>1, NatLessThanWellFounded, WFMin
<1>3. \A t \in T : ~(t < least)
  <2>1. \A t \in T : <<t, least>> \in Nat \X Nat
    BY <1>1
  <2> QED
    BY <1>2, <2>1 DEF OpToRel
<1>4. PICK last \in S : least = n - last
  OBVIOUS
<1>5. \A k \in S : ~(n - k < n - last)
  BY <1>3, <1>4
<1>6. \A k \in S : k <= last
  BY <1>5
<1> QED
  BY <1>6

\* The state machine of the program finds every version that is in a step of
\* docker/setup-compose-action by the indentation of the lines.
LEMMA VersionsInStepsAreFound ==
  ASSUME NEW text \in Seq(Line), StepsHoldNoLists(text), NEW i \in DOMAIN text,
         NEW u \in 1 .. i, InStepOf(text, u, i)
  PROVE  InSetupComposeStep(text, i)
<1>1. Len(text) \in Nat /\ DOMAIN text = 1 .. Len(text) /\ i \in Nat
  OBVIOUS
<1>2. PICK s \in 1 .. u : Inside(text, s, i)
  BY DEF InStepOf
<1> DEFINE S == {k \in 1 .. i : IsSetupCompose(text[k])}
<1>3. u \in S
  BY DEF InStepOf
<1>4. PICK last \in S : \A k \in S : k <= last
  BY <1>1, <1>3, LastLine
<1>5. ASSUME NEW k \in last + 1 .. i
      PROVE  ~IsSetupCompose(text[k]) /\ ~(text[k].item /\ text[k].indent <= text[last].indent)
  <2>1. /\ k \in DOMAIN text /\ last \in DOMAIN text /\ s \in DOMAIN text
        /\ s <= last /\ last < k /\ k \in 1 .. i
    BY <1>1, <1>2, <1>3, <1>4
  <2>2. ~IsSetupCompose(text[k])
    BY <1>4, <2>1
  <2>3. Inside(text, s, k)
    BY <1>2, <2>1 DEF Inside
  <2>4. text[k].item => text[k].indent > text[last].indent
    BY <1>4, <2>1, <2>3 DEF StepsHoldNoLists
  <2>5. text[k].indent \in Nat /\ text[last].indent \in Nat
    <3>1. text[k] \in Line /\ text[last] \in Line
      BY <2>1
    <3> QED
      BY <3>1 DEF Line
  <2> QED
    BY <2>2, <2>4, <2>5
<1> QED
  BY <1>4, <1>5 DEF InSetupComposeStep

\* Where the steps are does not depend on the refs.
LEMMA ShapeDecides ==
  ASSUME NEW a \in Seq(Line), NEW b \in Seq(Line), SameShape(a, b)
  PROVE  /\ \A i \in DOMAIN a : InSetupComposeStep(a, i) <=> InSetupComposeStep(b, i)
         /\ StepsHoldNoLists(a) => StepsHoldNoLists(b)
<1>1. /\ Len(a) \in Nat /\ DOMAIN a = 1 .. Len(a) /\ DOMAIN b = 1 .. Len(a)
      /\ Len(a) = Len(b)
  BY DEF SameShape
<1>2. \A k \in 1 .. Len(a) : /\ IsSetupCompose(a[k]) <=> IsSetupCompose(b[k])
                             /\ a[k].item = b[k].item /\ a[k].indent = b[k].indent
  BY <1>1 DEF SameShape, IsSetupCompose
<1>3. ASSUME NEW i \in DOMAIN a PROVE InSetupComposeStep(a, i) <=> InSetupComposeStep(b, i)
  <2>1. \A u \in 1 .. i : u \in 1 .. Len(a) /\ \A k \in u + 1 .. i : k \in 1 .. Len(a)
    BY <1>1
  <2> QED
    BY <1>2, <2>1 DEF InSetupComposeStep
<1>4. StepsHoldNoLists(a) => StepsHoldNoLists(b)
  <2>1. \A s, k \in 1 .. Len(a) : Inside(a, s, k) <=> Inside(b, s, k)
    <3> SUFFICES ASSUME NEW s \in 1 .. Len(a), NEW k \in 1 .. Len(a)
                 PROVE  Inside(a, s, k) <=> Inside(b, s, k)
      OBVIOUS
    <3>1. \A j \in s + 1 .. k : j \in 1 .. Len(a)
      BY <1>1
    <3> QED
      BY <1>2, <3>1 DEF Inside
  <2> QED
    BY <1>1, <1>2, <2>1 DEF StepsHoldNoLists
<1> QED
  BY <1>3, <1>4

\* A pin keeps a ref, and gets the major version of the answer where both show one.
LEMMA UpdatedRef ==
  ASSUME NEW current \in Refs, NEW latest
  PROVE  LET ref == updated_action_ref(current, latest)
         IN  /\ ref \in Refs
             /\ {ref, latest} \subseteq DOMAIN Major => Major[ref] = Major[latest]
  BY RefsAssumption DEF updated_action_ref

\* The two passes of _updated_workflow_action_text: neither moves a line, pins
\* get the major version of the answers, and Compose versions the answer.
LEMMA UpdatedText ==
  ASSUME TypeOK, NEW text \in Seq(Line), \A i \in DOMAIN text : WellFormed(text[i])
  PROVE  /\ Updated(text) \in Seq(Line) /\ SameShape(text, Updated(text))
         /\ \A i \in DOMAIN text : WellFormed(Updated(text)[i])
         /\ \A i \in DOMAIN text :
              LET line == Updated(text)[i] IN
              /\ line.kind = "uses" /\ {line.ref, answers[line.action]} \subseteq DOMAIN Major
                   => Major[line.ref] = Major[answers[line.action]]
              /\ line.kind = "version" /\ answers[Compose] # None /\ InSetupComposeStep(text, i)
                   => line.ref = answers[Compose]
<1> DEFINE pinned == ActionsUpdated(text)
<1>1. Len(text) \in Nat /\ DOMAIN text = 1 .. Len(text) /\ \A i \in DOMAIN text : text[i] \in Line
  OBVIOUS
<1>2. DOMAIN pinned = 1 .. Len(text)
  BY <1>1 DEF ActionsUpdated
<1>3. ASSUME NEW i \in 1 .. Len(text)
      PROVE  /\ WellFormed(pinned[i])
             /\ pinned[i].indent = text[i].indent /\ pinned[i].item = text[i].item
             /\ pinned[i].kind = text[i].kind /\ pinned[i].action = text[i].action
             /\ pinned[i].kind = "uses"
                /\ {pinned[i].ref, answers[pinned[i].action]} \subseteq DOMAIN Major
                  => Major[pinned[i].ref] = Major[answers[pinned[i].action]]
  <2>1. text[i] \in Line /\ WellFormed(text[i])
    BY <1>1, <1>3
  <2>2. CASE text[i].kind = "uses"
    <3> DEFINE ref == updated_action_ref(text[i].ref, answers[text[i].action])
    <3>1. pinned[i] = [text[i] EXCEPT !.ref = ref]
      BY <1>1, <1>3, <2>2 DEF ActionsUpdated
    <3>2. text[i].ref \in Refs
      BY <2>1, <2>2 DEF WellFormed, Line
    <3>3. /\ ref \in Refs
          /\ {ref, answers[text[i].action]} \subseteq DOMAIN Major =>
               Major[ref] = Major[answers[text[i].action]]
      BY <3>2, UpdatedRef
    <3> HIDE DEF ref, pinned
    <3>4. /\ pinned[i].ref = ref /\ pinned[i].indent = text[i].indent
          /\ pinned[i].item = text[i].item /\ pinned[i].kind = text[i].kind
          /\ pinned[i].action = text[i].action /\ pinned[i] \in Line
      BY <2>1, <3>1, <3>3 DEF Line
    <3>5. WellFormed(pinned[i])
      BY <2>1, <3>3, <3>4, RefsAssumption DEF WellFormed
    <3> QED
      BY <3>3, <3>4, <3>5
  <2>3. CASE text[i].kind # "uses"
    BY <1>1, <1>3, <2>1, <2>3 DEF ActionsUpdated
  <2> QED
    BY <2>2, <2>3
<1> HIDE DEF pinned
<1>4. pinned \in Seq(Line) /\ Len(pinned) = Len(text)
  <2>1. pinned = [i \in 1 .. Len(text) |-> pinned[i]]
    BY <1>1 DEF pinned, ActionsUpdated
  <2>2. \A i \in 1 .. Len(text) : pinned[i] \in Line
    BY <1>3 DEF WellFormed
  <2>3. pinned \in [1 .. Len(text) -> Line]
    BY <2>1, <2>2
  <2>4. pinned \in Seq(Line)
    BY <1>1, <2>3, SeqDef
  <2> QED
    BY <1>1, <1>2, <2>4
<1>5. SameShape(text, pinned)
  BY <1>1, <1>3, <1>4 DEF SameShape
<1>6. \A i \in DOMAIN text : InSetupComposeStep(text, i) <=> InSetupComposeStep(pinned, i)
  BY <1>4, <1>5, ShapeDecides
<1> DEFINE new == Updated(text)
<1>7. ASSUME NEW i \in 1 .. Len(text)
      PROVE  /\ WellFormed(new[i])
             /\ new[i].indent = pinned[i].indent /\ new[i].item = pinned[i].item
             /\ new[i].kind = pinned[i].kind /\ new[i].action = pinned[i].action
             /\ new[i].kind = "uses" => new[i] = pinned[i]
             /\ new[i].kind = "version" /\ answers[Compose] # None
                /\ InSetupComposeStep(pinned, i) => new[i].ref = answers[Compose]
  <2>1. pinned[i] \in Line /\ WellFormed(pinned[i])
    BY <1>3 DEF WellFormed
  <2>2. CASE answers[Compose] # None /\ IsComposeVersion(pinned, i)
    <3>1. new[i] = [pinned[i] EXCEPT !.ref = answers[Compose]] /\ pinned[i].kind = "version"
      BY <1>2, <2>2 DEF Updated, ComposeUpdated, IsComposeVersion, pinned
    <3>2. answers[Compose] \in Refs
      BY <2>2 DEF TypeOK, Names
    <3> HIDE DEF new
    <3>3. /\ new[i].ref = answers[Compose] /\ new[i].indent = pinned[i].indent
          /\ new[i].item = pinned[i].item /\ new[i].kind = "version"
          /\ new[i].action = pinned[i].action /\ new[i] \in Line
      BY <2>1, <3>1, <3>2 DEF Line
    <3>4. WellFormed(new[i])
      BY <3>2, <3>3, RefsAssumption DEF WellFormed
    <3> QED
      BY <3>1, <3>3, <3>4
  <2>3. CASE ~(answers[Compose] # None /\ IsComposeVersion(pinned, i))
    <3>1. new[i] = pinned[i]
      BY <1>2, <2>3 DEF Updated, ComposeUpdated, pinned
    <3>2. pinned[i].kind = "version" /\ answers[Compose] # None => ~InSetupComposeStep(pinned, i)
      BY <2>3 DEF IsComposeVersion
    <3> QED
      BY <2>1, <3>1, <3>2
  <2> QED
    BY <2>2, <2>3
<1>8. new \in Seq(Line) /\ Len(new) = Len(text)
  <2>1. CASE answers[Compose] = None
    BY <1>4, <2>1 DEF Updated, ComposeUpdated, pinned
  <2>2. CASE answers[Compose] # None
    <3>1. new = [i \in 1 .. Len(text) |-> new[i]]
      BY <1>2, <2>2 DEF Updated, ComposeUpdated, pinned
    <3>2. \A i \in 1 .. Len(text) : new[i] \in Line
      BY <1>7 DEF WellFormed
    <3> HIDE DEF new
    <3>3. new \in [1 .. Len(text) -> Line]
      BY <3>1, <3>2
    <3>4. new \in Seq(Line)
      BY <1>1, <3>3, SeqDef
    <3> QED
      BY <1>1, <3>3, <3>4
  <2> QED
    BY <2>1, <2>2
<1> HIDE DEF new
<1>9. SameShape(text, new)
  BY <1>1, <1>3, <1>7, <1>8 DEF SameShape
<1>10. \A i \in 1 .. Len(text) :
         /\ new[i].kind = "uses" /\ {new[i].ref, answers[new[i].action]} \subseteq DOMAIN Major
              => Major[new[i].ref] = Major[answers[new[i].action]]
         /\ new[i].kind = "version" /\ answers[Compose] # None /\ InSetupComposeStep(text, i)
              => new[i].ref = answers[Compose]
  BY <1>1, <1>3, <1>6, <1>7
<1> QED
  BY <1>1, <1>7, <1>8, <1>9, <1>10 DEF new

-----------------------------------------------------------------------------
(* The inductive invariant.                                                *)

\* The workflows that are yet to be rewritten, at every point of the write phase.
LEMMA RemainingWorkflows ==
  ASSUME NEW n \in 0 .. Len(Order), todo = SubSeq(Order, n + 1, Len(Order))
  PROVE  /\ todo \in Seq(Workflows)
         /\ todo # <<>> =>
              /\ Head(todo) \in Workflows
              /\ n + 1 \in 0 .. Len(Order)
              /\ Tail(todo) = SubSeq(Order, n + 2, Len(Order))
              /\ \A i \in DOMAIN todo : i = 1 \/ i - 1 \in DOMAIN Tail(todo)
              /\ \A i \in DOMAIN Tail(todo) : Tail(todo)[i] = todo[i + 1]
<1>1. Order \in Seq(Workflows) /\ Len(Order) \in Nat
  BY OrderAssumption
<1>2. \A i \in n + 1 .. Len(Order) : Order[i] \in Workflows
  BY <1>1
<1>3. /\ todo \in Seq(Workflows)
      /\ Len(todo) = IF n + 1 <= Len(Order) THEN Len(Order) - n ELSE 0
  BY <1>1, <1>2, SubSeqProperties
<1>4. ASSUME todo # <<>>
      PROVE  /\ Head(todo) \in Workflows
             /\ n + 1 \in 0 .. Len(Order)
             /\ Tail(todo) = SubSeq(Order, n + 2, Len(Order))
             /\ \A i \in DOMAIN todo : i = 1 \/ i - 1 \in DOMAIN Tail(todo)
             /\ \A i \in DOMAIN Tail(todo) : Tail(todo)[i] = todo[i + 1]
  <2>1. /\ Head(todo) \in Workflows /\ Tail(todo) \in Seq(Workflows)
        /\ Len(Tail(todo)) = Len(todo) - 1
        /\ \A i \in 1 .. Len(Tail(todo)) : Tail(todo)[i] = todo[i + 1]
    BY <1>3, <1>4, HeadTailProperties
  <2>2. n + 1 \in 1 .. Len(Order)
    BY <1>1, <1>3, <1>4, EmptySeq
  <2>3. Tail(todo) = SubSeq(Order, n + 2, Len(Order))
    <3>1. Tail(SubSeq(Order, n + 1, Len(Order))) = SubSeq(Order, (n + 1) + 1, Len(Order))
      BY <1>1, <2>2, HeadTailOfSubSeq
    <3>2. (n + 1) + 1 = n + 2
      OBVIOUS
    <3> QED
      BY <3>1, <3>2
  <2> QED
    BY <1>1, <1>3, <2>1, <2>2, <2>3
<1> QED
  BY <1>3, <1>4

\* The target of a workflow is settled when the lookups have ended.
LEMMA TargetFrame ==
  ASSUME UNCHANGED <<dry_run, read, answers>>, NEW f
  PROVE  Target(f)' = Target(f)
<1>1. PICK text : text = read[f]
  OBVIOUS
<1>2. Updated(text)' = Updated(text)
  BY DEF Updated, ComposeUpdated, ActionsUpdated, IsComposeVersion, InSetupComposeStep
<1>3. Target(f) = IF ~dry_run /\ Updated(text) # text THEN Updated(text) ELSE text
  BY <1>1 DEF Target, Rewrites
<1>4. read'[f] = text
  BY <1>1
<1>5. Target(f)' = (IF ~dry_run /\ Updated(text) # text THEN Updated(text) ELSE text)'
  BY <1>4 DEF Target, Rewrites
<1> QED
  BY <1>2, <1>3, <1>5

\* Initially the workflows are texts of the repository and no run is under way.
LEMMA InitIInv == Init => IInv
<1> SUFFICES ASSUME Init PROVE IInv
  OBVIOUS
<1>1. /\ files \in [Workflows -> UNION {Texts[f] : f \in Workflows}]
      /\ \A f \in Workflows : files[f] \in Texts[f]
  BY DEF Init
<1>2. \A f \in Workflows : /\ files[f] \in Seq(Line) /\ StepsHoldNoLists(files[f])
                           /\ \A i \in DOMAIN files[f] : WellFormed(files[f][i])
  BY <1>1, TextsAssumption
<1>3. files \in [Workflows -> Seq(Line)]
  BY <1>1, <1>2
<1>4. \E n \in 0 .. Len(Order) : todo = SubSeq(Order, n + 1, Len(Order))
  <2>1. Len(Order) \in Nat
    BY OrderAssumption
  <2>2. SubSeq(Order, Len(Order) + 1, Len(Order)) = <<>>
    BY <2>1, SubSeqEmpty
  <2> QED
    BY <2>1, <2>2 DEF Init
<1>5. TypeOK
  <2>1. DOMAIN lookup = {}
    BY DEF Init
  <2>2. 0 \in 0 .. Runs /\ 0 \in 0 .. Edits
    BY BoundsAssumption
  <2> QED
    BY <1>2, <1>4, <2>1, <2>2, GitHubAssumption DEF Init, TypeOK
<1>6. TypeInv
  BY <1>2, <1>3, <1>5 DEF Init, TypeInv
<1>7. RunInv
  BY DEF Init, RunInv, Running
<1> QED
  BY <1>6, <1>7 DEF IInv

\* A run reads the workflows and asks about every action that they use.
LEMMA StartStep ==
  ASSUME IInv, NEW dry \in BOOLEAN, Start(dry)
  PROVE  IInv'
<1>1. TypeInv /\ TypeOK
  BY DEF IInv, TypeInv
<1>2. /\ runs < Runs /\ runs' = runs + 1 /\ dry_run' = dry /\ read' = files
      /\ lookup' = [r \in UNION {UsedActions(files[f]) : f \in Workflows} |-> "release"]
      /\ answers' = [r \in Names |-> None] /\ todo' = <<>> /\ touched' = FALSE
      /\ pc' = IF Order = <<>> THEN "done" ELSE "actions"
      /\ UNCHANGED <<files, release, newest, edits>>
  BY DEF Start
<1>3. \E n \in 0 .. Len(Order) : todo' = SubSeq(Order, n + 1, Len(Order))
  <2>1. Len(Order) \in Nat
    BY OrderAssumption
  <2>2. SubSeq(Order, Len(Order) + 1, Len(Order)) = <<>>
    BY <2>1, SubSeqEmpty
  <2> QED
    BY <1>2, <2>1, <2>2
<1>4. DOMAIN lookup' \subseteq Names /\ \A r \in DOMAIN lookup' : lookup'[r] = "release"
  <2>1. \A f \in Workflows : UsedActions(files[f]) \subseteq Actions
    <3> SUFFICES ASSUME NEW f \in Workflows, NEW i \in DOMAIN files[f], files[f][i].kind = "uses"
                 PROVE  files[f][i].action \in Actions
      BY DEF UsedActions
    <3>1. WellFormed(files[f][i])
      BY <1>1 DEF TypeOK
    <3> QED
      BY <3>1 DEF WellFormed, Line
  <2> QED
    BY <1>2, <2>1 DEF Names
<1>5. runs' \in 0 .. Runs
  BY <1>1, <1>2, BoundsAssumption DEF TypeOK
<1>6. TypeInv'
  BY <1>1, <1>2, <1>3, <1>4, <1>5 DEF TypeInv, TypeOK
<1>7. RunInv'
  <2>1. CASE Order = <<>>
    <3>1. Workflows = {}
      BY <2>1 DEF Workflows
    <3>2. DOMAIN lookup' = {}
      BY <1>2, <3>1
    <3> QED
      BY <1>2, <2>1, <3>1, <3>2 DEF RunInv, Running, Answered
  <2>2. CASE Order # <<>>
    BY <1>2, <2>2 DEF RunInv, Running
  <2> QED
    BY <2>1, <2>2
<1> QED
  BY <1>6, <1>7 DEF IInv

\* One workflow is rewritten: from what the run has read, whatever it is now.
LEMMA WriteStep ==
  ASSUME IInv, WriteFile
  PROVE  IInv'
<1>1. TypeInv /\ TypeOK /\ RunInv
  BY DEF IInv, TypeInv
<1>2. /\ pc = "write" /\ todo # <<>> /\ todo' = Tail(todo)
      /\ files' = IF Rewrites(Head(todo))
                    THEN [files EXCEPT ![Head(todo)] = Updated(read[Head(todo)])] ELSE files
      /\ pc' = IF Tail(todo) = <<>> THEN "done" ELSE "write"
      /\ UNCHANGED <<release, newest, dry_run, read, lookup, answers, runs, edits, touched>>
  BY <1>1 DEF WriteFile, RunInv
<1>3. PICK n \in 0 .. Len(Order) : todo = SubSeq(Order, n + 1, Len(Order))
  BY <1>1 DEF TypeOK
<1> DEFINE h == Head(todo)
<1>4. /\ h \in Workflows
      /\ n + 1 \in 0 .. Len(Order)
      /\ Tail(todo) = SubSeq(Order, n + 2, Len(Order))
      /\ \A i \in DOMAIN todo : i = 1 \/ i - 1 \in DOMAIN Tail(todo)
      /\ \A i \in DOMAIN Tail(todo) : Tail(todo)[i] = todo[i + 1]
      /\ todo \in Seq(Workflows)
  BY <1>2, <1>3, RemainingWorkflows
<1>5. /\ h = todo[1] /\ DOMAIN todo = 1 .. Len(todo) /\ Len(todo) \in Nat
  BY <1>2, <1>4
<1> HIDE DEF h
<1>6. /\ files' = IF Rewrites(h) THEN [files EXCEPT ![h] = Updated(read[h])] ELSE files
      /\ \E m \in 0 .. Len(Order) : todo' = SubSeq(Order, m + 1, Len(Order))
  <2>1. (n + 1) + 1 = n + 2
    OBVIOUS
  <2> QED
    BY <1>2, <1>4, <2>1 DEF h
<1>7. /\ Updated(read[h]) \in Seq(Line) /\ SameShape(read[h], Updated(read[h]))
      /\ \A i \in DOMAIN read[h] : WellFormed(Updated(read[h])[i])
  BY <1>1, <1>4, UpdatedText DEF TypeInv, TypeOK
<1>8. /\ StepsHoldNoLists(Updated(read[h]))
      /\ \A i \in DOMAIN Updated(read[h]) : WellFormed(Updated(read[h])[i])
  <2>1. read[h] \in Seq(Line) /\ StepsHoldNoLists(read[h])
    BY <1>1, <1>4 DEF TypeInv
  <2>2. DOMAIN Updated(read[h]) = DOMAIN read[h]
    BY <1>7, <2>1 DEF SameShape
  <2> QED
    BY <1>7, <2>1, <2>2, ShapeDecides
<1>9. \A f \in Workflows : files'[f] = IF f = h /\ Rewrites(h) THEN Updated(read[h]) ELSE files[f]
  BY <1>1, <1>4, <1>6 DEF TypeInv
<1>10. files' \in [Workflows -> Seq(Line)]
  BY <1>1, <1>6, <1>7 DEF TypeInv
<1>11. TypeInv'
  <2>1. \A f \in Workflows : \A i \in DOMAIN files'[f] : WellFormed(files'[f][i])
    BY <1>1, <1>8, <1>9 DEF TypeOK
  <2>2. \A f \in Workflows : StepsHoldNoLists(files'[f])
    BY <1>1, <1>8, <1>9 DEF TypeInv
  <2>3. TypeOK'
    BY <1>1, <1>2, <1>6, <2>1 DEF TypeOK
  <2> QED
    BY <1>1, <1>2, <1>10, <2>2, <2>3 DEF TypeInv
<1>12. RunInv'
  <2>1. Order # <<>> /\ Answered /\ Answered'
    BY <1>1, <1>2 DEF RunInv, Running, Answered
  <2>2. \A f \in Workflows : Target(f)' = Target(f)
    BY <1>2, TargetFrame
  <2>3. ASSUME ~touched, NEW f \in Workflows
        PROVE  /\ files'[f] \in {read[f], Target(f)}
               /\ files'[f] = Target(f) \/ \E i \in DOMAIN Tail(todo) : Tail(todo)[i] = f
    <3>1. /\ files[f] \in {read[f], Target(f)}
          /\ Pending(f) \/ files[f] = Target(f)
      BY <1>1, <1>2, <2>3 DEF RunInv
    <3>2. CASE f = h
      BY <1>9, <3>1, <3>2 DEF Target
    <3>3. CASE f # h
      <4>1. files'[f] = files[f]
        BY <1>9, <3>3
      <4>2. Pending(f) => \E i \in DOMAIN Tail(todo) : Tail(todo)[i] = f
        <5> SUFFICES ASSUME NEW i \in DOMAIN todo, todo[i] = f
                     PROVE  \E k \in DOMAIN Tail(todo) : Tail(todo)[k] = f
          BY DEF Pending
        <5>1. i # 1
          BY <1>5, <3>3
        <5>2. i - 1 \in DOMAIN Tail(todo) /\ (i - 1) + 1 = i
          BY <1>4, <1>5, <5>1
        <5> QED
          BY <1>4, <5>2
      <4> QED
        BY <3>1, <4>1, <4>2
    <3> QED
      BY <3>2, <3>3
  <2>4. CASE Tail(todo) = <<>>
    <3>1. pc' = "done" /\ DOMAIN Tail(todo) = {}
      BY <1>2, <2>4
    <3> QED
      BY <1>2, <2>1, <2>2, <2>3, <3>1 DEF RunInv, Running
  <2>5. CASE Tail(todo) # <<>>
    <3>1. pc' = "write" /\ todo' = Tail(todo) /\ todo' # <<>> /\ touched' = touched /\ read' = read
      BY <1>2, <2>5
    <3> QED
      BY <2>1, <2>2, <2>3, <3>1 DEF RunInv, Running, Pending
  <2> QED
    BY <2>4, <2>5
<1> QED
  BY <1>11, <1>12 DEF IInv

\* An answer from GitHub is one of its refs, and no lookup runs once all have ended.
LEMMA AskStep ==
  ASSUME IInv, NEW r \in DOMAIN lookup, AskForRelease(r) \/ AskForTags(r)
  PROVE  IInv'
<1>1. TypeInv /\ TypeOK /\ RunInv /\ r \in Names
  BY DEF IInv, TypeInv, TypeOK
<1>2. /\ UNCHANGED <<files, release, newest, pc, dry_run, read, todo, runs, edits, touched>>
      /\ lookup[r] # "end"
      /\ \E next \in {"tags", "end"} : lookup' = [lookup EXCEPT ![r] = next]
      /\ \E answer \in Refs \cup {None} :
           answers' = [answers EXCEPT ![r] = answer] \/ answers' = answers
  BY <1>1 DEF AskForRelease, AskForTags, TypeOK
<1>3. /\ DOMAIN lookup' = DOMAIN lookup
      /\ \A x \in DOMAIN lookup : lookup'[x] \in {"release", "tags", "end"}
      /\ answers' \in [Names -> Refs \cup {None}]
  BY <1>1, <1>2 DEF TypeOK
<1>4. TypeInv'
  BY <1>1, <1>2, <1>3 DEF TypeInv, TypeOK
<1>5. pc \notin {"write", "done"}
  BY <1>1, <1>2 DEF RunInv, Answered
<1>6. RunInv'
  BY <1>1, <1>2, <1>5 DEF RunInv, Running
<1> QED
  BY <1>4, <1>6 DEF IInv

\* Every step of a run and of its surroundings preserves the inductive invariant.
LEMMA NextIInv == IInv /\ [Next]_vars => IInv'
<1> SUFFICES ASSUME IInv, [Next]_vars PROVE IInv'
  OBVIOUS
<1>0. TypeInv /\ TypeOK /\ RunInv
  BY DEF IInv, TypeInv
<1>1. ASSUME NEW dry \in BOOLEAN, Start(dry) PROVE IInv'
  BY <1>1, StartStep
<1>2. ASSUME NEW r \in DOMAIN lookup, AskForRelease(r) \/ AskForTags(r) PROVE IInv'
  BY <1>2, AskStep
<1>3. CASE LookUpTools
  <2>1. /\ pc = "actions" /\ pc' = "tools"
        /\ lookup' = [r \in workflow_tool_repositories(read) |-> "release"]
        /\ UNCHANGED <<files, release, newest, dry_run, read, answers, todo, runs, edits, touched>>
    BY <1>3 DEF LookUpTools
  <2>2. /\ DOMAIN lookup' \subseteq Names
        /\ \A r \in DOMAIN lookup' : lookup'[r] \in {"release", "tags", "end"}
    BY <2>1 DEF workflow_tool_repositories, Names
  <2>3. TypeInv'
    BY <1>0, <2>1, <2>2 DEF TypeInv, TypeOK
  <2>4. RunInv'
    BY <1>0, <2>1 DEF RunInv, Running
  <2> QED
    BY <2>3, <2>4 DEF IInv
<1>4. CASE BeginWriting
  <2>1. /\ pc = "tools" /\ pc' = "write" /\ todo' = Order /\ Answered
        /\ UNCHANGED <<files, release, newest, dry_run, read, lookup, answers, runs, edits, touched>>
    BY <1>4 DEF BeginWriting
  <2>2. \E n \in 0 .. Len(Order) : todo' = SubSeq(Order, n + 1, Len(Order))
    <3>1. Order \in Seq(Workflows) /\ Len(Order) \in Nat
      BY OrderAssumption
    <3>2. SubSeq(Order, 0 + 1, Len(Order)) = Order
      BY <3>1, SubSeqFull
    <3> QED
      BY <2>1, <3>1, <3>2
  <2>3. TypeInv'
    BY <1>0, <2>1, <2>2 DEF TypeInv, TypeOK
  <2>4. RunInv'
    <3>1. Order # <<>> /\ Answered'
      BY <1>0, <2>1 DEF RunInv, Running, Answered
    <3>2. \A f \in Workflows : Pending(f)'
      BY <2>1 DEF Pending, Workflows
    <3>3. \A f \in Workflows : ~touched => files'[f] = read'[f]
      BY <1>0, <2>1 DEF RunInv
    <3> QED
      BY <2>1, <3>1, <3>2, <3>3 DEF RunInv, Running
  <2> QED
    BY <2>3, <2>4 DEF IInv
<1>5. CASE WriteFile
  BY <1>5, WriteStep
<1>6. CASE Abort
  <2>1. /\ pc' = "failed" /\ lookup' = <<>> /\ todo' = <<>>
        /\ UNCHANGED <<release, newest, dry_run, read, answers, runs, edits, touched>>
        /\ \/ files' = files
           \/ \E f : files' = [files EXCEPT ![f] = <<>>]
    BY <1>6 DEF Abort
  <2>2. /\ files' \in [Workflows -> Seq(Line)]
        /\ \A f \in Workflows : files'[f] \in {files[f], <<>>}
    BY <1>0, <2>1, EmptySeq DEF TypeInv
  <2>3. \A f \in Workflows : /\ \A i \in DOMAIN files'[f] : WellFormed(files'[f][i])
                             /\ StepsHoldNoLists(files'[f])
    <3> SUFFICES ASSUME NEW f \in Workflows
                 PROVE  /\ \A i \in DOMAIN files'[f] : WellFormed(files'[f][i])
                        /\ StepsHoldNoLists(files'[f])
      OBVIOUS
    <3>1. CASE files'[f] = files[f]
      BY <1>0, <3>1 DEF TypeInv, TypeOK
    <3>2. CASE files'[f] = <<>>
      <4>1. DOMAIN files'[f] = {}
        BY <3>2
      <4> QED
        BY <4>1 DEF StepsHoldNoLists
    <3> QED
      BY <2>2, <3>1, <3>2
  <2>4. /\ DOMAIN lookup' = {}
        /\ \E n \in 0 .. Len(Order) : todo' = SubSeq(Order, n + 1, Len(Order))
    <3>1. Len(Order) \in Nat
      BY OrderAssumption
    <3>2. SubSeq(Order, Len(Order) + 1, Len(Order)) = <<>>
      BY <3>1, SubSeqEmpty
    <3> QED
      BY <2>1, <3>1, <3>2
  <2>5. TypeInv'
    BY <1>0, <2>1, <2>2, <2>3, <2>4 DEF TypeInv, TypeOK
  <2>6. RunInv'
    BY <2>1 DEF RunInv, Running
  <2> QED
    BY <2>5, <2>6 DEF IInv
<1>7. ASSUME NEW u \in Upcoming, Publish(u[1], u[2]) PROVE IInv'
  <2>1. /\ newest' = [newest EXCEPT ![u[1]] = u[2]]
        /\ release' \in {release, [release EXCEPT ![u[1]] = u[2]]}
        /\ UNCHANGED <<files, pc, dry_run, read, lookup, answers, todo, runs, edits, touched>>
    BY <1>7 DEF Publish
  <2>2. u[1] \in Names /\ u[2] \in Refs
    BY GitHubAssumption
  <2>3. release' \in [Names -> Refs \cup {None}] /\ newest' \in [Names -> Refs \cup {None}]
    BY <1>0, <2>1, <2>2 DEF TypeOK
  <2>4. TypeInv'
    BY <1>0, <2>1, <2>3 DEF TypeInv, TypeOK
  <2>5. RunInv'
    <3>1. \A f \in Workflows : Target(f)' = Target(f) /\ (Pending(f)' <=> Pending(f))
      BY <2>1, TargetFrame DEF Pending
    <3> QED
      BY <1>0, <2>1, <3>1 DEF RunInv, Running, Answered
  <2> QED
    BY <2>4, <2>5 DEF IInv
<1>8. ASSUME NEW f \in Workflows, NEW text \in Texts[f], Edit(f, text) PROVE IInv'
  <2>1. /\ edits < Edits /\ edits' = edits + 1 /\ touched' = TRUE
        /\ files' = [files EXCEPT ![f] = text]
        /\ UNCHANGED <<release, newest, pc, dry_run, read, lookup, answers, todo, runs>>
    BY <1>8 DEF Edit
  <2>2. /\ text \in Seq(Line) /\ StepsHoldNoLists(text)
        /\ \A i \in DOMAIN text : WellFormed(text[i])
    BY TextsAssumption
  <2>3. /\ files' \in [Workflows -> Seq(Line)]
        /\ \A g \in Workflows : files'[g] \in {files[g], text}
    BY <1>0, <2>1, <2>2 DEF TypeInv
  <2>4. edits' \in 0 .. Edits
    BY <1>0, <2>1, BoundsAssumption DEF TypeOK
  <2>5. \A g \in Workflows : /\ \A i \in DOMAIN files'[g] : WellFormed(files'[g][i])
                             /\ StepsHoldNoLists(files'[g])
    BY <1>0, <2>2, <2>3 DEF TypeInv, TypeOK
  <2>6. TypeInv'
    BY <1>0, <2>1, <2>3, <2>4, <2>5 DEF TypeInv, TypeOK
  <2>7. RunInv'
    BY <1>0, <2>1 DEF RunInv, Running, Answered
  <2> QED
    BY <2>6, <2>7 DEF IInv
<1>9. CASE UNCHANGED vars
  <2>1. UNCHANGED <<files, release, newest, pc, dry_run, read, lookup, answers, todo, runs,
                    edits, touched>>
    BY <1>9 DEF vars
  <2>2. TypeInv'
    BY <1>0, <2>1 DEF TypeInv, TypeOK
  <2>3. \A f \in Workflows : Target(f)' = Target(f) /\ (Pending(f)' <=> Pending(f))
    BY <2>1, TargetFrame DEF Pending
  <2>4. RunInv'
    BY <1>0, <2>1, <2>3 DEF RunInv, Running, Answered
  <2> QED
    BY <2>2, <2>4 DEF IInv
<1> QED
  BY <1>1, <1>2, <1>3, <1>4, <1>5, <1>6, <1>7, <1>8, <1>9 DEF Next, Stop

\* It holds in every reachable state.
LEMMA Invariance == Spec => []IInv
  BY InitIInv, NextIInv, PTL DEF Spec

-----------------------------------------------------------------------------
(* The properties.                                                         *)

\* The texts of the workflows stay well formed, whatever run, failing request,
\* publication or edit comes between.
THEOREM TypeCorrectness == Spec => []TypeOK
<1>1. IInv => TypeOK
  BY DEF IInv, TypeInv
<1> QED
  BY <1>1, Invariance, PTL

\* update_github_action_versions: a completed run leaves the pins of an action
\* at the major version, and the Compose versions at the version, that its
\* lookups found, whatever mixture it started from.
THEOREM CompletedRunsAgree == Spec => []PinsAgree
<1>1. ASSUME IInv, pc = "done", ~dry_run, ~touched, NEW f \in Workflows, NEW i \in DOMAIN files[f]
      PROVE  LET line == files[f][i]
                 latest == IF line.kind = "uses" THEN answers[line.action] ELSE answers[Compose]
             IN  /\ line.kind = "uses" /\ {line.ref, latest} \subseteq DOMAIN Major
                      => Major[line.ref] = Major[latest]
                 /\ line.kind = "version" /\ latest # None
                    /\ (\E u \in 1 .. i : InStepOf(files[f], u, i))
                      => line.ref = latest
  <2>1. /\ TypeOK /\ files[f] \in Seq(Line) /\ read[f] \in Seq(Line)
        /\ StepsHoldNoLists(files[f]) /\ \A k \in DOMAIN read[f] : WellFormed(read[f][k])
    BY <1>1 DEF IInv, TypeInv, TypeOK
  <2>2. files[f] = Updated(read[f])
    BY <1>1 DEF IInv, RunInv, Target, Rewrites
  <2>3. /\ SameShape(read[f], files[f])
        /\ \A k \in DOMAIN read[f] :
             LET line == files[f][k] IN
             /\ line.kind = "uses" /\ {line.ref, answers[line.action]} \subseteq DOMAIN Major
                  => Major[line.ref] = Major[answers[line.action]]
             /\ line.kind = "version" /\ answers[Compose] # None /\ InSetupComposeStep(read[f], k)
                  => line.ref = answers[Compose]
    BY <2>1, <2>2, UpdatedText
  <2>4. i \in DOMAIN read[f]
    BY <1>1, <2>1, <2>3 DEF SameShape
  <2>5. (\E u \in 1 .. i : InStepOf(files[f], u, i)) => InSetupComposeStep(files[f], i)
    BY <1>1, <2>1, VersionsInStepsAreFound
  <2>6. InSetupComposeStep(files[f], i) => InSetupComposeStep(read[f], i)
    BY <2>1, <2>3, <2>4, ShapeDecides
  <2> QED
    BY <2>3, <2>4, <2>5, <2>6
<1>2. IInv => PinsAgree
  BY <1>1 DEF PinsAgree
<1> QED
  BY <1>2, Invariance, PTL
=============================================================================
