----------------------- MODULE DependencyUpdaterProofs -----------------------
(***************************************************************************)
(* Theorems about DependencyUpdater for every set of dependencies and      *)
(* build requirements, any number of versions, runs and edits.             *)
(***************************************************************************)
EXTENDS DependencyUpdater, TLAPS

\* The lock was current when the run started, or the run has upgraded it, and
\* nobody has edited pyproject.toml since.
Undisturbed == ~touched /\ (current \/ (options.upgrade_lock /\ ~options.dry_run))

\* Nothing is locked that has not been released: the second lock of a run finds
\* the first one among uv's solutions.
LockIsReleased == \A p \in Locked : lock[p] <= released[p]

\* What each step of an undisturbed run relies on.
RunInv ==
    Undisturbed =>
      /\ pc \in {"read", "write", "done"} => LockIsCurrent
      /\ pc = "write" => read.project = project /\ read.lock = lock
      /\ pc \in {"pins", "relock"} => \A p \in Locked : Within(lock[p], project[p])
      /\ pc = "pins" => LockIsCurrent \/ (updates /\ ~options.dry_run)
      /\ pc \in {"pins", "relock", "done"} /\ options.update_pyproject /\ ~options.dry_run =>
           \A p \in Locked : project[p].lower = lock[p]

SafeInv == LockIsReleased /\ RunInv

IInv == TypeOK /\ SafeInv

-----------------------------------------------------------------------------
(* What uv and the sync of pyproject.toml do.                              *)

\* `uv lock` and `uv lock --upgrade` leave a current lock of released versions.
LEMMA UvLeavesCurrentLock ==
  ASSUME TypeOK, UvUpgrade \/ UvLock, UNCHANGED <<project, released>>
  PROVE  /\ lock' \in [Locked -> Versions] /\ lockedFor' \in [Locked -> Bounds]
         /\ LockIsReleased' /\ LockIsCurrent'
         /\ lock \in Solutions /\ UvLock => lock' = lock
<1>1. lock' \in Solutions /\ lockedFor' = LockBounds
  BY DEF UvUpgrade, UvLock
<1>2. LockBounds \in [Locked -> Bounds] /\ LockBounds' = LockBounds
  BY DEF LockBounds, TypeOK, Packages
<1>3. lock' \in [Locked -> Versions] /\ LockIsReleased'
  BY <1>1 DEF Solutions, LockIsReleased
<1>4. LockIsCurrent'
  BY <1>1, <1>2 DEF LockIsCurrent, Solutions, Within
<1>5. lock \in Solutions /\ UvLock => lock' = lock
  BY DEF UvLock
<1> QED
  BY <1>1, <1>2, <1>3, <1>4, <1>5

\* with_lower_bound changes the lower bound only, and only to a version below
\* the upper bound.
LEMMA OnlyLowerBoundChanges ==
  ASSUME TypeOK, NEW p \in Packages, NEW answer \in [Packages -> Versions \cup {None}]
  PROVE  /\ with_lower_bound(p, answer) \in Bounds
         /\ \/ with_lower_bound(p, answer) = read.project[p]
            \/ \E v \in Versions :
                  /\ v < read.project[p].below
                  /\ with_lower_bound(p, answer) = [read.project[p] EXCEPT !.lower = v]
<1>1. /\ read.project[p] \in Bounds
      /\ p \in Locked => read.lock[p] \in Versions \cup {None}
  BY DEF TypeOK
<1> DEFINE target == target_version(p, answer)
<1>2. /\ target \in Versions \cup {None}
      /\ target # None => target < read.project[p].below
  BY <1>1 DEF target_version, satisfies_upper_bounds
<1> HIDE DEF target
<1>3. with_lower_bound(p, answer) =
        IF target # None THEN [read.project[p] EXCEPT !.lower = target] ELSE read.project[p]
  BY DEF with_lower_bound, target
<1>4. CASE target # None
  <2>1. [read.project[p] EXCEPT !.lower = target] \in Bounds
    BY <1>1, <1>2, <1>4 DEF Bounds
  <2> QED
    BY <1>2, <1>3, <1>4, <2>1
<1>5. CASE target = None
  BY <1>1, <1>3, <1>5
<1> QED
  BY <1>4, <1>5

\* So a satisfiable specifier without ==, ~= and != clauses stays satisfiable:
\* by the version that its lower bound becomes.
LEMMA RaisedBoundsAreSatisfiable ==
  ASSUME TypeOK, NEW p \in Packages, NEW answer \in [Packages -> Versions \cup {None}],
         Satisfiable(read.project[p]), OnlyBounds(read.project[p])
  PROVE  Satisfiable(with_lower_bound(p, answer))
<1>1. CASE with_lower_bound(p, answer) = read.project[p]
  BY <1>1
<1>2. ASSUME NEW v \in Versions, v < read.project[p].below,
             with_lower_bound(p, answer) = [read.project[p] EXCEPT !.lower = v]
      PROVE  Satisfiable(with_lower_bound(p, answer))
  <2>1. read.project[p] \in Bounds /\ v \in Nat
    BY BoundsAssumption DEF TypeOK, Versions
  <2>2. /\ with_lower_bound(p, answer).lower = v
        /\ with_lower_bound(p, answer).below = read.project[p].below
        /\ with_lower_bound(p, answer).others = Versions
    BY <1>2, <2>1 DEF Bounds, OnlyBounds
  <2>3. Within(v, with_lower_bound(p, answer))
    BY <1>2, <2>1, <2>2 DEF Within
  <2> QED
    BY <2>3 DEF Satisfiable
<1> QED
  BY <1>1, <1>2, OnlyLowerBoundChanges

\* A dependency whose locked version is within its bounds gets that version as
\* its lower bound, whatever pypi.org answers.
LEMMA LockedVersionBecomesBound ==
  ASSUME TypeOK, NEW p \in Locked, NEW answer, Within(read.lock[p], read.project[p])
  PROVE  with_lower_bound(p, answer) = [read.project[p] EXCEPT !.lower = read.lock[p]]
<1>1. read.project[p].others \subseteq Versions
  BY DEF TypeOK, Packages, Bounds
<1>2. read.lock[p] # None /\ read.lock[p] < read.project[p].below
  BY <1>1 DEF Within, Versions, None
<1> QED
  BY <1>2 DEF with_lower_bound, target_version, satisfies_upper_bounds

\* What WriteProject leaves in pyproject.toml.
LEMMA WrittenProject ==
  ASSUME TypeOK, WriteProject
  PROVE  \E answer \in [Packages -> Versions \cup {None}] :
           LET synced == [p \in Packages |-> with_lower_bound(p, answer)]
           IN  /\ updates' = (synced # read.project)
               /\ project' = IF updates' /\ ~options.dry_run THEN synced ELSE project
  BY DEF WriteProject, Writes

-----------------------------------------------------------------------------
(* The inductive invariant.                                                *)

\* The initial files satisfy it.
LEMMA InitIInv == Init => IInv
<1> SUFFICES ASSUME Init PROVE IInv
  OBVIOUS
<1>1. project \in [Packages -> Bounds] /\ LockBounds \in [Locked -> Bounds]
  BY SpecifiersAssumption DEF Init, LockBounds, Packages
<1>2. TypeOK
  <2>1. FirstRelease \in Versions /\ 0 \in 0 .. Runs /\ 0 \in 0 .. Edits
    BY BoundsAssumption DEF Versions
  <2>2. released \in [Packages -> Versions] /\ lock \in [Locked -> Versions \cup {None}]
    BY <2>1 DEF Init
  <2>3. options \in Options
    BY DEF Init, Options
  <2>4. read \in [project : [Packages -> Bounds], lock : [Locked -> Versions \cup {None}]]
    BY <1>1, <2>2 DEF Init
  <2> QED
    BY <1>1, <2>1, <2>2, <2>3, <2>4 DEF Init, TypeOK
<1>3. LockIsReleased
  <2> SUFFICES ASSUME NEW p \in Locked PROVE lock[p] <= released[p]
    BY DEF LockIsReleased
  <2>1. released = [q \in Packages |-> FirstRelease]
    BY DEF Init
  <2>2. p \in Packages
    BY DEF Packages
  <2>3. released[p] \in Nat
    BY <2>1, <2>2, BoundsAssumption
  <2>4. lock[p] = None \/ lock[p] <= released[p]
    BY DEF Init
  <2>5. CASE lock[p] = None
    BY <2>3, <2>5 DEF None
  <2> QED
    BY <2>4, <2>5
<1>4. RunInv
  BY DEF Init, RunInv
<1> QED
  BY <1>2, <1>3, <1>4 DEF IInv, SafeInv

\* Starting, as `make` or by hand: only a current lock counts as undisturbed.
LEMMA StartStep ==
  ASSUME IInv, NEW o \in Options, Start(o)
  PROVE  IInv'
<1>1. TypeOK /\ LockIsReleased
  BY DEF IInv, SafeInv
<1>2. /\ UNCHANGED <<project, released, read, edits>> /\ runs' = runs + 1 /\ runs < Runs
      /\ options' = o /\ pc' = FirstStep(o) /\ updates' = FALSE /\ touched' = FALSE
      /\ current' = (o.make \/ LockIsCurrent)
  BY DEF Start
<1>3. /\ lock' \in [Locked -> Versions \cup {None}] /\ lockedFor' \in [Locked -> Bounds]
      /\ LockIsReleased'
      /\ o.make \/ LockIsCurrent => LockIsCurrent'
  <2>1. CASE o.make /\ ~LockIsCurrent
    <3>1. UvLock
      BY <2>1 DEF Start
    <3> QED
      BY <1>1, <1>2, <3>1, UvLeavesCurrentLock
  <2>2. CASE ~(o.make /\ ~LockIsCurrent)
    <3>1. UNCHANGED <<lock, lockedFor>>
      BY <2>2 DEF Start
    <3>2. LockIsReleased' /\ (LockIsCurrent => LockIsCurrent')
      BY <1>1, <1>2, <3>1 DEF LockIsReleased, LockIsCurrent, LockBounds
    <3> QED
      BY <1>1, <2>2, <3>1, <3>2 DEF TypeOK
  <2> QED
    BY <2>1, <2>2
<1>4. TypeOK'
  <2>1. FirstStep(o) \in {"upgrade", "read", "pins"}
    BY DEF FirstStep
  <2>2. runs' \in 0 .. Runs
    BY <1>1, <1>2, BoundsAssumption DEF TypeOK
  <2>3. current' \in BOOLEAN
    BY <1>2 DEF Options
  <2> QED
    BY <1>1, <1>2, <1>3, <2>1, <2>2, <2>3 DEF TypeOK
<1>5. RunInv'
  <2> SUFFICES ASSUME Undisturbed' PROVE
        /\ pc' \in {"read", "pins"} => LockIsCurrent'
        /\ pc' \in {"upgrade", "read", "pins"}
        /\ pc' = "pins" => ~options'.update_pyproject
    BY DEF RunInv, LockIsCurrent
  <2>1. pc' \in {"read", "pins"} => ~(o.upgrade_lock /\ ~o.dry_run)
    BY <1>2 DEF FirstStep
  <2>2. pc' \in {"read", "pins"} => current'
    BY <1>2, <2>1 DEF Undisturbed
  <2>3. pc' = "pins" => ~o.update_pyproject
    BY <1>2 DEF FirstStep
  <2> QED
    BY <1>2, <1>3, <2>2, <2>3 DEF FirstStep
<1> QED
  BY <1>3, <1>4, <1>5 DEF IInv, SafeInv

\* The write: the bounds of the dependencies become the versions in the lock,
\* which stay within them.
LEMMA WriteStep ==
  ASSUME IInv, WriteProject
  PROVE  IInv'
<1>1. TypeOK /\ LockIsReleased /\ RunInv
  BY DEF IInv, SafeInv
<1>2. /\ pc = "write" /\ pc' = "pins"
      /\ UNCHANGED <<lock, lockedFor, released, options, read, runs, edits, current, touched>>
  BY DEF WriteProject
<1>3. PICK answer \in [Packages -> Versions \cup {None}] :
        /\ updates' = ([p \in Packages |-> with_lower_bound(p, answer)] # read.project)
        /\ project' = IF updates' /\ ~options.dry_run
                        THEN [p \in Packages |-> with_lower_bound(p, answer)] ELSE project
  BY <1>1, WrittenProject
<1> DEFINE synced == [p \in Packages |-> with_lower_bound(p, answer)]
<1>4. synced \in [Packages -> Bounds]
  BY <1>1, OnlyLowerBoundChanges
<1> HIDE DEF synced
<1>5. /\ updates' = (synced # read.project)
      /\ project' = IF updates' /\ ~options.dry_run THEN synced ELSE project
  BY <1>3 DEF synced
<1>6. TypeOK'
  BY <1>1, <1>2, <1>4, <1>5 DEF TypeOK
<1>7. LockIsReleased'
  BY <1>1, <1>2 DEF LockIsReleased
<1>8. RunInv'
  <2> SUFFICES ASSUME Undisturbed PROVE
        /\ \A p \in Locked : Within(lock[p], project'[p])
        /\ LockIsCurrent' \/ (updates' /\ ~options.dry_run)
        /\ options.update_pyproject /\ ~options.dry_run =>
             \A p \in Locked : project'[p].lower = lock[p]
    BY <1>2 DEF RunInv, Undisturbed, Within
  <2>1. LockIsCurrent /\ read.project = project /\ read.lock = lock
    BY <1>1, <1>2 DEF RunInv
  <2>2. \A p \in Locked : Within(lock[p], project[p]) /\ project[p] \in Bounds
    BY <1>1, <2>1 DEF LockIsCurrent, TypeOK, Packages
  <2>3. \A p \in Locked : synced[p] = [project[p] EXCEPT !.lower = lock[p]]
    BY <1>1, <2>1, <2>2, LockedVersionBecomesBound DEF synced, Packages
  <2>4. \A p \in Locked : synced[p].lower = lock[p] /\ Within(lock[p], synced[p])
    <3> SUFFICES ASSUME NEW p \in Locked
                 PROVE  synced[p].lower = lock[p] /\ Within(lock[p], synced[p])
      OBVIOUS
    <3>1. /\ synced[p].lower = lock[p] /\ synced[p].below = project[p].below
          /\ synced[p].others = project[p].others
      BY <2>2, <2>3 DEF Bounds
    <3>2. lock[p] \in Nat
      BY <2>2, BoundsAssumption DEF Within, Versions, Bounds
    <3> QED
      BY <2>2, <3>1, <3>2 DEF Within
  <2>5. CASE updates' /\ ~options.dry_run
    BY <1>5, <2>4, <2>5
  <2>6. CASE ~(updates' /\ ~options.dry_run)
    <3>1. project' = project /\ LockIsCurrent'
      BY <1>2, <1>5, <2>1, <2>6 DEF LockIsCurrent, LockBounds
    <3>2. ~options.dry_run => synced = project
      BY <1>5, <2>1, <2>6
    <3> QED
      BY <2>2, <2>4, <3>1, <3>2
  <2> QED
    BY <2>5, <2>6
<1> QED
  BY <1>6, <1>7, <1>8 DEF IInv, SafeInv

\* The second lock of a run finds its lock among the solutions and keeps it.
LEMMA RelockStep ==
  ASSUME IInv, RefreshLock
  PROVE  IInv'
<1>1. TypeOK /\ LockIsReleased /\ RunInv
  BY DEF IInv, SafeInv
<1>2. /\ pc = "relock" /\ pc' = "done" /\ UvLock
      /\ UNCHANGED <<project, released, options, read, updates, runs, edits, current, touched>>
  BY DEF RefreshLock
<1>3. /\ lock' \in [Locked -> Versions] /\ lockedFor' \in [Locked -> Bounds]
      /\ LockIsReleased' /\ LockIsCurrent'
      /\ lock \in Solutions => lock' = lock
  BY <1>1, <1>2, UvLeavesCurrentLock
<1>4. TypeOK'
  BY <1>1, <1>2, <1>3 DEF TypeOK
<1>5. RunInv'
  <2>1. ASSUME Undisturbed PROVE lock' = lock
    <3>1. \A p \in Locked : Within(lock[p], project[p]) /\ lock[p] <= released[p]
      BY <1>1, <1>2, <2>1 DEF RunInv, LockIsReleased
    <3>2. lock \in [Locked -> Versions]
      BY <1>1, <3>1 DEF Within, TypeOK, Packages, Bounds
    <3> QED
      BY <1>3, <3>1, <3>2 DEF Solutions
  <2> QED
    BY <1>1, <1>2, <1>3, <2>1 DEF RunInv, Undisturbed
<1> QED
  BY <1>3, <1>4, <1>5 DEF IInv, SafeInv

\* Every step of a run, release or edit preserves the inductive invariant.
LEMMA NextIInv == IInv /\ [Next]_vars => IInv'
<1> SUFFICES ASSUME IInv, [Next]_vars PROVE IInv'
  OBVIOUS
<1>0. TypeOK /\ LockIsReleased /\ RunInv
  BY DEF IInv, SafeInv
<1>1. ASSUME NEW o \in Options, Start(o) PROVE IInv'
  BY <1>1, StartStep
<1>2. CASE UpgradeLock
  <2>1. /\ pc' \in {"read", "pins"} /\ UvUpgrade
        /\ pc' = "pins" => ~options.update_pyproject
        /\ UNCHANGED <<project, released, options, read, updates, runs, edits, current, touched>>
    BY <1>2 DEF UpgradeLock, AfterUpgrade
  <2>2. /\ lock' \in [Locked -> Versions] /\ lockedFor' \in [Locked -> Bounds]
        /\ LockIsReleased' /\ LockIsCurrent'
    BY <1>0, <2>1, UvLeavesCurrentLock
  <2>3. TypeOK'
    BY <1>0, <2>1, <2>2 DEF TypeOK
  <2>4. RunInv'
    BY <2>1, <2>2 DEF RunInv, LockIsCurrent
  <2> QED
    BY <2>2, <2>3, <2>4 DEF IInv, SafeInv
<1>3. CASE ReadProject
  <2>1. /\ pc = "read" /\ pc' = "write" /\ read' = [project |-> project, lock |-> lock]
        /\ UNCHANGED <<project, lock, lockedFor, released, options, updates, runs, edits,
                       current, touched>>
    BY <1>3 DEF ReadProject
  <2>2. TypeOK'
    BY <1>0, <2>1 DEF TypeOK
  <2>3. RunInv'
    BY <1>0, <2>1 DEF RunInv, Undisturbed, LockIsCurrent, LockBounds
  <2>4. LockIsReleased'
    BY <1>0, <2>1 DEF LockIsReleased
  <2> QED
    BY <2>2, <2>3, <2>4 DEF IInv, SafeInv
<1>4. CASE WriteProject
  BY <1>4, WriteStep
<1>5. CASE UpdatePins
  <2>1. /\ pc = "pins" /\ pc' = AfterPins
        /\ UNCHANGED <<project, lock, lockedFor, released, options, read, updates, runs, edits,
                       current, touched>>
    BY <1>5 DEF UpdatePins
  <2>2. pc' \in {"relock", "done"} /\ (pc' = "done" => ~(updates /\ ~options.dry_run))
    BY <2>1 DEF AfterPins
  <2>3. TypeOK'
    BY <1>0, <2>1, <2>2 DEF TypeOK
  <2>4. RunInv'
    BY <1>0, <2>1, <2>2 DEF RunInv, Undisturbed, LockIsCurrent, LockBounds
  <2>5. LockIsReleased'
    BY <1>0, <2>1 DEF LockIsReleased
  <2> QED
    BY <2>3, <2>4, <2>5 DEF IInv, SafeInv
<1>6. CASE RefreshLock
  BY <1>6, RelockStep
<1>7. CASE Abort
  <2>1. /\ pc' = "failed"
        /\ UNCHANGED <<project, lock, lockedFor, released, options, read, updates, runs, edits,
                       current, touched>>
    BY <1>7 DEF Abort
  <2> QED
    BY <1>0, <2>1
    DEF IInv, SafeInv, TypeOK, RunInv, LockIsReleased
<1>8. ASSUME NEW p \in Packages, Release(p) PROVE IInv'
  <2>1. /\ released' = [released EXCEPT ![p] = released[p] + 1] /\ released[p] < MaxVersion
        /\ UNCHANGED <<project, lock, lockedFor, pc, options, read, updates, runs, edits,
                       current, touched>>
    BY <1>8 DEF Release
  <2>2. \A q \in Packages : released'[q] \in Versions /\ released[q] <= released'[q]
    BY <1>0, <2>1, BoundsAssumption DEF TypeOK, Versions
  <2>3. released' \in [Packages -> Versions]
    BY <1>0, <2>1, <2>2 DEF TypeOK
  <2>4. TypeOK'
    BY <1>0, <2>1, <2>3 DEF TypeOK
  <2>5. LockIsReleased'
    <3> SUFFICES ASSUME NEW q \in Locked PROVE lock[q] <= released'[q]
      BY <2>1 DEF LockIsReleased
    <3>1. lock[q] \in Nat /\ released[q] \in Nat /\ released'[q] \in Nat
      BY <1>0, <2>2, BoundsAssumption DEF TypeOK, Packages, Versions, None
    <3>2. lock[q] <= released[q] /\ released[q] <= released'[q]
      BY <1>0, <2>2 DEF LockIsReleased, Packages
    <3> QED
      BY <3>1, <3>2
  <2>6. RunInv'
    BY <1>0, <2>1 DEF RunInv, Undisturbed, LockIsCurrent, LockBounds
  <2> QED
    BY <2>4, <2>5, <2>6 DEF IInv, SafeInv
<1>9. ASSUME NEW p \in Packages, NEW b \in Specifiers, Edit(p, b) PROVE IInv'
  <2>1. /\ edits < Edits /\ edits' = edits + 1 /\ b \in Bounds
        /\ project' = [project EXCEPT ![p] = b] /\ touched' = TRUE
        /\ UNCHANGED <<lock, lockedFor, released, pc, options, read, updates, runs, current>>
    BY <1>9, SpecifiersAssumption DEF Edit
  <2>2. edits' \in 0 .. Edits
    BY <1>0, <2>1, BoundsAssumption DEF TypeOK
  <2>3. TypeOK'
    BY <1>0, <2>1, <2>2 DEF TypeOK
  <2>4. LockIsReleased'
    BY <1>0, <2>1 DEF LockIsReleased
  <2>5. RunInv'
    BY <2>1 DEF RunInv, Undisturbed
  <2> QED
    BY <2>3, <2>4, <2>5 DEF IInv, SafeInv
<1>10. CASE UNCHANGED vars
  BY <1>0, <1>10
  DEF vars, IInv, SafeInv, TypeOK, RunInv, Undisturbed, LockIsReleased, LockIsCurrent, LockBounds
<1> QED
  BY <1>1, <1>2, <1>3, <1>4, <1>5, <1>6, <1>7, <1>8, <1>9, <1>10 DEF Next, Stop

\* It holds in every reachable state.
LEMMA Invariance == Spec => []IInv
  BY InitIInv, NextIInv, PTL DEF Spec

-----------------------------------------------------------------------------
(* The properties.                                                         *)

\* The types of both files and of the run hold, whatever is released or edited.
THEOREM TypeCorrectness == Spec => []TypeOK
<1>1. IInv => TypeOK
  BY DEF IInv
<1> QED
  BY <1>1, Invariance, PTL

\* update_dependencies: a completed run that started from a current lock or
\* upgraded it leaves a current lock, unless pyproject.toml was edited meanwhile.
THEOREM CompletedRunsLeaveCurrentLock == Spec => []CompletedRunLeavesCurrentLock
<1>1. IInv => CompletedRunLeavesCurrentLock
  BY DEF IInv, SafeInv, RunInv, Undisturbed, CompletedRunLeavesCurrentLock
<1> QED
  BY <1>1, Invariance, PTL

\* An upgrade that completes undisturbed ends with every dependency's lower
\* bound at its locked version, although it locks twice.
THEOREM BoundsEqualLock == Spec => []BoundsFollowLock
<1>1. IInv => BoundsFollowLock
  BY DEF IInv, SafeInv, RunInv, Undisturbed, BoundsFollowLock
<1> QED
  BY <1>1, Invariance, PTL

\* sync_pyproject_dependency_versions makes no satisfiable requirement
\* contradictory if that has no ==, ~= or != clause, or if its version is from a
\* lock that was made for it.
THEOREM RequirementsStaySatisfiable == Spec => StaysSatisfiable
<1> DEFINE Stays == WriteProject =>
        \A p \in Packages :
            /\ Satisfiable(read.project[p]) /\ Satisfiable(project[p])
            /\ \/ OnlyBounds(read.project[p])
               \/ p \in Locked /\ ~touched /\ (current \/ options.upgrade_lock)
            => Satisfiable(project'[p])
<1>1. IInv /\ [Next]_vars => [Stays]_vars
  <2> SUFFICES ASSUME IInv, WriteProject, NEW p \in Packages,
                      Satisfiable(read.project[p]), Satisfiable(project[p]),
                      \/ OnlyBounds(read.project[p])
                      \/ p \in Locked /\ ~touched /\ (current \/ options.upgrade_lock)
               PROVE  Satisfiable(project'[p])
    OBVIOUS
  <2>1. TypeOK /\ RunInv /\ pc = "write"
    BY DEF IInv, SafeInv, WriteProject
  <2>2. PICK answer \in [Packages -> Versions \cup {None}] :
          /\ updates' = ([q \in Packages |-> with_lower_bound(q, answer)] # read.project)
          /\ project' = IF updates' /\ ~options.dry_run
                          THEN [q \in Packages |-> with_lower_bound(q, answer)] ELSE project
    BY <2>1, WrittenProject
  <2>3. CASE project' = project
    BY <2>3
  <2>4. CASE project' # project
    <3>1. ~options.dry_run /\ project'[p] = with_lower_bound(p, answer)
      BY <2>2, <2>4
    <3>2. CASE OnlyBounds(read.project[p])
      BY <2>1, <3>1, <3>2, RaisedBoundsAreSatisfiable
    <3>3. CASE p \in Locked /\ ~touched /\ (current \/ options.upgrade_lock)
      <4>1. LockIsCurrent /\ read.project = project /\ read.lock = lock
        BY <2>1, <3>1, <3>3 DEF RunInv, Undisturbed
      <4>2. Within(lock[p], project[p]) /\ project[p] \in Bounds
        BY <2>1, <3>3, <4>1 DEF LockIsCurrent, TypeOK
      <4>3. project'[p] = [project[p] EXCEPT !.lower = lock[p]]
        BY <2>1, <3>1, <3>3, <4>1, <4>2, LockedVersionBecomesBound
      <4>4. /\ project'[p].lower = lock[p] /\ project'[p].below = project[p].below
            /\ project'[p].others = project[p].others
        BY <4>2, <4>3 DEF Bounds
      <4>5. lock[p] \in Versions /\ lock[p] \in Nat
        BY <4>2, BoundsAssumption DEF Within, Bounds, Versions
      <4>6. Within(lock[p], project'[p])
        BY <4>2, <4>4, <4>5 DEF Within
      <4> QED
        BY <4>5, <4>6 DEF Satisfiable
    <3> QED
      BY <3>2, <3>3
  <2> QED
    BY <2>3, <2>4
<1> QED
  BY <1>1, Invariance, PTL DEF Spec, StaysSatisfiable

\* with_lower_bound never lowers the bound of a dependency in a run that
\* started from a current lock or upgraded it.
THEOREM DependenciesAreNeverLowered == Spec => NeverLowersDependency
<1> DEFINE Raises == WriteProject /\ ~touched /\ (current \/ options.upgrade_lock) =>
                       \A p \in Locked : project'[p].lower >= project[p].lower
<1>1. IInv /\ [Next]_vars => [Raises]_vars
  <2> SUFFICES ASSUME IInv, WriteProject, ~touched, current \/ options.upgrade_lock,
                      NEW p \in Locked
               PROVE  project'[p].lower >= project[p].lower
    OBVIOUS
  <2>1. TypeOK /\ RunInv /\ pc = "write"
    BY DEF IInv, SafeInv, WriteProject
  <2>2. PICK answer \in [Packages -> Versions \cup {None}] :
          /\ updates' = ([q \in Packages |-> with_lower_bound(q, answer)] # read.project)
          /\ project' = IF updates' /\ ~options.dry_run
                          THEN [q \in Packages |-> with_lower_bound(q, answer)] ELSE project
    BY <2>1, WrittenProject
  <2>3. p \in Packages /\ project[p].lower \in Nat
    BY <2>1, BoundsAssumption DEF TypeOK, Packages, Bounds, Versions, None
  <2>4. CASE project' = project
    BY <2>3, <2>4
  <2>5. CASE project' # project
    <3>1. ~options.dry_run /\ project'[p] = with_lower_bound(p, answer)
      BY <2>2, <2>3, <2>5
    <3>2. LockIsCurrent /\ read.project = project /\ read.lock = lock
      BY <2>1, <3>1 DEF RunInv, Undisturbed
    <3>3. Within(lock[p], project[p]) /\ project[p] \in Bounds
      BY <2>1, <2>3, <3>2 DEF LockIsCurrent, TypeOK
    <3>4. project'[p] = [project[p] EXCEPT !.lower = lock[p]]
      BY <2>1, <3>1, <3>2, <3>3, LockedVersionBecomesBound
    <3>5. project'[p].lower = lock[p] /\ project[p].lower <= lock[p]
      BY <3>3, <3>4 DEF Within, Bounds
    <3>6. lock[p] \in Nat
      BY <3>3, BoundsAssumption DEF Within, Versions, Bounds
    <3> QED
      BY <2>3, <3>5, <3>6
  <2> QED
    BY <2>4, <2>5
<1> QED
  BY <1>1, Invariance, PTL DEF Spec, NeverLowersDependency
=============================================================================
