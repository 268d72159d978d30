-------------------------- MODULE DependencyUpdater --------------------------
(***************************************************************************)
(* Runs of update_dependencies over pyproject.toml and uv.lock: upgrade    *)
(* the lock, raise the lower bounds to it, update the other pins, lock     *)
(* again.  A run may be a dry run, may skip steps, and may end in the      *)
(* middle of any step; packages are released and pyproject.toml is edited  *)
(* at any time, also while a run is under way.                             *)
(*                                                                         *)
(* A version is a number and every number up to the highest release is a   *)
(* release. A specifier is its lower bound (>= or >), its upper bound (<   *)
(* or <=) and the versions that its other clauses (==, ~=, !=) admit. uv   *)
(* is external: it locks any versions within the specifiers, for what a    *)
(* package requires of another one is not modelled, and keeps the locked   *)
(* ones when it need not change them.                                      *)
(***************************************************************************)
EXTENDS Naturals

CONSTANTS
    Locked,         \* the dependencies that uv.lock covers
    Build,          \* the build requirements, which it does not
    MaxVersion,     \* bound: versions
    Specifiers,     \* bound: what people write into pyproject.toml
    FirstRelease,   \* bound: the highest release of each package at the start
    Runs,           \* bound: runs of the updater
    Edits           \* bound: edits of pyproject.toml

Packages == Locked \cup Build
Versions == 1 .. MaxVersion
None     == 0
Bounds   == [lower : Versions \cup {None}, below : 2 .. MaxVersion + 1, others : SUBSET Versions]
Options  == [make : BOOLEAN, dry_run : BOOLEAN, upgrade_lock : BOOLEAN, update_pyproject : BOOLEAN]

ASSUME PackagesAssumption == Locked \cap Build = {}
ASSUME SpecifiersAssumption == Specifiers \subseteq Bounds
ASSUME BoundsAssumption == MaxVersion \in Nat /\ FirstRelease \in 1 .. MaxVersion /\ Runs \in Nat /\ Edits \in Nat

VARIABLES
    project,        \* pyproject.toml: the bounds of each package
    lock,           \* uv.lock: the version of each dependency, or None
    lockedFor,      \* uv.lock: the bounds that it was made from
    released,       \* the highest release of each package
    pc,             \* where the run is
    options,        \* its options
    read,           \* the bounds and versions that the run read
    updates,        \* dependency_updates: whether there are any
    runs,           \* how many runs have started
    edits,          \* how many edits there were
    current,        \* history: the lock was current when the run started
    touched         \* history: pyproject.toml was edited during the run

vars == <<project, lock, lockedFor, released, pc, options, read, updates, runs, edits,
          current, touched>>

Within(v, b) == v \in b.others /\ b.lower <= v /\ v < b.below

\* The specifier has no ==, ~= or != clause.
OnlyBounds(b) == b.others = Versions

Satisfiable(b) == \E v \in Versions : Within(v, b)

\* What somebody writes into pyproject.toml has a release.
Sensible(p, b) == \E v \in Versions : v <= released[p] /\ Within(v, b)

LockBounds == [p \in Locked |-> project[p]]

\* uv.lock records the bounds of pyproject.toml and satisfies them.
LockIsCurrent == lockedFor = LockBounds /\ \A p \in Locked : Within(lock[p], project[p])

TypeOK ==
    /\ project \in [Packages -> Bounds]
    /\ lock \in [Locked -> Versions \cup {None}]
    /\ lockedFor \in [Locked -> Bounds]
    /\ released \in [Packages -> Versions]
    /\ pc \in {"idle", "upgrade", "read", "write", "pins", "relock", "done", "failed"}
    /\ options \in Options
    /\ read \in [project : [Packages -> Bounds], lock : [Locked -> Versions \cup {None}]]
    /\ updates \in BOOLEAN
    /\ runs \in 0 .. Runs /\ edits \in 0 .. Edits
    /\ current \in BOOLEAN /\ touched \in BOOLEAN

Init ==
    /\ released = [p \in Packages |-> FirstRelease]
    /\ project \in [Packages -> Specifiers]
    /\ \A p \in Packages : Sensible(p, project[p])
    /\ lock \in [Locked -> Versions \cup {None}]
    \* A dependency that was just added is not in the lock yet.
    /\ \A p \in Locked : \/ lock[p] = None
                         \/ lock[p] <= released[p] /\ Within(lock[p], project[p])
    /\ lockedFor = LockBounds
    /\ pc = "idle"
    /\ options = [make |-> TRUE, dry_run |-> FALSE, upgrade_lock |-> TRUE, update_pyproject |-> TRUE]
    /\ read = [project |-> project, lock |-> lock]
    /\ updates = FALSE
    /\ runs = 0 /\ edits = 0
    /\ current = TRUE /\ touched = FALSE

-----------------------------------------------------------------------------
(* uv.                                                                     *)

Solutions == {v \in [Locked -> Versions] :
                \A p \in Locked : Within(v[p], project[p]) /\ v[p] <= released[p]}

\* `uv lock --upgrade`
UvUpgrade ==
    /\ lock' \in Solutions
    /\ lockedFor' = LockBounds

\* `uv lock`
UvLock ==
    /\ lock' \in IF lock \in Solutions THEN {lock} ELSE Solutions
    /\ lockedFor' = LockBounds

-----------------------------------------------------------------------------
(* The run.                                                                *)

Running == pc \notin {"idle", "done", "failed"}

\* Variant: the lock is never upgraded.
FirstStepSync(o) == IF o.update_pyproject THEN "read" ELSE "pins"

\* The steps of update_dependencies, in its order.
FirstStep(o) ==
    IF o.upgrade_lock /\ ~o.dry_run THEN "upgrade"
    ELSE IF o.update_pyproject THEN "read" ELSE "pins"
AfterUpgrade == IF options.update_pyproject THEN "read" ELSE "pins"
\* Variant: the lock is not refreshed after the bounds have changed.
AfterPinsDone == "done"
AfterPins == IF updates /\ ~options.dry_run THEN "relock" ELSE "done"

\* Makefile: `uv run` brings an outdated lock up to date before the program
\* starts; without it the program starts with the lock as it is.
Start(o) ==
    /\ ~Running
    /\ runs < Runs
    /\ runs' = runs + 1
    /\ options' = o
    /\ IF o.make /\ ~LockIsCurrent THEN UvLock ELSE UNCHANGED <<lock, lockedFor>>
    /\ pc' = FirstStep(o)
    /\ updates' = FALSE
    /\ current' = (o.make \/ LockIsCurrent)
    /\ touched' = FALSE
    /\ UNCHANGED <<project, released, read, edits>>

UpgradeLock ==
    /\ pc = "upgrade"
    /\ UvUpgrade
    /\ pc' = AfterUpgrade
    /\ UNCHANGED <<project, released, options, read, updates, runs, edits, current, touched>>

\* sync_pyproject_dependency_versions reads both files.
ReadProject ==
    /\ pc = "read"
    /\ read' = [project |-> project, lock |-> lock]
    /\ pc' = "write"
    /\ UNCHANGED <<project, lock, lockedFor, released, options, updates, runs, edits, current, touched>>

\* Variant: upper bounds are not looked at.
SatisfiesAnything(b, v) == TRUE

\* Only < and <= are looked at: what == and ~= admit is not.
satisfies_upper_bounds(b, v) == v < b.below

\* The locked version, or the one that pypi.org answers, within the upper bound.
target_version(p, answer) ==
    LET v == IF p \in Locked /\ read.lock[p] # None THEN read.lock[p] ELSE answer[p]
    IN  IF v # None /\ satisfies_upper_bounds(read.project[p], v) THEN v ELSE None

\* Variant: the highest release is taken although the package is locked.
with_lower_bound_released(p, answer) ==
    LET v == IF target_version(p, answer) # None THEN released[p] ELSE None
    IN  IF v # None THEN [read.project[p] EXCEPT !.lower = v] ELSE read.project[p]

\* Variant: the upper bound is replaced.
with_upper_bound(p, answer) ==
    IF target_version(p, answer) # None
      THEN [read.project[p] EXCEPT !.below = target_version(p, answer)]
      ELSE read.project[p]

\* The lower bound is replaced, or put in front of a specifier without one
\* (an "==" or "~=" included); the other clauses stay as they are.
with_lower_bound(p, answer) ==
    IF target_version(p, answer) # None
      THEN [read.project[p] EXCEPT !.lower = target_version(p, answer)]
      ELSE read.project[p]

Writes(o) == ~o.dry_run

\* ... and, after the answers from pypi.org, writes pyproject.toml as it read
\* it but for the new bounds.
WriteProject ==
    /\ pc = "write"
    /\ \E answer \in [Packages -> Versions \cup {None}] :
         /\ \A p \in Packages : answer[p] \in {None, released[p]}
         /\ LET synced == [p \in Packages |-> with_lower_bound(p, answer)]
            IN  /\ updates' = (synced # read.project)
                /\ project' = IF updates' /\ Writes(options) THEN synced ELSE project
    /\ pc' = "pins"
    /\ UNCHANGED <<lock, lockedFor, released, options, read, runs, edits, current, touched>>

\* Workflows and container images, whose files are others.
UpdatePins ==
    /\ pc = "pins"
    /\ pc' = AfterPins
    /\ UNCHANGED <<project, lock, lockedFor, released, options, read, updates, runs, edits, current, touched>>

RefreshLock ==
    /\ pc = "relock"
    /\ UvLock
    /\ pc' = "done"
    /\ UNCHANGED <<project, released, options, read, updates, runs, edits, current, touched>>

\* uv finds no solution or fails, a file or an answer cannot be parsed, or the
\* run is interrupted.
Abort ==
    /\ Running
    /\ pc' = "failed"
    /\ UNCHANGED <<project, lock, lockedFor, released, options, read, updates, runs, edits, current, touched>>

-----------------------------------------------------------------------------
(* The surroundings.                                                       *)

Release(p) ==
    /\ released[p] < MaxVersion
    /\ released' = [released EXCEPT ![p] = @ + 1]
    /\ UNCHANGED <<project, lock, lockedFor, pc, options, read, updates, runs, edits, current, touched>>

Edit(p, b) ==
    /\ edits < Edits
    /\ edits' = edits + 1
    /\ b # project[p]
    /\ Sensible(p, b)
    /\ project' = [project EXCEPT ![p] = b]
    /\ touched' = TRUE
    /\ UNCHANGED <<lock, lockedFor, released, pc, options, read, updates, runs, current>>

Stop == ~Running /\ runs = Runs /\ UNCHANGED vars

Next ==
    \/ \E o \in Options : Start(o)
    \/ UpgradeLock
    \/ ReadProject
    \/ WriteProject
    \/ UpdatePins
    \/ RefreshLock
    \/ Abort
    \/ \E p \in Packages : Release(p)
    \/ \E p \in Packages, b \in Specifiers : Edit(p, b)
    \/ Stop

Spec == Init /\ [][Next]_vars

-----------------------------------------------------------------------------
(* Properties.                                                             *)

\* A run that starts from a current lock, or upgrades it, leaves a current
\* lock when it completes undisturbed, whatever an earlier run that ended
\* half-way left behind and whatever is released meanwhile
\* (update_dependencies.py:41-63).
CompletedRunLeavesCurrentLock ==
    /\ pc = "done" /\ ~touched
    /\ current \/ (options.upgrade_lock /\ ~options.dry_run)
    => LockIsCurrent

\* After an undisturbed upgrade the lower bound of every dependency is the
\* locked version, although the lock is made twice and packages are released
\* in between (sync_pyproject_dependency_versions.py:47-69).
BoundsFollowLock ==
    /\ pc = "done" /\ ~touched
    /\ options.upgrade_lock /\ options.update_pyproject /\ ~options.dry_run
    => \A p \in Locked : project[p].lower = lock[p]

\* A write of the updater makes no requirement contradictory, although it
\* takes the version from a lock that may be older than the specifier, or from
\* pypi.org, and looks at < and <= only.  A specifier with an == or ~= clause
\* is safe with a version from a lock that was made for it; with another one,
\* and every build requirement has such, the code may exclude all versions
\* (sync_pyproject_dependency_versions.py:155-161, 169-187).
StaysSatisfiable ==
    [][ WriteProject =>
          \A p \in Packages :
              /\ Satisfiable(read.project[p]) /\ Satisfiable(project[p])
              /\ \/ OnlyBounds(read.project[p])
                 \/ p \in Locked /\ ~touched /\ (current \/ options.upgrade_lock)
              => Satisfiable(project'[p]) ]_vars

\* A run that starts from a current lock or upgrades it never lowers the bound
\* of a dependency, unless pyproject.toml was edited during the run.
NeverLowersDependency ==
    [][ WriteProject /\ ~touched /\ (current \/ options.upgrade_lock) =>
          \A p \in Locked : project'[p].lower >= project[p].lower ]_vars
=============================================================================
