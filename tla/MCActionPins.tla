---------------------------- MODULE MCActionPins ----------------------------
(* Two workflows as GitHub and this repository write them.                 *)
EXTENDS ActionPins

Uses(indent, item, action, ref) ==
    [indent |-> indent, item |-> item, kind |-> "uses", action |-> action, ref |-> ref]
Version(indent, ref) ==
    [indent |-> indent, item |-> FALSE, kind |-> "version", action |-> None, ref |-> ref]
Other(indent, item) ==
    [indent |-> indent, item |-> item, kind |-> "other", action |-> None, ref |-> None]

checkout == "actions/checkout"

MCRefs == {"v4", "v5", "v10.0.1", "v9.9.9", "16feee7", "latest", "1.2"}
MCMajor == [r \in {"v4", "v5", "v10.0.1", "v9.9.9"} |->
    CASE r = "v4" -> 4 [] r = "v5" -> 5 [] r = "v10.0.1" -> 10 [] OTHER -> 9]

\* Set up Compose in a step of its own name, then check out; a job follows that
\* has a version of its own.
Build(pin, version) ==
    << Other(6, TRUE), Uses(8, FALSE, SetupCompose, pin), Other(8, FALSE), Version(10, version),
       Uses(6, TRUE, checkout, "v4"), Other(8, FALSE), Version(10, "1.2") >>

\* The Compose step is the last one of its job.
Last(version) ==
    << Uses(6, TRUE, SetupCompose, "v5"), Other(8, FALSE), Version(10, version),
       Other(2, FALSE), Other(4, FALSE), Version(6, "1.2"),
       Other(4, FALSE), Uses(6, TRUE, checkout, "v5") >>

MCOrder == <<"build.yaml", "docs.yaml">>
MCTexts == [f \in {"build.yaml", "docs.yaml"} |->
    IF f = "build.yaml"
      THEN {Build("16feee7", "latest"), Build("v4", "v5")}
      ELSE {Last("latest"), << Uses(6, TRUE, checkout, "v10.0.1") >>}]

MCReleased == [r \in Names |-> IF r = checkout THEN "v10.0.1" ELSE "v5"]
MCNewest == [r \in Names |-> IF r = checkout THEN "v9.9.9" ELSE "v5"]
MCUpcoming == {<<SetupCompose, "v9.9.9">>, <<Compose, "v10.0.1">>}
=============================================================================
