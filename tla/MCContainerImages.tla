------------------------- MODULE MCContainerImages -------------------------
(* Tags as registries name them, on one or two pages.                      *)
EXTENDS ContainerImages

MCTags == {"latest", "8.6", "8.10", "9.0", "alpine3.9", "alpine3.23",
           "8.10-alpine3.23", "v1.25.1-p0", "v1.24.1-p0", "3.14", "3.14.4", "3.15.0", "local",
           "21", "jdk-21", "jdk-21.1"}

Version(prefix, version, suffix, build) ==
    [prefix |-> prefix, version |-> version, suffix |-> suffix, build |-> build,
     release |-> <<>>, plain |-> suffix = "" \/ build # <<>>]

MCParsed == [t \in MCTags |->
    CASE t = "8.6"             -> Version("", <<8, 6>>, "", <<>>)
      [] t = "8.10"            -> Version("", <<8, 10>>, "", <<>>)
      [] t = "9.0"             -> Version("", <<9, 0>>, "", <<>>)
      [] t = "alpine3.9"       -> Version("alpine", <<3, 9>>, "", <<>>)
      [] t = "alpine3.23"      -> Version("alpine", <<3, 23>>, "", <<>>)
      [] t = "8.10-alpine3.23" -> Version("", <<8, 10>>, "-alpine3.23", <<>>)
      [] t = "v1.24.1-p0"      -> Version("", <<1, 24, 1>>, "-p0", <<0>>)
      [] t = "v1.25.1-p0"      -> Version("", <<1, 25, 1>>, "-p0", <<0>>)
      [] t = "3.14"            -> Version("", <<3, 14>>, "", <<>>)
      [] t = "3.14.4"          -> Version("", <<3, 14, 4>>, "", <<>>)
      [] t = "3.15.0"          -> Version("", <<3, 15, 0>>, "", <<>>)
      [] t = "21"              -> Version("", <<21>>, "", <<>>)
      [] t = "jdk-21"          -> Version("jdk-", <<21>>, "", <<>>)
      [] t = "jdk-21.1"        -> Version("jdk-", <<21, 1>>, "", <<>>)
      [] OTHER                 -> Version("", <<>>, "", <<>>)]

MCEndsWith == [t \in MCTags |->
    CASE t = "8.10-alpine3.23" -> {"alpine3.23"} [] t = "jdk-21" -> {"21"} [] OTHER -> {}]

MCSurround == [t \in MCTags |->
    CASE t \in {"alpine3.9", "alpine3.23", "latest"} -> 6
      [] t = "8.10-alpine3.23" -> 11
      [] t \in {"v1.24.1-p0", "v1.25.1-p0"} -> 3
      [] t = "local" -> 5
      [] t \in {"jdk-21", "jdk-21.1"} -> 4
      [] OTHER -> 0]

MCRepositories == {"redis", "edoburu/pgbouncer", "valkey/valkey", "python", "temurin", "base"}
MCPublished == [r \in MCRepositories |->
    CASE r = "redis" -> << <<"9.0", "8.6", "alpine3.9">>,
                           <<"8.10", "alpine3.23", "8.10-alpine3.23">> >>
      [] r = "python" -> << <<"3.15.0", "3.14.4", "3.14">> >>
      [] r = "valkey/valkey" -> << <<"8.6">>, <<"8.10">> >>
      [] r = "temurin" -> << <<"21", "jdk-21", "jdk-21.1">> >>
      [] r = "base" -> <<>>
      [] OTHER -> << <<"latest", "v1.24.1-p0">>, <<"v1.25.1-p0">> >>]
MCUpcoming == {<<"redis", "8.10">>, <<"edoburu/pgbouncer", "v1.25.1-p0">>}

redis(t) == <<"redis", t>>
pgbouncer(t) == <<"edoburu/pgbouncer", t>>
valkey(t) == <<"valkey/valkey", t>>
python(t) == <<"python", t>>
temurin(t) == <<"temurin", t>>

\* README.md, docker-compose.yaml and docker-services.md: two tags of one
\* variant; two floating names; the bare name and "latest"; a bare name in the
\* documents only; "latest" beside a tag with a shorter text; documents that
\* are out of line; a floating name that is pinned to a floating name.
MCOrder == <<"README.md", "docker-compose.yaml", "docker-services.md">>
Contents(readme, compose, services) ==
    [f \in {MCOrder[n] : n \in 1 .. 3} |->
        CASE f = "README.md" -> readme [] f = "docker-compose.yaml" -> compose [] OTHER -> services]
MCInitialRefs == {
    Contents({redis("8.10")}, {redis("8.6"), redis("8.10")}, {redis("8.6")}),
    Contents({redis("alpine3.23")}, {redis("alpine3.9"), redis("alpine3.23"), <<"base", "local">>},
             {redis("alpine3.9")}),
    Contents({pgbouncer("none")}, {pgbouncer("latest"), pgbouncer("none")}, {}),
    Contents({pgbouncer("none"), python("3.14")}, {pgbouncer("latest"), python("3.14")}, {}),
    Contents({}, {valkey("latest"), valkey("8.6")}, {valkey("none")}),
    Contents({redis("8.6")}, {pgbouncer("latest")}, {pgbouncer("none")}),
    Contents({}, {temurin("21")}, {temurin("none")})}
MCSkipped == MCRepositories \X {"local"}

\* Replacements stay in their repository: only the order of a repository's
\* references tells.
LongerTags == <<"8.10-alpine3.23", "v1.24.1-p0", "v1.25.1-p0", "alpine3.23", "alpine3.9",
                "jdk-21.1", "3.14.4", "3.15.0", "jdk-21", "latest", "local",
                "3.14", "8.10", "8.6", "9.0", "21", "none">>
LongerRepositories == <<"edoburu/pgbouncer", "valkey/valkey", "python", "redis", "temurin", "base">>
MCLonger == [n \in 1 .. 102 |->
    <<LongerRepositories[((n - 1) \div 17) + 1], LongerTags[((n - 1) % 17) + 1]>>]
=============================================================================
