------------------------------ MODULE MCSession ------------------------------
(* Small instances of Session: a few command lines for every branch of     *)
(* main, and a few servers, assets and configurations for its runs.        *)
EXTENDS Session

Cmd(command, flags, exports, input, terminal) ==
    [command |-> command, flags |-> flags, exports |-> exports, input |-> input,
     terminal |-> terminal]
Main(flags, exports, input) == Cmd("main", flags, exports, input, FALSE)

(* Every single flag, some that compete, and every input. *)
FlagSets ==
    {{f} : f \in Flags \ {"fail-on-dead", "strict", "audit", "compare", "multi-cdn"}}
    \union {{"vod", "prometheus"}, {"prometheus", "open bind"}, {"prometheus", "summary"},
            {"audit", "budget"}, {"multi-cdn", "summary"}}

MCInvocations ==
    {Main(fs, <<>>, "stream") : fs \in FlagSets}
    \union {Main({}, <<>>, input) : input \in Inputs}
    \union {Main(fs, <<>>, "list") : fs \in {{"audit"}, {"summary"}, {"prometheus"}}}
    \union {Cmd("main", {}, <<>>, input, TRUE) : input \in {"none", "stream", "list"}}
    \union {Cmd("main", {f}, <<>>, "none", t) : f \in {"multi-cdn", "compare"}, t \in BOOLEAN}
    \union {Main({}, <<"har", "report-json", "har">>, input) : input \in {"none", "stream", "list"}}
    \union {Main({"prometheus"}, <<"curl">>, "stream"), Main({}, <<"grafana">>, "stream"),
            Main({"multi-cdn"}, <<"grafana">>, "none"),
            Cmd("main", {"summary"}, <<"incident">>, "stream", TRUE),
            Main({}, <<"incident", "curl">>, "stream")}
    \union {Cmd("check", {}, <<>>, "unreadable", FALSE),
            Cmd("check", {"fail-on-dead"}, <<>>, "list", FALSE),
            Cmd("check", {"fail-on-dead", "strict"}, <<>>, "stream", FALSE)}

SkewInvocations == {Main({"multi-cdn", "summary"}, <<>>, "none")}
StallInvocations == {Main({"audit"}, <<>>, "list")}

Server(manifest, media, probe, vod) ==
    [manifest |-> manifest, media |-> media, probe |-> probe, vod |-> vod]
MCServers ==
    {Server("refused", "segments", "fast", FALSE), Server("master", "garbled", "fast", FALSE),
     Server("master", "segments", "fast", TRUE), Server("media", "empty", "fast", FALSE),
     Server("dash", "segments", "slow", FALSE), Server("media", "segments", "silent", FALSE)}

Tree(kind, warnings, penalty, codecs, uniform, probes) ==
    [kind |-> kind, warnings |-> warnings, penalty |-> penalty, codecs |-> codecs, uniform |-> uniform,
     probes |-> probes]
MCTrees ==
    {Tree("unreachable", 0, 0, 1, TRUE, <<>>), Tree("media", 0, 0, 1, TRUE, <<>>),
     Tree("ladder", 0, 0, 1, TRUE, <<>>)}
    \union {Tree("media", 0, 0, 1, u, <<p>>) : u \in BOOLEAN, p \in {"a", "failed"}}
    \union {Tree("ladder", w[1], w[2], c, TRUE, p) :
            w \in {<<0, 0>>, <<2, 8>>, <<3, 14>>, <<4, 17>>}, c \in {1, 3},
            p \in {<<"a", "b">>, <<"a", "failed">>, <<"a", "b", "a">>}}

MCAgentConfigs ==
    LET s(id, starts) == [id |-> id, starts |-> starts] IN
    {<<s("x", TRUE), s("y", TRUE), s("x", TRUE)>>, <<s("x", TRUE), s("y", FALSE)>>}
=============================================================================
