----------------------------- MODULE MCStartup -----------------------------
(***************************************************************************)
(* Three configuration files, two modules, and command lines, identities   *)
(* and contents of the files that between them meet every path of main.    *)
(***************************************************************************)
EXTENDS Startup

MCFiles == {"main", "a", "b", "c"}

MCDenoted ==
    [one |-> [kind |-> "file", files |-> <<"a">>],
     damaged |-> [kind |-> "file", files |-> <<"b">>],
     itself |-> [kind |-> "file", files |-> <<"main">>],
     mask |-> [kind |-> "mask", files |-> <<"a", "b">>],
     nomatch |-> [kind |-> "mask", files |-> <<>>],
     directory |-> [kind |-> "dir", files |-> <<"c">>],
     deep |-> [kind |-> "file", files |-> <<"c">>],
     missing |-> [kind |-> "missing", files |-> <<>>],
     relative |-> [kind |-> "relative", files |-> <<>>]]

MCLibraries ==
    [first |-> [kind |-> "ok", module |-> "test1"],
     second |-> [kind |-> "ok", module |-> "bare"],
     nowhere |-> [kind |-> "missing", module |-> "test1"]]

MCModuleCommands == [test1 |-> [test1 |-> {1, 3}], bare |-> [user |-> {1}]]

Directive(name, argc, arg) == [name |-> name, argc |-> argc, arg |-> arg]

Include1(path) == Directive("include", 1, path)

Lines ==
    {Include1(p) : p \in {"one", "mask", "nomatch", "directory", "missing"}}
      \cup {Directive("import", 1, l) : l \in DOMAIN MCLibraries}
      \cup {Directive("listen", 1, "port"), Directive("listen", 1, "bad"),
            Directive("log", 3, "file"), Directive("log", 1, "file"),
            Directive("daemon", 1, "off"), Directive("workdir", 1, "tmp"),
            Directive("user", 1, "nobody"), Directive("user", 1, "root"),
            Directive("group", 1, "nogroup"), Directive("group", 1, "ghost"),
            Directive("test1", 2, "x"), Directive("ssl", 1, "on")}

Listen == Directive("listen", 1, "port")

\* Main is one line, or a listen between two lines, or one of some longer.
MainTexts ==
    {<<>>} \cup {<<l>> : l \in Lines} \cup {<<l, Listen, m>> : l, m \in Lines}
      \cup {<<Listen, Include1(p)>> : p \in {"deep", "damaged", "itself", "relative"}}
      \cup {<<Include1("deep"), Directive("user", 1, "root"), Directive("import", 1, "first"),
              Directive("import", 1, "second"), Directive("group", 1, "nogroup")>>}

Text(main) ==
    [main |-> main,
     a    |-> <<Directive("user", 1, "nobody"), Listen>>,
     b    |-> <<Directive("workdir", 1, "tmp")>>,
     c    |-> <<Listen, Include1("mask")>>]

Dash(letters) == <<"-">> \o letters

CommandLines ==
    {<<>>, <<Dash(<<"v">>)>>, <<Dash(<<"-", "help">>)>>, <<Dash(<<"-", "test">>)>>,
     <<Dash(<<>>)>>, <<Dash(<<"c">>)>>, <<Dash(<<"c", "c">>), <<"m">>>>,
     <<Dash(<<"c">>), Dash(<<"t">>)>>, <<Dash(<<"c", "t">>), <<"m">>>>,
     <<Dash(<<"c">>), <<"m">>, Dash(<<"-", "test-config">>)>>,
     <<Dash(<<"-", "config-file">>), <<"m">>, <<"n">>>>, <<Dash(<<"v", "-", "help">>)>>,
     <<Dash(<<"t">>), Dash(<<"-", "config-file">>), <<"m">>>>}

Test == <<Dash(<<"t">>)>>

Short2 == <<Listen, Include1("one")>>

MCEnvironments ==
    [argv : {<<>>, Test}, euid : {"root"}, egid : {"root"}, text : {Text(m) : m \in MainTexts}]
      \cup [argv : {<<>>}, euid : {"root", "someone"}, egid : {"root", "staff"},
            text : {Text(m) : m \in MainTexts}]
      \cup [argv : CommandLines, euid : {"root"}, egid : {"staff"}, text : {Text(Short2)}]
=============================================================================
