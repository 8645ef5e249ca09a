----------------------------- MODULE MCDatabase -----------------------------
EXTENDS Database

CONSTANTS m1, m2, r1, r2, r3

Ask(do, macs, value, enabled) ==
    [do |-> do, macs |-> macs, value |-> value, enabled |-> enabled]

MCMenus == {
    {Ask("name", {m1}, "A", None), Ask("name", {m1}, "given", None),
     Ask("unname", {m1}, None, None), Ask("unpair", {m2}, None, None),
     Ask("remember", {m1, m2}, None, None), Ask("remember", {m2}, None, None)},
    {Ask("lock", {}, None, None), Ask("unlock", {}, None, None),
     Ask("expect", {}, <<1, 0>>, None), Ask("expect", {}, <<1, 1>>, None)},
    {Ask("create", {}, <<"continue">>, None), Ask("delete", {}, None, None),
     Ask("update", {}, None, FALSE), Ask("update", {}, <<"abort">>, TRUE),
     Ask("execute", {}, None, None)}}

MCPrograms == {<<"abort", "continue">>}
=============================================================================
