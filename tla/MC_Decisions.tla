---------------------------- MODULE MC_Decisions ----------------------------
EXTENDS Decisions

----------------------------------------------------------------------------
(* The instance that is checked, and its bounds.                           *)

L(e, a, r, d, k) == [edit |-> e, abort |-> a, restart |-> r, delete |-> d, ack |-> k]
McAlertBudgets == {L(1, 0, 0, 0, 0), L(0, 1, 0, 1, 0), L(0, 0, 1, 0, 1)}
McDuration == [r \in {"hot", "gone"} |-> IF r = "hot" THEN 2 ELSE 0]

B(s, c, u, d, f, r) ==
    [setup |-> s, create |-> c, update |-> u, delete |-> d, fault |-> f, restart |-> r]
McAccountBudgets == {B(3, 0, 0, 0, 1, 1), B(1, 2, 2, 1, 0, 0), B(2, 1, 1, 2, 0, 1)}

P(u, d, f, r, l, e) ==
    [update |-> u, delete |-> d, force |-> f, restart |-> r, poll |-> l, fault |-> e]
McPollerBudgets == {P(2, 1, 0, 1, 2, 0), P(1, 1, 1, 0, 1, 1), P(1, 2, 0, 0, 1, 1)}

\* Tables of stored windows: every payload of one window, and three windows of
\* two machines at every time, readable or not.
Stats(src) ==
    {[source |-> src, samples |-> n, watts |-> x, valid |-> v] : n \in 0..2, x \in {0, 1}, v \in BOOLEAN}
Labels ==
    {"", "rapl-psys", "rapl-package", "rapl-dram", "ipmi-dcmi", "hwmon", "battery",
     "estimate-util", "other"}
Labelled == UNION {Stats(s) : s \in Labels}
Absent == [source |-> "", samples |-> 0, watts |-> 0, valid |-> TRUE]
Payload(s, c, d, g) == [system |-> s, cpu |-> c, dram |-> d, gpu |-> g]
Plain ==
    Payload(Absent, [source |-> "rapl-package", samples |-> 2, watts |-> 1, valid |-> TRUE],
            Absent, Absent)
Undecodable == << >>
Window(m, i, e, p) == [machine |-> m, id |-> i, end |-> e, expected |-> 2, payload |-> p]
One(p) == {Window("m1", 1, 3, p)}
McStores ==
    {{}} \cup {One(Payload(Absent, c, Absent, g)) : c \in Labelled, g \in Stats("")}
    \cup {One(Payload(s, Absent, s, Absent)) : s \in Labelled}
    \cup {{Window(IF i = 2 THEN "m2" ELSE "m1", i, f[i][1], f[i][2]) : i \in 1..3} :
            f \in [1..3 -> (0..5) \X {Plain, Undecodable}]}
McArrivals == {Window("m1", 4, 3, Undecodable), Window("m1", 5, 5, Plain)}

\* Files of a few symbols: two markers, parts of one and fillers at every offset.
McSymbols == {"B", "A", "R", "7", "8", "0", ":", "x"}
McPrefix == <<"B", "A", "R">>
Fill(n) == [i \in 1..n |-> "x"]
Pieces ==
    {McPrefix \o <<"7", ":">>, McPrefix \o <<"8", ":">>, McPrefix \o <<"0", ":">>, McPrefix \o <<"7">>,
     McPrefix, <<"B", "A">>, << >>}
McStreams ==
    {Fill(i) \o p \o Fill(j) \o q \o Fill(k) : i \in 0..5, j \in 0..3, k \in 0..2, p \in Pieces, q \in Pieces}
=============================================================================
