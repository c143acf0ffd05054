----------------------------- MODULE MCMercyPak -----------------------------
EXTENDS MercyPak

CONSTANTS root, sub1

MCNames == {"a", "b", "c"}
MCDirOf == [n \in MCNames \union {JUNK} |-> IF n = "b" THEN sub1 ELSE root]

File(name, data) == [name |-> name, data |-> data]

\* An empty file in the middle, and at the end; a name packed twice with other
\* data, and with the same; four times the same data, one more than a group may
\* have; a group of two.
Trees == { << File("a", <<1>>), File("b", <<>>), File("c", <<2, 3>>) >>,
           << File("a", <<1>>), File("b", <<1>>), File("c", <<1>>), File("a", <<1>>) >>,
           << File("b", <<2, 3>>), File("a", <<>>) >>,
           << File("a", <<1>>), File("b", <<2>>), File("a", <<3>>) >> }

MCInputs == {[version |-> v, dirs |-> <<sub1>>, files |-> t] : v \in {1, 2}, t \in Trees}
=============================================================================
