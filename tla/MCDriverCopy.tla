---------------------------- MODULE MCDriverCopy ----------------------------
(* Five driver directories.  netA and netB have an INF of the same name,    *)
(* which is among its own files, and caps one that differs in capitals; sub *)
(* has two INF files that find one file in different places, and one that   *)
(* is no INF; bad lacks a file.                                             *)
EXTENDS DriverCopy

net == Name("net", "inf", FALSE)
NET == Name("net", "inf", TRUE)
two == Name("two", "inf", FALSE)
vxd == Name("vxd", "vxd", FALSE)
usb == Name("usb", "sys", FALSE)
sys == Name("sys", "sys", FALSE)

File(sub, name, form) == [sub |-> sub, name |-> name, form |-> form]

InfFile(name, valid, direct, sections, disks) ==
  [name |-> name, valid |-> valid, direct |-> direct, sections |-> sections,
   disks |-> disks]

MCDirOf ==
  [d \in {"netA", "netB", "sub", "caps", "bad"} |->
     CASE d = "netA" ->
            [infs  |-> {InfFile(net, TRUE, <<>>, <<vxd, net>>, <<Item(vxd, "x"), Item(usb, "")>>)},
             files |-> {File("x", vxd, "plain"), File("", vxd, "plain"), File("", net, "plain"), File("", usb, "packed")}]
       [] d = "netB" ->
            [infs  |-> {InfFile(net, TRUE, <<usb>>, <<net, vxd>>, <<>>)},
             files |-> {File("", net, "plain"), File("", vxd, "packed")}]
       [] d = "sub" ->
            [infs  |-> {InfFile(two, TRUE, <<vxd>>, <<sys>>, <<>>),
                        InfFile(net, TRUE, <<>>, <<vxd>>, <<Item(vxd, "x")>>),
                        InfFile(Name("not", "inf", FALSE), FALSE, <<>>, <<>>, <<>>)},
             files |-> {File("", vxd, "plain"), File("x", vxd, "plain"), File("", sys, "plain")}]
       [] d = "caps" ->
            [infs  |-> {InfFile(NET, TRUE, <<>>, <<usb>>, <<>>)},
             files |-> {File("", usb, "broken")}]
       [] OTHER ->
            [infs  |-> {InfFile(net, TRUE, <<>>, <<sys>>, <<>>),
                        InfFile(two, TRUE, <<>>, <<vxd>>, <<>>)},
             files |-> {File("", vxd, "plain"), File("", sys, "broken")}]]

MCStems == {"net", "two", "vxd", "usb", "sys", "not"}
MCExts  == {"inf", "cab", "vxd", "sys"}

MCLibraries ==
  {[base |-> {"netA", "netB"}, ndis |-> NULL],
   [base |-> {"netA", "caps"}, ndis |-> {"netB"}],
   [base |-> {"netA"}, ndis |-> {"sub", "bad"}],
   [base |-> {"caps"}, ndis |-> {}]}

MCWin98 == {usb}
=============================================================================
