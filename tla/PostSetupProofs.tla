-------------------------- MODULE PostSetupProofs --------------------------
(***************************************************************************)
(* For every file, user and system, any number of runs and any number of   *)
(* failures: SYSTEM.INI is not lost, a client is left while the power may  *)
(* go, and what a run leaves that came to its end without a failure.       *)
(***************************************************************************)
EXTENDS PostSetup, SequenceTheorems, TLAPS

-----------------------------------------------------------------------------
(***************************************************************************)
(* Which call is where.                                                    *)
(***************************************************************************)
Ops == << "readName", "setName1", "setName2", "set", "clients", "exists", "family", "vredir",
          "set", "create", "set", "current", "username", "setUser", "create", "set", "setUser", "set",
          "pwl", "move", "open", "copy", "is98Lite", "delete", "delete", "delete", "set", "doReboot" >>
\* What the calls with a name of their own are about.
Subjects ==
  /\ Program[4].name = "preferredredir"
  /\ Program[9].name = "PrimaryProvider"
  /\ Program[10].name = "Provider"
  /\ Program[11].name = "Platform_Type"
  /\ Program[14].name = "currentUser"
  /\ Program[15].name = "Winlogon"
  /\ Program[16].name = "AutoAdminLogon"
  /\ Program[17].name = "DefaultUserName"
  /\ Program[18].name = "DefaultPassword"
  /\ Program[24].name = "LoadPowerProfile"
  /\ Program[25].name = "TaskMonitor"
  /\ Program[26].name = "LoadPowerService"
  /\ Program[27].name = "APMMenuSuspend"

LEMMA Order ==
  /\ Len(Program) = 28 /\ DOMAIN Program = 1..28
  /\ \A i \in 1..28 : Program[i].op = Ops[i]
  /\ Subjects
  <1> DEFINE Windows == <<"Windows Logon">>
             One == <<"1">>
  <1>l. Logon = << Set("PrimaryProvider", Windows), Create("Provider"), Set("Platform_Type", Zero),
                   Do("current"), Do("username"), SetToUser("currentUser"),
                   Create("Winlogon"), Set("AutoAdminLogon", One), SetToUser("DefaultUserName"),
                   Set("DefaultPassword", Empty) >>
    BY Zenon DEF Logon
  <1> HIDE DEF Windows, One
  <1> USE <1>l DEF Program, setComputerName, Network, setDefaultUser, cleanupRegistry
  <1>0. Len(Program) = 28 /\ DOMAIN Program = 1..28
    OBVIOUS
  <1>1. Program[1] = Do("readName")
    OBVIOUS
  <1>2. Program[2] = Do("setName1")
    OBVIOUS
  <1>3. Program[3] = Do("setName2")
    OBVIOUS
  <1>4. Program[4] = Set("preferredredir", Empty)
    OBVIOUS
  <1>5. Program[5] = Do("clients")
    OBVIOUS
  <1>6. Program[6] = Do("exists")
    OBVIOUS
  <1>7. Program[7] = Do("family")
    OBVIOUS
  <1>8. Program[8] = Do("vredir")
    OBVIOUS
  <1>9. Program[9] = Set("PrimaryProvider", Windows)
    OBVIOUS
  <1>10. Program[10] = Create("Provider")
    OBVIOUS
  <1>11. Program[11] = Set("Platform_Type", Zero)
    OBVIOUS
  <1>12. Program[12] = Do("current")
    OBVIOUS
  <1>13. Program[13] = Do("username")
    OBVIOUS
  <1>14. Program[14] = SetToUser("currentUser")
    OBVIOUS
  <1>15. Program[15] = Create("Winlogon")
    OBVIOUS
  <1>16. Program[16] = Set("AutoAdminLogon", One)
    OBVIOUS
  <1>17. Program[17] = SetToUser("DefaultUserName")
    OBVIOUS
  <1>18. Program[18] = Set("DefaultPassword", Empty)
    OBVIOUS
  <1>19. Program[19] = Do("pwl")
    OBVIOUS
  <1>20. Program[20] = Do("move")
    OBVIOUS
  <1>21. Program[21] = Do("open")
    OBVIOUS
  <1>22. Program[22] = Do("copy")
    OBVIOUS
  <1>23. Program[23] = Do("is98Lite")
    OBVIOUS
  <1>24. Program[24] = Delete("LoadPowerProfile")
    OBVIOUS
  <1>25. Program[25] = Delete("TaskMonitor")
    OBVIOUS
  <1>26. Program[26] = Delete("LoadPowerService")
    OBVIOUS
  <1>27. Program[27] = Set("APMMenuSuspend", Zero)
    OBVIOUS
  <1>28. Program[28] = Do("doReboot")
    OBVIOUS
  <1> HIDE <1>l DEF Program, setComputerName, Network, setDefaultUser, cleanupRegistry
  <1>29. ASSUME NEW op PROVE Do(op).op = op
    BY DEF Do
  <1>30. ASSUME NEW n, NEW t
         PROVE  /\ Set(n, t).op = "set" /\ Delete(n).op = "delete" /\ Create(n).op = "create" /\ SetToUser(n).op = "setUser"
                /\ Set(n, t).name = n /\ Delete(n).name = n /\ Create(n).name = n /\ SetToUser(n).name = n
    BY Zenon DEF Set, Delete, Create, SetToUser
  <1>31. /\ Program[1].op = "readName"
         /\ Program[2].op = "setName1"
         /\ Program[3].op = "setName2"
         /\ Program[4].op = "set" /\ Program[4].name = "preferredredir"
    BY <1>1, <1>2, <1>3, <1>4, <1>29, <1>30
  <1>32. /\ Program[5].op = "clients"
         /\ Program[6].op = "exists"
         /\ Program[7].op = "family"
         /\ Program[8].op = "vredir"
    BY <1>5, <1>6, <1>7, <1>8, <1>29, <1>30
  <1>33. /\ Program[9].op = "set" /\ Program[9].name = "PrimaryProvider"
         /\ Program[10].op = "create" /\ Program[10].name = "Provider"
         /\ Program[11].op = "set" /\ Program[11].name = "Platform_Type"
         /\ Program[12].op = "current"
    BY <1>9, <1>10, <1>11, <1>12, <1>29, <1>30
  <1>34. /\ Program[13].op = "username"
         /\ Program[14].op = "setUser" /\ Program[14].name = "currentUser"
         /\ Program[15].op = "create" /\ Program[15].name = "Winlogon"
         /\ Program[16].op = "set" /\ Program[16].name = "AutoAdminLogon"
    BY <1>13, <1>14, <1>15, <1>16, <1>29, <1>30
  <1>35. /\ Program[17].op = "setUser" /\ Program[17].name = "DefaultUserName"
         /\ Program[18].op = "set" /\ Program[18].name = "DefaultPassword"
         /\ Program[19].op = "pwl"
         /\ Program[20].op = "move"
    BY <1>17, <1>18, <1>19, <1>20, <1>29, <1>30
  <1>36. /\ Program[21].op = "open"
         /\ Program[22].op = "copy"
         /\ Program[23].op = "is98Lite"
         /\ Program[24].op = "delete" /\ Program[24].name = "LoadPowerProfile"
    BY <1>21, <1>22, <1>23, <1>24, <1>29, <1>30
  <1>37. /\ Program[25].op = "delete" /\ Program[25].name = "TaskMonitor"
         /\ Program[26].op = "delete" /\ Program[26].name = "LoadPowerService"
         /\ Program[27].op = "set" /\ Program[27].name = "APMMenuSuspend"
         /\ Program[28].op = "doReboot"
    BY <1>25, <1>26, <1>27, <1>28, <1>29, <1>30
  <1>38. \A i \in 1..28 : Program[i].op = Ops[i]
    BY <1>31, <1>32, <1>33, <1>34, <1>35, <1>36, <1>37 DEF Ops
  <1>39. Subjects
    BY <1>31, <1>32, <1>33, <1>34, <1>35, <1>36, <1>37 DEF Subjects
  <1>40. QED
    BY <1>0, <1>38, <1>39

LEMMA Lines == Line("is98Lite") = 23 /\ Line("doReboot") = 28
  BY Order DEF Line, Ops

-----------------------------------------------------------------------------
(***************************************************************************)
(* While the new file is written (calls 21 and 22, "open" and "copy"), and *)
(* after the power went there, the backup is the installation's file.      *)
(***************************************************************************)
IniInv ==
  /\ pc \in 1..29 /\ (on => pc \in 1..28)
  /\ first.sini # Missing
  /\ pc \in {21, 22} => sbak = first.sini
  /\ IniNotLost

LEMMA InitIni == Init => IniInv
  BY BoundsAssumption DEF BoundsAssumption, Init, IniInv, IniNotLost

\* The calls that have a place of their own, and those that have not.
LEMMA Place ==
  ASSUME NEW i \in 1..28
  PROVE  /\ Ops[i] \in {"set", "setUser", "delete"} => i \in {4, 9, 11, 14, 16, 17, 18, 24, 25, 26, 27}
         /\ Ops[i] = "create" => i \in {10, 15}
         /\ Ops[i] = "readName" => i = 1
         /\ Ops[i] = "setName1" => i = 2
         /\ Ops[i] = "setName2" => i = 3
         /\ Ops[i] = "clients" => i = 5
         /\ Ops[i] = "exists" => i = 6
         /\ Ops[i] = "family" => i = 7
         /\ Ops[i] = "vredir" => i = 8
         /\ Ops[i] = "current" => i = 12
         /\ Ops[i] = "username" => i = 13
         /\ Ops[i] = "pwl" => i = 19
         /\ Ops[i] = "move" => i = 20
         /\ Ops[i] = "open" => i = 21
         /\ Ops[i] = "copy" => i = 22
         /\ Ops[i] = "is98Lite" => i = 23
         /\ Ops[i] = "doReboot" => i = 28
  <1>1. /\ i = 1 \/ i = 2 \/ i = 3 \/ i = 4 \/ i = 5 \/ i = 6 \/ i = 7 \/ i = 8 \/ i = 9 \/ i = 10
           \/ i = 11 \/ i = 12 \/ i = 13 \/ i = 14 \/ i = 15 \/ i = 16 \/ i = 17 \/ i = 18 \/ i = 19
           \/ i = 20 \/ i = 21 \/ i = 22 \/ i = 23 \/ i = 24 \/ i = 25 \/ i = 26 \/ i = 27 \/ i = 28
    OBVIOUS
  <1>2. QED
    BY <1>1 DEF Ops

\* Where the program is when it is at a call.
LEMMA Where ==
  ASSUME IniInv
  PROVE  /\ \A op : At(op) => on
         /\ At("readName") => pc = 1
         /\ At("setName1") => pc = 2
         /\ At("setName2") => pc = 3
         /\ At("clients") => pc = 5
         /\ At("exists") => pc = 6
         /\ At("family") => pc = 7
         /\ At("vredir") => pc = 8
         /\ At("current") => pc = 12
         /\ At("username") => pc = 13
         /\ At("pwl") => pc = 19
         /\ At("move") => pc = 20
         /\ At("open") => pc = 21
         /\ At("copy") => pc = 22
         /\ At("is98Lite") => pc = 23
         /\ At("doReboot") => pc = 28
         /\ At("set") \/ At("setUser") \/ At("delete") => pc \in {4, 9, 11, 14, 16, 17, 18, 24, 25, 26, 27}
         /\ At("create") => pc \in {10, 15}
  <1>1. ASSUME NEW op, At(op) PROVE pc \in 1..28 /\ Ops[pc] = op
    BY <1>1, Order DEF IniInv, This, At
  <1>2. QED
    BY <1>1, Place DEF At


\* The step of every action along the calls.
LEMMA Course ==
  ASSUME IniInv
  PROVE  /\ ReadName => on /\ on' /\ pc = 1 /\ pc' \in {2, 4}
         /\ SetName => on /\ on' /\ pc \in {2, 3} /\ pc' \in {pc + 1, 4}
         /\ SetValue => on /\ on' /\ pc \in {4, 9, 11, 14, 16, 17, 18, 24, 25, 26, 27} /\ pc' = pc + 1
         /\ createRegKey => on /\ on' /\ pc \in {10, 15} /\ pc' = pc + 1
         /\ EnumerateEnd => on /\ on' /\ pc \in {5, 7, 8} /\ pc' = pc + 1
         /\ OtherClient \/ DeleteValue \/ DeleteKey => on /\ on' /\ pc = 5 /\ pc' \in {5, 6}
         /\ FamilyExists => on /\ on' /\ pc = 6 /\ pc' = 7
         /\ setNetworkConfigFlags => on /\ on' /\ pc \in {7, 8} /\ pc' \in {pc, pc + 1}
         /\ ReadUser => on /\ on' /\ pc \in {12, 13} /\ pc' \in {13, 14, 15}
         /\ CreatePwl => on /\ pc = 19 /\ ((on' /\ pc' \in {20, 23}) \/ (~on' /\ pc' = 19))
         /\ MoveIni => on /\ on' /\ pc = 20 /\ pc' \in {21, 23}
         /\ OpenIni => on /\ pc = 21 /\ ((on' /\ pc' \in {22, 23}) \/ (~on' /\ pc' = 21))
         /\ CopyLine => on /\ on' /\ pc = 22 /\ pc' = 22
         /\ CopyEnd => on /\ on' /\ pc = 22 /\ pc' = 23
         /\ is98Lite => on /\ on' /\ pc = 23 /\ pc' \in {24, 28}
         /\ doReboot => on /\ ~on' /\ pc = 28 /\ pc' = 29
         /\ PowerLoss => on /\ ~on' /\ pc' = pc
         /\ Repair => ~on /\ ~on' /\ pc' = 1
         /\ Start => ~on /\ on' /\ pc' = 1
  <1>1. ASSUME ReadName PROVE on /\ on' /\ pc = 1 /\ pc' \in {2, 4}
    BY <1>1, Where, Lines DEF ReadName, Next1, fixed
  <1>2. ASSUME SetName PROVE on /\ on' /\ pc \in {2, 3} /\ pc' \in {pc + 1, 4}
    BY <1>2, Where, Lines DEF SetName, Next1, setComputerName, fixed
  <1>3. ASSUME SetValue PROVE on /\ on' /\ pc \in {4, 9, 11, 14, 16, 17, 18, 24, 25, 26, 27} /\ pc' = pc + 1
    BY <1>3, Where, Lines DEF SetValue, Next1, fixed
  <1>4. ASSUME createRegKey PROVE on /\ on' /\ pc \in {10, 15} /\ pc' = pc + 1
    BY <1>4, Where, Lines DEF createRegKey, Next1, fixed
  <1>5. ASSUME EnumerateEnd PROVE on /\ on' /\ pc \in {5, 7, 8} /\ pc' = pc + 1
    BY <1>5, Where, Lines DEF EnumerateEnd, Leave, Next1, fixed
  <1>6. ASSUME OtherClient \/ DeleteValue \/ DeleteKey PROVE on /\ on' /\ pc = 5 /\ pc' \in {5, 6}
    BY <1>6, Where, Lines DEF OtherClient, DeleteValue, DeleteKey, Leave, Continue, Next1, fixed
  <1>7. ASSUME FamilyExists PROVE on /\ on' /\ pc = 6 /\ pc' = 7
    BY <1>7, Where, Lines DEF FamilyExists, Next1, fixed
  <1>8. ASSUME setNetworkConfigFlags PROVE on /\ on' /\ pc \in {7, 8} /\ pc' \in {pc, pc + 1}
    BY <1>8, Where, Lines DEF setNetworkConfigFlags, Leave, Continue, Next1, fixed
  <1>9. ASSUME ReadUser PROVE on /\ on' /\ pc \in {12, 13} /\ pc' \in {13, 14, 15}
    BY <1>9, Where, Lines DEF ReadUser, Next1, fixed
  <1>10. ASSUME CreatePwl PROVE on /\ pc = 19 /\ ((on' /\ pc' \in {20, 23}) \/ (~on' /\ pc' = 19))
    BY <1>10, Where, Lines DEF CreatePwl, Crash, Next1, fixed
  <1>11. ASSUME MoveIni PROVE on /\ on' /\ pc = 20 /\ pc' \in {21, 23}
    BY <1>11, Where, Lines DEF MoveIni, Next1, fixed
  <1>12. ASSUME OpenIni PROVE on /\ pc = 21 /\ ((on' /\ pc' \in {22, 23}) \/ (~on' /\ pc' = 21))
    BY <1>12, Where, Lines DEF OpenIni, Crash, Next1, fixed
  <1>13. ASSUME CopyLine PROVE on /\ on' /\ pc = 22 /\ pc' = 22
    BY <1>13, Where, Lines DEF CopyLine, fixed
  <1>14. ASSUME CopyEnd PROVE on /\ on' /\ pc = 22 /\ pc' = 23
    BY <1>14, Where, Lines DEF CopyEnd, Next1, fixed
  <1>15. ASSUME is98Lite PROVE on /\ on' /\ pc = 23 /\ pc' \in {24, 28}
    BY <1>15, Where, Lines DEF is98Lite, fixed
  <1>16. ASSUME doReboot PROVE on /\ ~on' /\ pc = 28 /\ pc' = 29
    BY <1>16, Where, Lines DEF doReboot, Next1, fixed
  <1>17. ASSUME PowerLoss PROVE on /\ ~on' /\ pc' = pc
    BY <1>17, Where, Lines DEF PowerLoss, fixed
  <1>18. ASSUME Repair PROVE ~on /\ ~on' /\ pc' = 1
    BY <1>18 DEF Repair, Cut
  <1>19. ASSUME Start PROVE ~on /\ on' /\ pc' = 1
    BY <1>19, Where, Lines DEF Start, fixed
  <1>20. QED
    BY <1>1, <1>2, <1>3, <1>4, <1>5, <1>6, <1>7, <1>8, <1>9, <1>10, <1>11, <1>12, <1>13, <1>14, <1>15, <1>16, <1>17, <1>18, <1>19

\* What a step may change, and whether a call failed.
LEMMA Frame ==
  ASSUME Next
  PROVE  /\ UNCHANGED first
         /\ MoveIni \/ OpenIni \/ CopyLine \/ CopyEnd \/ PowerLoss \/ Repair \/ UNCHANGED sini
         /\ MoveIni \/ Repair \/ UNCHANGED sbak
         /\ CreatePwl \/ UNCHANGED pwl
         /\ SetName \/ SetValue \/ UNCHANGED reg
         /\ createRegKey \/ UNCHANGED keys
         /\ DeleteValue \/ DeleteKey \/ UNCHANGED clients
         /\ setNetworkConfigFlags \/ UNCHANGED net
         /\ ReadUser \/ PowerLoss \/ Start \/ UNCHANGED user
         /\ MoveIni \/ Start \/ UNCHANGED moved
         /\ Works \/ Fails \/ Start
  <1>1. CASE ReadName
    BY <1>1 DEF ReadName, NotDone, registry, files, locals, fixed
  <1>2. CASE SetName
    BY <1>2 DEF SetName, Writes, NotDone, registry, files, locals, fixed
  <1>3. CASE SetValue
    BY <1>3 DEF SetValue, Writes, NotDone, registry, files, locals, fixed
  <1>4. CASE createRegKey
    BY <1>4 DEF createRegKey, registry, files, locals, fixed
  <1>5. CASE EnumerateEnd
    BY <1>5 DEF EnumerateEnd, registry, files, locals, fixed
  <1>6. CASE OtherClient
    BY <1>6 DEF OtherClient, registry, files, locals, fixed
  <1>7. CASE DeleteValue
    BY <1>7 DEF DeleteValue, registry, files, locals, fixed
  <1>8. CASE DeleteKey
    BY <1>8 DEF DeleteKey, registry, files, locals, fixed
  <1>9. CASE FamilyExists
    BY <1>9 DEF FamilyExists, registry, files, locals, fixed
  <1>10. CASE setNetworkConfigFlags
    BY <1>10 DEF setNetworkConfigFlags, registry, files, locals, fixed
  <1>11. CASE ReadUser
    BY <1>11 DEF ReadUser, NotDone, registry, files, locals, fixed
  <1>12. CASE CreatePwl
    BY <1>12 DEF CreatePwl, registry, files, locals, fixed
  <1>13. CASE MoveIni
    BY <1>13 DEF MoveIni, NotDone, registry, files, locals, fixed
  <1>14. CASE OpenIni
    BY <1>14 DEF OpenIni, registry, files, locals, fixed
  <1>15. CASE CopyLine
    BY <1>15 DEF CopyLine, registry, files, locals, fixed
  <1>16. CASE CopyEnd
    BY <1>16 DEF CopyEnd, registry, files, locals, fixed
  <1>17. CASE is98Lite
    BY <1>17 DEF is98Lite, registry, files, locals, fixed
  <1>18. CASE doReboot
    BY <1>18 DEF doReboot, registry, files, locals, fixed
  <1>19. CASE PowerLoss
    BY <1>19 DEF PowerLoss, Works, registry, files, locals, fixed
  <1>20. CASE Repair
    BY <1>20 DEF Repair, Works, registry, files, locals, fixed
  <1>21. CASE Start
    BY <1>21 DEF Start, registry, files, locals, fixed
  <1>22. CASE Stop
    BY <1>22 DEF Stop, vars, Works, registry, files, locals, fixed
  <1>23. QED
    BY <1>1, <1>2, <1>3, <1>4, <1>5, <1>6, <1>7, <1>8, <1>9, <1>10, <1>11, <1>12, <1>13, <1>14, <1>15, <1>16, <1>17, <1>18, <1>19, <1>20, <1>21, <1>22 DEF Next

LEMMA NextIni == IniInv /\ [Next]_vars => IniInv'
  <1> SUFFICES ASSUME IniInv, [Next]_vars PROVE IniInv'
    OBVIOUS
  <1>1. CASE UNCHANGED vars
    BY <1>1 DEF vars, files, fixed, IniInv, IniNotLost
  <1>2. CASE Next
    <2>1. UNCHANGED first
      BY <1>2, Frame
    \* What is moved away is the installation's file, or else the backup is.
    <2>2. CASE MoveIni
      <3>1. on' /\ pc = 20 /\ pc' \in {21, 23}
        BY <2>2, Course
      <3>2. CASE CanMove /\ sbak' = sini
        <4>1. first.sini = sini
          BY <3>2 DEF CanMove, IniInv, IniNotLost
        <4>2. QED
          BY <2>1, <3>1, <3>2, <4>1 DEF IniInv, IniNotLost
      <3>3. CASE UNCHANGED << sini, sbak >> /\ pc' = 23
        BY <2>1, <3>1, <3>3 DEF IniInv, IniNotLost
      <3>4. QED
        BY <2>2, <3>2, <3>3, Lines DEF MoveIni
    <2>3. CASE OpenIni \/ CopyLine \/ CopyEnd
      <3>1. UNCHANGED sbak
        BY <2>3 DEF OpenIni, CopyLine, CopyEnd
      <3>2. QED
        BY <2>1, <2>3, <3>1, Course DEF IniInv, IniNotLost
    <2>4. CASE PowerLoss
      <3>1. UNCHANGED sbak /\ (pc = 22 \/ UNCHANGED sini)
        BY <2>4, Where DEF PowerLoss
      <3>2. QED
        BY <2>1, <2>4, <3>1, Course DEF IniInv, IniNotLost
    \* The backup that Repair takes is the installation's.
    <2>5. CASE Repair
      <3>1. CASE Cut
        <4>1. pc \in 1..28 /\ Ops[pc] \in {"open", "copy"}
          BY <3>1, Order DEF Cut, Rebooted, IniInv, This
        <4>2. sbak = first.sini
          BY <4>1, Place DEF IniInv
        <4>3. QED
          BY <2>1, <2>5, <4>2, Course DEF Repair, IniInv, IniNotLost
      <3>2. CASE sini = Missing
        BY <2>1, <2>5, <3>2, Course DEF Repair, IniInv, IniNotLost
      <3>3. QED
        BY <2>5, <3>1, <3>2 DEF Repair
    <2>6. CASE CreatePwl \/ is98Lite \/ doReboot \/ Start \/ Stop
      <3>1. UNCHANGED << sini, sbak >>
        BY <2>6 DEF CreatePwl, is98Lite, doReboot, Start, Stop, vars, files
      <3>2. QED
        BY <2>1, <2>6, <3>1, Course DEF Stop, vars, IniInv, IniNotLost
    <2>7. CASE \/ ReadName \/ SetName \/ SetValue \/ createRegKey
               \/ EnumerateEnd \/ OtherClient \/ DeleteValue \/ DeleteKey \/ FamilyExists \/ setNetworkConfigFlags
               \/ ReadUser
      <3>1. UNCHANGED << sini, sbak >>
        BY <2>7, Zenon DEF ReadName, SetName, SetValue, createRegKey, EnumerateEnd, OtherClient, DeleteValue,
                           DeleteKey, FamilyExists, setNetworkConfigFlags, ReadUser, files
      <3>2. on' /\ pc' \in (1..28) \ {21, 22}
        BY <2>7, Course
      <3>3. QED
        BY <2>1, <3>1, <3>2 DEF IniInv, IniNotLost
    <2>8. QED
      BY <1>2, <2>2, <2>3, <2>4, <2>5, <2>6, <2>7 DEF Next
  <1>3. QED
    BY <1>1, <1>2

\* Whatever fails, whenever the power goes and however often QISETUP runs,
\* SYSTEM.INI or SYSTEM.BAK is the installation's SYSTEM.INI (434).
THEOREM IniSafe == Spec => []IniNotLost
  <1>1. Spec => []IniInv
    BY InitIni, NextIni, PTL DEF Spec
  <1>2. IniInv => IniNotLost
    BY DEF IniInv
  <1>3. QED
    BY <1>1, <1>2, PTL

-----------------------------------------------------------------------------
(***************************************************************************)
(* What runs leave.  The invariants speak of a run that has had no failure *)
(* yet, or of all runs if none has; InRun holds from a call to the restart. *)
(***************************************************************************)
InRun == on \/ pc = 29

\* The values that the program knows have a value, or are Missing.
RegInv == reg = [v \in DOMAIN KeyOf |-> reg[v]]

IndexInv ==
  /\ index \in Nat
  /\ on /\ pc \notin {5, 7, 8, 22} => index = 0

FaultInv ==
  /\ faults \in Nat
  /\ faults = 0 => clean

LEMMA Keys ==
  /\ {"ComputerName", "VnetsupName", "preferredredir", "PrimaryProvider", "username", "Platform_Type", "currentUser",
      "AutoAdminLogon", "DefaultUserName", "DefaultPassword", "LoadPowerProfile", "TaskMonitor", "LoadPowerService",
      "APMMenuSuspend"} \subseteq DOMAIN KeyOf
  /\ KeyOf["ComputerName"] = "ComputerName" /\ KeyOf["VnetsupName"] = "VNETSUP" /\ KeyOf["currentUser"] = "Control"
  /\ KeyOf["username"] = "Logon" /\ KeyOf["DefaultUserName"] = "Winlogon"
  BY DEF KeyOf

\* A call that sets a value leaves the others; without a failure the value is
\* there if the key is.
LEMMA WritesTo ==
  ASSUME RegInv, NEW v \in DOMAIN KeyOf, NEW text, Writes(v, text)
  PROVE  /\ RegInv'
         /\ \A w \in DOMAIN KeyOf : w # v => reg'[w] = reg[w]
         /\ reg'[v] \in {text, reg[v]}
         /\ Fails \/ (Works /\ KeyOf[v] \in keys => reg'[v] = text)
  <1>1. CASE reg' = [reg EXCEPT ![v] = text] /\ Works
    BY <1>1 DEF RegInv
  <1>2. CASE NotDone(KeyOf[v] \in keys) /\ UNCHANGED reg
    BY <1>2 DEF RegInv, NotDone
  <1>3. QED
    BY <1>1, <1>2 DEF Writes

\* The values that SetValue sets; only two calls set those about users.
LEMMA ValueSet ==
  ASSUME IniInv, SetValue
  PROVE  \E v \in DOMAIN KeyOf : \E text :
           /\ Writes(v, text)
           /\ v \notin {"ComputerName", "VnetsupName", "username"}
           /\ v = "currentUser" <=> pc = 14
           /\ v = "DefaultUserName" <=> pc = 17
           /\ pc \in {14, 17} => text = user
  <1> DEFINE text == CASE This.op = "set" -> This.to [] This.op = "setUser" -> user [] OTHER -> Missing
             v == This.name
  <1>1. Writes(v, text)
    BY DEF SetValue
  <1>2. pc \in {4, 9, 11, 14, 16, 17, 18, 24, 25, 26, 27}
    BY Course
  <1>3. pc \in {14, 17} => text = user
    BY Order DEF This, Ops
  <1> HIDE DEF text
  <1>4. /\ v \in DOMAIN KeyOf
        /\ v \notin {"ComputerName", "VnetsupName", "username"}
        /\ v = "currentUser" <=> pc = 14
        /\ v = "DefaultUserName" <=> pc = 17
    BY <1>2, Order, Keys DEF This, Subjects
  <1>5. QED
    BY <1>1, <1>3, <1>4

LEMMA KeyCreated ==
  ASSUME IniInv, createRegKey
  PROVE  /\ keys' \in {keys, keys \union {"Provider"}, keys \union {"Winlogon"}}
         /\ Works => Fails \/ (pc = 15 => "Winlogon" \in keys')
  <1>1. pc \in {10, 15} /\ This.name \in {"Provider", "Winlogon"} /\ (pc = 15 => This.name = "Winlogon")
    BY Course, Order DEF This, Subjects
  <1>2. QED
    BY <1>1 DEF createRegKey

LEMMA InitFault == Init => FaultInv /\ IndexInv /\ RegInv
  BY DEF Init, FaultInv, IndexInv, RegInv

LEMMA NextFault == FaultInv /\ [Next]_vars => FaultInv'
  <1>1. ASSUME FaultInv, Next PROVE FaultInv'
    <2>1. CASE Works
      BY <1>1, <2>1 DEF Works, FaultInv
    <2>2. CASE Fails
      BY <1>1, <2>2 DEF Fails, FaultInv
    <2>3. CASE Start
      BY <1>1, <2>3, Zenon DEF Start, FaultInv
    <2>4. QED
      BY <1>1, <2>1, <2>2, <2>3, Frame
  <1>2. ASSUME FaultInv, UNCHANGED vars PROVE FaultInv'
    BY <1>2 DEF vars, FaultInv
  <1>3. QED
    BY <1>1, <1>2

LEMMA NextReg == IniInv /\ RegInv /\ [Next]_vars => RegInv'
  <1> SUFFICES ASSUME IniInv, RegInv, [Next]_vars PROVE RegInv'
    OBVIOUS
  <1>1. CASE SetName
    BY <1>1, Keys, WritesTo DEF SetName
  <1>2. CASE SetValue
    BY <1>2, ValueSet, WritesTo
  <1>3. CASE UNCHANGED reg
    BY <1>3 DEF RegInv
  <1>4. QED
    BY <1>1, <1>2, <1>3, Frame DEF vars, registry

LEMMA NextIndex == IniInv /\ IndexInv /\ [Next]_vars => IndexInv'
  <1> SUFFICES ASSUME IniInv, IndexInv, [Next]_vars PROVE IndexInv'
    OBVIOUS
  <1>1. CASE EnumerateEnd \/ OtherClient \/ DeleteValue \/ DeleteKey \/ setNetworkConfigFlags
    <2>1. (index' = 0) \/ (pc' = pc /\ index' \in {index, index + 1})
      BY <1>1, Zenon DEF EnumerateEnd, OtherClient, DeleteValue, DeleteKey, setNetworkConfigFlags, Leave, Continue
    <2>2. QED
      BY <1>1, <2>1, Course DEF IndexInv
  <1>2. CASE CopyLine \/ CopyEnd \/ PowerLoss \/ Start
    BY <1>2, Course DEF CopyLine, CopyEnd, PowerLoss, Start, IndexInv
  <1>3. CASE \/ ReadName \/ SetName \/ SetValue \/ createRegKey \/ FamilyExists
             \/ ReadUser \/ CreatePwl \/ MoveIni \/ OpenIni \/ is98Lite \/ doReboot \/ Repair
    <2>1. UNCHANGED index
      BY <1>3, Zenon DEF ReadName, SetName, SetValue, createRegKey, FamilyExists, ReadUser, CreatePwl, MoveIni, OpenIni,
                  is98Lite, doReboot, Repair, locals
    <2>2. QED
      BY <1>3, <2>1, Course DEF IndexInv
  <1>4. CASE Stop \/ UNCHANGED vars
    BY <1>4 DEF Stop, vars, locals, IndexInv
  <1>5. QED
    BY <1>1, <1>2, <1>3, <1>4 DEF Next

-----------------------------------------------------------------------------
(***************************************************************************)
(* The computer name: its key is there when the name could be read, and    *)
(* from the third call on the two places agree.                            *)
(***************************************************************************)
SameName == "VNETSUP" \in keys /\ Readable("ComputerName") => reg.VnetsupName = reg.ComputerName

NamesInv ==
  clean =>
    /\ on /\ pc \in {2, 3} => "ComputerName" \in keys
    /\ on /\ pc = 3 => reg.ComputerName = newName
    /\ InRun /\ pc > 3 => SameName

\* A run that was lucky so far has been so before this step too.
LEMMA Lucky ==
  ASSUME Next, ~Start
  PROVE  /\ clean' => Works /\ clean
         /\ FaultInv /\ faults' = 0 => Works /\ faults = 0
  <1>1. Works \/ Fails
    BY Frame
  <1>2. CASE Works
    BY <1>2 DEF Works
  <1>3. CASE Fails
    BY <1>3 DEF Fails, FaultInv
  <1>4. QED
    BY <1>1, <1>2, <1>3

LEMMA NextNames == IniInv /\ FaultInv /\ RegInv /\ NamesInv /\ [Next]_vars => NamesInv'
  <1> SUFFICES ASSUME IniInv, FaultInv, RegInv, NamesInv, [Next]_vars, clean'
               PROVE  /\ on' /\ pc' \in {2, 3} => "ComputerName" \in keys'
                      /\ on' /\ pc' = 3 => reg'.ComputerName = newName'
                      /\ InRun' /\ pc' > 3 => SameName'
    BY DEF NamesInv
  <1>1. CASE Start
    BY <1>1, Course DEF InRun
  <1>2. CASE Next /\ ~Start
    <2>1. Works /\ ~Fails /\ clean
      BY <1>2, Lucky DEF Fails
    <2>2. CASE ReadName
      <3>1. UNCHANGED << keys, reg >> /\ on' /\ pc = 1 /\ pc' \in {2, 4}
        BY <2>2, Course DEF ReadName, registry
      <3>2. \/ pc' = 2 /\ Readable("ComputerName")
            \/ pc' = 4 /\ ~Readable("ComputerName")
        BY <2>1, <2>2, <3>1 DEF ReadName, NotDone, Next1
      <3>3. QED
        BY <3>1, <3>2, Keys DEF SameName, Readable
    <2>3. CASE SetName /\ pc = 2
      <3>1. on' /\ pc' \in {3, 4} /\ UNCHANGED keys
        BY <2>3, Course DEF SetName
      <3>2. "ComputerName" \in keys
        BY <2>1, <2>3, Course DEF NamesInv
      <3>3. At("setName1")
        BY <2>3, Where DEF SetName
      <3>4. pc' = 3
        BY <2>1, <2>3, <3>1 DEF SetName, setComputerName, Next1, Works, FaultInv
      <3>5. Writes("ComputerName", newName')
        BY <2>3, <3>3 DEF SetName
      <3>6. reg'["ComputerName"] = newName'
        BY <2>1, <3>2, <3>5, WritesTo, Keys
      <3>7. QED
        BY <3>1, <3>2, <3>4, <3>6
    <2>4. CASE SetName /\ pc = 3
      <3>1. on' /\ pc' = 4 /\ UNCHANGED keys
        BY <2>4, Course DEF SetName
      <3>2. reg.ComputerName = newName
        BY <2>1, <2>4, Course DEF NamesInv
      <3>3. ~At("setName1")
        BY <2>4, Where
      <3>4. newName' = newName
        BY <2>4, <3>3 DEF SetName, Drawn
      <3>5. Writes("VnetsupName", newName')
        BY <2>4, <3>3 DEF SetName
      <3>6. reg'["ComputerName"] = reg["ComputerName"]
        BY <3>5, WritesTo, Keys
      <3>7. "VNETSUP" \in keys => reg'["VnetsupName"] = newName'
        BY <2>1, <3>5, WritesTo, Keys
      <3>8. QED
        BY <3>1, <3>2, <3>4, <3>6, <3>7 DEF SameName
    <2>5. CASE SetValue
      <3>1. on /\ on' /\ pc > 3 /\ pc' > 3 /\ UNCHANGED keys
        BY <2>5, Course DEF SetValue
      <3>2. reg'["ComputerName"] = reg["ComputerName"] /\ reg'["VnetsupName"] = reg["VnetsupName"]
        BY <2>5, ValueSet, WritesTo, Keys
      <3>3. QED
        BY <2>1, <3>1, <3>2 DEF NamesInv, SameName, Readable, InRun
    <2>6. CASE createRegKey
      <3>1. on /\ on' /\ pc > 3 /\ pc' > 3 /\ UNCHANGED reg
        BY <2>6, Course DEF createRegKey
      <3>2. /\ "VNETSUP" \in keys' => "VNETSUP" \in keys
            /\ "ComputerName" \in keys' => "ComputerName" \in keys
        BY <2>6, KeyCreated
      <3>3. QED
        BY <2>1, <3>1, <3>2, Keys DEF NamesInv, SameName, Readable, InRun
    <2>7. CASE UNCHANGED << keys, reg >> /\ ~ReadName /\ ~SetName
      <3>1. \/ InRun /\ pc > 3 /\ pc' > 3
            \/ ~on' /\ pc' # 29
            \/ Stop
        BY <1>2, <2>7, Course DEF Next, InRun, IniInv
      <3>2. QED
        BY <2>1, <2>7, <3>1 DEF NamesInv, SameName, Readable, InRun, Stop, vars
    <2>8. QED
      BY <1>2, <2>2, <2>3, <2>4, <2>5, <2>6, <2>7, Frame, Course
  <1>3. CASE UNCHANGED vars
    BY <1>3 DEF vars, registry, locals, NamesInv, SameName, Readable, InRun
  <1>4. QED
    BY <1>1, <1>2, <1>3

-----------------------------------------------------------------------------
(***************************************************************************)
(* The network clients that were handled are no default any more; where    *)
(* the first one was the last, another VREDIR makes neither of them lone.  *)
(***************************************************************************)
Client == [driver : STRING, default : {"none", "key", "value"}]

IsOff(i) == clients[i].driver = "VREDIR.VXD" => clients[i].default = "none"
Lone(i)  == \A j \in DOMAIN clients \ {i} : clients[j].driver # "VREDIR.VXD"
LoneOff  == \A i \in DOMAIN clients : Lone(i) => IsOff(i)

ClientsInv ==
  /\ clients \in Seq(Client)
  /\ on /\ sub => pc = 5 /\ index < Len(clients) /\ clients[index + 1].driver = "VREDIR.VXD"
  /\ clean =>
       /\ on /\ pc = 5 => \A i \in DOMAIN clients : i <= index => IsOff(i)
       /\ InRun /\ pc > 5 => LoneOff

LEMMA DefaultSet ==
  ASSUME clients \in Seq(Client), NEW k \in DOMAIN clients, NEW d \in {"none", "key"},
         clients' = [clients EXCEPT ![k].default = d]
  PROVE  /\ clients' \in Seq(Client) /\ Len(clients') = Len(clients) /\ DOMAIN clients' = DOMAIN clients
         /\ \A i \in DOMAIN clients : clients'[i].driver = clients[i].driver
         /\ \A i \in DOMAIN clients : i # k => clients'[i] = clients[i]
         /\ clients'[k].default = d
  <1>1. clients[k] \in Client
    OBVIOUS
  <1>2. PICK c \in Client : c = [clients[k] EXCEPT !.default = d] /\ c.driver = clients[k].driver /\ c.default = d
    BY <1>1 DEF Client
  <1>3. clients' = [clients EXCEPT ![k] = c]
    BY <1>2
  <1>4. clients' \in Seq(Client) /\ Len(clients') = Len(clients) /\ DOMAIN clients' = DOMAIN clients
    BY <1>3
  <1>5. QED
    BY <1>2, <1>3, <1>4

LEMMA LastOff ==
  ASSUME clients \in Seq(Client), NEW k \in DOMAIN clients, clients[k].driver = "VREDIR.VXD", clients[k].default = "none"
  PROVE  LoneOff
  BY DEF LoneOff, Lone, IsOff

LEMMA NextClients == IniInv /\ FaultInv /\ IndexInv /\ ClientsInv /\ [Next]_vars => ClientsInv'
  <1> SUFFICES ASSUME IniInv, FaultInv, IndexInv, ClientsInv, [Next]_vars PROVE ClientsInv'
    OBVIOUS
  <1>0. clients \in Seq(Client) /\ Len(clients) \in Nat /\ DOMAIN clients = 1..Len(clients) /\ index \in Nat
    BY DEF ClientsInv, IndexInv
  <1>1. CASE Start
    BY <1>1, Course DEF Start, registry, ClientsInv, InRun
  <1>2. CASE Next /\ ~Start
    <2>1. clean' => Works /\ ~Fails /\ clean
      BY <1>2, Lucky DEF Fails
    <2>2. CASE EnumerateEnd
      <3>1. UNCHANGED clients /\ on /\ on' /\ pc \in {5, 7, 8} /\ pc' = pc + 1 /\ ~sub'
        BY <2>2, Course DEF EnumerateEnd, Leave, registry
      <3>2. CASE pc = 5 /\ clean'
        <4>1. index = Len(clients)
          BY <2>1, <2>2, <3>2, Where DEF EnumerateEnd, Subkeys
        <4>2. LoneOff
          BY <1>0, <2>1, <3>1, <3>2, <4>1 DEF ClientsInv, LoneOff
        <4>3. QED
          BY <3>1, <3>2, <4>2 DEF ClientsInv, LoneOff, Lone, IsOff
      <3>3. CASE pc > 5 \/ ~clean'
        BY <2>1, <3>1, <3>3 DEF ClientsInv, LoneOff, Lone, IsOff, InRun
      <3>4. QED
        BY <3>1, <3>2, <3>3
    <2>3. CASE OtherClient
      <3>1. UNCHANGED clients /\ on /\ on' /\ pc = 5 /\ ~sub' /\ index + 1 \in DOMAIN clients
        <4>1. UNCHANGED clients /\ ~sub'
          BY <2>3, Zenon DEF OtherClient, Leave, Continue, registry
        <4>2. index < Len(clients)
          BY <2>3 DEF OtherClient
        <4>3. QED
          BY <1>0, <2>3, <4>1, <4>2, Course
      <3>2. CASE clean'
        <4>1. IsOff(index + 1)
          BY <1>0, <2>1, <2>3, <3>1, <3>2 DEF OtherClient, IsVredir, HasDefault, IsOff, Client
        <4>2. \/ pc' = 5 /\ index' = index + 1
              \/ pc' = 6 /\ clients[index + 1].driver = "VREDIR.VXD" /\ clients[index + 1].default = "none"
          BY <1>0, <2>1, <2>3, <3>1, <3>2 DEF OtherClient, IsVredir, HasDefault, Leave, Next1, Continue, Client
        <4>3. CASE pc' = 5 /\ index' = index + 1
          <5>1. \A i \in DOMAIN clients : i <= index' => IsOff(i)
            BY <1>0, <2>1, <3>1, <3>2, <4>1, <4>3 DEF ClientsInv
          <5>2. QED
            BY <3>1, <4>3, <5>1 DEF ClientsInv, IsOff, InRun
        <4>4. CASE pc' = 6 /\ clients[index + 1].driver = "VREDIR.VXD" /\ clients[index + 1].default = "none"
          <5>1. LoneOff
            BY <1>0, <3>1, <4>4, LastOff
          <5>2. QED
            BY <3>1, <4>4, <5>1 DEF ClientsInv, LoneOff, Lone, IsOff, InRun
        <4>5. QED
          BY <4>2, <4>3, <4>4
      <3>3. CASE ~clean'
        BY <3>1, <3>3 DEF ClientsInv
      <3>4. QED
        BY <3>2, <3>3
    <2>4. CASE DeleteValue
      <3>1. on /\ on' /\ pc = 5 /\ pc' = 5 /\ UNCHANGED index /\ index + 1 \in DOMAIN clients
        BY <1>0, <2>4, Course DEF DeleteValue
      <3>2. clients' = [clients EXCEPT ![index + 1].default = "key"] /\ clients[index + 1].driver = "VREDIR.VXD"
        BY <2>4 DEF DeleteValue, IsVredir
      <3>3. /\ clients' \in Seq(Client) /\ Len(clients') = Len(clients) /\ DOMAIN clients' = DOMAIN clients
            /\ \A i \in DOMAIN clients : clients'[i].driver = clients[i].driver
            /\ \A i \in DOMAIN clients : i # index + 1 => clients'[i] = clients[i]
        BY <1>0, <3>1, <3>2, DefaultSet
      <3>4. clean' => \A i \in DOMAIN clients' : i <= index' => IsOff(i)'
        BY <1>0, <2>1, <3>1, <3>3 DEF ClientsInv, IsOff
      <3>5. index' < Len(clients') /\ clients'[index' + 1].driver = "VREDIR.VXD"
        BY <1>0, <3>1, <3>2, <3>3
      <3>6. QED
        BY <3>1, <3>3, <3>4, <3>5 DEF ClientsInv, InRun
    <2>5. CASE DeleteKey
      <3>1. on /\ on' /\ pc = 5 /\ sub /\ ~sub' /\ index + 1 \in DOMAIN clients /\ clients[index + 1].driver = "VREDIR.VXD"
        <4>1. sub /\ ~sub'
          BY <2>5, Zenon DEF DeleteKey, Leave, Continue
        <4>2. on /\ on' /\ pc = 5
          BY <2>5, Course
        <4>3. QED
          BY <1>0, <4>1, <4>2 DEF ClientsInv
      <3>2. CASE Works /\ Leave /\ clients' = [clients EXCEPT ![index + 1].default = "none"]
        <4>1. /\ clients' \in Seq(Client) /\ DOMAIN clients' = DOMAIN clients
              /\ clients'[index + 1].driver = "VREDIR.VXD" /\ clients'[index + 1].default = "none"
          BY <1>0, <3>1, <3>2, DefaultSet
        <4>2. LoneOff'
          BY <3>1, <4>1 DEF LoneOff, Lone, IsOff
        <4>3. QED
          BY <3>1, <3>2, <4>1, <4>2 DEF ClientsInv, Leave, Next1
      <3>3. CASE Fails /\ UNCHANGED clients
        BY <2>1, <3>1, <3>3 DEF ClientsInv
      <3>4. QED
        BY <2>5, <3>2, <3>3 DEF DeleteKey
    <2>6. CASE SetValue
      <3>1. UNCHANGED << clients, index, sub >> /\ on /\ on' /\ (pc = 4 \/ pc > 5) /\ pc \in Nat /\ pc' = pc + 1
        BY <2>6, Course DEF SetValue, locals
      <3>2. ~sub' /\ (pc = 4 => index' = 0)
        BY <3>1 DEF ClientsInv, IndexInv
      <3>3. CASE pc = 4
        BY <1>0, <3>1, <3>2, <3>3 DEF ClientsInv, InRun
      <3>4. CASE pc > 5
        BY <2>1, <3>1, <3>2, <3>4 DEF ClientsInv, InRun, LoneOff, Lone, IsOff
      <3>5. QED
        BY <3>1, <3>3, <3>4
    <2>7. CASE ReadName \/ SetName
      <3>1. UNCHANGED << clients, sub >> /\ on /\ pc \in 1..3 /\ pc' \in 2..4
        BY <2>7, Course DEF ReadName, SetName, locals, registry
      <3>2. QED
        BY <1>0, <3>1 DEF ClientsInv, InRun
    <2>8. CASE PowerLoss \/ Repair
      <3>1. UNCHANGED clients /\ ~on' /\ ~InRun'
        <4>1. UNCHANGED clients
          BY <1>2, <2>8, Frame, Course
        <4>2. ~on' /\ pc' # 29
          BY <2>8, Course DEF IniInv
        <4>3. QED
          BY <4>1, <4>2 DEF InRun
      <3>2. QED
        BY <3>1 DEF ClientsInv
    <2>9. CASE \/ createRegKey \/ FamilyExists \/ setNetworkConfigFlags \/ ReadUser \/ CreatePwl \/ MoveIni \/ OpenIni
               \/ CopyLine \/ CopyEnd \/ is98Lite \/ doReboot
      <3>1. UNCHANGED clients /\ on /\ pc > 5 /\ (pc' > 5)
        BY <1>2, <2>9, Frame, Course
      <3>2. ~sub'\/ ~on'
        <4>1. CASE setNetworkConfigFlags
          BY <4>1 DEF setNetworkConfigFlags, Leave, Continue
        <4>2. CASE UNCHANGED sub
          BY <3>1, <4>2 DEF ClientsInv
        <4>3. QED
          BY <2>9, <4>1, <4>2, Zenon DEF createRegKey, FamilyExists, ReadUser, CreatePwl, MoveIni, OpenIni, CopyLine, CopyEnd,
                                   is98Lite, doReboot, locals
      <3>3. QED
        BY <2>1, <3>1, <3>2 DEF ClientsInv, InRun, LoneOff, Lone, IsOff
    <2>10. CASE Stop
      BY <2>10 DEF Stop, vars, registry, locals, ClientsInv, InRun, LoneOff, Lone, IsOff
    <2>11. QED
      BY <1>2, <2>2, <2>3, <2>4, <2>5, <2>6, <2>7, <2>8, <2>9, <2>10 DEF Next
  <1>3. CASE UNCHANGED vars
    BY <1>3 DEF vars, registry, locals, ClientsInv, InRun, LoneOff, Lone, IsOff
  <1>4. QED
    BY <1>1, <1>2, <1>3

-----------------------------------------------------------------------------
(***************************************************************************)
(* The flags that were handled are those of the client that is to be used: *)
(* VREDIR's are set after those of the family logon, whose key was found.  *)
(***************************************************************************)
Flags == Seq(ConfigFlags) \union {Missing}

FamilyOn   == \A i \in DOMAIN net.family : net.family[i] = "enabled"
VredirOff  == \E i \in DOMAIN net.vredir : net.vredir[i] = "disabled"
VredirFlag == IF net.family = Missing THEN "enabled" ELSE "disabled"
VredirSet(n) == net.vredir # Missing => \A i \in DOMAIN net.vredir : i <= n => net.vredir[i] = VredirFlag
VredirDone == net.vredir # Missing => \A i \in DOMAIN net.vredir : net.vredir[i] = VredirFlag

NetInv ==
  /\ net \in [family : Flags, vredir : Flags]
  /\ clean /\ on =>
       /\ pc \in {7, 8} => (found <=> net.family # Missing)
       /\ pc = 7 /\ found => \A i \in DOMAIN net.family : i <= index => net.family[i] = "enabled"
       /\ pc = 8 /\ found => FamilyOn
       /\ pc = 8 => VredirSet(index)
  /\ clean /\ InRun /\ pc > 8 => VredirDone
  /\ faults = 0 /\ VredirOff => FamilyOn

LEMMA NotMissing == Missing \notin Seq(ConfigFlags)
  BY DEF Missing, ConfigFlags

LEMMA FlagSet ==
  ASSUME net \in [family : Flags, vredir : Flags], NEW x \in {"family", "vredir"}, net[x] \in Seq(ConfigFlags),
         NEW k \in DOMAIN net[x], NEW f \in ConfigFlags, net' = [net EXCEPT ![x][k] = f]
  PROVE  /\ net' \in [family : Flags, vredir : Flags]
         /\ net'[x] \in Seq(ConfigFlags) /\ DOMAIN net'[x] = DOMAIN net[x]
         /\ net'[x][k] = f
         /\ \A i \in DOMAIN net[x] : i # k => net'[x][i] = net[x][i]
         /\ \A y \in {"family", "vredir"} : y # x => net'[y] = net[y]
  <1>1. PICK s : s = [net[x] EXCEPT ![k] = f]
    OBVIOUS
  <1>2. s \in Seq(ConfigFlags) /\ DOMAIN s = DOMAIN net[x] /\ s[k] = f /\ \A i \in DOMAIN net[x] : i # k => s[i] = net[x][i]
    BY <1>1
  <1>3. net' = [net EXCEPT ![x] = s]
    BY <1>1
  <1>4. s \in Flags
    BY <1>2 DEF Flags
  <1>5. QED
    BY ONLY <1>2, <1>3, <1>4, net \in [family : Flags, vredir : Flags], x \in {"family", "vredir"}

LEMMA InitNet == Init => NetInv
  <1> SUFFICES ASSUME Init PROVE NetInv
    OBVIOUS
  <1>1. net.family \in Flags /\ net.vredir \in Seq(ConfigFlags \ {"disabled"}) \union {Missing}
        /\ net \in [family : Flags, vredir : Seq(ConfigFlags \ {"disabled"}) \union {Missing}]
    BY SystemsAssumption DEF SystemsAssumption, Init, Flags
  <1>2. Seq(ConfigFlags \ {"disabled"}) \subseteq Seq(ConfigFlags)
    OBVIOUS
  <1>3. net \in [family : Flags, vredir : Flags]
    BY <1>1, <1>2 DEF Flags
  <1>4. ~VredirOff
    BY <1>1 DEF VredirOff, Missing
  <1>5. QED
    BY <1>3, <1>4 DEF Init, NetInv, InRun

LEMMA NextNet == IniInv /\ FaultInv /\ IndexInv /\ NetInv /\ [Next]_vars => NetInv'
  <1> SUFFICES ASSUME IniInv, FaultInv, IndexInv, NetInv, [Next]_vars PROVE NetInv'
    OBVIOUS
  <1>0. net \in [family : Flags, vredir : Flags] /\ net["family"] \in Flags /\ net["vredir"] \in Flags /\ index \in Nat
    BY DEF NetInv, IndexInv
  <1>1. CASE Start
    <2>1. UNCHANGED << net, faults >> /\ pc' = 1
      BY <1>1, Course DEF Start, registry
    <2>2. QED
      BY <2>1, <1>1, Course DEF NetInv, InRun, FamilyOn, VredirOff
  <1>2. CASE Next /\ ~Start
    <2>1. /\ clean' => Works /\ ~Fails /\ clean
          /\ faults' = 0 => Works /\ ~Fails /\ faults = 0 /\ clean
      BY <1>2, Lucky DEF Fails, FaultInv
    <2>2. CASE FamilyExists
      <3>1. UNCHANGED << net, index >> /\ on /\ on' /\ pc = 6 /\ pc' = 7 /\ index = 0
        <4>1. UNCHANGED << net, index >>
          BY <2>2 DEF FamilyExists, registry
        <4>2. QED
          BY <2>2, <4>1, Course DEF IndexInv
      <3>2. clean' => (found' <=> net.family # Missing)
        BY <2>1, <2>2 DEF FamilyExists
      <3>3. clean' /\ found' => \A i \in DOMAIN net.family : i <= index => net.family[i] = "enabled"
        <4>1. SUFFICES ASSUME clean', found' PROVE DOMAIN net.family \subseteq Nat \ {0}
          BY <3>1
        <4>2. net.family \in Seq(ConfigFlags)
          BY <1>0, <3>2, <4>1 DEF Flags
        <4>3. QED
          BY <4>2
      <3>4. QED
        BY <2>1, <3>1, <3>2, <3>3 DEF NetInv, InRun, FamilyOn, VredirOff
    <2>3. CASE EnumerateEnd
      <3>1. UNCHANGED << net, found >> /\ on /\ on' /\ index' = 0 /\ pc \in {5, 7, 8} /\ pc' = pc + 1
        <4>1. UNCHANGED << net, found >> /\ index' = 0
          BY <2>3, Zenon DEF EnumerateEnd, Leave, registry
        <4>2. QED
          BY <2>3, <4>1, Course
      <3>2. CASE pc = 5 \/ ~clean'
        BY <2>1, <3>1, <3>2 DEF NetInv, InRun, FamilyOn, VredirOff
      <3>3. CASE pc = 7 /\ clean'
        <4>1. found \/ ~found
          OBVIOUS
        <4>2. found => FamilyOn
          <5>1. SUFFICES ASSUME found PROVE FamilyOn
            OBVIOUS
          <5>2. net["family"] # Missing
            BY <2>1, <3>1, <3>3, <5>1 DEF NetInv
          <5>3. At("family") /\ ~At("clients")
            BY <2>3, <3>3, Where DEF EnumerateEnd
          <5>4. Subkeys = net["family"]
            BY <5>2, <5>3 DEF Subkeys, At
          <5>5. index = Len(net["family"])
            BY <2>1, <2>3, <3>3, <5>1, <5>4 DEF EnumerateEnd
          <5>6. net.family \in Seq(ConfigFlags)
            BY <1>0, <5>2 DEF Flags
          <5>7. \A i \in DOMAIN net.family : i <= index
            BY <5>5, <5>6
          <5>8. QED
            BY <2>1, <3>1, <3>3, <5>1, <5>7 DEF NetInv, FamilyOn
        <4>3. VredirSet(0)
          <5>1. SUFFICES ASSUME net.vredir # Missing PROVE DOMAIN net.vredir \subseteq Nat \ {0}
            BY DEF VredirSet
          <5>2. net.vredir \in Seq(ConfigFlags)
            BY <1>0, <5>1 DEF Flags
          <5>3. QED
            BY <5>2
        <4>4. QED
          BY <2>1, <3>1, <3>3, <4>2, <4>3 DEF NetInv, InRun, FamilyOn, VredirOff, VredirSet, VredirFlag
      <3>4. CASE pc = 8 /\ clean'
        <4>1. VredirDone
          <5>1. SUFFICES ASSUME net.vredir # Missing PROVE \A i \in DOMAIN net.vredir : net.vredir[i] = VredirFlag
            BY DEF VredirDone
          <5>2. At("vredir") /\ ~At("clients") /\ ~At("family")
            BY <2>3, <3>4, Where DEF EnumerateEnd
          <5>3. Subkeys = net["vredir"]
            BY <5>1, <5>2 DEF Subkeys, At
          <5>4. index = Len(net["vredir"])
            BY <2>1, <2>3, <3>4, <5>2, <5>3 DEF EnumerateEnd
          <5>5. net.vredir \in Seq(ConfigFlags)
            BY <1>0, <5>1 DEF Flags
          <5>6. \A i \in DOMAIN net.vredir : i <= index
            BY <5>4, <5>5
          <5>7. QED
            BY <2>1, <3>1, <3>4, <5>1, <5>6 DEF NetInv, VredirSet
        <4>2. QED
          BY <2>1, <3>1, <3>4, <4>1 DEF NetInv, InRun, FamilyOn, VredirOff, VredirDone, VredirFlag
      <3>5. QED
        BY <3>1, <3>2, <3>3, <3>4
    <2>4. CASE setNetworkConfigFlags
      <3>1. UNCHANGED found /\ on /\ on' /\ pc \in {7, 8} /\ index < Len(Subkeys)
        BY <2>4, Course DEF setNetworkConfigFlags
      <3>2. CASE Fails /\ UNCHANGED net
        BY <2>1, <3>1, <3>2 DEF NetInv, FamilyOn, VredirOff
      <3>3. CASE At("family") /\ Works /\ Continue /\ net' = [net EXCEPT !["family"][index + 1] = "enabled"]
        <4>1. pc = 7 /\ pc' = 7 /\ index' = index + 1 /\ ~At("clients") /\ ~At("vredir")
          BY <3>3, Where DEF Continue
        <4>2. found
          BY <2>4, <4>1 DEF setNetworkConfigFlags
        <4>3. net["family"] \in Seq(ConfigFlags) /\ index + 1 \in DOMAIN net["family"]
          <5>1. CASE net["family"] = Missing
            <6>1. Subkeys = Empty
              BY <3>3, <4>1, <5>1 DEF Subkeys, At
            <6>2. QED
              BY <1>0, <3>1, <6>1 DEF Empty
          <5>2. CASE net["family"] # Missing
            <6>1. Subkeys = net["family"]
              BY <3>3, <4>1, <5>2 DEF Subkeys, At
            <6>2. net["family"] \in Seq(ConfigFlags)
              BY <1>0, <5>2 DEF Flags
            <6>3. QED
              BY <1>0, <3>1, <6>1, <6>2
          <5>3. QED
            BY <5>1, <5>2
        <4>4. "enabled" \in ConfigFlags
          BY DEF ConfigFlags
        <4>5. /\ net' \in [family : Flags, vredir : Flags]
              /\ net'["family"] \in Seq(ConfigFlags) /\ DOMAIN net'["family"] = DOMAIN net["family"]
              /\ net'["family"][index + 1] = "enabled"
              /\ \A i \in DOMAIN net["family"] : i # index + 1 => net'["family"][i] = net["family"][i]
              /\ net'["vredir"] = net["vredir"]
          BY <1>0, <3>3, <4>3, <4>4, FlagSet
        <4>6. net'["family"] # Missing
          BY <4>5, NotMissing
        <4>7. clean' => \A i \in DOMAIN net'["family"] : i <= index' => net'["family"][i] = "enabled"
          <5>1. SUFFICES ASSUME clean', NEW i \in DOMAIN net["family"], i <= index + 1 PROVE net'["family"][i] = "enabled"
            BY <4>1, <4>5
          <5>2. i = index + 1 \/ i <= index
            BY <1>0, <4>3, <5>1
          <5>3. i <= index => net["family"][i] = "enabled"
            BY <2>1, <3>1, <4>1, <4>2, <5>1 DEF NetInv
          <5>4. QED
            BY <4>5, <5>1, <5>2, <5>3
        <4>8. faults' = 0 /\ VredirOff' => FamilyOn'
          BY <2>1, <4>5 DEF NetInv, VredirOff, FamilyOn
        <4>9. QED
          BY <2>1, <3>1, <4>1, <4>2, <4>5, <4>6, <4>7, <4>8 DEF NetInv
      <3>4. CASE /\ At("vredir") /\ Works /\ Continue
                 /\ net' = [net EXCEPT !["vredir"][index + 1] = IF ~found THEN "enabled" ELSE "disabled"]
        <4>1. pc = 8 /\ pc' = 8 /\ index' = index + 1 /\ ~At("clients") /\ ~At("family")
          BY <3>4, Where DEF Continue
        <4>2. net["vredir"] \in Seq(ConfigFlags) /\ index + 1 \in DOMAIN net["vredir"]
          <5>1. CASE net["vredir"] = Missing
            <6>1. Subkeys = Empty
              BY <3>4, <4>1, <5>1 DEF Subkeys, At
            <6>2. QED
              BY <1>0, <3>1, <6>1 DEF Empty
          <5>2. CASE net["vredir"] # Missing
            <6>1. Subkeys = net["vredir"]
              BY <3>4, <4>1, <5>2 DEF Subkeys, At
            <6>2. net["vredir"] \in Seq(ConfigFlags)
              BY <1>0, <5>2 DEF Flags
            <6>3. QED
              BY <1>0, <3>1, <6>1, <6>2
          <5>3. QED
            BY <5>1, <5>2
        <4>3. PICK f \in ConfigFlags : f = IF ~found THEN "enabled" ELSE "disabled"
          BY DEF ConfigFlags
        <4>4. net' = [net EXCEPT !["vredir"][index + 1] = f]
          BY <3>4, <4>3
        <4>5. /\ net' \in [family : Flags, vredir : Flags]
              /\ net'["vredir"] \in Seq(ConfigFlags) /\ DOMAIN net'["vredir"] = DOMAIN net["vredir"]
              /\ net'["vredir"][index + 1] = f
              /\ \A i \in DOMAIN net["vredir"] : i # index + 1 => net'["vredir"][i] = net["vredir"][i]
              /\ net'["family"] = net["family"]
          BY <1>0, <4>2, <4>4, FlagSet
        <4>6. clean' => f = VredirFlag /\ VredirFlag' = VredirFlag
          BY <2>1, <3>1, <4>1, <4>3, <4>5 DEF NetInv, VredirFlag
        <4>7. net["vredir"] # Missing
          BY <4>2, NotMissing
        <4>8. clean' => VredirSet(index)'
          <5>1. SUFFICES ASSUME clean', NEW i \in DOMAIN net["vredir"], i <= index + 1 PROVE net'["vredir"][i] = VredirFlag
            BY <4>1, <4>5, <4>6 DEF VredirSet
          <5>2. i = index + 1 \/ i <= index
            BY <1>0, <4>2, <5>1
          <5>3. i <= index => net["vredir"][i] = VredirFlag
            BY <2>1, <3>1, <4>1, <4>7, <5>1 DEF NetInv, VredirSet
          <5>4. QED
            BY <4>5, <4>6, <5>1, <5>2, <5>3
        <4>9. faults' = 0 /\ VredirOff' => FamilyOn
          <5>1. SUFFICES ASSUME faults' = 0, VredirOff' PROVE FamilyOn
            OBVIOUS
          <5>2. CASE found
            BY <2>1, <3>1, <4>1, <5>1, <5>2 DEF NetInv
          <5>3. CASE ~found
            <6>1. f = "enabled"
              BY <4>3, <5>3
            <6>2. VredirOff
              BY <4>5, <5>1, <6>1 DEF VredirOff
            <6>3. QED
              BY <2>1, <5>1, <6>2 DEF NetInv
          <5>4. QED
            BY <5>2, <5>3
        <4>10. QED
          BY <2>1, <3>1, <4>1, <4>5, <4>8, <4>9 DEF NetInv, FamilyOn
      <3>5. QED
        <4>1. At("family") \/ At("vredir")
          BY <2>4 DEF setNetworkConfigFlags
        <4>2. At("family") => This.op = "family"
          BY DEF At
        <4>3. At("vredir") => This.op = "vredir" /\ ~At("family")
          BY DEF At
        <4>4. QED
          BY <2>4, <3>2, <3>3, <3>4, <4>1, <4>2, <4>3 DEF setNetworkConfigFlags
    <2>5. CASE UNCHANGED net /\ ~(FamilyExists \/ EnumerateEnd \/ setNetworkConfigFlags)
      <3>1. \/ on' /\ pc' \in 1..6
            \/ ~on' /\ pc' \in 1..28
            \/ InRun /\ pc > 8 /\ pc' \in 9..29
            \/ Stop
        BY <1>2, <2>5, Course DEF Next, InRun, IniInv
      <3>2. CASE Stop
        BY <3>2 DEF Stop, vars, registry, locals, NetInv, InRun, FamilyOn, VredirOff, VredirSet, VredirDone, VredirFlag
      <3>3. QED
        BY <2>1, <2>5, <3>1, <3>2 DEF NetInv, InRun, FamilyOn, VredirOff, VredirDone, VredirFlag
    <2>6. QED
      BY <1>2, <2>2, <2>3, <2>4, <2>5, Frame
  <1>3. CASE UNCHANGED vars
    BY <1>3 DEF vars, registry, locals, NetInv, InRun, FamilyOn, VredirOff, VredirSet, VredirDone, VredirFlag
  <1>4. QED
    BY <1>1, <1>2, <1>3

-----------------------------------------------------------------------------
(***************************************************************************)
(* The users: the registry holds texts, and as long as nothing failed all  *)
(* runs choose the same one.                                               *)
(***************************************************************************)
UserInv ==
  /\ user \in Texts /\ reg.currentUser \in Texts
  /\ reg.username \in Texts /\ reg.username = first.reg.username
  /\ first.reg.currentUser \in Texts
  /\ "Control" \in keys
  /\ on /\ pc <= 13 => user = Empty

ListMade == Len(FirstUser) <= NameMax => PwlName(FirstUser) \in pwl

LogonInv ==
  faults = 0 =>
    /\ reg.currentUser \in {first.reg.currentUser, FirstUser}
    /\ on /\ pc = 13 => reg.currentUser = Missing
    /\ InRun =>
         /\ pc > 13 => user = FirstUser
         /\ pc > 14 => reg.currentUser = FirstUser
         /\ pc > 15 => "Winlogon" \in keys
         /\ pc > 17 => reg.DefaultUserName = FirstUser
         /\ pc > 19 => ListMade

LEMMA FirstUserKnown == FirstUser # Missing /\ (UserInv => FirstUser \in Texts)
  <1>1. Empty # Missing /\ Empty \in Texts
    BY DEF Empty, Missing, Texts
  <1>2. QED
    BY <1>1 DEF FirstUser, UserInv

LEMMA SameFirstUser ==
  ASSUME IniInv, Next
  PROVE  FirstUser' = FirstUser /\ ("Control" \in keys => "Control" \in keys') /\ ("Winlogon" \in keys => "Winlogon" \in keys')
  <1>1. "Logon" \in keys' <=> "Logon" \in keys
    BY Frame, KeyCreated
  <1>2. UNCHANGED first
    BY Frame
  <1>3. QED
    BY <1>1, <1>2, Frame, KeyCreated DEF FirstUser

LEMMA InitUser == Init => UserInv /\ LogonInv
  <1> SUFFICES ASSUME Init PROVE UserInv /\ LogonInv
    OBVIOUS
  <1>1. PICK a \in Accounts :
          reg = [v \in DOMAIN KeyOf |-> CASE v \in DOMAIN a -> a[v]
                                          [] v \in {"ComputerName", "VnetsupName"} -> reg["ComputerName"]
                                          [] OTHER -> <<"default">>]
    <2>1. PICK a \in Accounts, s \in Systems :
            reg = [v \in DOMAIN KeyOf |-> CASE v \in DOMAIN a -> a[v]
                                            [] v \in {"ComputerName", "VnetsupName"} -> s.computer
                                            [] OTHER -> <<"default">>]
      BY DEF Init
    <2>2. a \in [currentUser : Texts, username : Texts]
      BY TextsAssumption DEF TextsAssumption
    <2>3. "ComputerName" \notin DOMAIN a
      BY <2>2
    <2>4. reg["ComputerName"] = s.computer
      BY <2>1, <2>3, Keys
    <2>5. QED
      BY <2>1, <2>4
  <1>2. a \in [currentUser : Texts, username : Texts]
    BY TextsAssumption DEF TextsAssumption
  <1>3. reg["currentUser"] \in Texts /\ reg["username"] \in Texts
    BY <1>1, <1>2, Keys
  <1>4. "Control" \in keys
    BY SystemsAssumption DEF SystemsAssumption, Init
  <1>5. Empty \in Texts
    BY DEF Empty, Texts
  <1>6. first.reg = reg /\ user = Empty /\ ~on /\ pc = 1
    BY DEF Init
  <1>7. QED
    BY <1>3, <1>4, <1>5, <1>6 DEF UserInv, LogonInv, InRun

LEMMA NextUser == IniInv /\ RegInv /\ UserInv /\ [Next]_vars => UserInv'
  <1> SUFFICES ASSUME IniInv, RegInv, UserInv, [Next]_vars PROVE UserInv'
    OBVIOUS
  <1>1. CASE Next
    <2>1. UNCHANGED first /\ "Control" \in keys'
      BY <1>1, Frame, SameFirstUser DEF UserInv
    <2>2. CASE SetName
      <3>1. reg'["currentUser"] = reg["currentUser"] /\ reg'["username"] = reg["username"]
        BY <2>2, WritesTo, Keys DEF SetName
      <3>2. UNCHANGED user /\ on /\ pc \in {2, 3}
        BY <2>2, Course DEF SetName
      <3>3. QED
        BY <2>1, <3>1, <3>2 DEF UserInv
    <2>3. CASE SetValue
      <3>1. UNCHANGED user
        BY <2>3 DEF SetValue, locals
      <3>2. on /\ pc' = pc + 1 /\ pc \in {4, 9, 11, 14, 16, 17, 18, 24, 25, 26, 27}
        BY <2>3, Course
      <3>3. PICK v \in DOMAIN KeyOf : \E text :
              /\ Writes(v, text)
              /\ v \notin {"ComputerName", "VnetsupName", "username"}
              /\ v = "currentUser" <=> pc = 14
              /\ v = "DefaultUserName" <=> pc = 17
              /\ pc \in {14, 17} => text = user
        BY <2>3, ValueSet
      <3>4. PICK text :
              /\ Writes(v, text)
              /\ v \notin {"ComputerName", "VnetsupName", "username"}
              /\ v = "currentUser" <=> pc = 14
              /\ pc = 14 => text = user
        BY <3>3
      <3>5. reg'["username"] = reg["username"]
        BY <3>4, WritesTo, Keys
      <3>6. reg'["currentUser"] \in {reg["currentUser"], user}
        BY <3>4, WritesTo, Keys
      <3>7. QED
        BY <2>1, <3>1, <3>2, <3>5, <3>6 DEF UserInv
    <2>4. CASE ReadUser
      <3>1. UNCHANGED reg /\ user' \in {user, reg["currentUser"], reg["username"]}
        BY <2>4 DEF ReadUser, registry
      <3>2. on /\ on' /\ pc \in {12, 13} /\ pc' \in {13, 14, 15}
        BY <2>4, Course
      <3>3. pc' = 13 => UNCHANGED user
        BY <2>4, <3>2, Where DEF ReadUser, Next1
      <3>4. QED
        BY <2>1, <3>1, <3>2, <3>3 DEF UserInv
    <2>5. CASE PowerLoss \/ Start
      <3>1. UNCHANGED reg /\ user' = Empty
        BY <2>5 DEF PowerLoss, Start, registry
      <3>2. Empty \in Texts
        BY DEF Empty, Texts
      <3>3. QED
        BY <2>1, <3>1, <3>2 DEF UserInv
    <2>6. CASE UNCHANGED << reg, user >> /\ ~PowerLoss /\ ~Start /\ ~SetName /\ ~SetValue /\ ~ReadUser
      <3>1. (on' /\ pc' <= 13 => on /\ pc <= 13) \/ Stop
        BY <1>1, <2>6, Course DEF Next, IniInv
      <3>2. QED
        BY <2>1, <2>6, <3>1 DEF UserInv, Stop, vars
    <2>7. QED
      BY <1>1, <2>2, <2>3, <2>4, <2>5, <2>6, Frame
  <1>2. CASE UNCHANGED vars
    BY <1>2 DEF vars, registry, locals, fixed, UserInv
  <1>3. QED
    BY <1>1, <1>2

LEMMA NextLogon == IniInv /\ FaultInv /\ RegInv /\ UserInv /\ LogonInv /\ [Next]_vars => LogonInv'
  <1> SUFFICES ASSUME IniInv, FaultInv, RegInv, UserInv, LogonInv, [Next]_vars, faults' = 0
               PROVE  /\ reg'.currentUser \in {first'.reg.currentUser, FirstUser'}
                      /\ on' /\ pc' = 13 => reg'.currentUser = Missing
                      /\ InRun' =>
                           /\ pc' > 13 => user' = FirstUser'
                           /\ pc' > 14 => reg'.currentUser = FirstUser'
                           /\ pc' > 15 => "Winlogon" \in keys'
                           /\ pc' > 17 => reg'.DefaultUserName = FirstUser'
                           /\ pc' > 19 => ListMade'
    BY DEF LogonInv
  <1>1. CASE Start
    <2>1. UNCHANGED << reg, faults, first >> /\ pc' = 1 /\ FirstUser' = FirstUser
      BY <1>1, SameFirstUser DEF Start, registry, Next
    <2>2. QED
      BY <2>1 DEF LogonInv
  <1>2. CASE Next /\ ~Start
    <2>0. UNCHANGED first /\ FirstUser' = FirstUser /\ ("Winlogon" \in keys => "Winlogon" \in keys')
      BY <1>2, Frame, SameFirstUser
    <2>1. Works /\ ~Fails /\ faults = 0
      BY <1>2, Lucky DEF Fails, FaultInv
    <2>2. CASE ReadUser
      <3>1. UNCHANGED << reg, keys, pwl >> /\ on /\ on'
        BY <2>2, Course DEF ReadUser, registry, files
      <3>2. CASE pc = 12
        <4>1. At("current")
          BY <2>2, <3>2, Where DEF ReadUser
        <4>2. CASE Readable("currentUser") /\ user' = reg["currentUser"] /\ pc' = 15
          <5>1. reg.currentUser = FirstUser
            BY <2>1, <4>2 DEF LogonInv, Readable, FirstUser
          <5>2. QED
            BY <2>0, <3>1, <4>2, <5>1
        <4>3. CASE ~Readable("currentUser") /\ UNCHANGED user /\ pc' = 13
          <5>1. reg.currentUser = Missing
            BY <4>3, Keys DEF Readable, UserInv
          <5>2. QED
            BY <2>0, <2>1, <3>1, <4>3, <5>1 DEF LogonInv
        <4>4. QED
          BY <2>1, <2>2, <3>2, <4>1, <4>2, <4>3 DEF ReadUser, NotDone, Next1
      <3>3. CASE pc = 13
        <4>1. ~At("current")
          BY <3>3, Where
        <4>2. reg.currentUser = Missing /\ first.reg.currentUser = Missing
          BY <2>1, <3>1, <3>3, FirstUserKnown DEF LogonInv
        <4>3. user = Empty
          BY <3>1, <3>3 DEF UserInv
        <4>4. pc' = 14
          BY <2>2, <3>3, <4>1 DEF ReadUser, Next1
        <4>5. user' = FirstUser
          BY <2>1, <2>2, <4>1, <4>2, <4>3, Keys DEF ReadUser, NotDone, Readable, FirstUser, UserInv
        <4>6. QED
          BY <2>0, <2>1, <3>1, <4>2, <4>4, <4>5
      <3>4. QED
        BY <2>2, <3>2, <3>3, Course
    <2>3. CASE SetValue
      <3>1. UNCHANGED << user, keys, pwl >>
        BY <2>3 DEF SetValue, locals, files
      <3>2. on /\ on' /\ pc' = pc + 1 /\ pc \in {4, 9, 11, 14, 16, 17, 18, 24, 25, 26, 27}
        BY <2>3, Course
      <3>3. PICK v \in DOMAIN KeyOf : \E text :
              /\ Writes(v, text)
              /\ v \notin {"ComputerName", "VnetsupName", "username"}
              /\ v = "currentUser" <=> pc = 14
              /\ v = "DefaultUserName" <=> pc = 17
              /\ pc \in {14, 17} => text = user
        BY <2>3, ValueSet
      <3>4. PICK text :
              /\ Writes(v, text)
              /\ v = "currentUser" <=> pc = 14
              /\ v = "DefaultUserName" <=> pc = 17
              /\ pc \in {14, 17} => text = user
        BY <3>3
      <3>5. CASE pc = 14
        <4>1. v = "currentUser" /\ text = user /\ user = FirstUser
          BY <2>1, <3>2, <3>4, <3>5 DEF LogonInv, InRun
        <4>2. reg'["currentUser"] = FirstUser
          BY <2>1, <3>4, <4>1, WritesTo, Keys DEF UserInv
        <4>3. QED
          BY <2>0, <2>1, <3>1, <3>2, <3>5, <4>1, <4>2 DEF LogonInv
      <3>6. CASE pc = 17
        <4>1. v = "DefaultUserName" /\ text = user /\ user = FirstUser /\ "Winlogon" \in keys /\ reg["currentUser"] = FirstUser
          BY <2>1, <3>2, <3>4, <3>6 DEF LogonInv, InRun
        <4>2. reg'["DefaultUserName"] = FirstUser
          BY <2>1, <3>4, <4>1, WritesTo, Keys
        <4>3. reg'["currentUser"] = FirstUser
          BY <3>4, <4>1, WritesTo, Keys
        <4>4. QED
          BY <2>0, <2>1, <3>1, <3>2, <3>6, <4>1, <4>2, <4>3
      <3>7. CASE pc \notin {14, 17}
        <4>1. reg'["currentUser"] = reg["currentUser"] /\ reg'["DefaultUserName"] = reg["DefaultUserName"]
          BY <3>4, <3>7, WritesTo, Keys
        <4>2. ListMade => ListMade'
          BY <2>0, <3>1 DEF ListMade, PwlName
        <4>3. QED
          BY <2>0, <2>1, <3>1, <3>2, <3>7, <4>1, <4>2 DEF LogonInv, InRun
      <3>8. QED
        BY <3>5, <3>6, <3>7
    <2>4. CASE SetName
      <3>1. reg'["currentUser"] = reg["currentUser"] /\ pc \in {2, 3} /\ pc' \in {pc + 1, 4}
        BY <2>4, WritesTo, Keys, Course DEF SetName
      <3>2. QED
        BY <2>0, <2>1, <3>1 DEF LogonInv
    <2>5. CASE createRegKey
      <3>1. UNCHANGED << reg, user, pwl >> /\ on /\ pc \in {10, 15} /\ pc' = pc + 1
        BY <2>5, Course DEF createRegKey, locals, files
      <3>2. pc = 15 => "Winlogon" \in keys'
        BY <2>1, <2>5, KeyCreated
      <3>3. QED
        BY <2>0, <2>1, <3>1, <3>2 DEF LogonInv, InRun
    <2>6. CASE CreatePwl
      <3>1. UNCHANGED << reg, user, keys >> /\ on /\ pc = 19
        BY <2>6, Course DEF CreatePwl, registry, locals
      <3>2. user = FirstUser /\ reg["currentUser"] = FirstUser /\ "Winlogon" \in keys /\ reg["DefaultUserName"] = FirstUser
        BY <2>1, <3>1 DEF LogonInv, InRun
      <3>3. pc' \in {19, 20, 23}
        BY <2>6, Course
      <3>4. ListMade'
        <4>1. CASE Len(user) <= NameMax /\ pwl' = pwl \union {PwlName(user)}
          BY <2>0, <3>2, <4>1 DEF ListMade, PwlName
        <4>2. CASE Len(user) > NameMax
          <5>1. Len(user) \in Nat /\ NameMax \in Nat
            BY BoundsAssumption DEF BoundsAssumption, UserInv, Texts
          <5>2. QED
            BY <2>0, <3>2, <4>2, <5>1 DEF ListMade
        <4>3. QED
          BY <2>1, <2>6, <4>1, <4>2 DEF CreatePwl
      <3>5. QED
        BY <2>0, <3>1, <3>2, <3>3, <3>4
    <2>7. CASE UNCHANGED << reg, user, keys, pwl >> /\ ~CreatePwl /\ ~createRegKey /\ ~SetName /\ ~SetValue /\ ~ReadUser
      <3>1. \/ on' /\ pc' \in 1..12
            \/ ~on' /\ pc' \in 1..28
            \/ InRun /\ pc \in 20..29 /\ pc' \in 20..29
            \/ Stop
        BY <1>2, <2>7, Course DEF Next, InRun, IniInv
      <3>2. CASE Stop
        BY <2>0, <2>1, <2>7, <3>2 DEF Stop, vars, LogonInv, InRun, ListMade, PwlName
      <3>3. ListMade => ListMade'
        BY <2>0, <2>7 DEF ListMade, PwlName
      <3>4. CASE InRun /\ pc \in 20..29 /\ pc' \in 20..29
        <4>1. /\ user = FirstUser /\ reg.currentUser = FirstUser /\ "Winlogon" \in keys
              /\ reg.DefaultUserName = FirstUser /\ ListMade
          BY <2>1, <3>4 DEF LogonInv
        <4>2. QED
          BY <2>0, <2>7, <3>3, <3>4, <4>1
      <3>5. CASE (on' /\ pc' \in 1..12) \/ (~on' /\ pc' \in 1..28)
        BY <2>0, <2>1, <2>7, <3>5 DEF LogonInv, InRun
      <3>6. QED
        BY <3>1, <3>2, <3>4, <3>5
    <2>8. CASE PowerLoss
      <3>1. UNCHANGED reg /\ ~InRun' /\ ~on'
        BY <2>8, Course DEF PowerLoss, registry, InRun, IniInv
      <3>2. QED
        BY <2>0, <2>1, <3>1 DEF LogonInv
    <2>9. QED
      BY <1>2, <2>2, <2>3, <2>4, <2>5, <2>6, <2>7, <2>8, Frame
  <1>3. CASE UNCHANGED vars
    <2>1. UNCHANGED << faults, reg, first, on, pc, user, keys, pwl >>
      BY <1>3 DEF vars, registry, locals, files, fixed
    <2>2. QED
      BY <2>1 DEF LogonInv, InRun, FirstUser, ListMade, PwlName
  <1>4. QED
    BY <1>1, <1>2, <1>3

-----------------------------------------------------------------------------
(***************************************************************************)
(* SYSTEM.INI as far as it was written: every line of the backup is copied *)
(* or, after the header, replaced; only the section that is added follows. *)
(***************************************************************************)
Sign      == "="
Extension == ".PWL"
Title     == "[Password Lists]"
Chars     == STRING \union {Sign, Extension, Title}

Headed(i)  == \E h \in DOMAIN first.sini : h < i /\ IsPrefixOf(Header, first.sini[h])
NewLine(i) == IF Headed(i) /\ IsPrefixOf(user, first.sini[i]) THEN Entry(user) ELSE first.sini[i]
CopiedTo(n) == \A i \in 1..n : sini[i] = NewLine(i)
Appended   == \A i \in DOMAIN sini : i > Len(first.sini) => sini[i] \in {Empty, Header, Entry(user)}

Copying == moved /\ index <= Len(first.sini) /\ Len(sini) = index /\ CopiedTo(index) /\ (found <=> Headed(index + 1))
Written == Len(sini) >= Len(first.sini) /\ CopiedTo(Len(first.sini)) /\ Appended

WriteInv ==
  /\ first.sini \in Seq(Texts)
  /\ on /\ pc <= 20 => ~moved
  /\ clean /\ on =>
       /\ pc = 21 => moved
       /\ pc = 22 => sini \in Seq(Seq(Chars)) /\ Copying
  /\ clean /\ InRun /\ moved /\ pc > 22 => sini \in Seq(Seq(Chars)) /\ Written

LEMMA Pieces ==
  /\ Header = <<Title>> /\ Title # Sign
  /\ \A n : Entry(n) = n \o <<Sign>> \o PwlName(n) \o <<Extension>>
  /\ \A l : IsOwn(l) = IsPrefixOf(user \o <<Sign>>, l)
  <1>1. Header = <<Title>>
    BY Zenon DEF Header, Title
  <1>2. Title # Sign
    BY Zenon DEF Title, Sign
  <1>3. \A n : Entry(n) = n \o <<Sign>> \o PwlName(n) \o <<Extension>>
    BY Zenon DEF Entry, Sign, Extension
  <1>4. \A l : IsOwn(l) = IsPrefixOf(user \o <<Sign>>, l)
    BY Zenon DEF IsOwn, Sign
  <1>5. QED
    BY <1>1, <1>2, <1>3, <1>4

LEMMA TextChars ==
  /\ Texts \subseteq Seq(Chars)
  /\ Empty \in Seq(Chars) /\ Header \in Seq(Chars) /\ <<Sign>> \in Seq(Chars) /\ <<Extension>> \in Seq(Chars)
  <1>1. STRING \subseteq Chars /\ Sign \in Chars /\ Extension \in Chars /\ Title \in Chars
    BY DEF Chars
  <1>2. Seq(STRING) \subseteq Seq(Chars)
    <2>1. ASSUME NEW S, NEW T, S \subseteq T PROVE Seq(S) \subseteq Seq(T)
      BY <2>1
    <2>2. QED
      BY <1>1, <2>1, Zenon
  <1>3. Empty \in Seq(Chars) /\ <<Title>> \in Seq(Chars) /\ <<Sign>> \in Seq(Chars) /\ <<Extension>> \in Seq(Chars)
    BY <1>1 DEF Empty
  <1>4. QED
    BY <1>2, <1>3, Pieces DEF Texts

LEMMA EntryChars ==
  ASSUME user \in Texts
  PROVE  Entry(user) \in Seq(Chars)
  <1>1. user \in Seq(Chars) /\ PwlMax \in Nat
    BY TextChars, BoundsAssumption DEF BoundsAssumption
  <1>2. PwlName(user) \in Seq(Chars)
    BY <1>1 DEF PwlName
  <1>3. user \o <<Sign>> \in Seq(Chars)
    BY <1>1, TextChars
  <1>4. (user \o <<Sign>>) \o PwlName(user) \in Seq(Chars)
    BY <1>2, <1>3
  <1>5. ((user \o <<Sign>>) \o PwlName(user)) \o <<Extension>> \in Seq(Chars)
    BY <1>4, TextChars
  <1>6. QED
    BY <1>5, Pieces

LEMMA SameLines ==
  ASSUME UNCHANGED << user, first >>
  PROVE  \A i : NewLine(i)' = NewLine(i) /\ (Headed(i)' <=> Headed(i)) /\ Entry(user)' = Entry(user)
  BY Zenon DEF NewLine, Headed, Entry, PwlName

LEMMA StaysWritten ==
  ASSUME UNCHANGED << user, first, sini >>
  PROVE  Written' <=> Written
  <1>1. \A i : NewLine(i)' = NewLine(i) /\ Entry(user)' = Entry(user)
    BY SameLines
  <1>2. CopiedTo(Len(first.sini))' <=> CopiedTo(Len(first.sini))
    BY <1>1 DEF CopiedTo
  <1>3. Appended' <=> Appended
    BY <1>1 DEF Appended
  <1>4. QED
    BY <1>2, <1>3 DEF Written

LEMMA InitWrite == Init => WriteInv
  BY TextsAssumption DEF TextsAssumption, Init, WriteInv, InRun

LEMMA NextWrite == IniInv /\ FaultInv /\ IndexInv /\ UserInv /\ WriteInv /\ [Next]_vars => WriteInv'
  <1> SUFFICES ASSUME IniInv, FaultInv, IndexInv, UserInv, WriteInv, [Next]_vars PROVE WriteInv'
    OBVIOUS
  <1>0. first.sini \in Seq(Texts) /\ Len(first.sini) \in Nat /\ index \in Nat
    BY DEF WriteInv, IndexInv
  <1>1. CASE Start
    <2>1. UNCHANGED first /\ pc' = 1 /\ moved' = FALSE
      BY <1>1, Course DEF Start
    <2>2. QED
      BY <2>1 DEF WriteInv
  <1>2. CASE Next /\ ~Start
    <2>0. UNCHANGED first
      BY <1>2, Frame
    <2>1. clean' => Works /\ ~Fails /\ clean
      BY <1>2, Lucky DEF Fails
    <2>2. CASE MoveIni
      <3>1. on /\ on' /\ pc = 20 /\ pc' \in {21, 23}
        BY <2>2, Course
      <3>2. (pc' = 21 /\ moved') \/ (pc' = 23 /\ ~moved')
        <4>1. ~moved
          BY <3>1 DEF WriteInv
        <4>2. (pc' = pc + 1 /\ moved' = TRUE) \/ (pc' = Line("is98Lite") /\ moved' = moved)
          BY <2>2, Zenon DEF MoveIni, Next1
        <4>3. QED
          BY <3>1, <4>1, <4>2, Lines
      <3>3. QED
        BY <2>0, <3>1, <3>2 DEF WriteInv
    <2>3. CASE OpenIni
      <3>1. on /\ pc = 21 /\ index = 0 /\ UNCHANGED << index, moved >> /\ (clean' => moved)
        <4>1. on /\ pc = 21
          BY <2>3, Course
        <4>2. UNCHANGED << index, moved >>
          BY <2>3 DEF OpenIni
        <4>3. QED
          BY <2>1, <4>1, <4>2 DEF IndexInv, WriteInv
      <3>2. clean' => sini' = Empty /\ found' = FALSE /\ pc' = 22
        <4>1. clean' => Works /\ ~Fails
          BY <2>1
        <4>2. found' = FALSE /\ (Fails \/ (sini' = Empty /\ pc' = pc + 1))
          BY <2>3, Zenon DEF OpenIni, Next1
        <4>3. QED
          BY <3>1, <4>1, <4>2
      <3>3. pc' \in {21, 22, 23}
        BY <2>3, Course
      <3>4. clean' => sini' \in Seq(Seq(Chars)) /\ Copying'
        <4>1. SUFFICES ASSUME clean' PROVE sini' \in Seq(Seq(Chars)) /\ Copying'
          OBVIOUS
        <4>2. sini' \in Seq(Seq(Chars)) /\ Len(sini') = 0
          BY <3>2, <4>1 DEF Empty
        <4>3. ~Headed(1)
          BY <1>0 DEF Headed
        <4>4. Headed(index + 1)' <=> Headed(1)
          BY <2>0, <3>1 DEF Headed
        <4>5. QED
          <5>1. index' = 0 /\ moved' /\ ~found'
            BY <3>1, <3>2, <4>1
          <5>2. CopiedTo(index)'
            BY <5>1 DEF CopiedTo
          <5>3. ~Headed(index + 1)'
            BY <4>3, <4>4
          <5>4. index' <= Len(first'.sini)
            BY <1>0, <2>0, <5>1
          <5>5. QED
            BY <4>2, <5>1, <5>2, <5>3, <5>4 DEF Copying
      <3>5. QED
        BY <2>0, <3>1, <3>2, <3>3, <3>4 DEF WriteInv
    <2>4. CASE CopyLine
      <3>1. on /\ on' /\ pc = 22 /\ pc' = 22 /\ UNCHANGED << user, moved >> /\ index' = index + 1 /\ sbak = first.sini
        BY <2>4, Course DEF CopyLine, IniInv
      <3>2. index < Len(first.sini)
        BY <2>4, <3>1 DEF CopyLine
      <3>3. clean' => sini' \in Seq(Seq(Chars)) /\ Copying'
        <4>1. SUFFICES ASSUME clean' PROVE sini' \in Seq(Seq(Chars)) /\ Copying'
          OBVIOUS
        <4>2. sini \in Seq(Seq(Chars)) /\ moved /\ Len(sini) = index /\ CopiedTo(index) /\ (found <=> Headed(index + 1))
          BY <2>1, <3>1, <4>1 DEF WriteInv, Copying
        <4>3. PICK x : x = NewLine(index + 1)
          OBVIOUS
        <4>4. sini' = sini \o <<x>>
          BY <2>1, <2>4, <3>1, <4>1, <4>2, <4>3 DEF CopyLine, Copied, NewLine
        <4>5. x \in Seq(Chars)
          <5>1. first.sini[index + 1] \in Seq(Chars)
            BY <1>0, <3>2, TextChars
          <5>2. QED
            BY <4>3, <5>1, EntryChars DEF NewLine, UserInv
        <4>6. /\ sini' \in Seq(Seq(Chars)) /\ Len(sini') = index + 1 /\ sini'[index + 1] = x
              /\ \A i \in 1..index : sini'[i] = sini[i]
          BY <1>0, <4>2, <4>4, <4>5
        <4>7. \A i : NewLine(i)' = NewLine(i)
          BY <2>0, <3>1, SameLines
        <4>8. CopiedTo(index)'
          <5>1. SUFFICES ASSUME NEW i \in 1..(index + 1) PROVE sini'[i] = NewLine(i)
            BY <3>1, <4>7 DEF CopiedTo
          <5>2. CASE i = index + 1
            BY <4>3, <4>6, <5>2
          <5>3. CASE i \in 1..index
            BY <4>2, <4>6, <5>3 DEF CopiedTo
          <5>4. QED
            BY <1>0, <5>2, <5>3
        <4>9. found' <=> Headed(index + 2)
          <5>1. found' <=> found \/ IsPrefixOf(Header, first.sini[index + 1])
            BY <2>4, <3>1 DEF CopyLine
          <5>2. index + 1 \in DOMAIN first.sini
            BY <1>0, <3>2
          <5>3. \A h \in DOMAIN first.sini : h < index + 2 <=> h < index + 1 \/ h = index + 1
            BY <1>0
          <5>4. Headed(index + 2) <=> Headed(index + 1) \/ IsPrefixOf(Header, first.sini[index + 1])
            BY <5>2, <5>3 DEF Headed
          <5>5. QED
            BY <4>2, <5>1, <5>4
        <4>10. Headed(index + 1)' <=> Headed(index + 2)
          <5>1. index' + 1 = index + 2
            BY <1>0, <3>1
          <5>2. QED
            BY <2>0, <5>1 DEF Headed
        <4>11. QED
          <5>1. index' <= Len(first'.sini) /\ Len(sini') = index' /\ moved'
            BY <1>0, <2>0, <3>1, <3>2, <4>2, <4>6
          <5>2. found' <=> Headed(index + 1)'
            BY <4>9, <4>10
          <5>3. QED
            BY <4>6, <4>8, <5>1, <5>2 DEF Copying
      <3>4. QED
        BY <2>0, <3>1, <3>3 DEF WriteInv
    <2>5. CASE CopyEnd
      <3>1. on /\ on' /\ pc = 22 /\ pc' = 23 /\ UNCHANGED << user, moved >> /\ sbak = first.sini
        BY <2>5, Course DEF CopyEnd, IniInv
      <3>2. clean' => sini' \in Seq(Seq(Chars)) /\ Written'
        <4>1. SUFFICES ASSUME clean' PROVE sini' \in Seq(Seq(Chars)) /\ Written'
          OBVIOUS
        <4>2. sini \in Seq(Seq(Chars)) /\ Len(sini) = Len(first.sini) /\ CopiedTo(Len(first.sini))
          BY <2>1, <2>5, <3>1, <4>1 DEF WriteInv, Copying, CopyEnd
        <4>3. PICK t : t \in {<<Empty>>, <<Empty, Header, Entry(user), Empty>>} /\ sini' = sini \o t
          BY <2>1, <2>5, <4>1 DEF CopyEnd
        <4>4. t \in Seq(Seq(Chars)) /\ \A i \in DOMAIN t : t[i] \in {Empty, Header, Entry(user)}
          <5>1. Entry(user) \in Seq(Chars) /\ Empty \in Seq(Chars) /\ Header \in Seq(Chars)
            BY TextChars, EntryChars DEF UserInv
          <5>2. PICK e, h, n : e = Empty /\ h = Header /\ n = Entry(user)
            OBVIOUS
          <5>3. CASE t = <<e>>
            BY <5>1, <5>2, <5>3
          <5>4. CASE t = <<e, h, n, e>>
            BY <5>1, <5>2, <5>4
          <5>5. QED
            BY <4>3, <5>2, <5>3, <5>4
        <4>5. /\ sini' \in Seq(Seq(Chars)) /\ Len(sini') = Len(sini) + Len(t)
              /\ \A i \in 1..Len(sini) : sini'[i] = sini[i]
              /\ \A i \in DOMAIN sini' : i > Len(sini) => i - Len(sini) \in DOMAIN t /\ sini'[i] = t[i - Len(sini)]
          <5>1. sini' \in Seq(Seq(Chars)) /\ Len(sini') = Len(sini) + Len(t) /\ DOMAIN sini' = 1..(Len(sini) + Len(t))
            <6>1. sini \o t \in Seq(Seq(Chars)) /\ Len(sini \o t) = Len(sini) + Len(t)
              BY <4>2, <4>4, ConcatProperties
            <6>2. DOMAIN (sini \o t) = 1..Len(sini \o t)
              BY <6>1
            <6>3. QED
              BY <4>3, <6>1, <6>2
          <5>2. \A i \in 1..Len(sini) : sini'[i] = sini[i]
            BY <4>2, <4>3, <4>4
          <5>3. Len(sini) \in Nat /\ Len(t) \in Nat /\ DOMAIN t = 1..Len(t)
            BY <4>2, <4>4
          <5>4. ASSUME NEW i \in DOMAIN sini', i > Len(sini) PROVE i - Len(sini) \in DOMAIN t /\ sini'[i] = t[i - Len(sini)]
            <6>1. i \in Len(sini)+1..Len(sini)+Len(t) /\ i - Len(sini) \in 1..Len(t)
              BY <5>1, <5>3, <5>4
            <6>2. QED
              BY <4>2, <4>3, <4>4, <5>3, <6>1, ConcatProperties
          <5>5. QED
            BY <5>1, <5>2, <5>4
        <4>6. \A i : NewLine(i)' = NewLine(i)
          BY <2>0, <3>1, SameLines
        <4>7. CopiedTo(Len(first.sini))'
          BY <2>0, <4>2, <4>5, <4>6 DEF CopiedTo
        <4>8. Entry(user)' = Entry(user)
          BY <2>0, <3>1, SameLines
        <4>9. Appended'
          BY <2>0, <4>2, <4>4, <4>5, <4>8 DEF Appended, Empty, Header
        <4>10. Len(sini') >= Len(first.sini)
          BY <1>0, <4>2, <4>4, <4>5
        <4>11. QED
          BY <2>0, <4>5, <4>7, <4>9, <4>10 DEF Written
      <3>3. QED
        BY <2>0, <3>1, <3>2 DEF WriteInv
    <2>6. CASE \/ ReadName \/ SetName \/ SetValue \/ createRegKey
               \/ EnumerateEnd \/ OtherClient \/ DeleteValue \/ DeleteKey \/ FamilyExists \/ setNetworkConfigFlags
               \/ ReadUser \/ CreatePwl
      <3>1. UNCHANGED moved
        BY <1>2, <2>6, Frame, Course
      <3>2. \/ on /\ pc <= 20 /\ pc' \in 1..23
            \/ on /\ pc \in 24..27 /\ on' /\ pc' \in 24..28 /\ UNCHANGED << user, sini >>
        BY <1>2, <2>6, Frame, Course
      <3>3. CASE on /\ pc <= 20 /\ pc' \in 1..23
        <4>1. ~moved'
          BY <3>1, <3>3 DEF WriteInv
        <4>2. pc' \notin {21, 22}
          BY <2>6, Course
        <4>3. QED
          BY <2>0, <4>1, <4>2 DEF WriteInv
      <3>4. CASE on /\ pc \in 24..27 /\ on' /\ pc' \in 24..28 /\ UNCHANGED << user, sini >>
        BY <2>0, <2>1, <3>1, <3>4, StaysWritten DEF WriteInv, InRun
      <3>5. QED
        BY <3>2, <3>3, <3>4
    <2>7. CASE is98Lite \/ doReboot
      <3>1. on /\ pc \in {23, 28} /\ pc' \in {24, 28, 29} /\ UNCHANGED << user, sini, moved >>
        BY <1>2, <2>7, Frame, Course
      <3>2. QED
        BY <2>0, <2>1, <3>1, StaysWritten DEF WriteInv, InRun
    <2>8. CASE PowerLoss \/ Repair
      <3>1. ~on' /\ ~InRun'
        BY <2>8, Course DEF InRun, IniInv
      <3>2. QED
        BY <2>0, <3>1 DEF WriteInv
    <2>9. CASE Stop
      <3>1. UNCHANGED << on, pc, clean, moved, user, sini, index, found >>
        BY <2>9 DEF Stop, vars, locals, files
      <3>2. QED
        BY <2>0, <3>1 DEF WriteInv, InRun, Copying, Written, CopiedTo, Appended, NewLine, Headed, Entry, PwlName
    <2>10. QED
      BY <1>2, <2>2, <2>3, <2>4, <2>5, <2>6, <2>7, <2>8, <2>9 DEF Next
  <1>3. CASE UNCHANGED vars
    <2>1. UNCHANGED << on, pc, clean, moved, user, sini, index, found, first >>
      BY <1>3 DEF vars, locals, files, fixed
    <2>2. QED
      BY <2>1 DEF WriteInv, InRun, Copying, Written, CopiedTo, Appended, NewLine, Headed, Entry, PwlName
  <1>4. QED
    BY <1>1, <1>2, <1>3

-----------------------------------------------------------------------------
(***************************************************************************)
(* Together, and what follows.                                             *)
(***************************************************************************)
RunInv ==
  /\ IniInv /\ FaultInv /\ IndexInv /\ RegInv
  /\ NamesInv /\ ClientsInv /\ NetInv /\ UserInv /\ LogonInv /\ WriteInv

LEMMA InitRun == Init => RunInv
  <1> SUFFICES ASSUME Init PROVE RunInv
    OBVIOUS
  <1>1. NamesInv
    BY DEF Init, NamesInv, InRun
  <1>2. ClientsInv
    BY SystemsAssumption DEF SystemsAssumption, Init, ClientsInv, Client, InRun
  <1>3. QED
    BY <1>1, <1>2, InitIni, InitFault, InitNet, InitUser, InitWrite DEF RunInv

LEMMA SpecRun == Spec => []RunInv
  <1>1. RunInv /\ [Next]_vars => RunInv'
    BY NextIni, NextFault, NextIndex, NextReg, NextNames, NextClients, NextNet, NextUser, NextLogon, NextWrite DEF RunInv
  <1>2. QED
    BY InitRun, <1>1, PTL DEF Spec

LEMMA End == Rebooted => InRun /\ pc = 29
  BY Order DEF Rebooted, InRun

\* As long as no call has failed, the client for Microsoft networks is not
\* switched off before the family logon is on, wherever the power goes
\* (545-554).
THEOREM SpecClientLeft == Spec => []ClientLeft
  <1>1. RunInv => ClientLeft
    BY DEF RunInv, NetInv, ClientLeft, VredirOff, FamilyOn
  <1>2. QED
    BY <1>1, SpecRun, PTL

\* A run that came to its end without a failure leaves one computer name, the
\* flags of one network client and the first user, whatever runs came before
\* and wherever they were cut off (317-330, 376-392, 545-574).
THEOREM SpecRunComplete == Spec => []RunComplete
  <1>1. ASSUME RunInv PROVE NamesAgree
    BY <1>1, End DEF RunInv, NamesInv, NamesAgree, SameName
  <1>2. ASSUME RunInv PROVE SwitchedOver
    <2>1. SUFFICES ASSUME Rebooted, clean PROVE LoneOff /\ VredirDone
      BY DEF SwitchedOver, LoneOff, Lone, IsOff, VredirDone, VredirFlag
    <2>2. QED
      BY <1>2, <2>1, End DEF RunInv, ClientsInv, NetInv
  <1>3. ASSUME RunInv PROVE LogonComplete
    BY <1>3, End DEF RunInv, LogonInv, LogonComplete, ListMade
  <1>4. RunInv => RunComplete
    BY <1>1, <1>2, <1>3 DEF RunComplete
  <1>5. QED
    BY <1>4, SpecRun, PTL

LEMMA OwnIsPrefixed ==
  ASSUME user \in Texts, NEW l \in Seq(Chars), IsOwn(l)
  PROVE  IsPrefixOf(user, l)
  <1>1. user \in Seq(Chars) /\ <<Sign>> \in Seq(Chars)
    BY TextChars
  <1>2. PICK p \in Seq(Chars) : p = user \o <<Sign>> /\ Len(p) = Len(user) + 1 /\ \A i \in 1..Len(user) : p[i] = user[i]
    <2>1. Len(<<Sign>>) = 1 /\ Len(user) \in Nat
      BY <1>1
    <2>2. /\ user \o <<Sign>> \in Seq(Chars) /\ Len(user \o <<Sign>>) = Len(user) + 1
          /\ \A i \in 1..Len(user) : (user \o <<Sign>>)[i] = user[i]
      BY <1>1, <2>1, ConcatProperties
    <2>3. QED
      BY <2>2
  <1>3. Len(p) <= Len(l) /\ SubSeq(l, 1, Len(p)) = p
    BY <1>2, Pieces DEF IsPrefixOf
  <1>4. Len(user) \in Nat /\ Len(l) \in Nat /\ Len(user) <= Len(l)
    BY <1>1, <1>2, <1>3
  <1>5. \A i \in 1..Len(user) : l[i] = user[i]
    <2>1. \A i \in 1..Len(p) : SubSeq(l, 1, Len(p))[i] = l[i]
      BY <1>2, <1>3
    <2>2. QED
      BY <1>2, <1>3, <1>4, <2>1
  <1>6. /\ SubSeq(l, 1, Len(user)) \in Seq(Chars) /\ Len(SubSeq(l, 1, Len(user))) = Len(user)
        /\ \A i \in 1..Len(user) : SubSeq(l, 1, Len(user))[i] = l[i]
    BY <1>4
  <1>7. SubSeq(l, 1, Len(user)) = user
    BY <1>1, <1>5, <1>6, SeqEqual
  <1>8. QED
    BY <1>4, <1>7 DEF IsPrefixOf

\* The lines that are added are nobody's password list but this user's.
LEMMA NotOwn ==
  ASSUME user \in Texts
  PROVE  ~IsOwn(Empty) /\ ~IsOwn(Header)
  <1>1. user \in Seq(Chars) /\ Len(user) \in Nat /\ Len(user \o <<Sign>>) = Len(user) + 1
    BY TextChars
  <1>2. ~IsOwn(Empty)
    <2>1. Len(Empty) = 0
      BY DEF Empty
    <2>2. IsOwn(Empty) => Len(user \o <<Sign>>) <= Len(Empty)
      BY Pieces, Zenon DEF IsPrefixOf
    <2>3. QED
      BY <1>1, <2>1, <2>2
  <1>3. ASSUME IsOwn(Header) PROVE FALSE
    <2>1. Len(user) + 1 <= 1 /\ SubSeq(Header, 1, Len(user) + 1) = user \o <<Sign>>
      BY <1>1, <1>3, Pieces DEF IsPrefixOf
    <2>2. Len(user) = 0
      BY <1>1, <2>1
    <2>3. SubSeq(Header, 1, 1) = user \o <<Sign>>
      BY <2>1, <2>2
    <2>4. (user \o <<Sign>>)[1] = Sign
      BY <1>1, <2>2
    <2>5. SubSeq(Header, 1, 1)[1] = Title
      <3>1. PICK t : t = Title
        OBVIOUS
      <3>2. SubSeq(<<t>>, 1, 1)[1] = t
        OBVIOUS
      <3>3. QED
        BY <3>1, <3>2, Pieces
    <2>6. QED
      BY <2>3, <2>4, <2>5, Pieces
  <1>4. QED
    BY <1>2, <1>3

\* A run without a failure that moved SYSTEM.INI leaves every line in it that
\* is not the user's in its place, and the user who was listed has the new
\* password list and no other (454-464).
THEOREM SpecIniRewritten == Spec => []IniRewritten
  <1>1. ASSUME RunInv, Rewritten
        PROVE  /\ user \in Texts /\ first.sini \in Seq(Texts) /\ sini \in Seq(Seq(Chars))
               /\ DOMAIN first.sini \subseteq DOMAIN sini
               /\ CopiedTo(Len(first.sini)) /\ Appended
    <2>1. user \in Texts /\ first.sini \in Seq(Texts) /\ sini \in Seq(Seq(Chars)) /\ Written
      BY <1>1, End DEF RunInv, WriteInv, UserInv, Rewritten
    <2>2. DOMAIN first.sini \subseteq DOMAIN sini
      BY <2>1 DEF Written
    <2>3. QED
      BY <2>1, <2>2 DEF Written
  <1>2. ASSUME RunInv, Rewritten, NEW i \in DOMAIN first.sini
        PROVE  sini[i] = NewLine(i) /\ first.sini[i] \in Seq(Chars)
    BY <1>1, <1>2, TextChars DEF CopiedTo
  <1>3. ASSUME RunInv PROVE OthersKept
    <2>1. SUFFICES ASSUME Rewritten,
                          \A i \in DOMAIN first.sini : IsPrefixOf(user, first.sini[i]) => IsOwn(first.sini[i]),
                          NEW i \in DOMAIN first.sini, ~IsOwn(first.sini[i])
                   PROVE  i \in DOMAIN sini /\ sini[i] = first.sini[i]
      BY DEF OthersKept
    <2>2. QED
      BY <1>1, <1>2, <1>3, <2>1 DEF NewLine
  <1>4. ASSUME RunInv PROVE UserAssigned
    <2>1. SUFFICES ASSUME Rewritten, NEW i \in DOMAIN first.sini, NEW j \in DOMAIN first.sini,
                          i < j, IsPrefixOf(Header, first.sini[i]), IsOwn(first.sini[j])
                   PROVE  /\ \E k \in DOMAIN sini : sini[k] = Entry(user)
                          /\ \A h, k \in DOMAIN sini :
                               h < k /\ IsPrefixOf(Header, sini[h]) /\ IsOwn(sini[k]) => sini[k] = Entry(user)
      BY DEF UserAssigned
    <2>2. user \in Texts
      BY <1>1, <1>4, <2>1
    <2>3. j \in DOMAIN sini /\ sini[j] = Entry(user)
      <3>1. IsPrefixOf(user, first.sini[j])
        BY <1>2, <1>4, <2>1, <2>2, OwnIsPrefixed
      <3>2. QED
        BY <1>1, <1>2, <1>4, <2>1, <3>1 DEF NewLine, Headed
    <2>4. ASSUME NEW h \in DOMAIN sini, NEW k \in DOMAIN sini,
                 h < k, IsPrefixOf(Header, sini[h]), IsOwn(sini[k])
          PROVE  sini[k] = Entry(user)
      <3>1. CASE k \in DOMAIN first.sini
        <4>1. h \in DOMAIN first.sini
          BY <1>1, <1>4, <2>1, <2>4, <3>1
        <4>2. Headed(k)
          <5>1. CASE Headed(h)
            BY <1>1, <1>4, <2>1, <2>4, <3>1, <4>1, <5>1 DEF Headed
          <5>2. CASE ~Headed(h)
            BY <1>2, <1>4, <2>1, <2>4, <4>1, <5>2 DEF NewLine, Headed
          <5>3. QED
            BY <5>1, <5>2
        <4>3. sini[k] = Entry(user) \/ sini[k] = first.sini[k]
          BY <1>2, <1>4, <2>1, <3>1 DEF NewLine
        <4>4. sini[k] = first.sini[k] => IsPrefixOf(user, first.sini[k])
          BY <1>2, <1>4, <2>1, <2>2, <2>4, <3>1, OwnIsPrefixed
        <4>5. QED
          BY <1>2, <1>4, <2>1, <3>1, <4>2, <4>3, <4>4 DEF NewLine
      <3>2. CASE k \notin DOMAIN first.sini
        <4>1. k > Len(first.sini)
          BY <1>1, <1>4, <2>1, <3>2
        <4>2. sini[k] \in {Empty, Header, Entry(user)}
          BY <1>1, <1>4, <2>1, <4>1 DEF Appended
        <4>3. QED
          BY <2>2, <2>4, <4>2, NotOwn
      <3>3. QED
        BY <3>1, <3>2
    <2>5. QED
      BY <2>3, <2>4
  <1>5. RunInv => IniRewritten
    BY <1>3, <1>4 DEF IniRewritten
  <1>6. QED
    BY <1>5, SpecRun, PTL
=============================================================================
