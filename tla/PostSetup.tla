----------------------------- MODULE PostSetup -----------------------------
(***************************************************************************)
(* sysprep/postsetup/main.c, the program QISETUP.EXE that runs once at the *)
(* end of the first start of an installed Windows: it renames the computer, *)
(* sets up an automatic logon, cleans the registry on a 98Lite system and  *)
(* restarts the machine.                                                   *)
(*                                                                         *)
(* The program is a straight line of calls, each of which may fail; only a *)
(* few failures are looked at.  Program is that line and pc the call that  *)
(* is next.  The power may go between any two calls, and the user may run  *)
(* the program again: it stays on the disk as C:\QISETUP.EXE.              *)
(*                                                                         *)
(* A text (a name, a registry value, a line of SYSTEM.INI) is a sequence   *)
(* of pieces, so that one can be the beginning of another.                 *)
(* Operators under a FAULT comment are plausible slips in the definition   *)
(* that follows them; only the mutation runs use them.                     *)
(***************************************************************************)
EXTENDS Naturals, Sequences

CONSTANTS
  Names,     \* bound: the names the computer may get
  Accounts,  \* bound: the values of "Current User" and "username"
  Inis,      \* bound: contents of SYSTEM.INI, as sequences of lines
  Systems,   \* bound: whether it is a 98Lite, the registry keys, the network
             \* clients and the computer's name
  NameMax,   \* longest user name that is accepted
  PwlMax,    \* length of a file's name without its extension
  MaxRuns,   \* bound: how often the program is started
  MaxFaults  \* bound: calls that fail

Empty   == << >>            \* the empty text, also a blank line
Missing == <<"missing">>    \* no such value, key or file
Header  == <<"[Password Lists]">>
Zero    == <<"0">>

Texts       == Seq(STRING)
ConfigFlags == {"unset", "enabled", "disabled"}

ASSUME BoundsAssumption ==
  /\ {NameMax, PwlMax, MaxRuns, MaxFaults} \subseteq Nat
  /\ Missing \notin Inis \union Names
ASSUME TextsAssumption ==
  /\ Inis \subseteq Seq(Texts)
  /\ Accounts \subseteq [currentUser : Texts, username : Texts]

\* Every Windows has the key of the current user; the network clients may
\* have any flags, but the client for Microsoft networks is not disabled.
ASSUME SystemsAssumption ==
  \A s \in Systems :
    /\ "Control" \in s.keys
    /\ s.clients \in Seq([driver : STRING, default : {"none", "key", "value"}])
    /\ s.net \in [family : Seq(ConfigFlags) \union {Missing},
                  vredir : Seq(ConfigFlags \ {"disabled"}) \union {Missing}]

(***************************************************************************)
(* The calls of WinMain in their order.  A call that sets a value carries  *)
(* its name and the text.                                                  *)
(***************************************************************************)
Do(op)            == [op |-> op, name |-> "", to |-> Empty]
Set(name, to)     == [op |-> "set", name |-> name, to |-> to]
Delete(name)      == [op |-> "delete", name |-> name, to |-> Empty]
Create(key)       == [op |-> "create", name |-> key, to |-> Empty]
SetToUser(name)   == [op |-> "setUser", name |-> name, to |-> Empty]

setComputerName == << Do("readName"), Do("setName1"), Do("setName2") >>

\* FAULT: the client is switched off before the other one is on.
NetworkOffFirst == << Do("clients"), Do("exists"), Do("vredir"), Do("family") >>
Network == << Do("clients"), Do("exists"), Do("family"), Do("vredir") >>

Logon ==
  << Set("PrimaryProvider", <<"Windows Logon">>), Create("Provider"), Set("Platform_Type", Zero),
     Do("current"), Do("username"), SetToUser("currentUser"),
     Create("Winlogon"), Set("AutoAdminLogon", <<"1">>), SetToUser("DefaultUserName"),
     Set("DefaultPassword", Empty) >>

setDefaultUser == << Do("pwl"), Do("move"), Do("open"), Do("copy") >>

cleanupRegistry ==
  << Do("is98Lite"), Delete("LoadPowerProfile"), Delete("TaskMonitor"), Delete("LoadPowerService"),
     Set("APMMenuSuspend", Zero) >>

Program ==
  setComputerName \o <<Set("preferredredir", Empty)>> \o Network \o Logon \o setDefaultUser
    \o cleanupRegistry \o <<Do("doReboot")>>

\* The registry values the program knows and the keys they are under.
KeyOf == [ComputerName     |-> "ComputerName", VnetsupName     |-> "VNETSUP",
          preferredredir   |-> "RealModeNet",  PrimaryProvider |-> "Logon",
          username         |-> "Logon",        Platform_Type   |-> "Provider",
          currentUser      |-> "Control",      AutoAdminLogon  |-> "Winlogon",
          DefaultUserName  |-> "Winlogon",     DefaultPassword |-> "Winlogon",
          LoadPowerProfile |-> "Run",          TaskMonitor     |-> "Run",
          LoadPowerService |-> "RunServices",  APMMenuSuspend  |-> "PNP0C05"]

VARIABLES
  keys,     \* the registry keys that exist
  reg,      \* the values, Missing where there is none
  clients,  \* the subkeys of NetClient: driver and what Ndi\Default holds
  net,      \* the ConfigFlags of the subkeys of FAMILY and of VREDIR
  lite,     \* the system is a 98Lite
  sini,     \* SYSTEM.INI
  sbak,     \* SYSTEM.BAK
  pwl,      \* the password lists (.PWL) that are blank
  on,       \* the program is running
  pc,       \* its next call
  index,    \* subkeys handled, or lines of SYSTEM.BAK read
  sub,      \* the value of a Default key is deleted and the key is next
  found,    \* regKeyExists of FAMILY; the header of the password lists
  newName,  \* the computer name that was drawn
  user,     \* currentUser
  run,      \* number of the run
  faults,   \* calls that failed, in all runs
  clean,    \* none of them in this run
  moved,    \* this run moved SYSTEM.INI
  first     \* what the disk held before the first run

registry == << keys, reg, clients, net >>
files    == << sini, sbak, pwl >>
locals   == << index, sub, found, newName, user, moved >>
fixed    == << lite, run, first >>
vars == << registry, files, locals, fixed, on, pc, faults, clean >>

Init ==
  /\ \E a \in Accounts, s \in Systems :
       /\ keys = s.keys /\ clients = s.clients /\ net = s.net /\ lite = s.lite
       /\ reg = [v \in DOMAIN KeyOf |-> CASE v \in DOMAIN a -> a[v]
                                          [] v \in {"ComputerName", "VnetsupName"} -> s.computer
                                          [] OTHER -> <<"default">>]
  /\ sini \in Inis /\ sbak = Missing /\ pwl = {}
  /\ on = FALSE /\ pc = 1 /\ run = 0 /\ faults = 0 /\ clean = TRUE
  /\ index = 0 /\ sub = FALSE /\ found = FALSE /\ newName = Empty /\ user = Empty /\ moved = FALSE
  /\ first = [sini |-> sini, reg |-> reg]

This     == Program[pc]
At(op)   == on /\ This.op = op
Line(op) == CHOOSE i \in DOMAIN Program : Program[i].op = op

Works == UNCHANGED << faults, clean >>
Fails == faults < MaxFaults /\ faults' = faults + 1 /\ clean' = FALSE

\* A call does not succeed without what it needs, and may fail with it.
NotDone(needs) == (~needs /\ Works) \/ Fails

Next1 == pc' = pc + 1

Readable(v) == KeyOf[v] \in keys /\ reg[v] # Missing

\* setRegString and delRegValue (255-298), and the value of the call at pc.
Writes(v, text) ==
  \/ KeyOf[v] \in keys /\ Works /\ reg' = [reg EXCEPT ![v] = text]
  \/ NotDone(KeyOf[v] \in keys) /\ UNCHANGED reg

(***************************************************************************)
(* setComputerName: the three calls; it returns at the first that fails.   *)
(***************************************************************************)
ReadName ==
  /\ At("readName")
  /\ \/ Readable("ComputerName") /\ Works /\ Next1
     \/ NotDone(Readable("ComputerName")) /\ pc' = pc + 3
  /\ UNCHANGED << registry, files, locals, fixed, on >>

\* FAULT: a number is drawn for each of the two places.
DrawnTwice == Names
Drawn == IF At("setName1") THEN Names ELSE {newName}

SetName ==
  /\ At("setName1") \/ At("setName2")
  /\ newName' \in Drawn
  /\ Writes(IF At("setName1") THEN "ComputerName" ELSE "VnetsupName", newName')
  /\ pc' = IF faults' > faults THEN Len(setComputerName) + 1 ELSE pc + 1
  /\ UNCHANGED << keys, clients, net, files, index, sub, found, user, moved, fixed, on >>

(***************************************************************************)
(* The calls whose result is only logged.                                  *)
(***************************************************************************)
SetValue ==
  /\ At("set") \/ At("setUser") \/ At("delete")
  /\ Writes(This.name, CASE This.op = "set" -> This.to [] This.op = "setUser" -> user [] OTHER -> Missing)
  /\ Next1
  /\ UNCHANGED << keys, clients, net, files, locals, fixed, on >>

createRegKey ==
  /\ At("create")
  /\ (Works /\ keys' = keys \union {This.name}) \/ (Fails /\ UNCHANGED keys)
  /\ Next1
  /\ UNCHANGED << reg, clients, net, files, locals, fixed, on >>

(***************************************************************************)
(* regDoForEachSubkey.  RegCloseKey is also called with a handle that was  *)
(* never set where a key cannot be opened or deleted (168-231); it may be  *)
(* the handle of the enumeration, which then ends.                         *)
(***************************************************************************)
Leave == Next1 /\ index' = 0 /\ sub' = FALSE
Continue == UNCHANGED pc /\ index' = index + 1 /\ sub' = FALSE
Subkeys  == IF At("clients") THEN clients ELSE IF net[This.op] = Missing THEN Empty ELSE net[This.op]

EnumerateEnd ==
  /\ At("clients") \/ At("family") \/ At("vredir")
  /\ \/ index = Len(Subkeys) /\ Works /\ Leave
     \/ Fails /\ Leave
     \/ At("family") /\ ~found /\ Works /\ Leave
  /\ UNCHANGED << registry, files, found, newName, user, moved, fixed, on >>

\* ifVredirUnsetDefault: another client, or VREDIR's default value and then
\* the key it was in.  The first client that is handled is the last.
IsVredir == clients[index + 1].driver = "VREDIR.VXD"
HasDefault == clients[index + 1].default # "none"

OtherClient ==
  /\ At("clients") /\ index < Len(clients) /\ ~sub
  /\ \/ ~IsVredir /\ Works /\ Continue
     \/ IsVredir /\ ~HasDefault /\ Works /\ (Continue \/ Leave)
     \/ Fails /\ (Continue \/ Leave)
  /\ UNCHANGED << registry, files, found, newName, user, moved, fixed, on >>

DeleteValue ==
  /\ At("clients") /\ index < Len(clients) /\ ~sub
  /\ IsVredir /\ HasDefault /\ clients' = [clients EXCEPT ![index + 1].default = "key"]
  /\ Works /\ sub' = TRUE
  /\ UNCHANGED << keys, reg, net, files, index, found, newName, user, moved, fixed, on, pc >>

DeleteKey ==
  /\ At("clients") /\ sub
  /\ \/ Works /\ Leave /\ clients' = [clients EXCEPT ![index + 1].default = "none"]
     \/ Fails /\ (Continue \/ Leave) /\ UNCHANGED clients
  /\ UNCHANGED << keys, reg, net, files, found, newName, user, moved, fixed, on >>

\* regKeyExists of FAMILY (545).
FamilyExists ==
  /\ At("exists")
  /\ (Works /\ found' = (net["family"] # Missing)) \/ (Fails /\ found' = FALSE)
  /\ Next1
  /\ UNCHANGED << registry, files, index, sub, newName, user, moved, fixed, on >>

setNetworkConfigFlags ==
  /\ (At("family") /\ found) \/ At("vredir")
  /\ index < Len(Subkeys)
  /\ \/ /\ Works /\ Continue
        /\ net' = [net EXCEPT ![This.op][index + 1] =
                     IF At("family") \/ ~found THEN "enabled" ELSE "disabled"]
     \/ Fails /\ (Continue \/ Leave) /\ UNCHANGED net
  /\ UNCHANGED << keys, reg, clients, files, found, newName, user, moved, fixed, on >>

(***************************************************************************)
(* The current user, or else the one of the network logon (564-567).       *)
(***************************************************************************)
ReadUser ==
  /\ At("current") \/ At("username")
  /\ LET v == IF At("current") THEN "currentUser" ELSE "username"
     IN  \/ /\ Readable(v) /\ Works /\ user' = reg[v]
            /\ pc' = IF At("current") THEN pc + 3 ELSE pc + 1
         \/ NotDone(Readable(v)) /\ UNCHANGED user /\ Next1
  /\ UNCHANGED << registry, files, index, sub, found, newName, moved, fixed, on >>

(***************************************************************************)
(* setDefaultUser and assignPwlFileInSystemIni.                            *)
(***************************************************************************)
PwlName(name) == IF Len(name) > PwlMax THEN SubSeq(name, 1, PwlMax) ELSE name
Entry(name)   == name \o <<"=">> \o PwlName(name) \o <<".PWL">>
IsPrefixOf(s, t) == Len(s) <= Len(t) /\ SubSeq(t, 1, Len(s)) = s

\* A pointer that fopen left NULL is used: the program crashes, or the C
\* library refuses the pointer and the program goes on.
Crash == on' = FALSE /\ UNCHANGED pc

CreatePwl ==
  /\ At("pwl")
  /\ \/ Len(user) <= NameMax /\ Works /\ pwl' = pwl \union {PwlName(user)} /\ Next1 /\ UNCHANGED on
     \/ Len(user) > NameMax /\ Works /\ UNCHANGED << pwl, on >> /\ pc' = Line("is98Lite")
     \/ Fails /\ pwl' = pwl \ {PwlName(user)} /\ (Next1 \/ pc' = Line("is98Lite")) /\ UNCHANGED on
     \/ Fails /\ UNCHANGED pwl /\ Crash
  /\ UNCHANGED << registry, sini, sbak, locals, fixed >>

\* MoveFileA does not replace a file.
\* FAULT: an older backup is replaced.
CanReplace == sini # Missing
CanMove == sini # Missing /\ sbak = Missing

MoveIni ==
  /\ At("move")
  /\ \/ CanMove /\ Works /\ sbak' = sini /\ sini' = Missing /\ moved' = TRUE /\ Next1
     \/ NotDone(CanMove) /\ UNCHANGED << sini, sbak, moved >> /\ pc' = Line("is98Lite")
  /\ UNCHANGED << registry, pwl, index, sub, found, newName, user, fixed, on >>

OpenIni ==
  /\ At("open")
  /\ \/ Works /\ sini' = Empty /\ Next1 /\ UNCHANGED on
     \/ Fails /\ sini' \in {Missing, Empty} /\ (Crash \/ (pc' = Line("is98Lite") /\ UNCHANGED on))
  /\ found' = FALSE
  /\ UNCHANGED << registry, sbak, pwl, index, sub, newName, user, moved, fixed >>

\* What is written for a line of SYSTEM.BAK: after the header, a line that
\* begins with the user's name is replaced.
\* FAULT: only an entry that is the same already is recognized.
CopiedExact(line) == << IF found /\ line = Entry(user) THEN Entry(user) ELSE line >>
Copied(line) == << IF found /\ IsPrefixOf(user, line) THEN Entry(user) ELSE line >>

CopyLine ==
  /\ At("copy") /\ index < Len(sbak)
  /\ \/ Works /\ sini' = sini \o Copied(sbak[index + 1])
     \/ Fails /\ UNCHANGED sini
  /\ found' = (found \/ IsPrefixOf(Header, sbak[index + 1]))
  /\ index' = index + 1
  /\ UNCHANGED << registry, sbak, pwl, sub, newName, user, moved, fixed, on, pc >>

\* inPasswordListsSection has no value yet if there was no header (427): the
\* section is added, or taken for read.
CopyEnd ==
  /\ At("copy") /\ index = Len(sbak)
  /\ \E section \in {TRUE, found} :
       \/ Works /\ sini' = sini \o (IF section THEN <<Empty>> ELSE <<Empty, Header, Entry(user), Empty>>)
       \/ Fails /\ UNCHANGED sini
  /\ index' = 0 /\ found' = FALSE /\ Next1
  /\ UNCHANGED << registry, sbak, pwl, sub, newName, user, moved, fixed, on >>

(***************************************************************************)
(* The rest of WinMain, and what surrounds the program.                    *)
(***************************************************************************)
is98Lite ==
  /\ At("is98Lite") /\ Works
  /\ pc' = IF lite THEN pc + 1 ELSE Line("doReboot")
  /\ UNCHANGED << registry, files, locals, fixed, on >>

doReboot ==
  /\ At("doReboot") /\ (Works \/ Fails)
  /\ on' = FALSE /\ Next1
  /\ UNCHANGED << registry, files, locals, fixed >>

\* What was written to SYSTEM.INI may not have left the buffer.
PowerLoss ==
  /\ on /\ on' = FALSE
  /\ IF At("copy") THEN \E n \in 0..Len(sini) : sini' = SubSeq(sini, 1, n) ELSE UNCHANGED sini
  /\ index' = 0 /\ sub' = FALSE /\ found' = FALSE /\ newName' = Empty /\ user' = Empty
  /\ UNCHANGED << registry, sbak, pwl, fixed, moved, pc, faults, clean >>

Rebooted == ~on /\ pc = Len(Program) + 1
Cut      == ~on /\ ~Rebooted /\ This.op \in {"open", "copy"}

\* Windows does not start without its SYSTEM.INI; the user copies or renames
\* the backup.
Repair ==
  /\ Cut \/ (~on /\ sini = Missing)
  /\ sini' = sbak /\ sbak' \in {sbak, Missing}
  /\ pc' = 1
  /\ UNCHANGED << registry, pwl, locals, fixed, on, faults, clean >>

Start ==
  /\ ~on /\ run < MaxRuns /\ ~Cut /\ sini # Missing
  /\ on' = TRUE /\ pc' = 1 /\ run' = run + 1 /\ clean' = TRUE
  /\ index' = 0 /\ sub' = FALSE /\ found' = FALSE /\ newName' = Empty /\ user' = Empty /\ moved' = FALSE
  /\ UNCHANGED << registry, files, lite, faults, first >>

\* Nobody runs it any more.
Stop == ~on /\ run = MaxRuns /\ UNCHANGED vars

Next ==
  \/ ReadName \/ SetName \/ SetValue \/ createRegKey
  \/ EnumerateEnd \/ OtherClient \/ DeleteValue \/ DeleteKey \/ FamilyExists \/ setNetworkConfigFlags
  \/ ReadUser \/ CreatePwl \/ MoveIni \/ OpenIni \/ CopyLine \/ CopyEnd
  \/ is98Lite \/ doReboot \/ PowerLoss \/ Repair \/ Start \/ Stop

Spec == Init /\ [][Next]_vars

-----------------------------------------------------------------------------
(***************************************************************************)
(* What it promises.                                                       *)
(***************************************************************************)
\* Whatever fails, whenever the power goes and however often the program is
\* run, SYSTEM.INI or SYSTEM.BAK is the SYSTEM.INI of the installation
\* (MoveFileA, 434).
IniNotLost == first.sini \in {sini, sbak}

Rewritten == Rebooted /\ clean /\ moved
IsOwn(l)  == IsPrefixOf(user \o <<"=">>, l)

\* When the user's name is not the beginning of another line, the lines of
\* SYSTEM.INI that are not this user's password list are still there, each in
\* its place ("Some other bloke, we don't care", 461).
OthersKept ==
  Rewritten /\ (\A i \in DOMAIN first.sini : IsPrefixOf(user, first.sini[i]) => IsOwn(first.sini[i])) =>
    \A i \in DOMAIN first.sini :
      ~IsOwn(first.sini[i]) => i \in DOMAIN sini /\ sini[i] = first.sini[i]

\* A user who was listed has the new password list and no other one, in
\* whatever line of the section the entry was (454-464).
UserAssigned ==
  Rewritten => \A i, j \in DOMAIN first.sini :
    i < j /\ IsPrefixOf(Header, first.sini[i]) /\ IsOwn(first.sini[j]) =>
      /\ \E k \in DOMAIN sini : sini[k] = Entry(user)
      /\ \A h, k \in DOMAIN sini : h < k /\ IsPrefixOf(Header, sini[h]) /\ IsOwn(sini[k]) => sini[k] = Entry(user)

\* Between them, what a run makes of SYSTEM.INI.
IniRewritten == OthersKept /\ UserAssigned

\* A run without a failure leaves one computer name in both places, even if
\* an earlier run failed or lost its power between the two (317-330).
NamesAgree ==
  Rebooted /\ clean /\ "VNETSUP" \in keys /\ Readable("ComputerName") => reg.VnetsupName = reg.ComputerName

\* As long as no call has failed, the client for Microsoft networks is
\* not switched off before the family logon is on: whenever the power goes,
\* one of the two can log on (545-554).
ClientLeft ==
  faults = 0 /\ net["family"] # Empty /\ (\E i \in DOMAIN net["vredir"] : net["vredir"][i] = "disabled") =>
    \A i \in DOMAIN net["family"] : net["family"][i] = "enabled"

\* A run without a failure leaves the logon with the right client: a lone
\* VREDIR is no default any more, and the flags are those of the client that
\* is to be used, even if an earlier run was cut off (376-392, 545-554).
SwitchedOver ==
  Rebooted /\ clean =>
    /\ \A i \in DOMAIN clients :
         clients[i].driver = "VREDIR.VXD" /\ (\A j \in DOMAIN clients \ {i} : clients[j].driver # "VREDIR.VXD") =>
           clients[i].default = "none"
    /\ net["vredir"] # Missing =>
         \A i \in DOMAIN net["vredir"] :
           net["vredir"][i] = IF net["family"] = Missing THEN "enabled" ELSE "disabled"

\* The current user of the installation, or else the one of the network
\* logon, or nobody.
FirstUser ==
  IF first.reg.currentUser # Missing THEN first.reg.currentUser
  ELSE IF "Logon" \in keys /\ first.reg.username # Missing THEN first.reg.username
  ELSE Empty

\* Without a failure the user who is logged on automatically is the one the
\* installation knew; every run chooses the same, and the password list of the user is blank (564-574).
LogonComplete ==
  Rebooted /\ faults = 0 =>
    /\ reg.DefaultUserName = FirstUser /\ reg.currentUser = FirstUser
    /\ Len(FirstUser) <= NameMax => PwlName(FirstUser) \in pwl

\* What runs leave that came to their end, after whatever came before: one
\* computer name, one network client and one user.
RunComplete == NamesAgree /\ SwitchedOver /\ LogonComplete
=============================================================================
