---------------------------- MODULE MCHardDisks ----------------------------
(* Disks with names of letters, one of which begins the other's, and one   *)
(* whose name ends in a digit; in any order, with a drive of another kind  *)
(* between them or not, and with the lines of some disks left out.         *)
EXTENDS HardDisks

Shown(type, name, on, partType, fsType) ==
  [on |-> on,
   cols |-> [c \in {Columns[n] : n \in DOMAIN Columns} |->
               CASE c = <<"TYPE">> -> type [] c = <<"KNAME">> -> name
                 [] c = <<"PART", "TYPE">> -> partType [] c = <<"FS", "TYPE">> -> fsType
                 [] OTHER -> IF partType \in Guids THEN "gpt" ELSE "dos"]]

Disk(name)                         == Shown("disk", name, name, "", "")
Part(name, suffix, partType, type) == Shown("part", name \o suffix, name, partType, type)

sda  == <<"sd", "a">>
sdaa == <<"sd", "a", "a">>
nvme == <<"nvme0n", "1">>
md   == <<"md", "1">>

Sda  == << Part(sda, <<"1">>, "0xb", "vfat"), Part(sda, <<"1", "2">>, "0x5", "") >>
Sdaa == << Part(sdaa, <<"1">>, "0x83", "ext4") >>
Nvme == << Part(nvme, <<"p", "1">>, "efi guid", "vfat"), Part(nvme, <<"p", "2">>, "data guid", "vfat") >>
Rom  == << Shown("rom", <<"sr", "0">>, <<"sr", "0">>, "", "") >>
Md   == << Part(md, <<"p", "1">>, "0x7", "ntfs") >>

MCBlocks == { << >>, <<Disk(sda)>> \o Sda, <<Disk(sdaa)>> \o Sdaa, <<Disk(nvme)>> \o Nvme, Rom, Sdaa, Md }

MCOutputs ==
  { t[1] \o t[2] \o t[3] :
      t \in {u \in [1..3 -> MCBlocks] : \A j, k \in 1..3 : j < k => u[j] # u[k] \/ u[j] = << >>} }
=============================================================================
