------------------------------ MODULE MCWizard ------------------------------
EXTENDS Wizard, TLC

CONSTANTS sda, sdb, one, two

MCDiskList == <<sda, sdb>>
MCIndexes  == {1, 2, 5}
MCSource   == <<sdb, 1>>

Fat(fs, start, size) == [fs |-> fs, start |-> start, size |-> size]

\* Beyond 128 GiB, a primary FAT32 partition and an extended one with a
\* logical FAT16 partition in it; a GPT disk.
MCDos == [table |-> "dos",
          parts |-> [i \in {1, 2, 5} |-> CASE i = 1 -> Fat("fat32", 200, 40)
                                           [] i = 2 -> Fat("extended", 240, 40)
                                           [] i = 5 -> Fat("fat16", 240, 40)]]
MCGpt == [table |-> "gpt", parts |-> [i \in {2} |-> Fat("fat32", 0, 10)]]

MCLayouts == {MCDos, MCGpt}
MCChoices == {Defaults, {"uefi", "extras"}}

\* Where a list is allocated only matters in comparison.
MCArrays   == {one, two}
MCSymmetry == Permutations(MCArrays)
=============================================================================
