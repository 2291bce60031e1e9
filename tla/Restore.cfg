\* Two restore commands of every kind and a backup; two services on two storages.
SPECIFICATION Spec
CONSTANTS
    Commands = {c1, c2}
    Backups = {b1}
    NServices = 2
    NFiles = 1
    Kits = {k1, k2}
    OldKits = {k2}
    Stored <- MCStored
INVARIANT RecoverNewest
PROPERTY Excludes
PROPERTY OutKept
SYMMETRY Symmetry
