---------------------------- MODULE MCMountFlags ----------------------------
\* Filesystems with every combination of the options of two plain flags, nodiratime
\* and the three modes, entries with up to three of fourteen words.
EXTENDS MountFlags

MCFsWords == {plain \cup d \cup m : plain \in SUBSET {"ro", "nodev"},
                d \in {{}, {"nodiratime"}}, m \in {{}, {"noatime"}, {"strictatime"}}}
MCRootFlags == {{"relatime"}, {"nosuid", "noatime"}}
MCStoreOpts == {{"ro", "nosuid", "nodev"}, {"ro"}, {"ro", "noatime"}, {},
                {"ro", "relatime"}, {"rdonly", "nodev", "nosymfollow"}}
MCEntryWords == {"defaults", "ro", "rw", "nosuid", "suid", "nodiratime", "diratime", "noatime",
  "relatime", "strictatime", "atime", "norelatime", "nostrictatime", "symfollow"}
=============================================================================
