---------------------------- MODULE MCStage1Boot ----------------------------
\* Five filesystems, one in another, one with the init and one below /run; four
\* special mounts; up to three processes and one failing call. Where a boot that
\* fails ends up varies over three of the configurations only.
\* Either the filesystem of init is the only one with something at its path, or the root
\* and what covers it have something there as well.
EXTENDS Stage1Boot

Fs(name, at, check) == [name |-> name, at |-> at, check |-> check]
MCFilesystems == <<Fs("nix", <<"nix">>, TRUE), Fs("home", <<"home">>, TRUE),
                   Fs("alice", <<"home", "alice">>, FALSE), Fs("keys", <<"run", "keys">>, FALSE)>>
MCSpecials == <<Fs("run", <<"run">>, FALSE), Fs("pts", <<"dev", "pts">>, FALSE),
                Fs("wrappers", <<"run", "wrappers">>, FALSE), Fs("tmp", <<"tmp">>, FALSE)>>

Plain == [shell |-> FALSE, panic |-> FALSE, debug1devices |-> FALSE, debug1mounts |-> FALSE,
          check |-> TRUE, hibernated |-> FALSE, persistence |-> FALSE, initOnNix |-> TRUE,
          inits |-> {"nix"}]
MCConfigs ==
  {[Plain EXCEPT !.persistence = p, !.initOnNix = n, !.check = c,
                 !.inits = {IF n THEN "nix" ELSE "root"} \cup others] :
     p, n, c \in BOOLEAN, others \in {{}, {"root", "persistence"}}}
    \cup {[Plain EXCEPT !.shell = s, !.panic = ~s, !.hibernated = h] : s, h \in BOOLEAN}
    \cup {[Plain EXCEPT !.shell = TRUE, !.debug1devices = d, !.debug1mounts = ~d] : d \in BOOLEAN}
=============================================================================
