--------------------------- MODULE MCPersistence ---------------------------
(* Instances of Persistence: a directory, a file inside it, a path beside.  *)
EXTENDS Persistence

CONSTANTS dir, inner, beside,   \* targets; inner lies in dir
          s1, s2, s3,           \* sources
          o1, o2                \* option lists

NestedBelow == {<<inner, dir>>}

E(s, t, k, m, o) == [source |-> s, target |-> t, kind |-> k, method |-> m,
                     options |-> o, placeholder |-> FALSE]

BindDir      == E(s1, dir, "dir", "bind", o1)
BindDirOther == E(s1, dir, "dir", "bind", o2)
BindDirAway  == E(s2, dir, "dir", "bind", o1)
BindInner    == E(s3, inner, "file", "bind", o1)
BindInnerDir == E(s3, inner, "dir", "bind", o1)
LinkInner    == E(s3, inner, "file", "symlink", o1)
LinkDir      == E(s1, dir, "dir", "symlink", o1)
LinkBeside   == E(s2, beside, "file", "symlink", o1)

\* Nested binds come, go, change options and swap source; a link below a bind.
NestedPlans ==
  {{}, {BindDir}, {BindInnerDir}, {BindDir, BindInnerDir},
   {BindDirOther, BindInnerDir}, {BindDirAway, LinkInner},
   {LinkDir, LinkInner}}

\* Two independent paths; the administrator works on the same ones.
FlatPlans == {{}, {LinkBeside}, {BindDir, LinkBeside}, {BindDirOther}}

\* A parent directory arrives above a file that is persisted already.
ParentArrives == {{}, {BindInner}, {BindDir, BindInner}, {BindDir}}

NoPairs      == {}
RootDir      == {<<<<Root, dir>>, "dir">>, <<<<Root, inner>>, "dir">>}
BesideFile   == {<<<<Root, dir>>, "dir">>, <<<<Root, beside>>, "file">>}
StoredInner  == {<<<<s1, dir>>, "dir">>, <<<<s1, inner>>, "file">>}
=============================================================================
