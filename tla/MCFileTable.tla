---------------------------- MODULE MCFileTable -----------------------------
(* A file, a subdirectory, and a deleted entry that puts the last file out *)
(* of the search's reach; a path that begins with it is tried only while   *)
(* there is room for all its parts.                                        *)
EXTENDS FileTable

Item(name, size, deleted, sub) ==
  [name |-> name, filesize |-> size, deleted |-> deleted, subdirectory |-> sub]
MCRoot == << Item("a", 2, FALSE, FALSE), Item("sub", 0, FALSE, TRUE),
             Item("old", 1, TRUE, FALSE), Item("b", 1, FALSE, FALSE) >>
Path(drive, parts) == [drive |-> drive, parts |-> parts]
MCPaths == {Path(0, <<"a">>), Path(0, <<"sub">>), Path(0, << >>), Path(1, <<"a">>),
            Path(0, <<"sub", "a">>), Path(0, <<"b", "x", "x", "x", "x">>)}
MCOffsets == {1, -1}
=============================================================================
