---------------------------- MODULE MCPathLookup ----------------------------
(* Names of at most two letters and extensions of one.  Every sequence of  *)
(* four characters is tried behind a drive, with longer parts around the   *)
(* limit and with prefixes that name no drive.                             *)
EXTENDS PathLookup, FiniteSets

Letter == {65, 97}
Rests == UNION {[1 .. n -> Letter \cup {98, DOT, SLASH}] : n \in 0 .. 4}
Long == {[k \in 1 .. n |-> 97] : n \in 5 .. MAX_PATH_LENGTH}
Zero == <<48, COLON, SLASH>>
MCFilenames ==
  {Zero \o r : r \in Rests \cup Long}
    \cup {<<49, COLON, SLASH, 97>>, <<97, COLON, SLASH, 97>>, <<48, SLASH, COLON>>,
          <<48, COLON, 97>>, <<48, COLON>>, << >>}

Item(name, ext, attribute) == [filename |-> name, ext |-> <<ext>>, attribute |-> attribute]

(* A plain directory with a piece of a long name; one whose names and      *)
(* extensions are of full length; and one with a deleted entry, which      *)
(* hides the last.                                                         *)
MCDirectories ==
  {<<Item(<<65, BLANK>>, BLANK, 0), Item(<<65, 66>>, BLANK, 32), Item(<<66, BLANK>>, 65, 32),
     Item(<<66, 0>>, 0, 15)>>,
   <<Item(<<65, 65>>, 66, 32), Item(<<65, BLANK>>, 66, 1), Item(<<66, BLANK>>, 66, 0),
     Item(<<66, BLANK>>, BLANK, 16)>>,
   <<Item(<<65, 65>>, BLANK, 32), Item(<<DELETED, BLANK>>, BLANK, 32), Item(<<66, BLANK>>, BLANK, 32)>>}
=============================================================================
