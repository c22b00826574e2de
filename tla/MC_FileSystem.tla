---------------------------- MODULE MC_FileSystem ----------------------------
(* FileSystem on a disk of 16 blocks and 8 inodes, with files of one and   *)
(* of three blocks, where one is direct and the second is the indirect one.*)
EXTENDS FileSystem

(* Two names, one of which begins with the other.                          *)
MCPrefixes == {<<"a", "a">>, <<"ab", "ab">>, <<"a", "ab">>}
=============================================================================
