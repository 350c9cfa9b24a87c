----------------------------- MODULE MCFileTable ----------------------------
(* FileTable on a main file, user headers and system headers, where every   *)
(* file may include itself and the main file.                              *)
EXTENDS FileTable

\* System headers include system headers only.
Separate == {p \in Files \X Files : p[1] \notin UserFiles => p[2] \notin UserFiles}

\* Any file includes any other.
Mixed == Files \X Files

=============================================================================
