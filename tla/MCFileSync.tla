----------------------------- MODULE MCFileSync -----------------------------
(* Two calls of any two services, two files, and channels of one.          *)
EXTENDS FileSync

File(content, mtime) == [type |-> "file", content |-> content, mtime |-> mtime]

(* The source holds a file of one block, of which the destination has an   *)
(* older and longer version; or a file that is up to date and a link.  What*)
(* only the destination has, a second call puts there.                     *)
MCTrees ==
    LET Tree(src1, src2, dst1, cwd1) ==
            [p \in Dirs \X Names |->
               CASE p = <<"src", 1>> -> src1
                 [] p = <<"src", 2>> -> src2
                 [] p = <<"dst", 1>> -> dst1
                 [] p = <<"cwd", 1>> -> cwd1
                 [] OTHER -> Absent]
    IN  {Tree(File(<<"s">>, "now"), Absent, File(<<"d", "d">>, "then"),
              File(<<"d">>, "then")),
         Tree(File(<<"s">>, "then"), Link, File(<<"s">>, "then"), Absent)}

Request(delete, checksum, compress, useDelta, single, valid) ==
    [delete |-> delete, checksum |-> checksum, compress |-> compress,
     useDelta |-> useDelta, single |-> single, valid |-> valid]

MCRequests ==
    LET whole == Request(TRUE, TRUE, FALSE, TRUE, FALSE, TRUE)
        compressed == Request(FALSE, FALSE, TRUE, FALSE, FALSE, TRUE)
        single == Request(TRUE, FALSE, FALSE, FALSE, TRUE, TRUE)
        refused == Request(FALSE, FALSE, FALSE, FALSE, FALSE, FALSE)
    IN  <<[files |-> {whole}, directory |-> {whole, compressed}],
          [files |-> {single, refused}, directory |-> {}]>>

MCServices == <<{"files", "directory"}, {"files", "upload", "list", "remove"}>>
=============================================================================
