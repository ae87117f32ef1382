--------------------------- MODULE MCDirectories ----------------------------
EXTENDS Directories

MCPath == {<<"a">>, <<"a", "b">>, <<"a", "b", "c">>}

(* Nothing; one directory; all of them; a file where a directory is needed. *)
MCStartTree ==
    {t \in Trees : t[<<"a", "b">>] = None \/ t[<<"a", "b", "c">>] = "dir"}

Line(op, path, form, r, force) ==
    [op |-> op, path |-> path, form |-> form, r |-> r, force |-> force]

(* Makers of the whole path, of a part of it and of one directory; removers *)
(* of what they make; files that get in their way.                          *)
MCCommand ==
    {Line("mkdir", <<"a", "b", "c">>, "url", TRUE, FALSE)}
    \cup {Line("mkdir", <<"a">>, "shell", TRUE, FALSE)}
    \cup {Line("mkdir", <<"a", "b">>, "url", FALSE, FALSE)}
    \cup {Line("rmdir", <<"a", "b">>, "url", FALSE, FALSE)}
    \cup {Line("rm", <<"a">>, "url", TRUE, FALSE), Line("rm", <<"a", "b">>, "url", FALSE, TRUE)}
    \cup {Line("put", <<"a", "b", "c">>, "url", TRUE, FALSE)}
    \cup {Line("put", <<"a", "b">>, "url", FALSE, TRUE)}
=============================================================================
