--------------------------------- MODULE Rm ---------------------------------
(***************************************************************************)
(* gfrm, and the rm command of the shell, on a file: no lock is taken.     *)
(***************************************************************************)
EXTENDS GlfsUtil

(* With -f a missing file is a success. *)
RmUnlink(c) ==
    /\ proc[c].op = "rm" /\ proc[c].pc = "rm"
    /\ \/ /\ dir # None
          /\ Unlink
          /\ proc' = [proc EXCEPT ![c].pc = "done", ![c].ret = 0]
       \/ /\ dir = None                                         \* rm -f
          /\ proc' = [proc EXCEPT ![c].pc = "done", ![c].ret = 0]
          /\ UNCHANGED dir
       \/ /\ dir = None \/ "unlink" \in Fault
          /\ FailTo(c, "done")
          /\ UNCHANGED dir
    /\ UNCHANGED <<data, lock>>
=============================================================================
