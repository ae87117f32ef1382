--------------------------------- MODULE Mv ---------------------------------
(***************************************************************************)
(* gfmv between the path and a local file: the copy of gfcp, and then the  *)
(* removal of the source.  (gfmv of one remote path to another is a single *)
(* glfs_rename and is not in this module.)                                 *)
(***************************************************************************)
EXTENDS Cp

MvLocalToRemote(c) == LocalToRemote(c, {"mv_in"}, "rm")

MvRemoteToLocal(c) == RemoteToLocal(c, {"mv_out"}, "rm")

(* rm_local: its result replaces that of the transfer, whatever it was. *)
MvRmLocal(c) ==
    /\ Runs(c, {"mv_in"}, "rm")
    /\ \/ /\ proc[c].far.exists
          /\ proc' = [proc EXCEPT ![c].pc = "done", ![c].ret = 0,
                                  ![c].far.exists = FALSE]
       \/ /\ ~proc[c].far.exists \/ "unlink" \in Fault
          /\ FailTo(c, "done")
    /\ UNCHANGED volume

(* rm_remote: glfs_unlink of whatever file the path names by now. *)
MvRmRemote(c) ==
    /\ Runs(c, {"mv_out"}, "rm")
    /\ \/ /\ dir # None
          /\ Unlink
          /\ proc' = [proc EXCEPT ![c].pc = "done", ![c].ret = 0]
       \/ /\ dir = None \/ "unlink" \in Fault
          /\ FailTo(c, "done")
          /\ UNCHANGED dir
    /\ UNCHANGED <<data, lock>>

MvNext(c) ==
    \/ MvLocalToRemote(c) \/ MvRemoteToLocal(c)
    \/ MvRmLocal(c) \/ MvRmRemote(c)
=============================================================================
