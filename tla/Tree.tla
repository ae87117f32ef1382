-------------------------------- MODULE Tree --------------------------------
(***************************************************************************)
(* A volume's tree of directories and files, and what libgfapi's calls on  *)
(* it do.  A path is the sequence of its components; << >> is the root.    *)
(***************************************************************************)
EXTENDS Integers, Sequences

CONSTANTS
    Name,       \* the components of paths
    Path,       \* the paths that are used, each with its ancestors
    None        \* nothing there

Prefix(p, k) == SubSeq(p, 1, k)
Parent(p) == Prefix(p, Len(p) - 1)

ASSUME TreeAssumption ==
    /\ Path \subseteq Seq(Name) \ {<< >>}
    /\ \A p \in Path : \A k \in 1..Len(p) : Prefix(p, k) \in Path
    /\ None \notin {"dir", "file"}

IsDir(t, p) == p # << >> => t[p] = "dir"

Trees ==
    {t \in [Path -> {"dir", "file", None}] :
        \A p \in Path : t[p] # None => IsDir(t, Parent(p))}

IsEmpty(t, p) == \A q \in Path : Parent(q) = p => t[q] = None

(* The first k components of p are directories; one of them is a file. *)
Stands(t, p, k) == \A j \in 1..k : t[Prefix(p, j)] = "dir"
FileInTheWay(t, p, k) == \E j \in 1..k : t[Prefix(p, j)] = "file"

(* When glfs_mkdir, glfs_rmdir and glfs_unlink succeed, and when a path    *)
(* can be opened with glfs_creat.                                          *)
CanMakeDir(t, p) == t[p] = None /\ IsDir(t, Parent(p))
CanRemoveDir(t, p) == t[p] = "dir" /\ IsEmpty(t, p)
CanUnlink(t, p) == t[p] = "file"
CanCreate(t, p) == t[p] # "dir" /\ IsDir(t, Parent(p))
=============================================================================
