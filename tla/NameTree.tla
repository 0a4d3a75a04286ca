------------------------------ MODULE NameTree -------------------------------
(***************************************************************************)
(* What the directory calls of DOS promise: a tree of directories in which *)
(* a name is given once, and calls that happen as a whole or not at all.   *)
(* A directory is told apart from others by its id, which a removed one    *)
(* leaves to others.                                                       *)
(***************************************************************************)
EXTENDS Naturals

CONSTANTS
    Names,
    Ids,       \* of directories other than the root
    Root       \* the root's id; as an entry's id it says "a file"

VARIABLE entries

Item(d, n, i) == [dir |-> d, name |-> n, id |-> i]

Directories == {Root} \cup {e.id : e \in entries}
Taken(d) == {e.name : e \in {x \in entries : x.dir = d}}

Init == entries = {}

AddFile(d, n) ==
    /\ n \notin Taken(d)
    /\ entries' = entries \cup {Item(d, n, Root)}

AddDir(d, n, new) ==
    /\ n \notin Taken(d) /\ new \notin Directories
    /\ entries' = entries \cup {Item(d, n, new)}

RemoveFile(e) ==
    /\ e.id = Root
    /\ entries' = entries \ {e}

RemoveDir(e) ==
    /\ e.id # Root /\ Taken(e.id) = {}
    /\ entries' = entries \ {e}

Rename(e, n) ==
    /\ e.id = Root /\ n \notin Taken(e.dir)
    /\ entries' = (entries \ {e}) \cup {Item(e.dir, n, Root)}

Next ==
    \/ \E d \in Directories, n \in Names :
          AddFile(d, n) \/ \E i \in Ids : AddDir(d, n, i)
    \/ \E e \in entries :
          RemoveFile(e) \/ RemoveDir(e) \/ \E n \in Names : Rename(e, n)

Spec == Init /\ [][Next]_entries
=============================================================================
