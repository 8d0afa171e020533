------------------------------- MODULE MCFs -------------------------------
(* Small instances of the metadata server: two threads, the directories      *)
(* /s, /s/a and /c, the files /s/a/f of one thread and /s/g, /c/h of the     *)
(* other.                                                                    *)
EXTENDS FsNamespace

Parents == [p \in Paths |->
    CASE p \in {"root", "s", "c"} -> "root"
      [] p \in {"a", "g"} -> "s"
      [] p = "f" -> "a"
      [] p = "h" -> "c"]
Serves == [f \in Files |-> IF f = "f" THEN 1 ELSE 2]

\* Every path has a lock word of its own.
Apart == [p \in Paths |->
    CASE p = "root" -> 0 [] p = "s" -> 1 [] p = "a" -> 2 [] p = "f" -> 3
      [] p = "g" -> 4 [] p = "c" -> 5 [] p = "h" -> 6]

\* The directories a and c, which different threads create, share a lock word.
Colliding == [p \in Paths |-> IF p = "c" THEN Apart["a"] ELSE Apart[p]]
===========================================================================
