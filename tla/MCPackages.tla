----------------------------- MODULE MCPackages -----------------------------
(***************************************************************************)
(* A small repository: three versions of one package, of which the second  *)
(* release adds the third, and a package that depends on the first version *)
(* and is withdrawn by the second release.                                 *)
(***************************************************************************)
EXTENDS PackageManager

MCTargets == {"a1", "a2", "a3", "b1"}
MCName == [a1 |-> "a", a2 |-> "a", a3 |-> "a", b1 |-> "b"]
MCVersion == [a1 |-> 1, a2 |-> 2, a3 |-> 3, b1 |-> 1]
MCLength == [a1 |-> 1, a2 |-> 2, a3 |-> 1, b1 |-> 1]
MCReleases == << {"a1", "a2", "b1"}, {"a1", "a2", "a3"} >>
MCDepends == [a1 |-> {}, a2 |-> {}, a3 |-> {}, b1 |-> {"a1"}]
MCConflicts == [a1 |-> {}, a2 |-> {"b"}, a3 |-> {}, b1 |-> {}]
=============================================================================
