----------------------------- MODULE MCAttrCache -----------------------------
(* AttrCache with two workers and requests that meet in one inode. *)
EXTENDS AttrCache, TLC

Load(ops, objs, sizes, others) ==
  [ops |-> ops, objs |-> objs, sizes |-> sizes, others |-> others]

MCLoads ==
  {Load({"getattr", "lookup", "chown"}, {"file"}, 0 .. 1, {"size", "uid"}),
   Load({"setsize", "write"}, {"file"}, {0, 2}, {"size"}),
   Load({"setsize", "link", "lookup"}, {"file"}, 0 .. 1, {"size"}),
   Load({"setboth", "getattr"}, {"file"}, 0 .. 1, {"size"}),
   Load({"create", "lookup"}, {"dir"}, {0}, {}),
   Load({"read", "write"}, {"file"}, {0, 2, 3}, {"size"}),
   Load({"setxattr"}, Obj, {0}, {}),
   Load(PlainOps, {"dir"}, {0}, {})}

Symmetry == Permutations(Worker)
=============================================================================
