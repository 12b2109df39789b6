------------------------------ MODULE NcpSearch -----------------------------
(***************************************************************************)
(* The searches of a block (internal/nca/nca_model.go), which see the      *)
(* objects through the adapters of ncp_objects.go, in the tree that        *)
(* DeviceArrival.tla builds.                                               *)
(***************************************************************************)
EXTENDS DeviceArrival

(***************************************************************************)
(* The resolver that NcBlock installs wraps what it finds, so that the     *)
(* type assertion obj.( *Block ) of the searches fails for every object.   *)
(***************************************************************************)
Resolver(o) == [type |-> "ncpObjectAdapter", object |-> ncpObjects[o]]
AsBlock(r) == r.type = "Block"

RECURSIVE FindMembers(_, _, _)
\* getMemberDescriptors, findMembersByRole, findMembersByClassID: M is the
\* set of objects that match.
FindMembers(b, M, recurse) ==
  (Members(b) \cap M)
    \cup IF recurse
         THEN UNION {FindMembers(o, M, TRUE) : o \in {x \in Members(b) : AsBlock(Resolver(x))}}
         ELSE {}

GetMemberDescriptors(b, recurse) == FindMembers(b, DOMAIN ncpObjects, recurse)

-----------------------------------------------------------------------------
\* All objects below a block, however deep.
RECURSIVE Nested(_)
Nested(b) == Members(b) \cup UNION {Nested(o) : o \in Members(b) \cap DOMAIN items}

(***************************************************************************)
(* "Block search methods support recursive traversal for discovering       *)
(* nested objects": a recursive search from the root block finds whatever  *)
(* is below it.                                                            *)
(***************************************************************************)
RecursiveSearchFindsNested == GetMemberDescriptors(RootOID, TRUE) = Nested(RootOID)
=============================================================================
