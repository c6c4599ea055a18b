------------------------------ MODULE Mutations ------------------------------
(***************************************************************************)
(* Write batches of relation tuples (storage/revision.py, TupleMutation)   *)
(* and the validation every repository runs on a batch before it touches   *)
(* its backend (storage/repos/abstract/relations.py).  A relation tuple is *)
(* an element of the set Tuple; nothing here looks inside it.              *)
(***************************************************************************)
EXTENDS Integers, Sequences

CONSTANTS
  Tenant,  \* the namespace-isolated customers of one repository
  Tuple    \* relation tuples, identified by their canonical string

Touch(t)  == [tuple |-> t, op |-> "write"]
Delete(t) == [tuple |-> t, op |-> "delete"]

\* An operation that is neither WRITE nor DELETE: only a hand-made
\* TupleMutation carries one, and every repository refuses it.
Bogus(t)  == [tuple |-> t, op |-> "bogus"]

Mutation == [tuple : Tuple, op : {"write", "delete", "bogus"}]

WithOp(batch, op) ==
  {t \in Tuple : \E i \in DOMAIN batch : batch[i] = [tuple |-> t, op |-> op]}

Touched(batch) == WithOp(batch, "write")
Deleted(batch) == WithOp(batch, "delete")

HasUnknown(batch) == \E i \in DOMAIN batch : batch[i].op = "bogus"

\* _validated_mutation_batch: one batch may not both write and delete a tuple.
\* Unknown operations pass this test and are refused later.
Conflicting(batch) == Touched(batch) \cap Deleted(batch) # {}

==============================================================================
