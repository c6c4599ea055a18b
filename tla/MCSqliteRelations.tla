-------------------------- MODULE MCSqliteRelations --------------------------
EXTENDS SqliteRelations, TLC

CONSTANTS a, b, t1, t2, c1, c2, rd

MCBatches ==
  { <<Touch(a)>>, <<Delete(a), Touch(b)>>, <<Touch(b), Bogus(a)>> }

\* Neither the connections nor the tenants are told apart by anything.
Interchangeable ==
  {f @@ g : f \in Permutations(Conn), g \in Permutations(Tenant)}
==============================================================================
