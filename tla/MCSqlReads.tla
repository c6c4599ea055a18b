------------------------------ MODULE MCSqlReads -----------------------------
EXTENDS SqlRelations, TLC

CONSTANTS a, b, t1, t2, c1, c2, c3, rd, w

\* A batch that replaces one tuple by another and the touches it races.
MCBatches == { <<Touch(a)>>, <<Delete(a), Touch(b)>> }

\* Neither the calls nor the tenants are told apart by anything.
Interchangeable ==
  {f @@ g : f \in Permutations(Call), g \in Permutations(Tenant)}
==============================================================================
