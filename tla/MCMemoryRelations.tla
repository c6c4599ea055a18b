-------------------------- MODULE MCMemoryRelations --------------------------
EXTENDS MemoryRelations

CONSTANTS a, b, t1, t2, w1, w2

MCBatches ==
  { <<Touch(a), Touch(a)>>, <<Delete(a), Touch(b)>>, <<Delete(b)>>,
    <<Touch(b), Bogus(a)>>, <<Touch(a), Delete(a)>> }
==============================================================================
