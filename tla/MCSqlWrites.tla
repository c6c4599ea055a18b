----------------------------- MODULE MCSqlWrites -----------------------------
EXTENDS SqlRelations

CONSTANTS a, b, t1, c1, c2, c3

\* Two touches, a batch that replaces one tuple by the other, one whose second
\* mutation is refused and one that is refused as a whole.
MCBatches ==
  { <<Touch(b), Touch(a)>>, <<Delete(a), Touch(b)>>,
    <<Touch(b), Bogus(a)>>, <<Touch(a), Delete(a)>> }
==============================================================================
