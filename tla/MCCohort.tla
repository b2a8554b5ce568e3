------------------------------ MODULE MCCohort ------------------------------
EXTENDS Cohort, TLC

CONSTANTS acc1, acc2, acc3, acc4,  \* accounts
          lab1, lab37              \* phases

\* Migration 036 adds the second phase, its rollback removes it.
MCCatalogues == {{lab1}, {lab1, lab37}}
MCUsers == {acc1, acc2, acc3, acc4}
MCOwners == {acc1}
MCLearners == {acc1}
Symmetry == Permutations({acc2, acc3, acc4})

=============================================================================
