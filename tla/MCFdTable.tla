------------------------------ MODULE MCFdTable ------------------------------
EXTENDS FdTable

CONSTANTS o1, o2

MCObjs == {o1, o2}
\* -EEXIST: one errno stands for every file-system failure.
MCFsErrs == {-17}
MCSizes == {0, 1}

=============================================================================
