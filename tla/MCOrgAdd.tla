------------------------------ MODULE MCOrgAdd ------------------------------
EXTENDS OrgAdd

CONSTANTS v1, v2

\* The version and sequence of org-add.sh: the first the channel can commit.
FirstRelease == [version |-> v1, sequence |-> 1]
=============================================================================
