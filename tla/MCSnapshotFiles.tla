-------------------------- MODULE MCSnapshotFiles --------------------------
\* Two pages, one written and one not, and two contents besides zero.
EXTENDS SnapshotFiles
=============================================================================
