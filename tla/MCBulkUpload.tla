----------------------------- MODULE MCBulkUpload -----------------------------
EXTENDS BulkUpload

CONSTANTS t1, t2, q1, q2
=============================================================================
